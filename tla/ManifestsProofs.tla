--------------------------- MODULE ManifestsProofs ---------------------------
(*****************************************************************************)
(* What composition delivers for all manifests and lists of profiles: one  *)
(* dependency for a name and the last declaration of it, sequences that    *)
(* add up, and scalars that the last profile to mention them decides, also *)
(* while the files are being edited; and what an edit leaves in them.      *)
(*****************************************************************************)
EXTENDS Manifests, SequenceTheorems, FiniteSetTheorems, WellFoundedInduction, TLAPS

(***************************************************************************)
(* The list of dependencies.                                               *)
(***************************************************************************)
LEMMA RemoveAtProperties ==
  ASSUME NEW S, NEW s \in Seq(S), NEW i \in 1..Len(s)
  PROVE  /\ RemoveAt(s, i) \in Seq(S)
         /\ Len(RemoveAt(s, i)) = Len(s) - 1
         /\ \A j \in 1..Len(s) - 1 : RemoveAt(s, i)[j] = IF j < i THEN s[j] ELSE s[j + 1]
  <1> DEFINE front == SubSeq(s, 1, i - 1)
             back == SubSeq(s, i + 1, Len(s))
  <1>1. /\ Len(s) \in Nat /\ i \in Nat /\ i >= 1 /\ i <= Len(s)
        /\ \A j \in 1..Len(s) : s[j] \in S
    BY LenProperties, ElementOfSeq
  <1>2. /\ front \in Seq(S) /\ Len(front) = i - 1
        /\ \A j \in 1..i - 1 : front[j] = s[j]
    <2>1. \A j \in 1..i - 1 : s[j] \in S
      BY <1>1
    <2> QED  BY <1>1, <2>1, SubSeqProperties, SMT
  <1>3. /\ back \in Seq(S) /\ Len(back) = Len(s) - i
        /\ \A j \in 1..Len(s) - i : back[j] = s[j + i]
    <2>1. \A j \in i + 1..Len(s) : s[j] \in S
      BY <1>1
    <2> QED  BY <1>1, <2>1, SubSeqProperties, SMT
  <1>4. /\ front \o back \in Seq(S)
        /\ Len(front \o back) = Len(front) + Len(back)
        /\ \A j \in 1..Len(front) + Len(back) :
             (front \o back)[j] = IF j <= Len(front) THEN front[j] ELSE back[j - Len(front)]
    BY <1>2, <1>3, ConcatProperties
  <1>5. RemoveAt(s, i) = front \o back
    BY DEF RemoveAt
  <1> HIDE DEF front, back
  <1>6. ASSUME NEW j \in 1..Len(s) - 1
        PROVE  (front \o back)[j] = IF j < i THEN s[j] ELSE s[j + 1]
    <2>1. CASE j < i
      <3>1. (front \o back)[j] = front[j]
        BY <1>1, <1>2, <1>3, <1>4, <2>1
      <3> QED  BY <1>1, <1>2, <2>1, <3>1
    <2>2. CASE ~(j < i)
      <3>1. (front \o back)[j] = back[j - (i - 1)]
        BY <1>1, <1>2, <1>3, <1>4, <2>2
      <3>2. j - (i - 1) \in 1..Len(s) - i /\ j - (i - 1) + i = j + 1
        BY <1>1, <2>2
      <3> QED  BY <1>3, <2>2, <3>1, <3>2
    <2> QED  BY <2>1, <2>2
  <1>7. Len(front \o back) = Len(s) - 1
    BY <1>1, <1>2, <1>3, <1>4
  <1> QED  BY <1>4, <1>5, <1>6, <1>7

\* Merging a dependency keeps the names unique.
LEMMA WithDependencyUnique ==
  ASSUME NEW deps \in Seq(Dependency), NEW d \in Dependency, Unique(deps)
  PROVE  WithDependency(deps, d) \in Seq(Dependency) /\ Unique(WithDependency(deps, d))
  <1> DEFINE same == SameName(deps, d)
             first == CHOOSE i \in same : \A j \in same : i <= j
             rest == IF same = {} THEN deps ELSE RemoveAt(deps, first)
  <1>1. Len(deps) \in Nat /\ DOMAIN deps = 1..Len(deps)
    BY LenProperties
  <1>2. same = {} \/ \E i \in same : same = {i}
    <2>1. \A i, j \in same : i = j
      BY DEF SameName, Unique
    <2> QED  BY <2>1
  <1>3. rest \in Seq(Dependency) /\ Unique(rest)
        /\ \A i \in DOMAIN rest : d.name # NoName => rest[i].name # d.name
    <2>1. CASE same = {}
      BY <2>1 DEF SameName
    <2>2. CASE same # {}
      <3>1. PICK i \in same : same = {i}
        BY <2>2, <1>2
      <3>2. first = i /\ i \in 1..Len(deps) /\ i \in Int
        BY <3>1, <1>1 DEF SameName
      <3>3. rest = RemoveAt(deps, i)
        BY <2>2, <3>2
      <3>4. /\ rest \in Seq(Dependency)
            /\ Len(rest) = Len(deps) - 1
            /\ \A j \in 1..Len(deps) - 1 : rest[j] = IF j < i THEN deps[j] ELSE deps[j + 1]
        BY <3>2, <3>3, RemoveAtProperties
      <3>5. DOMAIN rest = 1..Len(deps) - 1
        BY <3>4, LenProperties
      <3>6. Unique(rest)
        <4> SUFFICES ASSUME NEW j \in 1..Len(deps) - 1, NEW k \in 1..Len(deps) - 1,
                            j # k, rest[j].name = rest[k].name
                     PROVE  rest[j].name = NoName
          BY <3>5 DEF Unique
        <4> DEFINE At(l) == IF l < i THEN l ELSE l + 1
        <4>1. /\ At(j) \in DOMAIN deps /\ At(k) \in DOMAIN deps /\ At(j) # At(k)
          BY <1>1, <3>2
        <4>2. rest[j] = deps[At(j)] /\ rest[k] = deps[At(k)]
          BY <3>4
        <4> QED  BY <4>1, <4>2 DEF Unique
      <3>7. \A j \in DOMAIN rest : d.name # NoName => rest[j].name # d.name
        <4> SUFFICES ASSUME NEW j \in 1..Len(deps) - 1, d.name # NoName
                     PROVE  rest[j].name # d.name
          BY <3>5
        <4> DEFINE at == IF j < i THEN j ELSE j + 1
        <4>1. at \in DOMAIN deps /\ at # i
          BY <1>1, <3>2
        <4>2. rest[j] = deps[at] /\ at \notin same
          BY <3>4, <3>1, <4>1
        <4> QED  BY <4>1, <4>2 DEF SameName
      <3> QED  BY <3>4, <3>6, <3>7
    <2> QED  BY <2>1, <2>2
  <1>4. WithDependency(deps, d) = Append(rest, d)
    BY DEF WithDependency
  <1>5. /\ Append(rest, d) \in Seq(Dependency)
        /\ DOMAIN Append(rest, d) = 1..Len(rest) + 1
        /\ \A i \in 1..Len(rest) : Append(rest, d)[i] = rest[i]
        /\ Append(rest, d)[Len(rest) + 1] = d
        /\ Len(rest) \in Nat /\ DOMAIN rest = 1..Len(rest)
    BY <1>3, AppendProperties, LenProperties
  <1> HIDE DEF rest
  <1>6. Unique(Append(rest, d))
    <2> SUFFICES ASSUME NEW j \in 1..Len(rest) + 1, NEW k \in 1..Len(rest) + 1,
                        j # k, Append(rest, d)[j].name = Append(rest, d)[k].name
                 PROVE  Append(rest, d)[j].name = NoName
      BY <1>5 DEF Unique
    <2>1. CASE j \in 1..Len(rest) /\ k \in 1..Len(rest)
      <3>1. rest[j].name = rest[k].name
        BY <1>5, <2>1
      <3> QED  BY <1>3, <1>5, <2>1, <3>1 DEF Unique
    <2>2. CASE j = Len(rest) + 1 \/ k = Len(rest) + 1
      <3>1. PICK i \in 1..Len(rest) : i = j \/ i = k
        BY <1>5, <2>2
      <3>2. Append(rest, d)[j].name = d.name /\ rest[i].name = d.name
        BY <1>5, <2>2, <3>1
      <3> QED  BY <1>3, <1>5, <3>2
    <2> QED  BY <1>5, <2>1, <2>2
  <1> QED  BY <1>4, <1>5, <1>6

(***************************************************************************)
(* The files, and what `catalyst add` is about to write to them.           *)
(***************************************************************************)
FilesOK ==
  /\ AreProfiles(Whole)
  /\ \A n \in DOMAIN split : split[n] = Torn \/ IsProfile(split[n])

AdderOK ==
  /\ add_pc # "idle" => dependency \in Dependency
  /\ add_pc \in {"opening", "writing"} =>
       IF combined = Missing THEN IsProfile(tree) ELSE AreProfiles(tree)

ComposerOK ==
  /\ composition = [leaf \in Leaves |-> composition[leaf]]
  /\ composition["dependencies"] \in Seq(Dependency) \cup {Unset}
  /\ pc = "dependencies" =>
       /\ composition["dependencies"] \in Seq(Dependency)
       /\ Unique(composition["dependencies"])
       /\ current["dependencies"] \in Seq(Dependency)
       /\ item \in 1..Len(current["dependencies"])
  /\ DependencyNamesUnique

Inv == FilesOK /\ AdderOK /\ ComposerOK

LEMMA EmptyProfileIsProfile == IsProfile(EmptyProfile)
  BY DEF IsProfile, EmptyProfile, Keys, Leaves, Above, Sections

\* What is read of a file is a profile.
LEMMA FoundAreProfiles ==
  ASSUME FilesOK, NEW n
  PROVE  (\A p \in Found(n) : IsProfile(p)) /\ IsProfile(LoadedProfile(n))
  BY EmptyProfileIsProfile DEF FilesOK, AreProfiles, Found, InSplit, LoadedProfile

LEMMA WrittenDependencies == Written("dependencies") = Seq(Dependency)
  BY DEF Written, Sections

LEMMA DependenciesWritten ==
  ASSUME NEW p, IsProfile(p)
  PROVE  p["dependencies"] \in Seq(Dependency) \cup {Unset, Null}
  <1>1. "dependencies" \in Keys
    BY DEF Keys, Leaves, Above
  <1> QED  BY <1>1, WrittenDependencies DEF IsProfile

LEMMA EditedIsProfile ==
  ASSUME NEW p, IsProfile(p), dependency \in Dependency
  PROVE  IsProfile(Edited(p))
  <1>1. Dependencies(p) \in Seq(Dependency)
    BY DependenciesWritten DEF Dependencies
  <1> DEFINE deps == Append(Dependencies(p), dependency)
  <1>2. deps \in Seq(Dependency)
    BY <1>1, AppendProperties
  <1>3. p = [k \in Keys |-> p[k]] /\ Edited(p) = [p EXCEPT !["dependencies"] = deps]
    BY DEF IsProfile, Edited
  <1> HIDE DEF deps
  <1>4. Edited(p) = [k \in Keys |-> IF k = "dependencies" THEN deps ELSE p[k]]
    BY <1>3
  <1>5. \A k \in Keys : Edited(p)[k] \in Written(k) \cup {Unset, Null}
    BY <1>2, <1>4, WrittenDependencies DEF IsProfile
  <1> QED  BY <1>4, <1>5 DEF IsProfile

LEMMA InitInv == Init => Inv
  <1> SUFFICES ASSUME Init PROVE Inv
    OBVIOUS
  <1>1. PICK layout \in Layouts : combined = layout.combined /\ split = layout.split
    BY DEF Init
  <1>2. FilesOK
    BY <1>1, ConstantsAssumption DEF FilesOK, AreProfiles, Whole
  <1>3. AdderOK
    BY DEF Init, AdderOK
  <1>4. ComposerOK
    BY DEF Init, ComposerOK, Defaults, Leaves, Above, DependencyNamesUnique, Unique, Listed
  <1> QED  BY <1>2, <1>3, <1>4 DEF Inv

LEMMA FilesStep ==
  ASSUME FilesOK, AdderOK, [Next]_vars
  PROVE  FilesOK' /\ AdderOK'
  <1>1. CASE UNCHANGED <<files, adder>>
    BY <1>1 DEF FilesOK, AdderOK, AreProfiles, Whole, IsProfile, files, adder
  <1>2. ASSUME NEW addition \in Additions, Add(addition)
        PROVE  FilesOK' /\ AdderOK'
    <2>1. dependency' \in Dependency
      <3>1. dependency' = [name |-> addition.name, from |-> "add"]
        BY <1>2 DEF Add
      <3>2. addition.name \in Names
        BY ConstantsAssumption
      <3>3. "add" \in Origins
        BY ConstantsAssumption
      <3> QED  BY <3>1, <3>2, <3>3 DEF Dependency
    <2> QED  BY <1>2, <2>1 DEF Add, FilesOK, AdderOK, AreProfiles, Whole, IsProfile, files
  <1>3. CASE LoadProfile
    <2> DEFINE n == Head(todo)
               edited == Edited(LoadedProfile(n))
    <2>1. FilesOK' /\ dependency' = dependency /\ dependency \in Dependency
          /\ add_pc' = "opening" /\ combined' = combined
      BY <1>3 DEF LoadProfile, FilesOK, AdderOK, AreProfiles, Whole, IsProfile, files
    <2>2. IsProfile(edited)
      BY <2>1, FoundAreProfiles, EditedIsProfile
    <2>3. IF combined = Missing THEN IsProfile(tree') ELSE AreProfiles(tree')
      <3>1. tree' = IF combined = Missing THEN edited
                    ELSE [q \in DOMAIN Whole \cup {n} |-> IF q = n THEN edited ELSE Whole[q]]
        BY <1>3 DEF LoadProfile
      <3> HIDE DEF edited
      <3> QED  BY <2>2, <3>1 DEF AreProfiles, FilesOK
    <2>4. AdderOK'
      BY <2>1, <2>3 DEF AdderOK, AreProfiles, IsProfile
    <2> QED  BY <2>1, <2>4
  <1>4. CASE AddFails \/ OpenFails \/ WriteCut \/ Kill
    <2>1. UNCHANGED files /\ add_pc' \in {"idle", "loading"}
      BY <1>4 DEF AddFails, OpenFails, WriteCut, ReportAdded, Kill, EndAdd, files
    <2>2. FilesOK'
      BY <2>1 DEF FilesOK, AreProfiles, Whole, IsProfile, files
    <2>3. add_pc' = "loading" => dependency' = dependency /\ add_pc = "writing"
      BY <1>4 DEF AddFails, OpenFails, WriteCut, ReportAdded, Kill, EndAdd
    <2>4. AdderOK'
      BY <2>1, <2>3 DEF AdderOK
    <2> QED  BY <2>2, <2>4
  <1>5. CASE OpenFile
    <2>1. FilesOK'
      BY <1>5 DEF OpenFile, Put, FilesOK, AreProfiles, Whole, IsProfile
    <2>2. AdderOK'
      BY <1>5, ConstantsAssumption DEF OpenFile, Put, AdderOK, AreProfiles, IsProfile
    <2> QED  BY <2>1, <2>2
  <1>6. CASE WriteFile
    <2>1. IF combined = Missing THEN IsProfile(tree) ELSE AreProfiles(tree)
      BY <1>6 DEF WriteFile, AdderOK
    <2>2. FilesOK'
      BY <1>6, <2>1 DEF WriteFile, Put, FilesOK, AreProfiles, Whole, IsProfile
    <2>3. AdderOK'
      BY <1>6 DEF WriteFile, ReportAdded, EndAdd, AdderOK
    <2> QED  BY <2>2, <2>3
  <1> QED
    BY <1>1, <1>2, <1>3, <1>4, <1>5, <1>6
    DEF Next, vars, Compose, MergeProfile, ComposeThrows, MergeDependency, UseConfiguration,
        EndCommand

(***************************************************************************)
(* Composition.                                                            *)
(***************************************************************************)
\* What the list of dependencies is when those of a profile are merged into it.
LEMMA OpenedIsUnique ==
  ASSUME NEW old \in Seq(Dependency) \cup {Unset}, Unique(Listed(old)),
         NEW p, IsProfile(p), p["dependencies"] \notin {Unset, Null}
  PROVE  /\ OpenedDependencies(old, p) \in Seq(Dependency)
         /\ Unique(OpenedDependencies(old, p))
  <1>1. OpenedDependencies(old, p) = IF old = Unset THEN <<>> ELSE old \o <<>>
    BY DEF OpenedDependencies, Extended
  <1>2. CASE old = Unset
    <2>1. OpenedDependencies(old, p) = <<>>
      BY <1>1, <1>2
    <2> QED  BY <2>1 DEF Unique
  <1>3. CASE old # Unset
    <2>1. old \in Seq(Dependency) /\ old \o <<>> = old
      BY <1>3, ConcatEmptySeq
    <2> QED  BY <1>1, <1>3, <2>1 DEF Listed
  <1> QED  BY <1>2, <1>3

LEMMA ListedUnique ==
  ASSUME NEW deps, deps = Unset \/ Unique(deps)
  PROVE  Unique(Listed(deps))
  BY DEF Unique, Listed

LEMMA ComposerStep ==
  ASSUME FilesOK, ComposerOK, [Next]_vars
  PROVE  ComposerOK'
  <1> USE DEF DependencyNamesUnique
  <1>1. CASE UNCHANGED composer
    BY <1>1 DEF ComposerOK, composer, Unique, Listed
  <1>2. ASSUME NEW profiles \in Requests, Compose(profiles)
        PROVE  ComposerOK'
    BY <1>2 DEF Compose, ComposerOK, Unique, Listed
  <1>3. CASE EndCommand
    BY <1>3 DEF EndCommand, ComposerOK, Defaults, Leaves, Above, Unique, Listed
  <1>4. CASE MergeProfile
    <2>1. PICK p \in Found(Head(left)) : /\ composition' = Merged(composition, p)
                                         /\ NextProfile(p)
      BY <1>4 DEF MergeProfile
    <2>2. IsProfile(p) /\ pc = "loading"
      BY <1>4, <2>1, FoundAreProfiles DEF MergeProfile
    <2>3. "dependencies" \in Leaves
      BY DEF Leaves, Above
    <2>4. /\ composition' = [leaf \in Leaves |-> composition'[leaf]]
          /\ composition'["dependencies"] = OpenedDependencies(composition["dependencies"], p)
      BY <2>1, <2>3 DEF Merged
    <2>5. CASE p["dependencies"] \in {Unset, Null}
      <3>1. composition'["dependencies"] \in {Unset, composition["dependencies"]}
        BY <2>4, <2>5 DEF OpenedDependencies
      <3>2. pc' = "loading"
        BY <2>1, <2>2, <2>5 DEF NextProfile
      <3>3. Unique(Listed(composition'["dependencies"]))
        BY <3>1, ListedUnique DEF ComposerOK
      <3> QED  BY <2>4, <3>1, <3>2, <3>3 DEF ComposerOK
    <2>6. CASE p["dependencies"] \notin {Unset, Null}
      <3>1. /\ composition'["dependencies"] \in Seq(Dependency)
            /\ Unique(composition'["dependencies"])
        BY <2>2, <2>4, <2>6, OpenedIsUnique DEF ComposerOK
      <3>2. pc' = "dependencies" =>
              current'["dependencies"] \in Seq(Dependency) /\ item' \in 1..Len(current'["dependencies"])
        <4>1. CASE p["dependencies"] = <<>>
          BY <2>1, <2>2, <4>1 DEF NextProfile
        <4>2. CASE p["dependencies"] # <<>>
          <5>1. p["dependencies"] \in Seq(Dependency) /\ Len(p["dependencies"]) \in Nat \ {0}
            BY <2>2, <2>6, <4>2, LenProperties, EmptySeq, DependenciesWritten
          <5> QED  BY <2>1, <2>6, <4>2, <5>1 DEF NextProfile
        <4> QED  BY <4>1, <4>2
      <3>3. Unique(Listed(composition'["dependencies"]))
        BY <3>1, ListedUnique
      <3> QED  BY <2>4, <3>1, <3>2, <3>3 DEF ComposerOK, Unique
    <2> QED  BY <2>5, <2>6
  <1>5. CASE MergeDependency
    <2> DEFINE deps == current["dependencies"]
               old == composition["dependencies"]
    <2>1. /\ old \in Seq(Dependency) /\ Unique(old)
          /\ deps \in Seq(Dependency) /\ item \in 1..Len(deps) /\ deps[item] \in Dependency
          /\ Len(deps) \in Nat
      BY <1>5, ElementOfSeq, LenProperties DEF MergeDependency, ComposerOK
    <2>2. "dependencies" \in Leaves
      BY DEF Leaves, Above
    <2>3. composition' = [composition EXCEPT !["dependencies"] = WithDependency(@, deps[item])]
      BY <1>5 DEF MergeDependency
    <2>4. /\ composition' = [leaf \in Leaves |-> composition'[leaf]]
          /\ composition'["dependencies"] = WithDependency(old, deps[item])
      BY <2>2, <2>3 DEF ComposerOK
    <2>5. composition'["dependencies"] \in Seq(Dependency) /\ Unique(composition'["dependencies"])
      BY <2>1, <2>4, WithDependencyUnique
    <2>6. pc' = "dependencies" =>
            current'["dependencies"] \in Seq(Dependency) /\ item' \in 1..Len(current'["dependencies"])
      BY <1>5, <2>1 DEF MergeDependency
    <2>7. Unique(Listed(composition'["dependencies"]))
      BY <2>5, ListedUnique
    <2> HIDE DEF deps, old
    <2> QED  BY <2>4, <2>5, <2>6, <2>7 DEF ComposerOK, Unique
  <1> QED
    BY <1>1, <1>2, <1>3, <1>4, <1>5
    DEF Next, vars, ComposeThrows, UseConfiguration, Add, LoadProfile, AddFails, OpenFile,
        OpenFails, WriteFile, WriteCut, Kill

\* Files and what is about to be written hold profiles, and what is composed is
\* consistent with the position in them.
THEOREM InvHolds == Spec => []Inv
  <1>1. Inv /\ [Next]_vars => Inv'
    BY FilesStep, ComposerStep DEF Inv
  <1> QED  BY InitInv, <1>1, PTL DEF Spec

\* A configuration never has two dependencies of one name, whatever the profiles
\* list and whatever is added to them meanwhile.
THEOREM NamesUnique == Spec => []DependencyNamesUnique
  <1>1. Inv => DependencyNamesUnique
    BY DEF Inv, ComposerOK
  <1> QED  BY InvHolds, <1>1, PTL

(***************************************************************************)
(* Scalars.                                                                *)
(***************************************************************************)
Scalars == {"name", "engine", "generator", "feature"}

\* The part of LastProfileDecides that is about one leaf.
Decided(leaf, value, profiles) ==
  LET touching == {i \in DOMAIN profiles : Touches(profiles[i], leaf)} IN
  \/ touching = {} /\ value = Defaults[leaf]
  \/ \E i \in touching : (\A j \in touching : j <= i) /\ value = Outcome(profiles[i], leaf)

ScalarsOK ==
  /\ composition = [leaf \in Leaves |-> composition[leaf]]
  /\ \E S : seen \in Seq(S)
  /\ LastProfileDecides

LEMMA ScalarsAreLeaves == Scalars \subseteq Leaves /\ "dependencies" \in Leaves \ Scalars
  BY DEF Scalars, Leaves, Above

LEMMA DecidedEach ==
  LastProfileDecides <=> \A leaf \in Scalars : Decided(leaf, composition[leaf], seen)
  BY DEF LastProfileDecides, Decided, Scalars

LEMMA DecidedEachNext ==
  LastProfileDecides' <=> \A leaf \in Scalars : Decided(leaf, composition'[leaf], seen')
  BY DEF LastProfileDecides, Decided, Scalars

\* mergeHelper does to a scalar what the profile says of it, and nothing else.
LEMMA MergedScalar ==
  ASSUME NEW leaf \in Scalars, NEW old, NEW p
  PROVE  MergedLeaf(old, p, leaf) = IF Touches(p, leaf) THEN Outcome(p, leaf) ELSE old
  <1>1. CASE Nullified(p, leaf)
    BY <1>1 DEF MergedLeaf, Touches, Outcome
  <1>2. CASE ~Nullified(p, leaf) /\ leaf = "generator"
    <2>1. Null # Unset /\ Unset \notin Generators
      BY ConstantsAssumption
    <2>2. CASE p[leaf] = Null
      BY <1>2, <2>1, <2>2 DEF MergedLeaf, Touches, Outcome
    <2>3. CASE p[leaf] # Null
      BY <1>2, <2>1, <2>3 DEF MergedLeaf, Touches, Outcome
    <2> QED  BY <2>2, <2>3
  <1>3. CASE ~Nullified(p, leaf) /\ leaf = "feature"
    BY <1>3 DEF MergedLeaf, Touches, Outcome
  <1>4. CASE ~Nullified(p, leaf) /\ leaf \in {"name", "engine"}
    BY <1>4 DEF MergedLeaf, Touches, Outcome
  <1> QED  BY <1>1, <1>2, <1>3, <1>4 DEF Scalars

LEMMA DecidedByNext ==
  ASSUME NEW leaf \in Scalars, NEW old, NEW p, NEW S, NEW profiles \in Seq(S),
         Decided(leaf, old, profiles)
  PROVE  Decided(leaf, MergedLeaf(old, p, leaf), Append(profiles, p))
  <1> DEFINE next == Append(profiles, p)
             n == Len(profiles) + 1
             touching == {i \in DOMAIN profiles : Touches(profiles[i], leaf)}
             touching2 == {i \in DOMAIN next : Touches(next[i], leaf)}
  <1>1. /\ Len(profiles) \in Nat /\ DOMAIN profiles = 1..Len(profiles)
        /\ DOMAIN next = 1..n /\ next[n] = p
        /\ \A i \in 1..Len(profiles) : next[i] = profiles[i]
    <2>1. profiles \in Seq(S \cup {p}) /\ p \in S \cup {p}
      BY SeqMonotonic
    <2> QED  BY <2>1, AppendProperties, LenProperties
  <1> HIDE DEF next
  <1>2. CASE Touches(p, leaf)
    <2>1. n \in touching2 /\ \A j \in touching2 : j <= n
      BY <1>1, <1>2
    <2>2. MergedLeaf(old, p, leaf) = Outcome(next[n], leaf)
      BY <1>1, <1>2, MergedScalar
    <2> QED  BY <2>1, <2>2 DEF Decided, next
  <1>3. CASE ~Touches(p, leaf)
    <2>1. touching2 = touching
      BY <1>1, <1>3
    <2>2. \A i \in touching : next[i] = profiles[i]
      BY <1>1
    <2>3. MergedLeaf(old, p, leaf) = old
      BY <1>3, MergedScalar
    <2> QED  BY <2>1, <2>2, <2>3 DEF Decided, next
  <1> QED  BY <1>2, <1>3

LEMMA ScalarsInit == Init => ScalarsOK
  <1> SUFFICES ASSUME Init PROVE ScalarsOK
    OBVIOUS
  <1>1. composition = Defaults /\ seen = <<>>
    BY DEF Init
  <1>2. composition = [leaf \in Leaves |-> composition[leaf]]
    BY <1>1 DEF Defaults, Leaves, Above
  <1>3. seen \in Seq({}) /\ DOMAIN seen = {}
    BY <1>1
  <1>4. LastProfileDecides
    BY <1>1, <1>3, DecidedEach DEF Decided
  <1> QED  BY <1>2, <1>3, <1>4 DEF ScalarsOK

LEMMA ScalarsStep ==
  ASSUME ScalarsOK, [Next]_vars
  PROVE  ScalarsOK'
  <1>1. CASE UNCHANGED <<composition, seen>>
    BY <1>1 DEF ScalarsOK, LastProfileDecides
  <1>2. CASE EndCommand
    <2>1. composition' = Defaults /\ seen' = <<>>
      BY <1>2 DEF EndCommand
    <2>2. composition' = [leaf \in Leaves |-> composition'[leaf]]
      BY <2>1 DEF Defaults, Leaves, Above
    <2>3. seen' \in Seq({}) /\ DOMAIN seen' = {}
      BY <2>1
    <2>4. LastProfileDecides'
      BY <2>1, <2>3, DecidedEachNext DEF Decided
    <2> QED  BY <2>2, <2>3, <2>4 DEF ScalarsOK
  <1>3. CASE MergeProfile
    <2>1. PICK p : composition' = Merged(composition, p) /\ seen' = Append(seen, p)
      BY <1>3 DEF MergeProfile
    <2>2. PICK S : seen \in Seq(S)
      BY DEF ScalarsOK
    <2>3. seen' \in Seq(S \cup {p})
      <3>1. seen \in Seq(S \cup {p})
        BY <2>2, SeqMonotonic
      <3> QED  BY <2>1, <3>1, AppendProperties
    <2>4. /\ composition' = [leaf \in Leaves |-> composition'[leaf]]
          /\ \A leaf \in Scalars : composition'[leaf] = MergedLeaf(composition[leaf], p, leaf)
      BY <2>1, ScalarsAreLeaves DEF Merged
    <2>5. \A leaf \in Scalars : Decided(leaf, composition[leaf], seen)
      BY DecidedEach DEF ScalarsOK
    <2>6. \A leaf \in Scalars : Decided(leaf, composition'[leaf], seen')
      BY <2>1, <2>2, <2>4, <2>5, DecidedByNext
    <2> QED  BY <2>3, <2>4, <2>6, DecidedEachNext DEF ScalarsOK
  <1>4. CASE MergeDependency
    <2>1. PICK deps : composition' = [composition EXCEPT !["dependencies"] = deps]
      BY <1>4 DEF MergeDependency
    <2>2. seen' = seen
      BY <1>4 DEF MergeDependency
    <2>3. /\ composition' = [leaf \in Leaves |-> composition'[leaf]]
          /\ \A leaf \in Scalars : composition'[leaf] = composition[leaf]
      BY <2>1, ScalarsAreLeaves DEF ScalarsOK
    <2>4. LastProfileDecides'
      BY <2>2, <2>3, DecidedEach, DecidedEachNext DEF ScalarsOK
    <2> QED  BY <2>2, <2>3, <2>4 DEF ScalarsOK
  <1> QED
    BY <1>1, <1>2, <1>3, <1>4
    DEF Next, vars, composer, Compose, ComposeThrows, UseConfiguration, Add, LoadProfile, AddFails,
        OpenFile, OpenFails, WriteFile, WriteCut, Kill

\* For every list of profiles, with any content and edited meanwhile, the last
\* profile that says anything of a scalar decides it.
THEOREM LastDecides == Spec => []LastProfileDecides
  <1>1. ScalarsOK => LastProfileDecides
    BY DEF ScalarsOK
  <1> QED  BY ScalarsInit, ScalarsStep, <1>1, PTL DEF Spec

(***************************************************************************)
(* Flattening.                                                             *)
(***************************************************************************)
\* f flattens the first n of the sequences s.
Flattens(f, n, s) == f = [i \in 1 .. n |-> IF i = 1 THEN s[i] ELSE f[i - 1] \o s[i]]

\* A set of numbers that is not empty has a least element.
LEMMA LeastNumber ==
  ASSUME NEW T \in SUBSET Nat, T # {}
  PROVE  \E n \in T : \A m \in T : n <= m
  <1>1. PICK n \in T : \A m \in T : ~(<<m, n>> \in OpToRel(<, Nat))
    BY NatLessThanWellFounded, WFMin
  <1>2. ASSUME NEW m \in T, m < n PROVE FALSE
    <2>1. <<m, n>> \in OpToRel(<, Nat)
      BY <1>2 DEF OpToRel
    <2> QED  BY <1>1, <2>1
  <1> QED  BY <1>2

LEMMA FlattensAt ==
  ASSUME NEW n \in Nat, NEW s, NEW f, Flattens(f, n, s), NEW i \in 1 .. n
  PROVE  f[i] = IF i = 1 THEN s[i] ELSE f[i - 1] \o s[i]
  BY DEF Flattens

LEMMA FlattensExtended ==
  ASSUME NEW n \in Nat, NEW s, NEW f, Flattens(f, n, s)
  PROVE  \E g : Flattens(g, n + 1, s)
  <1> DEFINE last == IF n + 1 = 1 THEN s[n + 1] ELSE f[n] \o s[n + 1]
             g == [i \in 1 .. n + 1 |-> IF i = n + 1 THEN last ELSE f[i]]
  <1>1. ASSUME NEW i \in 1 .. n + 1
        PROVE  g[i] = IF i = 1 THEN s[i] ELSE g[i - 1] \o s[i]
    <2>1. CASE i = n + 1
      <3>1. g[i] = IF i = 1 THEN s[i] ELSE f[i - 1] \o s[i]
        BY <2>1
      <3>2. i # 1 => i - 1 \in 1 .. n + 1 /\ i - 1 # n + 1
        BY <2>1
      <3>3. i # 1 => g[i - 1] = f[i - 1]
        BY <3>2
      <3> QED  BY <3>1, <3>3
    <2>2. CASE i # n + 1
      <3>1. i \in 1 .. n /\ g[i] = f[i]
        BY <2>2
      <3>2. f[i] = IF i = 1 THEN s[i] ELSE f[i - 1] \o s[i]
        BY <3>1 DEF Flattens
      <3>3. i # 1 => i - 1 \in 1 .. n + 1 /\ i - 1 # n + 1
        BY <3>1
      <3>4. i # 1 => g[i - 1] = f[i - 1]
        BY <3>3
      <3> QED  BY <3>1, <3>2, <3>4
    <2> QED  BY <2>1, <2>2
  <1>2. g = [i \in 1 .. n + 1 |-> g[i]]
    OBVIOUS
  <1> HIDE DEF g
  <1>3. Flattens(g, n + 1, s)
    BY <1>1, <1>2 DEF Flattens
  <1> QED  BY <1>3

LEMMA FlattensExists ==
  ASSUME NEW s, NEW k \in Nat
  PROVE  \E f : Flattens(f, k, s)
  <1> DEFINE T == {n \in Nat : ~ \E f : Flattens(f, n, s)}
  <1>1. SUFFICES ASSUME T # {} PROVE FALSE
    OBVIOUS
  <1>2. PICK n \in T : \A m \in T : n <= m
    BY <1>1, LeastNumber
  <1>3. n # 0
    <2>1. Flattens([i \in 1 .. 0 |-> 0], 0, s)
      BY DEF Flattens
    <2> QED  BY <2>1
  <1>4. n - 1 \in Nat /\ n - 1 \notin T /\ n - 1 + 1 = n
    BY <1>2, <1>3
  <1>5. PICK f : Flattens(f, n - 1, s)
    BY <1>4
  <1>6. \E g : Flattens(g, n - 1 + 1, s)
    BY <1>4, <1>5, FlattensExtended
  <1> QED  BY <1>2, <1>4, <1>6

Agree(s, t, k) == \A i \in 1 .. k : s[i] = t[i]

LEMMA FlattensSame ==
  ASSUME NEW k \in Nat, NEW n \in Nat, NEW m \in Nat, k <= n, k <= m, NEW s, NEW t, NEW f, NEW g,
         Flattens(f, n, s), Flattens(g, m, t), Agree(s, t, k)
  PROVE  Agree(f, g, k)
  <1> USE DEF Agree
  <1> DEFINE T == {i \in 1 .. k : f[i] # g[i]}
  <1>1. SUFFICES ASSUME T # {} PROVE FALSE
    OBVIOUS
  <1>2. PICK i \in T : \A j \in T : i <= j
    <2>1. T \in SUBSET Nat
      OBVIOUS
    <2> HIDE DEF T
    <2> QED  BY <1>1, <2>1, LeastNumber
  <1>3. /\ f[i] = IF i = 1 THEN s[i] ELSE f[i - 1] \o s[i]
        /\ g[i] = IF i = 1 THEN t[i] ELSE g[i - 1] \o t[i]
    <2>1. i \in 1 .. n /\ i \in 1 .. m
      OBVIOUS
    <2> QED  BY <2>1, FlattensAt
  <1>4. i # 1 => f[i - 1] = g[i - 1]
    <2>1. i # 1 => i - 1 \in 1 .. k /\ ~(i <= i - 1)
      OBVIOUS
    <2> QED  BY <1>2, <2>1
  <1> QED  BY <1>2, <1>3, <1>4

LEMMA FlattenSeqIs ==
  ASSUME NEW S, NEW s \in Seq(S), Len(s) # 0
  PROVE  \E f : Flattens(f, Len(s), s) /\ FlattenSeq(s) = f[Len(s)]
  <1> DEFINE f == CHOOSE f : f = [i \in 1 .. Len(s) |-> IF i = 1 THEN s[i] ELSE f[i - 1] \o s[i]]
  <1>1. Len(s) \in Nat
    BY LenProperties
  <1>2. \E g : g = [i \in 1 .. Len(s) |-> IF i = 1 THEN s[i] ELSE g[i - 1] \o s[i]]
    BY <1>1, FlattensExists DEF Flattens
  <1>3. f = [i \in 1 .. Len(s) |-> IF i = 1 THEN s[i] ELSE f[i - 1] \o s[i]]
    BY <1>2
  <1>4. FlattenSeq(s) = f[Len(s)]
    BY DEF FlattenSeq
  <1> HIDE DEF f
  <1> QED  BY <1>3, <1>4 DEF Flattens

\* A sequence that is appended is flattened last.
LEMMA FlattenAppended ==
  ASSUME NEW V, NEW S, S \subseteq Seq(V), NEW s \in Seq(S), NEW x \in S
  PROVE  FlattenSeq(Append(s, x)) = FlattenSeq(s) \o x
  <1> DEFINE t == Append(s, x)
             n == Len(s)
  <1>1. /\ n \in Nat /\ t \in Seq(S) /\ Len(t) = n + 1 /\ t[n + 1] = x
        /\ \A i \in 1 .. n : t[i] = s[i]
    BY AppendProperties, LenProperties
  <1> HIDE DEF t
  <1>2. PICK g : Flattens(g, n + 1, t) /\ FlattenSeq(t) = g[n + 1]
    <2>1. Len(t) # 0
      BY <1>1
    <2> QED  BY <1>1, <2>1, FlattenSeqIs
  <1>3. g[n + 1] = IF n + 1 = 1 THEN t[n + 1] ELSE g[n] \o t[n + 1]
    <2>1. n + 1 \in Nat /\ n + 1 \in 1 .. n + 1 /\ n + 1 - 1 = n
      BY <1>1
    <2>2. g[n + 1] = IF n + 1 = 1 THEN t[n + 1] ELSE g[n + 1 - 1] \o t[n + 1]
      BY <1>2, <2>1, FlattensAt
    <2> QED  BY <2>1, <2>2
  <1>4. CASE n = 0
    <2>1. FlattenSeq(s) = <<>>
      <3>1. s = <<>>
        BY <1>4, EmptySeq
      <3> QED  BY <3>1, <1>4 DEF FlattenSeq
    <2>2. <<>> \o x = x
      <3>1. x \in Seq(V)
        OBVIOUS
      <3> QED  BY <3>1, ConcatEmptySeq
    <2> QED  BY <1>1, <1>2, <1>3, <1>4, <2>1, <2>2 DEF t
  <1>5. CASE n # 0
    <2>1. PICK f : Flattens(f, n, s) /\ FlattenSeq(s) = f[n]
      BY <1>5, FlattenSeqIs
    <2>2. \A i \in 1 .. n : f[i] = g[i]
      <3>1. n + 1 \in Nat /\ n <= n + 1 /\ n <= n
        BY <1>1
      <3>2. Agree(s, t, n)
        BY <1>1 DEF Agree
      <3>3. Agree(f, g, n)
        BY <1>1, <1>2, <2>1, <3>1, <3>2, FlattensSame
      <3> QED  BY <3>3 DEF Agree
    <2>3. f[n] = g[n]
      BY <1>1, <1>5, <2>2
    <2> QED  BY <1>1, <1>2, <1>3, <1>5, <2>1, <2>3 DEF t
  <1> QED  BY <1>4, <1>5

(***************************************************************************)
(* What the profiles since the last null list.                             *)
(***************************************************************************)
\* The definitions of SinceNull and ListedSinceNull for any sequence of profiles.
NullingIn(s, leaf) == {i \in DOMAIN s : Nulls(s[i], leaf)}

StartIn(s, leaf) ==
  IF NullingIn(s, leaf) = {} THEN 0
  ELSE CHOOSE i \in NullingIn(s, leaf) : \A j \in NullingIn(s, leaf) : j <= i

SinceIn(s, leaf) == SubSeq(s, StartIn(s, leaf) + 1, Len(s))

ListsOf(s, leaf) == [i \in DOMAIN s |-> Listed(s[i][leaf])]

ListedIn(s, leaf) == FlattenSeq(ListsOf(SinceIn(s, leaf), leaf))

LEMMA ListedInSeen == \A leaf : ListedSinceNull(leaf) = ListedIn(seen, leaf)
  BY DEF ListedSinceNull, SinceNull, ListedIn, ListsOf, SinceIn, StartIn, NullingIn

LEMMA LastOf ==
  ASSUME NEW n \in Nat, NEW S \in SUBSET (1 .. n), S # {}
  PROVE  \E i \in S : \A j \in S : j <= i
  <1> DEFINE T == {k \in Nat : \A j \in S : j <= k}
  <1>1. T \in SUBSET Nat /\ n \in T
    OBVIOUS
  <1> HIDE DEF T
  <1>2. PICK k \in T : \A m \in T : k <= m
    BY <1>1, LeastNumber
  <1>3. k \in Nat /\ \A j \in S : j <= k
    BY <1>2 DEF T
  <1>4. k \in S
    <2>1. SUFFICES ASSUME k \notin S PROVE FALSE
      OBVIOUS
    <2>2. k # 0
      <3>1. PICK j \in S : TRUE
        OBVIOUS
      <3>2. j >= 1 /\ j <= k
        BY <1>3
      <3> QED  BY <1>3, <3>2
    <2>3. k - 1 \in Nat /\ \A j \in S : j <= k - 1
      BY <1>3, <2>1, <2>2
    <2>4. k - 1 \in T
      BY <2>3 DEF T
    <2> QED  BY <1>2, <1>3, <2>4
  <1> QED  BY <1>3, <1>4

LEMMA StartIs ==
  ASSUME NEW S, NEW s \in Seq(S), NEW leaf
  PROVE  /\ StartIn(s, leaf) \in 0 .. Len(s)
         /\ \A i \in StartIn(s, leaf) + 1 .. Len(s) : ~Nulls(s[i], leaf)
  <1>1. Len(s) \in Nat /\ DOMAIN s = 1 .. Len(s)
    BY LenProperties
  <1>2. CASE NullingIn(s, leaf) = {}
    BY <1>1, <1>2 DEF StartIn, NullingIn
  <1>3. CASE NullingIn(s, leaf) # {}
    <2>1. NullingIn(s, leaf) \in SUBSET (1 .. Len(s))
      BY <1>1 DEF NullingIn
    <2>2. \E i \in NullingIn(s, leaf) : \A j \in NullingIn(s, leaf) : j <= i
      BY <1>1, <1>3, <2>1, LastOf
    <2>3. /\ StartIn(s, leaf) \in NullingIn(s, leaf)
          /\ \A j \in NullingIn(s, leaf) : j <= StartIn(s, leaf)
      BY <1>3, <2>2 DEF StartIn
    <2>4. StartIn(s, leaf) \in 1 .. Len(s)
      BY <2>1, <2>3
    <2>5. ASSUME NEW i \in StartIn(s, leaf) + 1 .. Len(s), Nulls(s[i], leaf) PROVE FALSE
      <3>1. i \in NullingIn(s, leaf)
        BY <1>1, <2>4, <2>5 DEF NullingIn
      <3> QED  BY <2>3, <2>4, <3>1
    <2> QED  BY <1>1, <2>4, <2>5
  <1> QED  BY <1>2, <1>3

LEMMA StartAppended ==
  ASSUME NEW S, NEW s \in Seq(S), NEW p \in S, NEW leaf
  PROVE  StartIn(Append(s, p), leaf) = IF Nulls(p, leaf) THEN Len(s) + 1 ELSE StartIn(s, leaf)
  <1> DEFINE t == Append(s, p)
  <1>1. /\ Len(s) \in Nat /\ DOMAIN s = 1 .. Len(s) /\ DOMAIN t = 1 .. Len(s) + 1
        /\ t[Len(s) + 1] = p /\ \A i \in 1 .. Len(s) : t[i] = s[i]
    BY AppendProperties, LenProperties
  <1> HIDE DEF t
  <1>2. CASE Nulls(p, leaf)
    <2>1. Len(s) + 1 \in NullingIn(t, leaf) /\ \A i \in NullingIn(t, leaf) : i \in Nat /\ i <= Len(s) + 1
      BY <1>1, <1>2 DEF NullingIn
    <2>2. \A i \in NullingIn(t, leaf) : (\A j \in NullingIn(t, leaf) : j <= i) => i = Len(s) + 1
      BY <1>1, <2>1
    <2>3. StartIn(t, leaf) = Len(s) + 1
      BY <2>1, <2>2 DEF StartIn
    <2> QED  BY <1>2, <2>3 DEF t
  <1>3. CASE ~Nulls(p, leaf)
    <2>1. NullingIn(t, leaf) = NullingIn(s, leaf)
      BY <1>1, <1>3 DEF NullingIn
    <2> QED  BY <1>3, <2>1 DEF t, StartIn
  <1> QED  BY <1>2, <1>3

LEMMA SinceAppended ==
  ASSUME NEW S, NEW s \in Seq(S), NEW p \in S, NEW leaf
  PROVE  /\ SinceIn(s, leaf) \in Seq(S)
         /\ \A i \in DOMAIN SinceIn(s, leaf) : ~Nulls(SinceIn(s, leaf)[i], leaf)
         /\ SinceIn(Append(s, p), leaf) =
              IF Nulls(p, leaf) THEN <<>> ELSE Append(SinceIn(s, leaf), p)
  <1> DEFINE t == Append(s, p)
             n == Len(s)
             from == StartIn(s, leaf)
  <1>1. /\ n \in Nat /\ t \in Seq(S) /\ Len(t) = n + 1
        /\ t[n + 1] = p /\ \A i \in 1 .. n : t[i] = s[i] /\ s[i] \in S
    BY AppendProperties, LenProperties, ElementOfSeq
  <1>2. from \in 0 .. n /\ \A i \in from + 1 .. n : ~Nulls(s[i], leaf)
    BY StartIs
  <1>3. StartIn(t, leaf) = IF Nulls(p, leaf) THEN n + 1 ELSE from
    BY StartAppended
  <1> HIDE DEF t, from
  <1>4. /\ SinceIn(s, leaf) \in Seq(S) /\ Len(SinceIn(s, leaf)) = n - from
        /\ \A i \in 1 .. n - from : SinceIn(s, leaf)[i] = s[i + from]
    <2>1. SinceIn(s, leaf) = SubSeq(s, from + 1, n)
      BY DEF SinceIn, from
    <2>2. from + 1 \in 1 .. n + 1 /\ n \in from .. n /\ \A i \in from + 1 .. n : s[i] \in S
      BY <1>1, <1>2
    <2> QED  BY <1>1, <1>2, <2>1, <2>2, SubSeqProperties, SMT
  <1>5. DOMAIN SinceIn(s, leaf) = 1 .. n - from
    BY <1>4, LenProperties
  <1>6. ASSUME NEW i \in DOMAIN SinceIn(s, leaf) PROVE ~Nulls(SinceIn(s, leaf)[i], leaf)
    <2>1. i + from \in from + 1 .. n
      BY <1>1, <1>2, <1>5
    <2> QED  BY <1>2, <1>4, <1>5, <2>1
  <1>7. CASE Nulls(p, leaf)
    <2>1. SinceIn(t, leaf) = SubSeq(t, n + 1 + 1, n + 1)
      BY <1>1, <1>3, <1>7 DEF SinceIn
    <2>2. SubSeq(t, n + 1 + 1, n + 1) = <<>>
      BY <1>1
    <2> QED  BY <1>4, <1>6, <1>7, <2>1, <2>2 DEF t
  <1>8. CASE ~Nulls(p, leaf)
    <2> DEFINE a == SinceIn(t, leaf)
               b == Append(SinceIn(s, leaf), p)
    <2>1. a = SubSeq(t, from + 1, n + 1)
      BY <1>1, <1>3, <1>8 DEF SinceIn
    <2>2. a \in Seq(S) /\ Len(a) = n + 1 - from /\ \A i \in 1 .. n + 1 - from : a[i] = t[i + from]
      <3>1. \A i \in from + 1 .. n + 1 : t[i] \in S
        BY <1>1, <1>2
      <3> HIDE DEF a
      <3> QED  BY <1>1, <1>2, <2>1, <3>1, SubSeqProperties, SMT
    <2>3. /\ b \in Seq(S) /\ Len(b) = n - from + 1 /\ b[n - from + 1] = p
          /\ \A i \in 1 .. n - from : b[i] = s[i + from]
      BY <1>4, AppendProperties
    <2> HIDE DEF a, b
    <2>4. ASSUME NEW i \in 1 .. n + 1 - from PROVE a[i] = b[i]
      <3>1. CASE i = n + 1 - from
        BY <1>1, <1>2, <2>2, <2>3, <3>1
      <3>2. CASE i # n + 1 - from
        <4>1. i \in 1 .. n - from /\ i + from \in 1 .. n
          BY <1>1, <1>2, <3>2
        <4> QED  BY <1>1, <2>2, <2>3, <4>1
      <3> QED  BY <3>1, <3>2
    <2>5. Len(a) = Len(b) /\ \A i \in 1 .. Len(a) : a[i] = b[i]
      BY <1>1, <1>2, <2>2, <2>3, <2>4
    <2>6. a = b
      BY <2>2, <2>3, <2>5, SeqEqual
    <2> QED  BY <1>4, <1>6, <1>8, <2>6 DEF a, b, t
  <1> QED  BY <1>7, <1>8

\* What a profile that may be listed has for leaf, as a sequence.
Lists(leaf) == CASE leaf \in {"source", "hook"} -> STRING [] leaf = "dependencies" -> Dependency

LEMMA ListedIsSeq ==
  ASSUME NEW leaf \in {"source", "hook", "dependencies"}, NEW p, IsProfile(p), ~Nulls(p, leaf)
  PROVE  Listed(p[leaf]) \in Seq(Lists(leaf))
  <1>1. leaf \in Keys
    BY DEF Keys, Leaves, Above
  <1>2. p[leaf] \in Written(leaf) \cup {Unset}
    BY <1>1 DEF IsProfile, Nulls
  <1>3. Written(leaf) = Seq(Lists(leaf))
    BY DEF Written, Lists, Sections
  <1> QED  BY <1>2, <1>3 DEF Listed

LEMMA InProfile == \A p : IsProfile(p) => p \in Profile
  <1> SUFFICES ASSUME NEW p, IsProfile(p) PROVE p \in Profile
    OBVIOUS
  <1> DEFINE V == Seq(Dependency) \cup Seq(Nat) \cup Seq(STRING) \cup STRING \cup {Unset, Null}
  <1>1. \A k \in Keys : Written(k) \subseteq V
    BY DEF Written
  <1>2. p = [k \in Keys |-> p[k]] /\ \A k \in Keys : p[k] \in V
    BY <1>1 DEF IsProfile
  <1> HIDE DEF V
  <1>3. p \in [Keys -> V]
    BY <1>2
  <1> QED  BY <1>3 DEF Profile, V

\* A profile that is merged lists its items after those of the others, or starts anew.
LEMMA ListedAppended ==
  ASSUME NEW s \in Seq(Profile), NEW p \in Profile, NEW leaf \in {"source", "hook", "dependencies"}
  PROVE  ListedIn(Append(s, p), leaf) =
           IF Nulls(p, leaf) THEN <<>> ELSE ListedIn(s, leaf) \o Listed(p[leaf])
  <1> DEFINE since == SinceIn(s, leaf)
             Q == Seq(Lists(leaf))
  <1>1. /\ since \in Seq(Profile)
        /\ \A i \in DOMAIN since : ~Nulls(since[i], leaf)
        /\ SinceIn(Append(s, p), leaf) = IF Nulls(p, leaf) THEN <<>> ELSE Append(since, p)
    BY SinceAppended
  <1> HIDE DEF since
  <1>2. CASE Nulls(p, leaf)
    <2>1. ListsOf(<<>>, leaf) = <<>>
      BY DEF ListsOf
    <2>2. FlattenSeq(<<>>) = <<>>
      BY DEF FlattenSeq
    <2> QED  BY <1>1, <1>2, <2>1, <2>2 DEF ListedIn
  <1>3. CASE ~Nulls(p, leaf)
    <2>1. Listed(p[leaf]) \in Q
      BY <1>3, ListedIsSeq DEF Profile
    <2>2. /\ DOMAIN since = 1 .. Len(since) /\ Len(since) \in Nat
          /\ \A i \in 1 .. Len(since) : since[i] \in Profile
      BY <1>1, LenProperties, ElementOfSeq
    <2>3. \A i \in 1 .. Len(since) : Listed(since[i][leaf]) \in Q
      BY <1>1, <2>2, ListedIsSeq DEF Profile
    <2>4. ListsOf(since, leaf) = [i \in 1 .. Len(since) |-> Listed(since[i][leaf])]
      BY <2>2 DEF ListsOf
    <2>5. ListsOf(since, leaf) \in Seq(Q) /\ Len(ListsOf(since, leaf)) = Len(since)
      BY <2>2, <2>3, <2>4
    <2>6. ListsOf(Append(since, p), leaf) = Append(ListsOf(since, leaf), Listed(p[leaf]))
      <3> DEFINE a == ListsOf(Append(since, p), leaf)
                 b == Append(ListsOf(since, leaf), Listed(p[leaf]))
                 n == Len(since)
      <3>1. /\ DOMAIN Append(since, p) = 1 .. n + 1 /\ Append(since, p)[n + 1] = p
            /\ \A i \in 1 .. n : Append(since, p)[i] = since[i]
        BY <1>1, <2>2, AppendProperties, LenProperties
      <3>2. a = [i \in 1 .. n + 1 |-> Listed(Append(since, p)[i][leaf])]
        BY <3>1 DEF ListsOf
      <3>3. /\ b \in Seq(Q) /\ Len(b) = n + 1 /\ b[n + 1] = Listed(p[leaf])
            /\ \A i \in 1 .. n : b[i] = ListsOf(since, leaf)[i]
        BY <2>1, <2>5, AppendProperties
      <3> HIDE DEF a, b
      <3>4. ASSUME NEW i \in 1 .. n + 1 PROVE a[i] = b[i]
        <4>1. CASE i = n + 1
          BY <3>1, <3>2, <3>3, <4>1
        <4>2. CASE i # n + 1
          <5>1. i \in 1 .. n
            BY <2>2, <4>2
          <5> QED  BY <2>4, <3>1, <3>2, <3>3, <5>1
        <4> QED  BY <4>1, <4>2
      <3>5. \A i \in 1 .. n + 1 : b[i] \in Q
        BY <3>3, ElementOfSeq
      <3>6. a \in Seq(Q) /\ Len(a) = n + 1
        BY <2>2, <3>2, <3>4, <3>5
      <3>7. Len(a) = Len(b) /\ \A i \in 1 .. Len(a) : a[i] = b[i]
        BY <3>3, <3>4, <3>6
      <3>8. a = b
        BY <3>3, <3>6, <3>7, SeqEqual
      <3> QED  BY <3>8 DEF a, b
    <2>7. FlattenSeq(Append(ListsOf(since, leaf), Listed(p[leaf]))) =
            FlattenSeq(ListsOf(since, leaf)) \o Listed(p[leaf])
      BY <2>1, <2>5, FlattenAppended
    <2> QED  BY <1>1, <1>3, <2>6, <2>7 DEF ListedIn, since
  <1> QED  BY <1>2, <1>3

(***************************************************************************)
(* Sequences of strings.                                                   *)
(***************************************************************************)
SequencesOK ==
  /\ composition = [leaf \in Leaves |-> composition[leaf]]
  /\ seen \in Seq(Profile)
  /\ \A leaf \in {"source", "hook"} :
       /\ composition[leaf] \in Seq(STRING) \cup {Unset}
       /\ Listed(composition[leaf]) = ListedIn(seen, leaf)

LEMMA NothingListed ==
  ASSUME NEW leaf
  PROVE  ListedIn(<<>>, leaf) = <<>>
  <1>1. Len(<<>>) = 0 /\ DOMAIN <<>> = {}
    OBVIOUS
  <1>2. StartIn(<<>>, leaf) = 0
    BY <1>1 DEF StartIn, NullingIn
  <1>3. SinceIn(<<>>, leaf) = <<>>
    BY <1>1, <1>2 DEF SinceIn
  <1> QED  BY <1>1, <1>3 DEF ListedIn, ListsOf, FlattenSeq

\* mergeHelper extends a sequence by what the profile lists, or drops it.
LEMMA MergedSequence ==
  ASSUME NEW leaf \in {"source", "hook"}, NEW old \in Seq(STRING) \cup {Unset}, NEW p, IsProfile(p)
  PROVE  /\ MergedLeaf(old, p, leaf) \in Seq(STRING) \cup {Unset}
         /\ Listed(MergedLeaf(old, p, leaf)) =
              IF Nulls(p, leaf) THEN <<>> ELSE Listed(old) \o Listed(p[leaf])
  <1>0. Unset # Null /\ Unset \notin Seq(STRING) /\ Null \notin Seq(STRING)
    BY ConstantsAssumption
  <1>1. Listed(old) \in Seq(STRING) /\ <<>> \in Seq(STRING)
    <2>1. <<>> \in Seq(STRING)
      BY EmptySeq
    <2> QED  BY <2>1 DEF Listed
  <1>2. CASE Nulls(p, leaf)
    <2>1. MergedLeaf(old, p, leaf) = Unset
      <3>1. CASE Nullified(p, leaf)
        BY <3>1 DEF MergedLeaf
      <3>2. CASE ~Nullified(p, leaf)
        <4>1. p[leaf] = Null /\ leaf \notin {"generator", "feature"}
          BY <1>2, <3>2 DEF Nulls
        <4> QED  BY <1>0, <3>2, <4>1 DEF MergedLeaf
      <3> QED  BY <3>1, <3>2
    <2> QED  BY <1>2, <2>1 DEF Listed
  <1>3. CASE ~Nulls(p, leaf)
    <2>1. Listed(p[leaf]) \in Seq(STRING)
      BY <1>3, ListedIsSeq DEF Lists
    <2>2. CASE p[leaf] = Unset
      <3>1. MergedLeaf(old, p, leaf) = old
        BY <1>3, <2>2 DEF MergedLeaf, Nulls
      <3>2. Listed(old) \o <<>> = Listed(old)
        BY <1>1, ConcatEmptySeq
      <3> QED  BY <1>3, <2>2, <3>1, <3>2 DEF Listed
    <2>3. CASE p[leaf] # Unset
      <3>1. MergedLeaf(old, p, leaf) = Extended(old, p[leaf])
        BY <1>3, <2>3 DEF MergedLeaf, Nulls
      <3>2. p[leaf] \in Seq(STRING) /\ Listed(p[leaf]) = p[leaf]
        BY <2>1, <2>3 DEF Listed
      <3>3. Extended(old, p[leaf]) = Listed(old) \o p[leaf]
        <4>1. <<>> \o p[leaf] = p[leaf]
          BY <3>2, ConcatEmptySeq
        <4> QED  BY <4>1 DEF Extended, Listed
      <3>4. Listed(old) \o p[leaf] \in Seq(STRING)
        BY <1>1, <3>2, ConcatProperties
      <3>5. Listed(Extended(old, p[leaf])) = Extended(old, p[leaf])
        BY <1>0, <3>3, <3>4 DEF Listed
      <3> QED  BY <1>3, <3>1, <3>2, <3>3, <3>4, <3>5
    <2> QED  BY <2>2, <2>3
  <1> QED  BY <1>2, <1>3

LEMMA SequencesInit == Init => SequencesOK
  <1> SUFFICES ASSUME Init PROVE SequencesOK
    OBVIOUS
  <1>1. composition = Defaults /\ seen = <<>>
    BY DEF Init
  <1>2. composition = [leaf \in Leaves |-> composition[leaf]]
    BY <1>1 DEF Defaults, Leaves, Above
  <1>3. composition["source"] = <<>> /\ composition["hook"] = Unset
    BY <1>1 DEF Defaults
  <1>4. <<>> \in Seq(STRING) /\ <<>> \in Seq(Profile)
    BY EmptySeq
  <1>5. Listed(<<>>) = <<>> /\ Listed(Unset) = <<>>
    BY DEF Listed
  <1> QED  BY <1>1, <1>2, <1>3, <1>4, <1>5, NothingListed DEF SequencesOK

LEMMA SequencesStep ==
  ASSUME FilesOK, SequencesOK, [Next]_vars
  PROVE  SequencesOK'
  <1>1. CASE UNCHANGED <<composition, seen>>
    BY <1>1 DEF SequencesOK
  <1>2. CASE EndCommand
    <2>1. composition' = Defaults /\ seen' = <<>>
      BY <1>2 DEF EndCommand
    <2>2. composition' = [leaf \in Leaves |-> composition'[leaf]]
      BY <2>1 DEF Defaults, Leaves, Above
    <2>3. composition'["source"] = <<>> /\ composition'["hook"] = Unset
      BY <2>1 DEF Defaults
    <2>4. <<>> \in Seq(STRING) /\ <<>> \in Seq(Profile)
      BY EmptySeq
    <2>5. Listed(<<>>) = <<>> /\ Listed(Unset) = <<>>
      BY DEF Listed
    <2> QED  BY <2>1, <2>2, <2>3, <2>4, <2>5, NothingListed DEF SequencesOK
  <1>3. CASE MergeProfile
    <2>1. PICK p \in Found(Head(left)) : composition' = Merged(composition, p) /\ seen' = Append(seen, p)
      BY <1>3 DEF MergeProfile
    <2>2. IsProfile(p) /\ p \in Profile /\ seen \in Seq(Profile)
      BY <2>1, FoundAreProfiles, InProfile DEF SequencesOK
    <2>3. seen' \in Seq(Profile)
      BY <2>1, <2>2, AppendProperties
    <2>4. /\ composition' = [leaf \in Leaves |-> composition'[leaf]]
          /\ \A leaf \in {"source", "hook"} : composition'[leaf] = MergedLeaf(composition[leaf], p, leaf)
      <3>1. {"source", "hook"} \subseteq Leaves
        BY DEF Leaves, Above
      <3> QED  BY <2>1, <3>1 DEF Merged
    <2>5. ASSUME NEW leaf \in {"source", "hook"}
          PROVE  /\ composition'[leaf] \in Seq(STRING) \cup {Unset}
                 /\ Listed(composition'[leaf]) = ListedIn(seen', leaf)
      <3>1. /\ composition[leaf] \in Seq(STRING) \cup {Unset}
            /\ Listed(composition[leaf]) = ListedIn(seen, leaf)
        BY DEF SequencesOK
      <3>2. ListedIn(seen', leaf) = IF Nulls(p, leaf) THEN <<>> ELSE ListedIn(seen, leaf) \o Listed(p[leaf])
        BY <2>1, <2>2, ListedAppended
      <3> QED  BY <2>2, <2>4, <3>1, <3>2, MergedSequence
    <2> QED  BY <2>3, <2>4, <2>5 DEF SequencesOK
  <1>4. CASE MergeDependency
    <2>1. PICK deps : composition' = [composition EXCEPT !["dependencies"] = deps]
      BY <1>4 DEF MergeDependency
    <2>2. seen' = seen
      BY <1>4 DEF MergeDependency
    <2>3. composition' = [leaf \in Leaves |-> IF leaf = "dependencies" THEN deps ELSE composition[leaf]]
      BY <2>1 DEF SequencesOK
    <2>4. {"source", "hook"} \subseteq Leaves
      BY DEF Leaves, Above
    <2>5. \A leaf \in {"source", "hook"} : composition'[leaf] = composition[leaf]
      BY <2>3, <2>4
    <2> QED  BY <2>2, <2>3, <2>5 DEF SequencesOK
  <1> QED
    BY <1>1, <1>2, <1>3, <1>4
    DEF Next, vars, composer, Compose, ComposeThrows, UseConfiguration, Add, LoadProfile, AddFails,
        OpenFile, OpenFails, WriteFile, WriteCut, Kill

\* For every list of profiles, a composed sequence has exactly what they list
\* since the last null, in their order.
THEOREM SequencesAreSums == Spec => []SequencesAccumulate
  <1>1. SequencesOK => SequencesAccumulate
    BY ListedInSeen DEF SequencesOK, SequencesAccumulate
  <1>2. Inv => FilesOK
    BY DEF Inv
  <1> QED  BY SequencesInit, SequencesStep, InvHolds, <1>1, <1>2, PTL DEF Spec

(***************************************************************************)
(* The last declarations.                                                  *)
(***************************************************************************)
IsLastIn(s, i) ==
  \/ s[i].name = NoName
  \/ \A j \in i + 1 .. Len(s) : s[j].name # s[i].name

LastsIn(s) == {i \in DOMAIN s : IsLastIn(s, i)}

Increasing(at, m) == \A k, l \in 1 .. m : k < l => at[k] < at[l]

\* deps are the last declarations in s, in their order; at tells which.
KeptAt(s, deps, at) ==
  /\ at \in [1 .. Len(deps) -> LastsIn(s)]
  /\ Increasing(at, Len(deps))
  /\ \A i \in LastsIn(s) : \E k \in 1 .. Len(deps) : at[k] = i
  /\ \A k \in 1 .. Len(deps) : deps[k] = s[at[k]]

Kept(s, deps) == \E at : KeptAt(s, deps, at)

LEMMA KeptNothing == Kept(<<>>, <<>>)
  <1>1. LastsIn(<<>>) = {} /\ Len(<<>>) = 0
    BY DEF LastsIn
  <1>2. KeptAt(<<>>, <<>>, [k \in 1 .. 0 |-> 0])
    BY <1>1 DEF KeptAt, Increasing
  <1> QED  BY <1>2 DEF Kept

\* A declaration that follows takes an earlier one with its name away.
LEMMA LastsAppended ==
  ASSUME NEW s \in Seq(Dependency), NEW d \in Dependency
  PROVE  /\ Len(s) + 1 \in LastsIn(Append(s, d))
         /\ LastsIn(s) \subseteq 1 .. Len(s)
         /\ LastsIn(Append(s, d)) \subseteq 1 .. Len(s) + 1
         /\ \A i \in 1 .. Len(s) :
              i \in LastsIn(Append(s, d)) <=>
                i \in LastsIn(s) /\ (d.name = NoName \/ s[i].name # d.name)
  <1> DEFINE t == Append(s, d)
             n == Len(s)
  <1>1. /\ n \in Nat /\ DOMAIN s = 1 .. n /\ DOMAIN t = 1 .. n + 1 /\ Len(t) = n + 1 /\ t[n + 1] = d
        /\ \A i \in 1 .. n : t[i] = s[i]
    BY AppendProperties, LenProperties
  <1> HIDE DEF t
  <1>2. n + 1 \in LastsIn(t)
    BY <1>1 DEF LastsIn, IsLastIn
  <1>3. LastsIn(s) \subseteq 1 .. n /\ LastsIn(t) \subseteq 1 .. n + 1
    BY <1>1 DEF LastsIn
  <1>4. ASSUME NEW i \in 1 .. n
        PROVE  i \in LastsIn(t) <=> i \in LastsIn(s) /\ (d.name = NoName \/ s[i].name # d.name)
    <2>1. i \in LastsIn(t) <=> IsLastIn(t, i)
      BY <1>1 DEF LastsIn
    <2>2. i \in LastsIn(s) <=> IsLastIn(s, i)
      BY <1>1 DEF LastsIn
    <2>3. IsLastIn(t, i) <=>
            \/ s[i].name = NoName
            \/ d.name # s[i].name /\ \A j \in i + 1 .. n : s[j].name # s[i].name
      <3>1. (\A j \in i + 1 .. n + 1 : t[j].name # t[i].name) <=>
              d.name # s[i].name /\ \A j \in i + 1 .. n : s[j].name # s[i].name
        <4>1. ASSUME \A j \in i + 1 .. n + 1 : t[j].name # t[i].name
              PROVE  d.name # s[i].name /\ \A j \in i + 1 .. n : s[j].name # s[i].name
          <5>1. n + 1 \in i + 1 .. n + 1 /\ t[i] = s[i]
            BY <1>1
          <5>2. \A j \in i + 1 .. n : j \in i + 1 .. n + 1 /\ t[j] = s[j]
            BY <1>1
          <5> QED  BY <1>1, <4>1, <5>1, <5>2
        <4>2. ASSUME d.name # s[i].name, \A j \in i + 1 .. n : s[j].name # s[i].name
              PROVE  \A j \in i + 1 .. n + 1 : t[j].name # t[i].name
          <5>1. ASSUME NEW j \in i + 1 .. n + 1 PROVE t[j].name # s[i].name
            <6>1. CASE j = n + 1
              BY <1>1, <4>2, <6>1
            <6>2. CASE j # n + 1
              <7>1. j \in i + 1 .. n /\ t[j] = s[j]
                BY <1>1, <6>2
              <7> QED  BY <4>2, <7>1
            <6> QED  BY <6>1, <6>2
          <5> QED  BY <1>1, <5>1
        <4> QED  BY <4>1, <4>2
      <3> QED  BY <1>1, <3>1 DEF IsLastIn
    <2> QED  BY <2>1, <2>2, <2>3 DEF IsLastIn
  <1> QED  BY <1>2, <1>3, <1>4 DEF t

\* Merging a dependency keeps the last declarations.
LEMMA KeptAppended ==
  ASSUME NEW s \in Seq(Dependency), NEW deps \in Seq(Dependency), NEW d \in Dependency,
         Kept(s, deps), Unique(deps)
  PROVE  Kept(Append(s, d), WithDependency(deps, d))
  <1> DEFINE t == Append(s, d)
             n == Len(s)
             m == Len(deps)
             same == SameName(deps, d)
             first == CHOOSE i \in same : \A j \in same : i <= j
             new == WithDependency(deps, d)
  <1>1. PICK at : KeptAt(s, deps, at)
    BY DEF Kept
  <1>2. /\ at \in [1 .. m -> LastsIn(s)] /\ Increasing(at, m)
        /\ \A i \in LastsIn(s) : \E k \in 1 .. m : at[k] = i
        /\ \A k \in 1 .. m : deps[k] = s[at[k]]
    BY <1>1 DEF KeptAt
  <1>3. /\ n \in Nat /\ m \in Nat /\ DOMAIN deps = 1 .. m
        /\ t[n + 1] = d /\ \A i \in 1 .. n : t[i] = s[i]
    BY AppendProperties, LenProperties
  <1>4. /\ n + 1 \in LastsIn(t) /\ LastsIn(s) \subseteq 1 .. n /\ LastsIn(t) \subseteq 1 .. n + 1
        /\ \A i \in 1 .. n :
             i \in LastsIn(t) <=> i \in LastsIn(s) /\ (d.name = NoName \/ s[i].name # d.name)
    BY LastsAppended
  <1>5. \A k \in 1 .. m : at[k] \in 1 .. n /\ (at[k] \in LastsIn(t) <=> k \notin same)
    <2> SUFFICES ASSUME NEW k \in 1 .. m
                 PROVE  at[k] \in 1 .. n /\ (at[k] \in LastsIn(t) <=> k \notin same)
      OBVIOUS
    <2>1. at[k] \in LastsIn(s) /\ at[k] \in 1 .. n /\ deps[k] = s[at[k]]
      BY <1>2, <1>4
    <2>2. k \in same <=> d.name # NoName /\ deps[k].name = d.name
      BY <1>3 DEF SameName
    <2> QED  BY <1>4, <2>1, <2>2
  <1> HIDE DEF t, n, m, same
  <1>6. CASE same = {}
    <2> DEFINE at2 == [k \in 1 .. m + 1 |-> IF k = m + 1 THEN n + 1 ELSE at[k]]
    <2>1. new = Append(deps, d)
      BY <1>6 DEF WithDependency, same
    <2>2. Len(new) = m + 1 /\ new[m + 1] = d /\ \A k \in 1 .. m : new[k] = deps[k]
      BY <2>1, AppendProperties DEF m
    <2> HIDE DEF new
    <2>3. /\ \A k \in 1 .. m : k \in 1 .. m + 1 /\ k # m + 1 /\ at2[k] = at[k]
          /\ m + 1 \in 1 .. m + 1 /\ at2[m + 1] = n + 1
      BY <1>3
    <2>4. \A k \in 1 .. m + 1 : k \in 1 .. m \/ k = m + 1
      BY <1>3
    <2>5. at2 = [k \in 1 .. m + 1 |-> at2[k]]
      OBVIOUS
    <2> HIDE DEF at2
    <2>6. \A k \in 1 .. m + 1 : at2[k] \in LastsIn(t)
      BY <1>4, <1>5, <1>6, <2>3, <2>4
    <2>7. Increasing(at2, m + 1)
      <3> SUFFICES ASSUME NEW k \in 1 .. m + 1, NEW l \in 1 .. m + 1, k < l PROVE at2[k] < at2[l]
        BY DEF Increasing
      <3>1. k \in 1 .. m /\ at2[k] = at[k] /\ at[k] \in 1 .. n
        BY <1>3, <1>5, <2>3
      <3>2. CASE l = m + 1
        BY <1>3, <2>3, <3>1, <3>2
      <3>3. CASE l \in 1 .. m
        BY <1>2, <2>3, <3>1, <3>3 DEF Increasing
      <3> QED  BY <2>4, <3>2, <3>3
    <2>8. ASSUME NEW i \in LastsIn(t) PROVE \E k \in 1 .. m + 1 : at2[k] = i
      <3>1. CASE i = n + 1
        BY <2>3, <3>1
      <3>2. CASE i # n + 1
        <4>1. i \in 1 .. n
          BY <1>3, <1>4, <3>2
        <4>2. i \in LastsIn(s)
          BY <1>4, <4>1
        <4> QED  BY <1>2, <2>3, <4>2
      <3> QED  BY <3>1, <3>2
    <2>9. ASSUME NEW k \in 1 .. m + 1 PROVE new[k] = t[at2[k]]
      <3>1. CASE k = m + 1
        BY <1>3, <2>2, <2>3, <3>1
      <3>2. CASE k \in 1 .. m
        BY <1>2, <1>3, <1>5, <2>2, <2>3, <3>2
      <3> QED  BY <2>4, <3>1, <3>2
    <2>10. at2 \in [1 .. m + 1 -> LastsIn(t)]
      BY <2>5, <2>6
    <2>11. KeptAt(t, new, at2)
      BY <2>2, <2>7, <2>8, <2>9, <2>10 DEF KeptAt
    <2> QED  BY <2>11 DEF Kept, t, new
  <1>7. CASE same # {}
    <2>1. PICK q \in same : same = {q}
      <3>1. \A i, j \in same : i = j
        BY DEF same, SameName, Unique
      <3> QED  BY <1>7, <3>1
    <2>2. q \in 1 .. m /\ first = q
      BY <1>3, <2>1 DEF same, SameName
    <2> DEFINE rest == RemoveAt(deps, q)
               at2 == [k \in 1 .. m |-> IF k = m THEN n + 1 ELSE IF k < q THEN at[k] ELSE at[k + 1]]
               from(k) == IF k < q THEN k ELSE k + 1
    <2>3. new = Append(rest, d)
      BY <1>7, <2>2 DEF WithDependency, same
    <2>4. /\ rest \in Seq(Dependency) /\ Len(rest) = m - 1
          /\ \A k \in 1 .. m - 1 : rest[k] = IF k < q THEN deps[k] ELSE deps[k + 1]
      BY <2>2, RemoveAtProperties DEF m
    <2> HIDE DEF rest
    <2>5. Len(new) = m /\ new[m] = d /\ \A k \in 1 .. m - 1 : new[k] = rest[k]
      <3>1. m - 1 + 1 = m
        BY <1>3
      <3> QED  BY <2>3, <2>4, <3>1, AppendProperties
    <2> HIDE DEF new
    <2>6. \A k \in 1 .. m - 1 : /\ k \in 1 .. m /\ k # m /\ at2[k] = at[from(k)]
                                /\ from(k) \in 1 .. m /\ from(k) # q /\ rest[k] = deps[from(k)]
      BY <1>3, <2>2, <2>4
    <2>7. m \in 1 .. m /\ at2[m] = n + 1
      BY <1>3, <2>2
    <2>8. \A k \in 1 .. m : k \in 1 .. m - 1 \/ k = m
      BY <1>3
    <2>9. at2 = [k \in 1 .. m |-> at2[k]]
      OBVIOUS
    <2>10. \A k, l \in 1 .. m - 1 : k < l => from(k) < from(l)
      BY <1>3, <2>2
    <2>11. \A l \in 1 .. m : l # q => \E k \in 1 .. m - 1 : from(k) = l
      <3> SUFFICES ASSUME NEW l \in 1 .. m, l # q PROVE \E k \in 1 .. m - 1 : from(k) = l
        OBVIOUS
      <3>1. CASE l < q
        <4>1. l \in 1 .. m - 1 /\ from(l) = l
          BY <1>3, <2>2, <3>1
        <4> QED  BY <4>1
      <3>2. CASE l > q
        <4>1. l - 1 \in 1 .. m - 1 /\ from(l - 1) = l
          BY <1>3, <2>2, <3>2
        <4> QED  BY <4>1
      <3> QED  BY <1>3, <2>2, <3>1, <3>2
    <2> HIDE DEF at2, from
    <2>12. \A k \in 1 .. m : at2[k] \in LastsIn(t)
      BY <1>4, <1>5, <2>1, <2>6, <2>7, <2>8
    <2>13. Increasing(at2, m)
      <3> SUFFICES ASSUME NEW k \in 1 .. m, NEW l \in 1 .. m, k < l PROVE at2[k] < at2[l]
        BY DEF Increasing
      <3>1. k \in 1 .. m - 1 /\ at2[k] = at[from(k)] /\ at[from(k)] \in 1 .. n
        BY <1>3, <1>5, <2>6
      <3>2. CASE l = m
        BY <1>3, <2>7, <3>1, <3>2
      <3>3. CASE l \in 1 .. m - 1
        <4>1. from(k) < from(l) /\ from(k) \in 1 .. m /\ from(l) \in 1 .. m
          BY <2>6, <2>10, <3>1, <3>3
        <4> QED  BY <1>2, <2>6, <3>1, <3>3, <4>1 DEF Increasing
      <3> QED  BY <2>8, <3>2, <3>3
    <2>14. ASSUME NEW i \in LastsIn(t) PROVE \E k \in 1 .. m : at2[k] = i
      <3>1. CASE i = n + 1
        BY <2>7, <3>1
      <3>2. CASE i # n + 1
        <4>1. i \in 1 .. n
          BY <1>3, <1>4, <3>2
        <4>2. i \in LastsIn(s)
          BY <1>4, <4>1
        <4>3. PICK l \in 1 .. m : at[l] = i
          BY <1>2, <4>2
        <4>4. l # q
          BY <1>5, <2>1, <4>3
        <4>5. PICK k \in 1 .. m - 1 : from(k) = l
          BY <2>11, <4>4
        <4> QED  BY <2>6, <4>3, <4>5
      <3> QED  BY <3>1, <3>2
    <2>15. ASSUME NEW k \in 1 .. m PROVE new[k] = t[at2[k]]
      <3>1. CASE k = m
        BY <1>3, <2>5, <2>7, <3>1
      <3>2. CASE k \in 1 .. m - 1
        <4>1. new[k] = deps[from(k)] /\ from(k) \in 1 .. m /\ at2[k] = at[from(k)]
          BY <2>5, <2>6, <3>2
        <4> QED  BY <1>2, <1>3, <1>5, <4>1
      <3> QED  BY <2>8, <3>1, <3>2
    <2>16. at2 \in [1 .. m -> LastsIn(t)]
      BY <2>9, <2>12
    <2>17. KeptAt(t, new, at2)
      BY <2>5, <2>13, <2>14, <2>15, <2>16 DEF KeptAt
    <2> QED  BY <2>17 DEF Kept, t, new
  <1> QED  BY <1>6, <1>7

FirstOf(at, j) == {at[k] : k \in 1 .. j}

LEMMA FirstOfCount ==
  ASSUME NEW m \in Nat, NEW at \in [1 .. m -> Nat], Increasing(at, m), NEW j \in 0 .. m
  PROVE  Cardinality(FirstOf(at, j)) = j
  <1>1. \A k, l \in 1 .. m : at[k] = at[l] => k = l
    BY DEF Increasing
  <1>2. IsFiniteSet(1 .. j) /\ Cardinality(1 .. j) = j
    <2>1. 1 \in Int /\ j \in Int
      OBVIOUS
    <2>2. /\ IsFiniteSet(1 .. j)
          /\ Cardinality(1 .. j) = IF 1 > j THEN 0 ELSE j - 1 + 1
      BY <2>1, FS_Interval, Zenon
    <2> QED  BY <2>1, <2>2
  <1> DEFINE h == [k \in 1 .. j |-> at[k]]
  <1>3. h \in Bijection(1 .. j, FirstOf(at, j))
    <2>1. h \in Injection(1 .. j, FirstOf(at, j))
      BY <1>1 DEF Injection, IsInjective, FirstOf
    <2>2. h \in Surjection(1 .. j, FirstOf(at, j))
      BY DEF Surjection, FirstOf
    <2> QED  BY <2>1, <2>2 DEF Bijection
  <1> HIDE DEF h
  <1> QED  BY <1>2, <1>3, FS_Bijection DEF ExistsBijection

\* The k-th of the last declarations is the one that as many precede.
InOrder(s, k) == CHOOSE i \in LastsIn(s) : Cardinality({j \in LastsIn(s) : j < i}) = k - 1

LEMMA KeptInOrder ==
  ASSUME NEW s \in Seq(Dependency), NEW deps \in Seq(Dependency), Kept(s, deps)
  PROVE  deps = [k \in 1 .. Cardinality(LastsIn(s)) |-> s[InOrder(s, k)]]
  <1> DEFINE m == Len(deps)
             L == LastsIn(s)
             Before(i) == {j \in L : j < i}
  <1>1. PICK at : KeptAt(s, deps, at)
    BY DEF Kept
  <1>2. /\ at \in [1 .. m -> L] /\ Increasing(at, m)
        /\ \A i \in L : \E k \in 1 .. m : at[k] = i
        /\ \A k \in 1 .. m : deps[k] = s[at[k]]
    BY <1>1 DEF KeptAt
  <1>3. m \in Nat /\ L \subseteq Nat /\ deps = [k \in 1 .. m |-> deps[k]]
    BY LenProperties DEF LastsIn
  <1> HIDE DEF L, m
  <1>4. at \in [1 .. m -> Nat]
    BY <1>2, <1>3
  <1>5. L = FirstOf(at, m) /\ Cardinality(L) = m
    <2>1. L = FirstOf(at, m)
      BY <1>2 DEF FirstOf
    <2> QED  BY <1>2, <1>3, <1>4, <2>1, FirstOfCount
  <1>6. ASSUME NEW k \in 1 .. m PROVE Cardinality(Before(at[k])) = k - 1
    <2>1. ASSUME NEW l \in 1 .. m PROVE at[l] < at[k] <=> l < k
      BY <1>2, <1>3, <1>4 DEF Increasing
    <2>2. Before(at[k]) = FirstOf(at, k - 1)
      <3>1. ASSUME NEW i \in Before(at[k]) PROVE i \in FirstOf(at, k - 1)
        <4>1. PICK l \in 1 .. m : at[l] = i
          BY <1>2
        <4>2. l \in 1 .. k - 1
          BY <1>3, <2>1, <4>1
        <4> QED  BY <4>1, <4>2 DEF FirstOf
      <3>2. ASSUME NEW i \in FirstOf(at, k - 1) PROVE i \in Before(at[k])
        <4>1. PICK l \in 1 .. k - 1 : at[l] = i
          BY DEF FirstOf
        <4>2. l \in 1 .. m /\ l < k
          BY <1>3, <4>1
        <4> QED  BY <1>2, <2>1, <4>1, <4>2
      <3> QED  BY <3>1, <3>2
    <2>3. k - 1 \in 0 .. m
      BY <1>3
    <2> HIDE DEF Before
    <2> QED  BY <1>2, <1>3, <1>4, <2>2, <2>3, FirstOfCount
  <1>7. ASSUME NEW k \in 1 .. m
        PROVE  (CHOOSE i \in L : Cardinality(Before(i)) = k - 1) = at[k]
    <2>1. at[k] \in L /\ Cardinality(Before(at[k])) = k - 1
      BY <1>2, <1>6
    <2>2. ASSUME NEW i \in L, Cardinality(Before(i)) = k - 1 PROVE i = at[k]
      <3>1. PICK l \in 1 .. m : at[l] = i
        BY <1>2
      <3>2. l - 1 = k - 1
        BY <1>6, <2>2, <3>1
      <3> QED  BY <1>3, <3>1, <3>2
    <2> HIDE DEF Before
    <2> QED  BY <2>1, <2>2
  <1>8. \A k \in 1 .. m : InOrder(s, k) = at[k]
    BY <1>7 DEF InOrder, L
  <1>9. deps = [k \in 1 .. m |-> s[InOrder(s, k)]]
    BY <1>2, <1>3, <1>8
  <1> QED  BY <1>5, <1>9 DEF L

(***************************************************************************)
(* Composition of dependencies.                                            *)
(***************************************************************************)
LEMMA OneMore ==
  ASSUME NEW S, NEW s \in Seq(S), NEW c \in Seq(S), NEW i \in 1 .. Len(c)
  PROVE  /\ s \o SubSeq(c, 1, i - 1) \in Seq(S)
         /\ s \o SubSeq(c, 1, i) = Append(s \o SubSeq(c, 1, i - 1), c[i])
         /\ s \o SubSeq(c, 1, 0) = s
         /\ SubSeq(c, 1, Len(c)) = c
  OBVIOUS

DeclaredOK ==
  /\ composition = [leaf \in Leaves |-> composition[leaf]]
  /\ seen \in Seq(Profile)
  /\ pc # "dependencies" =>
       /\ ListedIn(seen, "dependencies") \in Seq(Dependency)
       /\ Kept(ListedIn(seen, "dependencies"), Listed(composition["dependencies"]))
  /\ pc = "dependencies" =>
       \E before \in Seq(Dependency) :
         /\ ListedIn(seen, "dependencies") = before \o current["dependencies"]
         /\ Kept(before \o SubSeq(current["dependencies"], 1, item - 1), composition["dependencies"])

LEMMA DeclaredInit == Init => DeclaredOK
  <1> SUFFICES ASSUME Init PROVE DeclaredOK
    OBVIOUS
  <1>1. composition = Defaults /\ seen = <<>> /\ pc = "idle"
    BY DEF Init
  <1>2. composition = [leaf \in Leaves |-> composition[leaf]]
    BY <1>1 DEF Defaults, Leaves, Above
  <1>3. Listed(composition["dependencies"]) = <<>>
    BY <1>1 DEF Defaults, Listed
  <1> QED  BY <1>1, <1>2, <1>3, NothingListed, KeptNothing, EmptySeq DEF DeclaredOK

\* A profile is merged that declares no dependency, or whose declarations are still to be merged.
LEMMA DeclaredMergeProfile ==
  ASSUME FilesOK, ComposerOK, DeclaredOK, MergeProfile
  PROVE  DeclaredOK'
  <1> DEFINE listed == ListedIn(seen, "dependencies")
             old == composition["dependencies"]
  <1>1. PICK p \in Found(Head(left)) :
          composition' = Merged(composition, p) /\ seen' = Append(seen, p) /\ NextProfile(p)
    BY DEF MergeProfile
  <1> DEFINE deps == p["dependencies"]
  <1>2. /\ IsProfile(p) /\ p \in Profile /\ seen \in Seq(Profile) /\ seen' \in Seq(Profile)
        /\ pc = "loading" /\ deps \in Seq(Dependency) \cup {Unset, Null}
        /\ listed \in Seq(Dependency) /\ Kept(listed, Listed(old))
        /\ old \in Seq(Dependency) \cup {Unset}
    BY <1>1, FoundAreProfiles, InProfile, DependenciesWritten, AppendProperties
    DEF DeclaredOK, MergeProfile, ComposerOK
  <1>3. /\ composition' = [leaf \in Leaves |-> composition'[leaf]]
        /\ composition'["dependencies"] = OpenedDependencies(old, p)
    BY <1>1, ScalarsAreLeaves DEF Merged
  <1>4. Nulls(p, "dependencies") <=> deps = Null
    BY DEF Nulls, Nullified, Above
  <1>5. ListedIn(seen', "dependencies") = IF deps = Null THEN <<>> ELSE listed \o Listed(deps)
    BY <1>1, <1>2, <1>4, ListedAppended
  <1>6. listed \o <<>> = listed /\ Listed(Unset) = <<>> /\ <<>> \in Seq(Dependency) /\ Unset # Null
    BY <1>2, ConcatEmptySeq, EmptySeq, ConstantsAssumption DEF Listed
  <1>7. Unset \notin Seq(Dependency) /\ Null \notin Seq(Dependency)
    BY ConstantsAssumption
  <1> HIDE DEF listed
  <1>8. CASE deps = Null
    <2>1. composition'["dependencies"] = Unset /\ pc' = "loading"
      <3>1. OpenedDependencies(old, p) = Unset
        BY <1>6, <1>8 DEF OpenedDependencies
      <3>2. pc' = pc
        BY <1>1, <1>8 DEF NextProfile
      <3> QED  BY <1>2, <1>3, <3>1, <3>2
    <2> QED  BY <1>2, <1>3, <1>5, <1>6, <1>8, <2>1, KeptNothing DEF DeclaredOK
  <1>9. CASE deps = Unset
    <2>1. composition'["dependencies"] = old /\ pc' = "loading"
      BY <1>1, <1>2, <1>3, <1>6, <1>9 DEF OpenedDependencies, NextProfile
    <2> QED  BY <1>2, <1>3, <1>5, <1>6, <1>9, <2>1 DEF DeclaredOK
  <1>10. CASE deps \in Seq(Dependency)
    <2>1. Listed(deps) = deps /\ deps # Null /\ deps # Unset
      BY <1>7, <1>10 DEF Listed
    <2>2. composition'["dependencies"] = Listed(old) /\ Listed(Listed(old)) = Listed(old)
      <3>1. old # Unset => old \o <<>> = old
        BY <1>2, ConcatEmptySeq
      <3> QED  BY <1>3, <1>6, <2>1, <3>1 DEF OpenedDependencies, Extended, Listed
    <2>3. listed \o deps \in Seq(Dependency)
      BY <1>2, <1>10, ConcatProperties
    <2>4. CASE deps = <<>>
      <3>1. pc' = "loading"
        BY <1>1, <1>2, <2>4 DEF NextProfile
      <3> QED  BY <1>2, <1>3, <1>5, <1>6, <2>1, <2>2, <2>4, <3>1 DEF DeclaredOK
    <2>5. CASE deps # <<>>
      <3>1. pc' = "dependencies" /\ current'["dependencies"] = deps /\ item' = 1
        BY <1>1, <2>1, <2>5 DEF NextProfile
      <3>2. SubSeq(deps, 1, item' - 1) = <<>>
        BY <1>10, <3>1
      <3>3. /\ ListedIn(seen', "dependencies") = listed \o current'["dependencies"]
            /\ Kept(listed \o SubSeq(current'["dependencies"], 1, item' - 1), composition'["dependencies"])
        BY <1>2, <1>5, <1>6, <2>1, <2>2, <3>1, <3>2
      <3> QED  BY <1>2, <1>3, <3>1, <3>3 DEF DeclaredOK
    <2> QED  BY <2>4, <2>5
  <1> QED  BY <1>2, <1>8, <1>9, <1>10

LEMMA DeclaredMergeDependency ==
  ASSUME ComposerOK, DeclaredOK, MergeDependency
  PROVE  DeclaredOK'
  <1> DEFINE deps == current["dependencies"]
             old == composition["dependencies"]
             new == composition'["dependencies"]
  <1>1. /\ pc = "dependencies" /\ old \in Seq(Dependency) /\ Unique(old)
        /\ deps \in Seq(Dependency) /\ item \in 1 .. Len(deps) /\ deps[item] \in Dependency
        /\ Len(deps) \in Nat /\ seen' = seen /\ seen \in Seq(Profile)
    BY ElementOfSeq, LenProperties DEF MergeDependency, ComposerOK, DeclaredOK
  <1>2. composition' = [composition EXCEPT !["dependencies"] = WithDependency(@, deps[item])]
    BY DEF MergeDependency
  <1>3. composition' = [leaf \in Leaves |-> composition'[leaf]] /\ new = WithDependency(old, deps[item])
    BY <1>2, ScalarsAreLeaves DEF DeclaredOK
  <1>4. PICK before \in Seq(Dependency) :
          /\ ListedIn(seen, "dependencies") = before \o deps
          /\ Kept(before \o SubSeq(deps, 1, item - 1), old)
    BY <1>1 DEF DeclaredOK
  <1>5. new \in Seq(Dependency) /\ Listed(new) = new
    <2>1. new \in Seq(Dependency)
      BY <1>1, <1>3, WithDependencyUnique
    <2> QED  BY <2>1, ConstantsAssumption DEF Listed
  <1>6. Kept(before \o SubSeq(deps, 1, item), new)
    <2>1. /\ before \o SubSeq(deps, 1, item - 1) \in Seq(Dependency)
          /\ before \o SubSeq(deps, 1, item) = Append(before \o SubSeq(deps, 1, item - 1), deps[item])
      <3>1. deps \in Seq(Dependency) /\ item \in 1 .. Len(deps)
        BY <1>1
      <3> HIDE DEF deps
      <3> QED  BY <3>1, OneMore
    <2> QED  BY <1>1, <1>3, <1>4, <2>1, KeptAppended
  <1>7. CASE item < Len(deps)
    <2>1. pc' = pc /\ current' = current /\ item' = item + 1
      BY <1>7 DEF MergeDependency
    <2>2. item' - 1 = item
      BY <1>1, <2>1
    <2>3. /\ ListedIn(seen', "dependencies") = before \o current'["dependencies"]
          /\ Kept(before \o SubSeq(current'["dependencies"], 1, item' - 1), new)
      BY <1>1, <1>4, <1>6, <2>1, <2>2
    <2> QED  BY <1>1, <1>3, <2>1, <2>3 DEF DeclaredOK
  <1>8. CASE ~(item < Len(deps))
    <2>1. pc' = "loading" /\ item = Len(deps)
      BY <1>1, <1>8 DEF MergeDependency
    <2>2. before \o SubSeq(deps, 1, item) = before \o deps
      BY <1>1, <2>1, OneMore
    <2>3. before \o deps \in Seq(Dependency)
      BY <1>1, ConcatProperties
    <2> QED  BY <1>1, <1>3, <1>4, <1>5, <1>6, <2>1, <2>2, <2>3 DEF DeclaredOK
  <1> QED  BY <1>7, <1>8

LEMMA DeclaredStep ==
  ASSUME Inv, DeclaredOK, [Next]_vars
  PROVE  DeclaredOK'
  <1>1. CASE UNCHANGED composer
    BY <1>1 DEF DeclaredOK, composer
  <1>2. ASSUME NEW profiles \in Requests, Compose(profiles)
        PROVE  DeclaredOK'
    BY <1>2 DEF Compose, DeclaredOK
  <1>3. CASE EndCommand
    <2>1. composition' = Defaults /\ seen' = <<>> /\ pc' = "idle"
      BY <1>3 DEF EndCommand
    <2>2. composition' = [leaf \in Leaves |-> composition'[leaf]]
      BY <2>1 DEF Defaults, Leaves, Above
    <2>3. Listed(composition'["dependencies"]) = <<>>
      BY <2>1 DEF Defaults, Listed
    <2> QED  BY <2>1, <2>2, <2>3, NothingListed, KeptNothing, EmptySeq DEF DeclaredOK
  <1>4. CASE MergeProfile
    BY <1>4, DeclaredMergeProfile DEF Inv
  <1>5. CASE MergeDependency
    BY <1>5, DeclaredMergeDependency DEF Inv
  <1> QED
    BY <1>1, <1>2, <1>3, <1>4, <1>5
    DEF Next, vars, ComposeThrows, UseConfiguration, Add, LoadProfile, AddFails, OpenFile,
        OpenFails, WriteFile, WriteCut, Kill

\* For every list of profiles, the dependencies of the configuration are the last
\* declarations since the last null, in their order.
THEOREM LastDeclarations == Spec => []LastDeclarationsKept
  <1>1. ComposerOK /\ DeclaredOK => LastDeclarationsKept
    <2> DEFINE listed == ListedSinceNull("dependencies")
    <2>0. LastDeclarationsKept <=>
            (pc = "loading" => Listed(composition["dependencies"]) =
                                 [k \in 1 .. Cardinality(LastsIn(listed)) |-> listed[InOrder(listed, k)]])
      BY DEF LastDeclarationsKept, LastsIn, IsLastIn, InOrder
    <2> SUFFICES ASSUME ComposerOK, DeclaredOK, pc = "loading"
                 PROVE  Listed(composition["dependencies"]) =
                          [k \in 1 .. Cardinality(LastsIn(listed)) |-> listed[InOrder(listed, k)]]
      BY <2>0
    <2>1. Listed(composition["dependencies"]) \in Seq(Dependency)
      BY EmptySeq DEF ComposerOK, Listed
    <2>2. listed \in Seq(Dependency) /\ Kept(listed, Listed(composition["dependencies"]))
      BY ListedInSeen DEF DeclaredOK
    <2> HIDE DEF listed
    <2> QED  BY <2>1, <2>2, KeptInOrder
  <1>2. Inv => ComposerOK
    BY DEF Inv
  <1> QED  BY DeclaredInit, DeclaredStep, InvHolds, <1>1, <1>2, PTL DEF Spec

(***************************************************************************)
(* `catalyst add`.                                                         *)
(***************************************************************************)
LEMMA EditedDeclares ==
  ASSUME NEW p, IsProfile(p), dependency \in Dependency
  PROVE  /\ Declares(Edited(p), dependency.name)
         /\ \A d : Declares(p, d) => Declares(Edited(p), d)
  <1> DEFINE old == Dependencies(p)
             new == Append(old, dependency)
  <1>1. old \in Seq(Dependency)
    BY DependenciesWritten, EmptySeq DEF Dependencies
  <1>2. Edited(p)["dependencies"] = new
    <2>1. "dependencies" \in Keys /\ p = [k \in Keys |-> p[k]]
      BY DEF IsProfile, Keys, Leaves, Above
    <2> QED  BY <2>1 DEF Edited
  <1> HIDE DEF old
  <1>3. /\ new \in Seq(Dependency) /\ DOMAIN new = 1 .. Len(old) + 1 /\ Len(old) \in Nat
        /\ DOMAIN old = 1 .. Len(old)
        /\ new[Len(old) + 1] = dependency /\ \A i \in 1 .. Len(old) : new[i] = old[i]
    BY <1>1, AppendProperties, LenProperties
  <1> HIDE DEF new
  <1>4. Dependencies(Edited(p)) = new
    BY <1>2, <1>3, ConstantsAssumption DEF Dependencies
  <1>5. Declares(Edited(p), dependency.name)
    BY <1>3, <1>4 DEF Declares
  <1>6. ASSUME NEW d, Declares(p, d) PROVE Declares(Edited(p), d)
    BY <1>3, <1>4, <1>6 DEF Declares, old
  <1> QED  BY <1>5, <1>6

\* The profiles of a project are in CATALYST.yaml or in files of their own.
Separated == \A layout \in Layouts : layout.combined = Missing \/ DOMAIN layout.split = {}

Has(n, d) == \E p \in Found(n) : Declares(p, d)

\* What is there, or will be once p is written, of the profile n.
Editing == add_pc \in {"opening", "writing"}

AllPromised == added \cup {<<Head(todo), dependency.name>>}

PlacesOK ==
  /\ combined = Missing \/ DOMAIN split = {}
  /\ DOMAIN Whole \subseteq Profiles
  /\ add_pc # "idle" => todo \in Seq(Profiles) \ {<<>>}
  /\ Editing /\ combined # Missing =>
       tree = [n \in DOMAIN tree |-> tree[n]] /\ DOMAIN tree \subseteq Profiles

PromisesOK ==
  /\ add_pc # "writing" => \A a \in added : Has(a[1], a[2])
  /\ Editing /\ combined # Missing =>
       \A a \in AllPromised : a[1] \in DOMAIN tree /\ Declares(tree[a[1]], a[2])
  /\ Editing /\ combined = Missing =>
       /\ Head(todo) \in DOMAIN split
       /\ \A a \in AllPromised : IF a[1] = Head(todo) THEN Declares(tree, a[2]) ELSE Has(a[1], a[2])

AddsOK == PlacesOK /\ PromisesOK

LEMMA AddsInit == Separated /\ Init => AddsOK
  <1> SUFFICES ASSUME Separated, Init PROVE AddsOK
    OBVIOUS
  <1>1. PICK layout \in Layouts : combined = layout.combined /\ split = layout.split
    BY DEF Init
  <1>2. add_pc = "idle" /\ added = {}
    BY DEF Init
  <1>3. PlacesOK
    BY <1>1, <1>2, ConstantsAssumption DEF PlacesOK, Separated, Whole, Editing
  <1> QED  BY <1>2, <1>3 DEF AddsOK, PromisesOK, Editing

\* A file that has been written can be told from one that is missing or torn.
LEMMA TreeIsFile ==
  ASSUME AdderOK, PlacesOK, Editing
  PROVE  /\ combined # Missing => tree # Missing /\ tree # Torn
         /\ combined = Missing => tree # Torn
  <1>1. CASE combined # Missing
    <2>1. AreProfiles(tree) /\ tree = [n \in DOMAIN tree |-> tree[n]] /\ DOMAIN tree \subseteq Profiles
      BY <1>1 DEF AdderOK, PlacesOK, Editing
    <2>2. \A n \in DOMAIN tree : tree[n] \in Profile
      BY <2>1, InProfile DEF AreProfiles
    <2>3. tree \in [DOMAIN tree -> Profile]
      BY <2>1, <2>2
    <2>4. {Missing, Torn} \cap [DOMAIN tree -> Profile] = {}
      BY <2>1, ConstantsAssumption
    <2> QED  BY <1>1, <2>3, <2>4
  <1>2. CASE combined = Missing
    BY <1>2, InProfile, ConstantsAssumption DEF AdderOK, Editing
  <1> QED  BY <1>1, <1>2

LEMMA AddsLoadProfile ==
  ASSUME FilesOK, AdderOK, AddsOK, LoadProfile
  PROVE  AddsOK'
  <1> DEFINE n == Head(todo)
             edited == Edited(LoadedProfile(n))
  <1>1. /\ add_pc = "loading" /\ add_pc' = "opening" /\ Exists(n)
        /\ UNCHANGED <<combined, split, todo, dependency, added>>
        /\ tree' = IF combined = Missing THEN edited
                   ELSE [q \in DOMAIN Whole \cup {n} |-> IF q = n THEN edited ELSE Whole[q]]
    BY DEF LoadProfile, files
  <1>2. IsProfile(LoadedProfile(n)) /\ dependency \in Dependency
    BY <1>1, FoundAreProfiles DEF AdderOK
  <1>3. /\ Declares(edited, dependency.name)
        /\ \A d : Declares(LoadedProfile(n), d) => Declares(edited, d)
    BY <1>2, EditedDeclares
  <1>4. n \in Profiles /\ todo \in Seq(Profiles) \ {<<>>}
    BY <1>1 DEF AddsOK, PlacesOK
  <1>5. \A a \in added : Has(a[1], a[2])
    BY <1>1 DEF AddsOK, PromisesOK
  <1> HIDE DEF edited
  <1>6. \A m, d : Has(m, d)' <=> Has(m, d)
    BY <1>1 DEF Has, Found, InSplit, Whole, Declares, Dependencies
  <1>7. CASE combined = Missing
    <2>1. n \in DOMAIN split /\ DOMAIN Whole = {} /\ Found(n) = {LoadedProfile(n)}
      BY <1>1, <1>7 DEF Exists, Found, Whole, InSplit, LoadedProfile
    <2>2. PlacesOK'
      BY <1>1, <1>4, <1>7 DEF AddsOK, PlacesOK, Whole, Editing
    <2>3. ASSUME NEW a \in added \cup {<<n, dependency.name>>}
          PROVE  IF a[1] = n THEN Declares(edited, a[2]) ELSE Has(a[1], a[2])
      <3>1. CASE a \in added
        <4>1. Has(a[1], a[2])
          BY <1>5, <3>1
        <4>2. CASE a[1] = n
          <5>1. Declares(LoadedProfile(n), a[2])
            BY <2>1, <4>1, <4>2 DEF Has
          <5> QED  BY <1>3, <4>2, <5>1
        <4> QED  BY <4>1, <4>2
      <3>2. CASE a = <<n, dependency.name>>
        BY <1>3, <3>2
      <3> QED  BY <3>1, <3>2
    <2>4. tree' = edited /\ (\A d : Declares(tree, d)' <=> Declares(edited, d))
      <3>1. tree' = edited
        BY <1>1, <1>7
      <3> QED  BY <3>1 DEF Declares, Dependencies
    <2>5. PromisesOK'
      BY <1>1, <1>5, <1>6, <1>7, <2>1, <2>3, <2>4 DEF PromisesOK, AllPromised, Editing
    <2> QED  BY <2>2, <2>5 DEF AddsOK
  <1>8. CASE combined # Missing
    <2>1. DOMAIN split = {} /\ DOMAIN Whole \subseteq Profiles
      BY <1>8 DEF AddsOK, PlacesOK
    <2>2. \A m : Found(m) = IF m \in DOMAIN Whole THEN {Whole[m]} ELSE {}
      BY <2>1 DEF Found, InSplit
    <2>3. n \in DOMAIN Whole => LoadedProfile(n) = Whole[n]
      BY <2>1 DEF LoadedProfile
    <2>4. tree' = [q \in DOMAIN Whole \cup {n} |-> IF q = n THEN edited ELSE Whole[q]]
      BY <1>1, <1>8
    <2>5. /\ DOMAIN tree' = DOMAIN Whole \cup {n} /\ tree'[n] = edited
          /\ \A q \in DOMAIN Whole \ {n} : tree'[q] = Whole[q]
          /\ tree' = [q \in DOMAIN tree' |-> tree'[q]]
      BY <2>4
    <2>6. PlacesOK'
      BY <1>1, <1>4, <2>1, <2>5 DEF AddsOK, PlacesOK, Whole, Editing
    <2>7. ASSUME NEW a \in added \cup {<<n, dependency.name>>}
          PROVE  a[1] \in DOMAIN tree' /\ Declares(tree'[a[1]], a[2])
      <3>1. CASE a \in added
        <4>1. a[1] \in DOMAIN Whole /\ Declares(Whole[a[1]], a[2])
          BY <1>5, <2>2, <3>1 DEF Has
        <4>2. CASE a[1] = n
          BY <1>3, <2>3, <2>5, <4>1, <4>2
        <4>3. CASE a[1] # n
          BY <2>5, <4>1, <4>3
        <4> QED  BY <4>2, <4>3
      <3>2. CASE a = <<n, dependency.name>>
        BY <1>3, <2>5, <3>2
      <3> QED  BY <3>1, <3>2
    <2>8. PromisesOK'
      BY <1>1, <1>5, <1>6, <1>8, <2>7 DEF PromisesOK, AllPromised, Editing, Declares, Dependencies
    <2> QED  BY <2>6, <2>8 DEF AddsOK
  <1> QED  BY <1>7, <1>8

LEMMA AddsOpenFile ==
  ASSUME AddsOK, OpenFile
  PROVE  AddsOK'
  <1>1. /\ add_pc = "opening" /\ add_pc' = "writing" /\ UNCHANGED <<todo, dependency, tree, added>>
        /\ Put(Torn)
    BY DEF OpenFile
  <1>2. CASE combined # Missing
    <2>1. combined' = Torn /\ split' = split /\ Torn # Missing
      BY <1>1, <1>2, ConstantsAssumption DEF Put
    <2>2. PlacesOK'
      BY <1>1, <1>2, <2>1 DEF AddsOK, PlacesOK, Whole, Editing
    <2>3. PromisesOK'
      BY <1>1, <1>2, <2>1 DEF AddsOK, PromisesOK, AllPromised, Editing, Declares, Dependencies
    <2> QED  BY <2>2, <2>3 DEF AddsOK
  <1>3. CASE combined = Missing
    <2>1. combined' = combined /\ split' = [split EXCEPT ![Head(todo)] = Torn]
      BY <1>1, <1>3 DEF Put
    <2>2. PlacesOK'
      BY <1>1, <1>3, <2>1 DEF AddsOK, PlacesOK, Whole, Editing
    <2>3. \A m, d : m # Head(todo) => (Has(m, d)' <=> Has(m, d))
      BY <1>3, <2>1 DEF Has, Found, InSplit, Whole, Declares, Dependencies
    <2>4. \A d : Declares(tree, d)' <=> Declares(tree, d)
      BY <1>1 DEF Declares, Dependencies
    <2>5. DOMAIN split' = DOMAIN split
      BY <2>1
    <2>6. PromisesOK'
      BY <1>1, <1>3, <2>1, <2>3, <2>4, <2>5 DEF AddsOK, PromisesOK, AllPromised, Editing
    <2> QED  BY <2>2, <2>6 DEF AddsOK
  <1> QED  BY <1>2, <1>3

LEMMA AddsWriteFile ==
  ASSUME AdderOK, AddsOK, WriteFile
  PROVE  AddsOK'
  <1>1. /\ add_pc = "writing" /\ Editing /\ Put(tree) /\ added' = AllPromised
        /\ add_pc' \in {"loading", "idle"}
    BY DEF WriteFile, ReportAdded, EndAdd, AllPromised, Editing
  <1>2. todo \in Seq(Profiles) \ {<<>>}
    BY <1>1 DEF AddsOK, PlacesOK
  <1>3. add_pc' # "idle" => todo' \in Seq(Profiles) \ {<<>>}
    <2> SUFFICES ASSUME add_pc' # "idle" PROVE todo' \in Seq(Profiles) \ {<<>>}
      OBVIOUS
    <2>1. Len(todo) > 1 /\ todo' = Tail(todo)
      BY DEF WriteFile, ReportAdded, EndAdd
    <2> QED  BY <1>2, <2>1
  <1>4. CASE combined # Missing
    <2>1. combined' = tree /\ split' = split /\ tree # Missing /\ tree # Torn
      BY <1>1, <1>4, TreeIsFile DEF Put, AddsOK
    <2>2. Whole' = tree
      BY <2>1 DEF Whole
    <2>3. PlacesOK'
      BY <1>1, <1>3, <1>4, <2>1, <2>2 DEF AddsOK, PlacesOK, Editing
    <2>4. \A a \in AllPromised : a[1] \in DOMAIN tree /\ Declares(tree[a[1]], a[2])
      BY <1>1, <1>4 DEF AddsOK, PromisesOK
    <2>5. ASSUME NEW m \in DOMAIN tree, NEW d, Declares(tree[m], d) PROVE Has(m, d)'
      <3>1. Found(m)' = {tree[m]}
        BY <2>2 DEF Found
      <3>2. Declares(tree[m], d)
        BY <2>5
      <3> QED  BY <3>1, <3>2 DEF Has, Declares, Dependencies
    <2>6. PromisesOK'
      BY <1>1, <2>4, <2>5 DEF PromisesOK, Editing
    <2> QED  BY <2>3, <2>6 DEF AddsOK
  <1>5. CASE combined = Missing
    <2>1. combined' = combined /\ split' = [split EXCEPT ![Head(todo)] = tree] /\ tree # Torn
      BY <1>1, <1>5, TreeIsFile DEF Put, AddsOK
    <2>2. /\ Head(todo) \in DOMAIN split
          /\ \A a \in AllPromised : IF a[1] = Head(todo) THEN Declares(tree, a[2]) ELSE Has(a[1], a[2])
      BY <1>1, <1>5 DEF AddsOK, PromisesOK
    <2>3. PlacesOK'
      BY <1>1, <1>3, <1>5, <2>1 DEF AddsOK, PlacesOK, Whole, Editing
    <2>4. \A m, d : m # Head(todo) => (Has(m, d)' <=> Has(m, d))
      BY <1>5, <2>1 DEF Has, Found, InSplit, Whole, Declares, Dependencies
    <2>5. ASSUME NEW d, Declares(tree, d) PROVE \A m : m = Head(todo) => Has(m, d)'
      <3>1. \A m : m = Head(todo) => Found(m)' = {tree}
        BY <1>5, <2>1, <2>2 DEF Found, Whole, InSplit
      <3>2. Declares(tree, d)
        BY <2>5
      <3> QED  BY <3>1, <3>2 DEF Has, Declares, Dependencies
    <2>6. PromisesOK'
      BY <1>1, <2>2, <2>4, <2>5 DEF PromisesOK, Editing
    <2> QED  BY <2>3, <2>6 DEF AddsOK
  <1> QED  BY <1>4, <1>5

LEMMA AddsElse ==
  ASSUME AddsOK, UNCHANGED <<combined, split>>,
         \/ UNCHANGED <<adder, added>>
         \/ /\ add_pc' \in {"idle", "loading"}
            /\ add_pc' = "loading" => todo' \in Seq(Profiles) \ {<<>>}
            /\ \A a \in added' : Has(a[1], a[2])
  PROVE  AddsOK'
  <1>1. \A m, d : Has(m, d)' <=> Has(m, d)
    BY DEF Has, Found, InSplit, Whole, Declares, Dependencies
  <1>2. CASE UNCHANGED <<adder, added>>
    <2>1. PlacesOK'
      BY <1>2 DEF AddsOK, PlacesOK, Whole, Editing, adder
    <2>2. PromisesOK'
      BY <1>1, <1>2 DEF AddsOK, PromisesOK, AllPromised, Editing, adder, Declares, Dependencies
    <2> QED  BY <2>1, <2>2 DEF AddsOK
  <1>3. CASE ~ UNCHANGED <<adder, added>>
    <2>1. PlacesOK'
      BY <1>3 DEF AddsOK, PlacesOK, Whole, Editing
    <2>2. PromisesOK'
      BY <1>1, <1>3 DEF AddsOK, PromisesOK, Editing
    <2> QED  BY <2>1, <2>2 DEF AddsOK
  <1> QED  BY <1>2, <1>3

\* What is spared when a file is left torn is in the other files.
LEMMA SparedAreThere ==
  ASSUME AddsOK, add_pc = "writing"
  PROVE  \A a \in Spared : Has(a[1], a[2])
  BY DEF AddsOK, PromisesOK, AllPromised, Editing, Spared

LEMMA AddsStep ==
  ASSUME Inv, AddsOK, [Next]_vars
  PROVE  AddsOK'
  <1>1. CASE UNCHANGED <<files, adder, added>>
    BY <1>1, AddsElse DEF files
  <1>2. ASSUME NEW addition \in Additions, Add(addition)
        PROVE  AddsOK'
    <2>1. addition.profiles \in Seq(Profiles) \ {<<>>}
      BY ConstantsAssumption
    <2>2. /\ add_pc = "idle" /\ add_pc' = "loading" /\ todo' = addition.profiles /\ added' = added
          /\ UNCHANGED <<combined, split>>
      BY <1>2 DEF Add, files
    <2>3. \A a \in added' : Has(a[1], a[2])
      BY <2>2 DEF AddsOK, PromisesOK
    <2> QED  BY <2>1, <2>2, <2>3, AddsElse
  <1>3. CASE LoadProfile
    BY <1>3, AddsLoadProfile DEF Inv
  <1>4. CASE AddFails \/ OpenFails \/ WriteCut \/ Kill
    <2>1. UNCHANGED <<combined, split>>
      BY <1>4 DEF AddFails, OpenFails, WriteCut, Kill, files
    <2>2. add_pc' \in {"idle", "loading"}
      BY <1>4 DEF AddFails, OpenFails, WriteCut, ReportAdded, Kill, EndAdd
    <2>3. add_pc' = "loading" => todo' \in Seq(Profiles) \ {<<>>}
      <3> SUFFICES ASSUME add_pc' = "loading" PROVE todo' \in Seq(Profiles) \ {<<>>}
        OBVIOUS
      <3>1. add_pc = "writing" /\ Len(todo) > 1 /\ todo' = Tail(todo)
        BY <1>4 DEF AddFails, OpenFails, WriteCut, ReportAdded, Kill, EndAdd
      <3>2. todo \in Seq(Profiles) /\ todo # <<>>
        BY <3>1 DEF AddsOK, PlacesOK
      <3>3. Tail(todo) \in Seq(Profiles) /\ Len(Tail(todo)) = Len(todo) - 1 /\ Len(todo) \in Nat
        BY <3>2, HeadTailProperties, LenProperties
      <3>4. Tail(todo) # <<>>
        BY <3>1, <3>3, LenProperties
      <3> QED  BY <3>1, <3>3, <3>4
    <2>4. \A a \in added' : Has(a[1], a[2])
      <3>1. CASE add_pc = "writing"
        <4>1. added' = Spared
          BY <1>4, <3>1 DEF AddFails, OpenFails, WriteCut, Kill
        <4> QED  BY <3>1, <4>1, SparedAreThere
      <3>2. CASE add_pc # "writing"
        <4>1. added' = added
          BY <1>4, <3>2 DEF AddFails, OpenFails, WriteCut, Kill
        <4> QED  BY <3>2, <4>1 DEF AddsOK, PromisesOK
      <3> QED  BY <3>1, <3>2
    <2> QED  BY <2>1, <2>2, <2>3, <2>4, AddsElse
  <1>5. CASE OpenFile
    BY <1>5, AddsOpenFile
  <1>6. CASE WriteFile
    BY <1>6, AddsWriteFile DEF Inv
  <1> QED
    BY <1>1, <1>2, <1>3, <1>4, <1>5, <1>6
    DEF Next, vars, Compose, MergeProfile, ComposeThrows, MergeDependency, UseConfiguration, EndCommand

\* Where the profiles are not spread over CATALYST.yaml and files of their own,
\* what `catalyst add` has reported as added is in the profile, whatever is
\* added after it, until a write of its file is cut off by a kill or a full disk.
THEOREM AdditionsStay == Separated /\ Spec => []AddedStays
  <1>1. AddsOK => AddedStays
    BY DEF AddsOK, PromisesOK, AddedStays, Has
  <1> QED  BY AddsInit, AddsStep, InvHolds, <1>1, PTL DEF Spec
==============================================================================
