-------------------------- MODULE GenerationProofs ---------------------------
(***************************************************************************)
(* Generation, for all projects.  The scan of modules depends on no order; *)
(* a project gets exactly the definitions that its local dependencies      *)
(* promise, through cycles, diamonds and all; libraries are linked before  *)
(* what they need; and builds are complete.                                *)
(***************************************************************************)
EXTENDS Generation, SequenceTheorems, FiniteSetTheorems, WellFoundedInduction, TLAPS

(***************************************************************************)
(* The scan.                                                               *)
(***************************************************************************)

\* Pairs of a module and the unit that provides it.
ProvidedBy(units) == UNION {u.provides \X {u} : u \in units}

LEMMA ProvidedByPairs ==
  ASSUME NEW units
  PROVE  /\ \A p \in ProvidedBy(units) : p[2] \in units /\ p[1] \in p[2].provides /\ p = <<p[1], p[2]>>
         /\ \A u \in units : \A m \in u.provides : <<m, u>> \in ProvidedBy(units)
  BY DEF ProvidedBy

Stops == {"features", "sources", "variables", "scan", "edges", "build", "done", "failed"}
Failures == {"", "features", "sources", "variables", "scan", "build", "cycle"}

\* The step of generate has been passed, whatever came after it.
Scanned == pc \in {"edges", "build", "done"} \/ failure \in {"build", "cycle"}
EdgesWritten == pc \in {"build", "done"} \/ failure \in {"build", "cycle"}

PhasesOK ==
  /\ pc \in Stops /\ failure \in Failures
  /\ pc = "failed" <=> failure # ""

UnitsRead ==
  /\ scanned \subseteq sources
  /\ providers = ProvidedBy(scanned)
  /\ \A u \in scanned : u.scans /\ Cardinality(u.provides) <= 1
  /\ \A u, v \in scanned : u # v => u.provides \cap v.provides = {}

\* When units are read, and what follows from it in the end.
ScanOK ==
  /\ pc \in {"features", "sources", "variables"} => scanned = {}
  /\ ~HasInterface(sources) => scanned = {}
  /\ Scanned /\ HasInterface(sources) => scanned = sources /\ WellFormed
  /\ failure = "scan" => ~WellFormed

ScanInv == PhasesOK /\ UnitsRead /\ ScanOK

LEMMA ScanInit == Init => ScanInv
  BY DEF Init, GenerateIn, ScanInv, PhasesOK, UnitsRead, ScanOK, ProvidedBy, Stops, Failures,
         Scanned

LEMMA UnitsReadSame ==
  ASSUME UnitsRead, UNCHANGED <<sources, scanned, providers>>
  PROVE  UnitsRead'
  BY DEF UnitsRead, ProvidedBy

LEMMA WellFormedSame ==
  ASSUME UNCHANGED sources
  PROVE  WellFormed' = WellFormed /\ HasInterface(sources)' = HasInterface(sources)
  BY DEF WellFormed, HasInterface

\* A unit whose scan is not accepted spoils the project.
LEMMA UnreadableUnit ==
  ASSUME UnitsRead, NEW u \in sources \ scanned, ~Readable(u)
  PROVE  ~WellFormed
  <1>1. CASE ~u.scans \/ ~(Cardinality(u.provides) <= 1)
    BY <1>1 DEF WellFormed
  <1>2. CASE \E p \in providers : p[1] \in u.provides
    <2>1. PICK p \in providers : p[1] \in u.provides
      BY <1>2
    <2>2. p[2] \in scanned /\ p[1] \in p[2].provides
      BY ProvidedByPairs DEF UnitsRead
    <2>3. p[2] \in sources /\ p[2] # u
      BY <2>2 DEF UnitsRead
    <2> QED  BY <2>1, <2>2, <2>3 DEF WellFormed
  <1> QED  BY <1>1, <1>2 DEF Readable

LEMMA ReadableUnit ==
  ASSUME UnitsRead, NEW u \in sources \ scanned, Readable(u),
         scanned' = scanned \cup {u}, providers' = providers \cup (u.provides \X {u}),
         UNCHANGED sources
  PROVE  UnitsRead'
  <1>1. (scanned \subseteq sources)'
    BY DEF UnitsRead
  <1>2. (providers = ProvidedBy(scanned))'
    BY DEF UnitsRead, ProvidedBy
  <1>3. (\A v \in scanned : v.scans /\ Cardinality(v.provides) <= 1)'
    BY DEF UnitsRead, Readable
  <1>4. \A v \in scanned : v.provides \cap u.provides = {}
    <2>1. SUFFICES ASSUME NEW v \in scanned, NEW m \in v.provides, m \in u.provides
                   PROVE  FALSE
      OBVIOUS
    <2>2. <<m, v>> \in providers /\ <<m, v>>[1] = m
      BY ProvidedByPairs DEF UnitsRead
    <2> QED  BY <2>1, <2>2 DEF Readable
  <1>5. (\A v, w \in scanned : v # w => v.provides \cap w.provides = {})'
    BY <1>4 DEF UnitsRead
  <1> QED  BY <1>1, <1>2, <1>3, <1>5 DEF UnitsRead

\* All units have been read.
LEMMA AllRead ==
  ASSUME UnitsRead, scanned = sources
  PROVE  WellFormed <=> \A u \in scanned : u.requires \subseteq {p[1] : p \in providers}
  <1>1. {p[1] : p \in providers} = UNION {u.provides : u \in sources}
    <2>1. ASSUME NEW u \in sources, NEW m \in u.provides
          PROVE  \E p \in providers : p[1] = m
      <3>1. <<m, u>> \in providers /\ <<m, u>>[1] = m
        BY <2>1, ProvidedByPairs DEF UnitsRead
      <3> QED  BY <3>1
    <2>2. \A p \in providers : p[2] \in sources /\ p[1] \in p[2].provides
      BY ProvidedByPairs DEF UnitsRead
    <2> QED  BY <2>1, <2>2
  <1> QED  BY <1>1 DEF UnitsRead, WellFormed

LEMMA ScanStep == ScanInv /\ [Next]_vars => ScanInv'
  <1> SUFFICES ASSUME ScanInv, [Next]_vars
               PROVE  ScanInv'
    OBVIOUS
  <1> USE DEF ScanInv
  <1>1. CASE ResolveFeatureFlags
    <2>1. UnitsRead'
      BY <1>1, UnitsReadSame DEF ResolveFeatureFlags
    <2> QED
      BY <1>1, <2>1, WellFormedSame
         DEF ResolveFeatureFlags, Fail, Continue, PhasesOK, ScanOK, Stops, Failures, Scanned
  <1>2. CASE BuildSourceSet
    <2>1. UnitsRead'
      BY <1>2 DEF BuildSourceSet, UnitsRead, ProvidedBy, ScanOK
    <2> QED
      BY <1>2, <2>1
         DEF BuildSourceSet, Fail, Continue, PhasesOK, ScanOK, Stops, Failures, Scanned
  <1>3. CASE WriteVariables
    <2>1. UnitsRead'
      BY <1>3, UnitsReadSame DEF WriteVariables
    <2> QED
      BY <1>3, <2>1, WellFormedSame
         DEF WriteVariables, Fail, Continue, PhasesOK, ScanOK, Stops, Failures, Scanned
  <1>4. CASE SkipScan
    <2>1. UnitsRead'
      BY <1>4, UnitsReadSame DEF SkipScan
    <2> QED
      BY <1>4, <2>1, WellFormedSame
         DEF SkipScan, Fail, Continue, PhasesOK, ScanOK, Stops, Failures, Scanned
  <1>5. CASE EndScan
    <2>1. UnitsRead'
      BY <1>5, UnitsReadSame DEF EndScan
    <2>2. WellFormed <=> \A u \in scanned : u.requires \subseteq {p[1] : p \in providers}
      BY <1>5, AllRead DEF EndScan
    <2>3. WellFormed' = WellFormed /\ HasInterface(sources)' = HasInterface(sources)
      BY <1>5, WellFormedSame DEF EndScan
    <2>4. CASE WellFormed
      BY <1>5, <2>1, <2>2, <2>3, <2>4
         DEF EndScan, Continue, PhasesOK, ScanOK, Stops, Failures, Scanned
    <2>5. CASE ~WellFormed
      BY <1>5, <2>1, <2>2, <2>3, <2>5
         DEF EndScan, Fail, PhasesOK, ScanOK, Stops, Failures, Scanned
    <2> QED  BY <2>4, <2>5
  <1>6. CASE WriteEdges
    <2>1. UnitsRead'
      BY <1>6, UnitsReadSame DEF WriteEdges
    <2> QED
      BY <1>6, <2>1, WellFormedSame
         DEF WriteEdges, Continue, PhasesOK, ScanOK, Stops, Failures, Scanned
  <1>7. CASE BuildEnds
    <2>1. UnitsRead'
      BY <1>7, UnitsReadSame DEF BuildEnds
    <2> QED
      BY <1>7, <2>1, WellFormedSame
         DEF BuildEnds, Fail, Continue, PhasesOK, ScanOK, Stops, Failures, Scanned
  <1>8. CASE \E u \in sources : ScanUnit(u)
    <2>1. PICK u \in sources : ScanUnit(u)
      BY <1>8
    <2>2. CASE Readable(u)
      <3>1. UnitsRead'
        BY <2>1, <2>2, ReadableUnit DEF ScanUnit
      <3> QED
        BY <2>1, <2>2, <3>1, WellFormedSame
           DEF ScanUnit, PhasesOK, ScanOK, Stops, Failures, Scanned
    <2>3. CASE ~Readable(u)
      <3>1. UnitsRead'
        BY <2>1, <2>3, UnitsReadSame DEF ScanUnit, Fail
      <3>2. ~WellFormed
        BY <2>1, <2>3, UnreadableUnit DEF ScanUnit
      <3>3. WellFormed' = WellFormed /\ HasInterface(sources)' = HasInterface(sources)
        BY <2>1, WellFormedSame DEF ScanUnit
      <3>4. pc' = "failed" /\ failure' = "scan" /\ scanned' = scanned /\ HasInterface(sources)
        BY <2>1, <2>3 DEF ScanUnit, Fail
      <3> QED
        BY <3>1, <3>2, <3>3, <3>4 DEF PhasesOK, ScanOK, Stops, Failures, Scanned
    <2> QED  BY <2>2, <2>3
  <1>9. CASE \E f : Touch(f)
    <2>1. UnitsRead'
      BY <1>9, UnitsReadSame DEF Touch
    <2> QED
      BY <1>9, <2>1, WellFormedSame
         DEF Touch, Continue, PhasesOK, ScanOK, Stops, Failures, Scanned
  <1>10. CASE \E e \in edges : Build(e)
    <2>1. UnitsRead'
      BY <1>10, UnitsReadSame DEF Build
    <2> QED
      BY <1>10, <2>1, WellFormedSame
         DEF Build, Fail, PhasesOK, ScanOK, Stops, Failures, Scanned
  <1>11. CASE UNCHANGED vars
    <2>1. UnitsRead'
      BY <1>11, UnitsReadSame DEF vars
    <2>2. WellFormed' = WellFormed /\ HasInterface(sources)' = HasInterface(sources)
      BY <1>11, WellFormedSame DEF vars
    <2>3. pc' = pc /\ failure' = failure /\ scanned' = scanned /\ sources' = sources
      BY <1>11 DEF vars
    <2> QED
      BY <2>1, <2>2, <2>3 DEF PhasesOK, ScanOK, Scanned
  <1> QED
    BY <1>1, <1>2, <1>3, <1>4, <1>5, <1>6, <1>7, <1>8, <1>9, <1>10, <1>11 DEF Next

\* The scan accepts a project with an interface unit exactly when its units are
\* well formed, whatever their order.
THEOREM ScanIsOrderFree == Spec => []ScanVerdict
  <1>1. ScanInv => ScanVerdict
    BY DEF ScanInv, ScanVerdict, PhasesOK, ScanOK, Scanned
  <1> QED  BY <1>1, ScanInit, ScanStep, PTL DEF Spec

(***************************************************************************)
(* The world, which never changes, and its sources.                        *)
(***************************************************************************)

OneAtPath == \A u, v \in sources : u.path = v.path => u = v

\* Before the source set is built nothing is in it.
WorldOK == world \in Worlds /\ OneAtPath

LEMMA WorldInit == Init => WorldOK
  BY DEF Init, GenerateIn, WorldOK, OneAtPath

LEMMA WorldStep == WorldOK /\ [Next]_vars => WorldOK'
  <1> SUFFICES ASSUME WorldOK, [Next]_vars
               PROVE  WorldOK'
    OBVIOUS
  <1>1. world' = world
    BY DEF Next, vars, ResolveFeatureFlags, BuildSourceSet, WriteVariables, SkipScan, EndScan,
           WriteEdges, BuildEnds, ScanUnit, Touch, Build
  <1>2. CASE sources' = sources
    BY <1>1, <1>2 DEF WorldOK, OneAtPath
  <1>3. CASE BuildSourceSet /\ sources' # sources
    <2>1. \A i \in DOMAIN world.dirs : world.dirs[i] \in DOMAIN world.tree
      BY <1>3 DEF BuildSourceSet
    <2>2. sources' \subseteq UNION {world.tree[dir] : dir \in ToSet(world.dirs)}
      BY <1>3 DEF BuildSourceSet
    <2>3. \A d \in ToSet(world.dirs) : d \in DOMAIN world.tree
      BY <2>1 DEF ToSet
    <2>4. \A u, v \in sources' : u.path = v.path => u = v
      BY <2>2, <2>3, WorldsAssumption DEF WorldOK
    <2> QED  BY <1>1, <2>4 DEF WorldOK, OneAtPath
  <1>4. BuildSourceSet \/ sources' = sources
    BY DEF Next, vars, ResolveFeatureFlags, WriteVariables, SkipScan, EndScan,
           WriteEdges, BuildEnds, ScanUnit, Touch, Build
  <1> QED  BY <1>2, <1>3, <1>4

(***************************************************************************)
(* The loop over the dependencies of a project.                            *)
(***************************************************************************)

\* A set of numbers that is not empty has a least element.
LEMMA LeastNumber ==
  ASSUME NEW T \in SUBSET Nat, T # {}
  PROVE  \E n \in T : \A m \in T : n <= m
  <1>1. PICK n \in T : \A m \in T : ~(<<m, n>> \in OpToRel(<, Nat))
    BY NatLessThanWellFounded, WFMin
  <1>2. ASSUME NEW m \in T, m < n PROVE FALSE
    <2>1. <<m, n>> \in OpToRel(<, Nat)
      BY <1>2 DEF OpToRel
    <2> QED  BY <1>1, <2>1
  <1> QED  BY <1>2

\* A result and that of one more dependency.
More(result, part) == IF ~result.ok THEN result ELSE Joined(result, part)

\* r has the results of the loop after each of the first n dependencies.
Loops(r, n, env, p, deps, own, below) ==
  r = [i \in 0 .. n |-> IF i = 0 THEN own
                        ELSE IF ~r[i - 1].ok THEN r[i - 1]
                        ELSE Joined(r[i - 1], FindDep(env, p, deps[i], below))]

LEMMA LoopAt ==
  ASSUME NEW n \in Nat, NEW env, NEW p, NEW deps, NEW own, NEW below, NEW r,
         Loops(r, n, env, p, deps, own, below)
  PROVE  /\ r[0] = own
         /\ \A i \in 1 .. n : r[i] = More(r[i - 1], FindDep(env, p, deps[i], below))
  BY DEF Loops, More

LEMMA LoopExtended ==
  ASSUME NEW n \in Nat, NEW env, NEW p, NEW deps, NEW own, NEW below, NEW r,
         Loops(r, n, env, p, deps, own, below)
  PROVE  \E s : Loops(s, n + 1, env, p, deps, own, below)
  <1> DEFINE part(i) == FindDep(env, p, deps[i], below)
             s == [i \in 0 .. n + 1 |-> IF i = n + 1 THEN More(r[n], part(n + 1)) ELSE r[i]]
             t == [i \in 0 .. n + 1 |-> IF i = 0 THEN own ELSE More(s[i - 1], part(i))]
  <1> HIDE DEF part
  <1>1. r[0] = own /\ \A i \in 1 .. n : r[i] = More(r[i - 1], part(i))
    BY LoopAt DEF part
  <1>2. ASSUME NEW i \in 0 .. n + 1 PROVE s[i] = t[i]
    <2>1. CASE i = 0
      BY <1>1, <2>1
    <2>2. CASE i \in 1 .. n
      <3>1. s[i] = r[i] /\ s[i - 1] = r[i - 1] /\ i # 0
        BY <2>2
      <3> QED  BY <1>1, <2>2, <3>1
    <2>3. CASE i = n + 1
      <3>1. s[i - 1] = r[n] /\ i # 0
        BY <2>3
      <3> QED  BY <2>3, <3>1
    <2> QED  BY <2>1, <2>2, <2>3
  <1>3. s = t
    BY <1>2
  <1> HIDE DEF s
  <1>4. s = [i \in 0 .. n + 1 |-> IF i = 0 THEN own
                                  ELSE IF ~s[i - 1].ok THEN s[i - 1]
                                  ELSE Joined(s[i - 1], FindDep(env, p, deps[i], below))]
    BY <1>3 DEF More, part
  <1> QED  BY <1>4 DEF Loops

LEMMA LoopExists ==
  ASSUME NEW env, NEW p, NEW deps, NEW own, NEW below, NEW n \in Nat
  PROVE  \E r : Loops(r, n, env, p, deps, own, below)
  <1> DEFINE Without == {m \in Nat : ~\E r : Loops(r, m, env, p, deps, own, below)}
  <1>1. SUFFICES ASSUME Without # {} PROVE FALSE
    OBVIOUS
  <1>2. PICK m \in Without : \A k \in Without : m <= k
    <2>1. Without \in SUBSET Nat
      OBVIOUS
    <2> HIDE DEF Without
    <2> QED  BY <1>1, <2>1, LeastNumber
  <1>3. m # 0
    <2>1. Loops([i \in 0 .. 0 |-> own], 0, env, p, deps, own, below)
      BY DEF Loops
    <2>2. \E r : Loops(r, 0, env, p, deps, own, below)
      BY <2>1
    <2> QED  BY <2>2
  <1>4. m - 1 \in Nat /\ m - 1 \notin Without
    BY <1>2, <1>3
  <1>5. PICK r : Loops(r, m - 1, env, p, deps, own, below)
    BY <1>4
  <1>6. \E s : Loops(s, m - 1 + 1, env, p, deps, own, below)
    BY <1>4, <1>5, LoopExtended
  <1>7. m - 1 + 1 = m
    BY <1>4
  <1> QED  BY <1>6, <1>7

LEMMA LoopIs ==
  ASSUME NEW env, NEW p, NEW deps, Len(deps) \in Nat, NEW own, NEW below
  PROVE  \E r : /\ Loops(r, Len(deps), env, p, deps, own, below)
                /\ WithDependencies(env, p, deps, own, below) = r[Len(deps)]
  <1> DEFINE result == CHOOSE r : Loops(r, Len(deps), env, p, deps, own, below)
  <1>1. Loops(result, Len(deps), env, p, deps, own, below)
    BY LoopExists
  <1>2. WithDependencies(env, p, deps, own, below) = result[Len(deps)]
    BY DEF WithDependencies, Loops
  <1> QED  BY <1>1, <1>2

(***************************************************************************)
(* What the loop finds: all or nothing.                                    *)
(***************************************************************************)
LEMMA ConsistentUnion ==
  ASSUME NEW A, NEW B, Consistent(A), Consistent(B)
  PROVE  Consistent(A \cup B) <=> ~Conflict(A, B)
  BY DEF Consistent, Conflict

LEMMA ConsistentParts ==
  ASSUME NEW A, NEW B, A \subseteq B, Consistent(B)
  PROVE  Consistent(A)
  BY DEF Consistent

\* Each of the dependencies gives something consistent or nothing.
PartsOK(env, p, deps, below) ==
  \A i \in 1 .. Len(deps) :
    /\ FindDep(env, p, deps[i], below).ok \in BOOLEAN
    /\ FindDep(env, p, deps[i], below).ok => Consistent(FindDep(env, p, deps[i], below).definitions)

AllParts(env, p, deps, own, below) ==
  own.definitions \cup UNION {FindDep(env, p, deps[i], below).definitions : i \in 1 .. Len(deps)}

LoopRight(result, env, p, deps, own, below) ==
  /\ result.ok \in BOOLEAN
  /\ result.ok <=> /\ own.ok /\ Consistent(AllParts(env, p, deps, own, below))
                   /\ \A i \in 1 .. Len(deps) : FindDep(env, p, deps[i], below).ok
  /\ result.ok => /\ result.definitions = AllParts(env, p, deps, own, below)
                  /\ \A x \in result.inputs :
                       \/ x \in own.inputs
                       \/ \E i \in 1 .. Len(deps) : x \in FindDep(env, p, deps[i], below).inputs

LEMMA LoopFinds ==
  ASSUME NEW env, NEW p, NEW deps, Len(deps) \in Nat, NEW own, NEW below,
         own.ok \in BOOLEAN, Consistent(own.definitions), PartsOK(env, p, deps, below)
  PROVE  LoopRight(WithDependencies(env, p, deps, own, below), env, p, deps, own, below)
  <1> DEFINE part(i) == FindDep(env, p, deps[i], below)
             all(n) == own.definitions \cup UNION {part(i).definitions : i \in 1 .. n}
  <1>1. PICK r : /\ Loops(r, Len(deps), env, p, deps, own, below)
                 /\ WithDependencies(env, p, deps, own, below) = r[Len(deps)]
    BY LoopIs
  <1>2. /\ r[0] = own
        /\ \A i \in 1 .. Len(deps) : r[i] = More(r[i - 1], part(i))
    BY <1>1, LoopAt
  <1>3. \A i \in 1 .. Len(deps) : part(i).ok \in BOOLEAN /\ (part(i).ok => Consistent(part(i).definitions))
    BY DEF PartsOK
  <1> DEFINE Right(n) ==
               /\ r[n].ok \in BOOLEAN
               /\ r[n].ok <=> own.ok /\ Consistent(all(n)) /\ \A i \in 1 .. n : part(i).ok
               /\ r[n].ok => /\ r[n].definitions = all(n)
                             /\ \A x \in r[n].inputs :
                                  x \in own.inputs \/ \E i \in 1 .. n : x \in part(i).inputs
             Wrong == {n \in 0 .. Len(deps) : ~Right(n)}
  <1> HIDE DEF part
  <1>4. Right(0)
    <2>1. all(0) = own.definitions /\ r[0] = own
      BY <1>2
    <2> HIDE DEF all
    <2> QED  BY <2>1
  <1>5. ASSUME NEW n \in 1 .. Len(deps), Right(n - 1) PROVE Right(n)
    <2>1. n - 1 \in Nat /\ 1 .. n = (1 .. n - 1) \cup {n} /\ n \in 1 .. n
      OBVIOUS
    <2>2. all(n) = all(n - 1) \cup part(n).definitions
      BY <2>1
    <2>3. r[n] = More(r[n - 1], part(n))
      BY <1>2
    <2>4. part(n).ok \in BOOLEAN /\ (part(n).ok => Consistent(part(n).definitions))
      BY <1>3
    <2>a. (\A i \in 1 .. n : part(i).ok) <=> (\A i \in 1 .. n - 1 : part(i).ok) /\ part(n).ok
      BY <2>1
    <2> HIDE DEF all
    <2>5. CASE ~r[n - 1].ok
      <3>1. r[n] = r[n - 1]
        BY <2>3, <2>5 DEF More
      <3>2. Consistent(all(n)) => Consistent(all(n - 1))
        BY <2>2, ConsistentParts
      <3> QED  BY <1>5, <2>5, <2>a, <3>1, <3>2
    <2>6. CASE r[n - 1].ok
      <3>1. r[n] = Joined(r[n - 1], part(n))
        BY <2>3, <2>6 DEF More
      <3>2. /\ r[n].ok = (r[n - 1].ok /\ part(n).ok /\ ~Conflict(r[n - 1].definitions, part(n).definitions))
            /\ r[n].definitions = r[n - 1].definitions \cup part(n).definitions
            /\ r[n].inputs = r[n - 1].inputs \cup part(n).inputs
        BY <3>1 DEF Joined
      <3>3. r[n - 1].definitions = all(n - 1) /\ Consistent(all(n - 1)) /\ own.ok /\ \A i \in 1 .. n - 1 : part(i).ok
        BY <1>5, <2>6
      <3>4. part(n).ok => (Consistent(all(n)) <=> ~Conflict(all(n - 1), part(n).definitions))
        BY <2>2, <2>4, <3>3, ConsistentUnion
      <3>5. r[n].ok <=> part(n).ok /\ Consistent(all(n))
        BY <2>4, <2>6, <3>2, <3>3, <3>4
      <3>6. r[n].ok \in BOOLEAN
        BY <3>2
      <3>7. \A x \in r[n].inputs : x \in own.inputs \/ \E i \in 1 .. n : x \in part(i).inputs
        BY <1>5, <2>1, <2>6, <3>2
      <3>8. r[n].definitions = all(n)
        BY <2>2, <3>2, <3>3
      <3> QED  BY <2>a, <3>3, <3>5, <3>6, <3>7, <3>8
    <2> QED  BY <1>5, <2>5, <2>6
  <1>6. Right(Len(deps))
    <2> HIDE DEF Right
    <2>1. SUFFICES ASSUME Wrong # {} PROVE FALSE
      OBVIOUS
    <2>2. PICK n \in Wrong : \A m \in Wrong : n <= m
      <3>1. Wrong \in SUBSET Nat
        OBVIOUS
      <3> HIDE DEF Wrong
      <3> QED  BY <2>1, <3>1, LeastNumber
    <2>3. n # 0
      BY <1>4
    <2>4. n \in 1 .. Len(deps) /\ n - 1 \notin Wrong /\ n - 1 \in 0 .. Len(deps)
      BY <2>2, <2>3
    <2> QED  BY <1>5, <2>4
  <1>7. all(Len(deps)) = AllParts(env, p, deps, own, below)
    BY DEF AllParts, part
  <1> HIDE DEF all
  <1> QED  BY <1>1, <1>6, <1>7 DEF LoopRight, part

(***************************************************************************)
(* What the local dependencies give.                                       *)
(***************************************************************************)

Leaves(projects, ancestors) == Cardinality(DOMAIN projects \ ancestors)

\* What they give below ancestors, when f has what they give further down.
Gives(env, projects, ancestors, f) ==
  [d \in LocalsOf(projects) |->
     IF d.to \notin DOMAIN projects \/ d.to \in ancestors THEN Failed
     ELSE WithDependencies(env, d.to, projects[d.to].dependencies, FindOwn(projects, d),
                           f[ancestors \cup {d.to}])]

Finds(f, env, projects) ==
  f = [ancestors \in SUBSET DOMAIN projects |->
         [d \in LocalsOf(projects) |->
            IF d.to \notin DOMAIN projects \/ d.to \in ancestors THEN Failed
            ELSE WithDependencies(env, d.to, projects[d.to].dependencies, FindOwn(projects, d),
                                  f[ancestors \cup {d.to}])]]

\* f is right as long as fewer than n projects are left.
FindsBelow(f, n, env, projects) ==
  \A a \in SUBSET DOMAIN projects : Leaves(projects, a) < n => f[a] = Gives(env, projects, a, f)

LEMMA FewerLeft ==
  ASSUME NEW projects, IsFiniteSet(DOMAIN projects), NEW a \in SUBSET DOMAIN projects
  PROVE  /\ Leaves(projects, a) \in Nat
         /\ Leaves(projects, a) <= Cardinality(DOMAIN projects)
         /\ \A p \in DOMAIN projects \ a :
              /\ a \cup {p} \in SUBSET DOMAIN projects
              /\ Leaves(projects, a \cup {p}) = Leaves(projects, a) - 1
  <1> DEFINE rest == DOMAIN projects \ a
  <1>1. IsFiniteSet(rest) /\ Cardinality(rest) \in Nat /\ Cardinality(rest) <= Cardinality(DOMAIN projects)
    <2>1. rest \subseteq DOMAIN projects
      OBVIOUS
    <2> HIDE DEF rest
    <2> QED  BY <2>1, FS_Subset, FS_CardinalityType
  <1>2. ASSUME NEW p \in DOMAIN projects \ a
        PROVE  /\ a \cup {p} \in SUBSET DOMAIN projects
               /\ Leaves(projects, a \cup {p}) = Leaves(projects, a) - 1
    <2>1. DOMAIN projects \ (a \cup {p}) = rest \ {p} /\ p \in rest
      OBVIOUS
    <2>2. Cardinality(rest \ {p}) = Cardinality(rest) - 1
      <3> HIDE DEF rest
      <3> QED  BY <1>1, <2>1, FS_RemoveElement
    <2> QED  BY <2>1, <2>2 DEF Leaves
  <1> QED  BY <1>1, <1>2 DEF Leaves

LEMMA FindsMore ==
  ASSUME NEW env, NEW projects, IsFiniteSet(DOMAIN projects), NEW n \in Nat, NEW f,
         FindsBelow(f, n, env, projects)
  PROVE  \E g : FindsBelow(g, n + 1, env, projects)
  <1> DEFINE g == [a \in SUBSET DOMAIN projects |-> Gives(env, projects, a, f)]
  <1>1. ASSUME NEW a \in SUBSET DOMAIN projects, Leaves(projects, a) < n + 1
        PROVE  Gives(env, projects, a, f) = Gives(env, projects, a, g)
    <2>1. ASSUME NEW d \in LocalsOf(projects), d.to \in DOMAIN projects \ a
          PROVE  f[a \cup {d.to}] = g[a \cup {d.to}]
      <3>1. /\ a \cup {d.to} \in SUBSET DOMAIN projects
            /\ Leaves(projects, a \cup {d.to}) < n
        BY <1>1, <2>1, FewerLeft
      <3> QED  BY <3>1 DEF FindsBelow
    <2> HIDE DEF g
    <2>2. ASSUME NEW d \in LocalsOf(projects)
          PROVE  Gives(env, projects, a, f)[d] = Gives(env, projects, a, g)[d]
      BY <2>1 DEF Gives
    <2> QED  BY <2>2 DEF Gives
  <1>2. FindsBelow(g, n + 1, env, projects)
    <2>1. \A a \in SUBSET DOMAIN projects : g[a] = Gives(env, projects, a, f)
      OBVIOUS
    <2> HIDE DEF g
    <2> QED  BY <1>1, <2>1 DEF FindsBelow
  <1> QED  BY <1>2

LEMMA FindsAllBelow ==
  ASSUME NEW env, NEW projects, IsFiniteSet(DOMAIN projects), NEW n \in Nat
  PROVE  \E f : FindsBelow(f, n, env, projects)
  <1> DEFINE Without == {m \in Nat : ~\E f : FindsBelow(f, m, env, projects)}
  <1>1. SUFFICES ASSUME Without # {} PROVE FALSE
    OBVIOUS
  <1>2. PICK m \in Without : \A k \in Without : m <= k
    <2>1. Without \in SUBSET Nat
      OBVIOUS
    <2> HIDE DEF Without
    <2> QED  BY <1>1, <2>1, LeastNumber
  <1>3. m # 0
    <2>1. \A a \in SUBSET DOMAIN projects : ~(Leaves(projects, a) < 0)
      BY FewerLeft
    <2>2. FindsBelow({}, 0, env, projects)
      BY <2>1 DEF FindsBelow
    <2>3. \E f : FindsBelow(f, 0, env, projects)
      BY <2>2
    <2> QED  BY <2>3
  <1>4. m - 1 \in Nat /\ m - 1 \notin Without
    BY <1>2, <1>3
  <1>5. PICK f : FindsBelow(f, m - 1, env, projects)
    BY <1>4
  <1>6. \E g : FindsBelow(g, m - 1 + 1, env, projects)
    BY <1>4, <1>5, FindsMore
  <1>7. m - 1 + 1 = m
    BY <1>4
  <1> QED  BY <1>6, <1>7

LEMMA FindsExists ==
  ASSUME NEW env, NEW projects, IsFiniteSet(DOMAIN projects)
  PROVE  \E f : Finds(f, env, projects)
  <1> DEFINE n == Cardinality(DOMAIN projects) + 1
  <1>1. Cardinality(DOMAIN projects) \in Nat /\ n \in Nat
    BY FS_CardinalityType
  <1>2. PICK f : FindsBelow(f, n, env, projects)
    BY <1>1, FindsAllBelow
  <1> DEFINE g == [a \in SUBSET DOMAIN projects |-> Gives(env, projects, a, f)]
  <1>3. \A a \in SUBSET DOMAIN projects : f[a] = g[a]
    <2>1. \A a \in SUBSET DOMAIN projects : Leaves(projects, a) < n
      BY <1>1, FewerLeft
    <2> QED  BY <1>2, <2>1 DEF FindsBelow
  <1>4. \A a \in SUBSET DOMAIN projects : Gives(env, projects, a, f) = Gives(env, projects, a, g)
    <2> SUFFICES ASSUME NEW a \in SUBSET DOMAIN projects
                 PROVE  Gives(env, projects, a, f) = Gives(env, projects, a, g)
      OBVIOUS
    <2>1. \A d \in LocalsOf(projects) : d.to \in DOMAIN projects => f[a \cup {d.to}] = g[a \cup {d.to}]
      BY <1>3
    <2> HIDE DEF g
    <2>2. ASSUME NEW d \in LocalsOf(projects)
          PROVE  Gives(env, projects, a, f)[d] = Gives(env, projects, a, g)[d]
      BY <2>1 DEF Gives
    <2> QED  BY <2>2 DEF Gives
  <1>5. g = [a \in SUBSET DOMAIN projects |-> Gives(env, projects, a, g)]
    BY <1>4
  <1>6. Finds(g, env, projects)
    <2> HIDE DEF g
    <2> QED  BY <1>5 DEF Finds, Gives
  <1> QED  BY <1>6

LEMMA FindIs ==
  ASSUME NEW env, NEW projects, IsFiniteSet(DOMAIN projects), NEW root \in DOMAIN projects
  PROVE  \E f : Finds(f, env, projects) /\ FindLocals(env, projects, root) = f[{root}]
  <1> DEFINE find == CHOOSE f : Finds(f, env, projects)
  <1>1. Finds(find, env, projects)
    BY FindsExists
  <1>2. FindLocals(env, projects, root) = find[{root}]
    BY DEF FindLocals, Finds
  <1> QED  BY <1>1, <1>2

(***************************************************************************)
(* The local dependencies that a project reaches.                          *)
(***************************************************************************)
From(d) == {d} \cup ReachedFrom(d.to)

LEMMA LocalsAreLocal ==
  \A p : Locals(p) \subseteq LocalsOf(world.projects)
  BY DEF Locals, DependenciesOf, Projects, LocalsOf

LEMMA ReachedIsLeast ==
  ASSUME NEW p
  PROVE  /\ ReachedFrom(p) \in Complete /\ Locals(p) \subseteq ReachedFrom(p)
         /\ \A S \in Complete : Locals(p) \subseteq S => ReachedFrom(p) \subseteq S
  <1>1. \A S \in Complete : Locals(p) \subseteq S => ReachedFrom(p) \subseteq S
    BY DEF ReachedFrom
  <1>2. Locals(p) \subseteq ReachedFrom(p) /\ ReachedFrom(p) \subseteq LocalsOf(world.projects)
    BY LocalsAreLocal DEF ReachedFrom
  <1>3. ASSUME NEW d \in ReachedFrom(p), NEW e \in Locals(d.to)
        PROVE  e \in ReachedFrom(p)
    <2>1. e \in LocalsOf(world.projects)
      BY <1>3, LocalsAreLocal
    <2>2. \A S \in Complete : Locals(p) \subseteq S => e \in S
      BY <1>3 DEF ReachedFrom, Complete
    <2> QED  BY <2>1, <2>2 DEF ReachedFrom
  <1>4. ReachedFrom(p) \in Complete
    <2>1. \A d \in ReachedFrom(p) : Locals(d.to) \subseteq ReachedFrom(p)
      BY <1>3
    <2> HIDE DEF ReachedFrom
    <2> QED  BY <1>2, <2>1 DEF Complete
  <1> QED  BY <1>1, <1>2, <1>4

LEMMA ReachedParts ==
  ASSUME NEW p
  PROVE  /\ ReachedFrom(p) = UNION {From(d) : d \in Locals(p)}
         /\ \A d \in ReachedFrom(p) : From(d) \subseteq ReachedFrom(p)
  <1> DEFINE R == UNION {From(d) : d \in Locals(p)}
  <1>1. ASSUME NEW d \in ReachedFrom(p) PROVE From(d) \subseteq ReachedFrom(p)
    <2>1. Locals(d.to) \subseteq ReachedFrom(p)
      BY <1>1, ReachedIsLeast DEF Complete
    <2>2. ReachedFrom(d.to) \subseteq ReachedFrom(p)
      BY <2>1, ReachedIsLeast
    <2> QED  BY <1>1, <2>2 DEF From
  <1>2. R \subseteq ReachedFrom(p)
    <2>1. \A d \in Locals(p) : From(d) \subseteq ReachedFrom(p)
      BY <1>1, ReachedIsLeast
    <2> QED  BY <2>1
  <1>3. Locals(p) \subseteq R
    BY DEF From
  <1>4. R \in Complete
    <2>1. R \subseteq LocalsOf(world.projects)
      BY <1>2, ReachedIsLeast DEF Complete
    <2>2. ASSUME NEW e \in R, NEW x \in Locals(e.to)
          PROVE  x \in R
      <3>1. PICK d \in Locals(p) : e \in From(d)
        BY <2>2
      <3>2. x \in ReachedFrom(d.to)
        <4>1. CASE e = d
          BY <2>2, <4>1, ReachedIsLeast
        <4>2. CASE e \in ReachedFrom(d.to)
          BY <2>2, <4>2, ReachedIsLeast DEF Complete
        <4> QED  BY <3>1, <4>1, <4>2 DEF From
      <3> QED  BY <3>1, <3>2 DEF From
    <2> HIDE DEF R
    <2> QED  BY <2>1, <2>2 DEF Complete
  <1>5. ReachedFrom(p) \subseteq R
    <2> HIDE DEF R
    <2> QED  BY <1>3, <1>4, ReachedIsLeast
  <1> QED  BY <1>1, <1>2, <1>5

(***************************************************************************)
(* Definitions and other dependencies.                                     *)
(***************************************************************************)
OneOfAName(flags) ==
  /\ \A f, g \in flags : f.name = g.name => f = g
  /\ \A f \in flags : IsList(f.values)

LEMMA MacrosOf ==
  ASSUME NEW project, NEW flag, NEW overrides, NEW l \in DefinitionsOf(project, flag, overrides)
  PROVE  \/ l[1] = <<project, flag.name>>
         \/ \E i \in LastPositions(flag.values) :
              l = << <<project, flag.name, flag.values[i]>>, i - 1>>
  BY DEF DefinitionsOf

LEMMA DefinitionsConsistent ==
  ASSUME NEW project, NEW flags, NEW overrides, OneOfAName(flags)
  PROVE  Consistent(Definitions(project, flags, overrides))
  <1>1. SUFFICES ASSUME NEW l \in Definitions(project, flags, overrides),
                        NEW r \in Definitions(project, flags, overrides), l[1] = r[1]
                 PROVE  l[2] = r[2]
    BY DEF Consistent
  <1>2. PICK f \in flags : l \in DefinitionsOf(project, f, overrides)
    BY DEF Definitions
  <1>3. PICK g \in flags : r \in DefinitionsOf(project, g, overrides)
    BY DEF Definitions
  <1>4. f = g
    <2>1. f.name = g.name
      BY <1>1, <1>2, <1>3, MacrosOf
    <2> QED  BY <2>1 DEF OneOfAName
  <1>5. \A x, y : <<project, f.name>> # <<project, x, y>>
    OBVIOUS
  <1>6. \A i, j \in LastPositions(f.values) : f.values[i] = f.values[j] => i = j
    <2>1. f.values \in Seq(ToSet(f.values))
      BY DEF OneOfAName, IsList
    <2>2. DOMAIN f.values \subseteq Int
      BY <2>1
    <2> QED  BY <2>2 DEF LastPositions
  <1>7. CASE f.type = "bool"
    BY <1>2, <1>3, <1>4, <1>7 DEF DefinitionsOf
  <1>8. CASE f.type = "enum"
    BY <1>1, <1>2, <1>3, <1>4, <1>5, <1>6, <1>8 DEF DefinitionsOf
  <1>9. CASE f.type \notin {"bool", "enum"}
    BY <1>2, <1>3, <1>4, <1>9 DEF DefinitionsOf
  <1> QED  BY <1>7, <1>8, <1>9

LEMMA ForeignFinds ==
  ASSUME NEW env, NEW project, NEW d
  PROVE  /\ FindForeign(env, project, d).ok \in BOOLEAN
         /\ FindForeign(env, project, d).definitions = {}
         /\ FindForeign(env, project, d).inputs = {}
  <1> DEFINE Plain(x) == x.ok \in BOOLEAN /\ x.definitions = {} /\ x.inputs = {}
  <1>1. Plain(Failed) /\ \A libs : Plain([Nothing EXCEPT !.libs = libs])
    BY DEF Failed, Nothing
  <1>2. Plain(NamedLike(d))
    BY <1>1 DEF NamedLike
  <1>3. \A tree : Plain(ResolvedPackage(tree, d))
    <2> HIDE DEF Plain
    <2> QED  BY <1>1, <1>2 DEF ResolvedPackage
  <1> HIDE DEF Plain
  <1>4. Plain(FindVcpkg(env, project, d))
    BY <1>1, <1>3 DEF FindVcpkg
  <1>5. Plain(FindSystem(env, d))
    BY <1>1, <1>2 DEF FindSystem
  <1>6. Plain(FindGit(env, project, d))
    BY <1>1 DEF FindGit
  <1>7. Plain(FindConan(env, project, d))
    BY <1>1 DEF FindConan
  <1>8. Plain(FindCustom(env, d))
    BY <1>1 DEF FindCustom
  <1>9. Plain(FindForeign(env, project, d))
    BY <1>1, <1>4, <1>5, <1>6, <1>7, <1>8 DEF FindForeign
  <1> QED  BY <1>9 DEF Plain

LEMMA OwnFinds ==
  ASSUME NEW projects, NEW d, OneOfAName(projects[d.to].flags)
  PROVE  LET own == FindOwn(projects, d) IN
         /\ own.ok \in BOOLEAN
         /\ own.ok <=> Resolvable(projects[d.to].flags, d.using)
         /\ Consistent(own.definitions)
         /\ own.ok => own.definitions = Definitions(d.to, projects[d.to].flags, d.using)
         /\ own.inputs \subseteq {d.to}
  <1>1. CASE Resolvable(projects[d.to].flags, d.using)
    <2>1. Consistent(Definitions(d.to, projects[d.to].flags, d.using))
      BY DefinitionsConsistent
    <2> QED  BY <1>1, <2>1 DEF FindOwn
  <1>2. CASE ~Resolvable(projects[d.to].flags, d.using)
    <2>1. FindOwn(projects, d) = Failed
      BY <1>2 DEF FindOwn
    <2> QED  BY <1>2, <2>1 DEF Failed, Nothing, Consistent
  <1> QED  BY <1>1, <1>2

(***************************************************************************)
(* What is found: exactly what is promised, if all is sound.               *)
(***************************************************************************)
PromisedBy(ds) == UNION {Definitions(d.to, world.projects[d.to].flags, d.using) : d \in ds}

\* The project p can be built apart from its local dependencies, and is in no cycle.
FitsAlone(p) ==
  /\ p \notin {d.to : d \in ReachedFrom(p)}
  /\ \A d \in DependenciesOf(p) \ Locals(p) : FindForeign(world.env, p, d).ok

\* A local dependency is sound when there are the ancestors above it.
Sound(ancestors, d) ==
  /\ \A e \in From(d) : /\ e.to \in Projects \ ancestors
                        /\ Resolvable(world.projects[e.to].flags, e.using)
                        /\ FitsAlone(e.to)
  /\ Consistent(PromisedBy(From(d)))

\* What is found for a local dependency below ancestors is right.
FoundRight(x, ancestors, d) ==
  /\ x.ok \in BOOLEAN
  /\ x.ok <=> Sound(ancestors, d)
  /\ x.ok => /\ x.definitions = PromisedBy(From(d))
             /\ x.inputs \cap ancestors = {}

\* What the assumption on worlds says of this one.
LEMMA WorldIs ==
  ASSUME WorldOK
  PROVE  /\ IsFiniteSet(Projects) /\ world.root \in Projects
         /\ \A p \in Projects : /\ OneOfAName(world.projects[p].flags)
                                /\ Len(world.projects[p].dependencies) \in Nat
                                /\ DOMAIN world.projects[p].dependencies
                                     = 1 .. Len(world.projects[p].dependencies)
  <1>1. \A p \in Projects : world.projects[p].dependencies \in Seq(ToSet(world.projects[p].dependencies))
    BY WorldsAssumption DEF WorldOK, Projects, IsList
  <1>2. \A p \in Projects : OneOfAName(world.projects[p].flags)
    BY WorldsAssumption DEF WorldOK, Projects, OneOfAName
  <1>3. IsFiniteSet(Projects) /\ world.root \in Projects
    BY WorldsAssumption DEF WorldOK, Projects
  <1> QED  BY <1>1, <1>2, <1>3

BelowRight(below, ancestors, p) == \A d \in Locals(p) : FoundRight(below[d], ancestors, d)

ProjectRight(result, p, own, ancestors) ==
  LET all == own.definitions \cup PromisedBy(ReachedFrom(p)) IN
  /\ result.ok \in BOOLEAN
  /\ result.ok <=> /\ own.ok /\ Consistent(all)
                   /\ \A d \in DependenciesOf(p) \ Locals(p) : FindForeign(world.env, p, d).ok
                   /\ \A d \in Locals(p) : Sound(ancestors, d)
  /\ result.ok => /\ result.definitions = all
                  /\ \A x \in result.inputs : x \in own.inputs \/ x \notin ancestors

\* The loop over the dependencies of a project p, when those below are right.
LEMMA ProjectFinds ==
  ASSUME WorldOK, NEW p \in Projects, NEW own, NEW below, NEW ancestors,
         own.ok \in BOOLEAN, Consistent(own.definitions), BelowRight(below, ancestors, p)
  PROVE  ProjectRight(WithDependencies(world.env, p, world.projects[p].dependencies, own, below),
                      p, own, ancestors)
  <1> DEFINE deps == world.projects[p].dependencies
             result == WithDependencies(world.env, p, deps, own, below)
             part(i) == FindDep(world.env, p, deps[i], below)
             parts == own.definitions \cup UNION {part(i).definitions : i \in 1 .. Len(deps)}
             all == own.definitions \cup PromisedBy(ReachedFrom(p))
  <1>1. Len(deps) \in Nat /\ DependenciesOf(p) = {deps[i] : i \in 1 .. Len(deps)}
    BY WorldIs DEF DependenciesOf, ToSet
  <1>2. \A i \in 1 .. Len(deps) : deps[i] \in DependenciesOf(p)
    BY <1>1
  <1>3. \A i \in 1 .. Len(deps) :
          IF deps[i] \in Locals(p)
          THEN FoundRight(part(i), ancestors, deps[i])
          ELSE /\ part(i) = FindForeign(world.env, p, deps[i])
               /\ part(i).ok \in BOOLEAN /\ part(i).definitions = {} /\ part(i).inputs = {}
    <2> SUFFICES ASSUME NEW i \in 1 .. Len(deps)
                 PROVE  IF deps[i] \in Locals(p)
                        THEN FoundRight(part(i), ancestors, deps[i])
                        ELSE /\ part(i) = FindForeign(world.env, p, deps[i])
                             /\ part(i).ok \in BOOLEAN /\ part(i).definitions = {} /\ part(i).inputs = {}
      OBVIOUS
    <2>1. deps[i].source = "local" <=> deps[i] \in Locals(p)
      BY <1>2 DEF Locals
    <2>2. CASE deps[i] \in Locals(p)
      BY <2>1, <2>2 DEF FindDep, BelowRight
    <2>3. CASE deps[i] \notin Locals(p)
      <3>1. part(i) = FindForeign(world.env, p, deps[i])
        BY <2>1, <2>3 DEF FindDep
      <3> HIDE DEF part
      <3> QED  BY <2>3, <3>1, ForeignFinds
    <2> QED  BY <2>2, <2>3
  <1>4. \A i \in 1 .. Len(deps) : part(i).ok \in BOOLEAN /\ (part(i).ok => Consistent(part(i).definitions))
    <2> HIDE DEF part
    <2>1. Consistent({})
      BY DEF Consistent
    <2> QED  BY <1>3, <2>1 DEF FoundRight, Sound
  <1>5. /\ result.ok \in BOOLEAN
        /\ result.ok <=> own.ok /\ Consistent(parts) /\ \A i \in 1 .. Len(deps) : part(i).ok
        /\ result.ok => /\ result.definitions = parts
                        /\ \A x \in result.inputs :
                             \/ x \in own.inputs
                             \/ \E i \in 1 .. Len(deps) : x \in part(i).inputs
    <2>1. Len(deps) \in Nat
      BY <1>1
    <2>2. PartsOK(world.env, p, deps, below)
      BY <1>4 DEF PartsOK
    <2>3. LoopRight(result, world.env, p, deps, own, below)
      <3> HIDE DEF deps
      <3> QED  BY <2>1, <2>2, LoopFinds
    <2>4. parts = AllParts(world.env, p, deps, own, below)
      BY DEF AllParts
    <2> HIDE DEF deps, parts, result
    <2> QED  BY <2>3, <2>4 DEF LoopRight
  <1> HIDE DEF part, result
  <1>6. (\A i \in 1 .. Len(deps) : part(i).ok)
          <=> /\ \A d \in DependenciesOf(p) \ Locals(p) : FindForeign(world.env, p, d).ok
              /\ \A d \in Locals(p) : Sound(ancestors, d)
    <2>1. \A d \in Locals(p) : d \in DependenciesOf(p)
      BY DEF Locals
    <2> HIDE DEF deps
    <2> QED  BY <1>1, <1>2, <1>3, <2>1 DEF FoundRight
  <1>7. (\A i \in 1 .. Len(deps) : part(i).ok) => parts = all
    <2> SUFFICES ASSUME \A i \in 1 .. Len(deps) : part(i).ok
                 PROVE  parts = all
      OBVIOUS
    <2>1. \A i \in 1 .. Len(deps) :
            part(i).definitions = IF deps[i] \in Locals(p) THEN PromisedBy(From(deps[i])) ELSE {}
      BY <1>3 DEF FoundRight
    <2>2. \A d \in Locals(p) : \E i \in 1 .. Len(deps) : d = deps[i]
      BY <1>1 DEF Locals
    <2> HIDE DEF deps
    <2>3. UNION {part(i).definitions : i \in 1 .. Len(deps)} = UNION {PromisedBy(From(d)) : d \in Locals(p)}
      BY <2>1, <2>2
    <2>4. UNION {PromisedBy(From(d)) : d \in Locals(p)} = PromisedBy(UNION {From(d) : d \in Locals(p)})
      BY DEF PromisedBy
    <2>5. ReachedFrom(p) = UNION {From(d) : d \in Locals(p)}
      BY ReachedParts
    <2> QED  BY <2>3, <2>4, <2>5
  <1>8. (\A i \in 1 .. Len(deps) : part(i).ok)
          => \A i \in 1 .. Len(deps) : \A x \in part(i).inputs : x \notin ancestors
    BY <1>3 DEF FoundRight
  <1>9. result.ok => /\ result.definitions = all
                     /\ \A x \in result.inputs : x \in own.inputs \/ x \notin ancestors
    <2> HIDE DEF parts, all, deps
    <2> QED  BY <1>5, <1>7, <1>8
  <1>10. result.ok <=> /\ own.ok /\ Consistent(all)
                       /\ \A d \in DependenciesOf(p) \ Locals(p) : FindForeign(world.env, p, d).ok
                       /\ \A d \in Locals(p) : Sound(ancestors, d)
    <2> HIDE DEF parts, all, deps
    <2> QED  BY <1>5, <1>6, <1>7
  <1> HIDE DEF all
  <1>11. ProjectRight(result, p, own, ancestors)
    BY <1>5, <1>9, <1>10 DEF ProjectRight, all
  <1> QED  BY <1>11 DEF result

\* Soundness, one level down.
LEMMA SoundBelow ==
  ASSUME NEW ancestors, NEW d, d.to \in Projects \ ancestors
  PROVE  Sound(ancestors, d)
           <=> /\ Resolvable(world.projects[d.to].flags, d.using)
               /\ \A e \in DependenciesOf(d.to) \ Locals(d.to) : FindForeign(world.env, d.to, e).ok
               /\ \A e \in Locals(d.to) : Sound(ancestors \cup {d.to}, e)
               /\ Consistent(PromisedBy(From(d)))
  <1> DEFINE p == d.to
  <1>1. /\ ReachedFrom(p) = UNION {From(e) : e \in Locals(p)}
        /\ From(d) = {d} \cup ReachedFrom(p)
    BY ReachedParts DEF From
  <1>2. ASSUME Sound(ancestors, d), NEW e \in Locals(p)
        PROVE  Sound(ancestors \cup {p}, e)
    <2>1. From(e) \subseteq ReachedFrom(p) /\ From(e) \subseteq From(d)
      BY <1>1
    <2>2. PromisedBy(From(e)) \subseteq PromisedBy(From(d))
      BY <2>1 DEF PromisedBy
    <2>3. Consistent(PromisedBy(From(e)))
      BY <1>2, <2>2, ConsistentParts DEF Sound
    <2>4. p \notin {x.to : x \in ReachedFrom(p)}
      BY <1>1, <1>2 DEF Sound, FitsAlone
    <2>5. \A x \in From(e) : x.to # p
      BY <2>1, <2>4
    <2> QED  BY <1>2, <2>1, <2>3, <2>5 DEF Sound
  <1>3. ASSUME Sound(ancestors, d)
        PROVE  /\ Resolvable(world.projects[d.to].flags, d.using)
               /\ \A e \in DependenciesOf(p) \ Locals(p) : FindForeign(world.env, p, e).ok
    BY <1>1, <1>3 DEF Sound, FitsAlone
  <1>4. ASSUME Resolvable(world.projects[d.to].flags, d.using),
               \A e \in DependenciesOf(p) \ Locals(p) : FindForeign(world.env, p, e).ok,
               \A e \in Locals(p) : Sound(ancestors \cup {p}, e),
               Consistent(PromisedBy(From(d)))
        PROVE  Sound(ancestors, d)
    <2>1. \A x \in ReachedFrom(p) : /\ x.to \in Projects \ (ancestors \cup {p})
                                    /\ Resolvable(world.projects[x.to].flags, x.using)
                                    /\ FitsAlone(x.to)
      BY <1>1, <1>4 DEF Sound
    <2>2. FitsAlone(p)
      BY <1>4, <2>1 DEF FitsAlone
    <2> QED  BY <1>1, <1>4, <2>1, <2>2 DEF Sound
  <1>5. Sound(ancestors, d) => Consistent(PromisedBy(From(d)))
    BY DEF Sound
  <1> QED  BY <1>2, <1>3, <1>4, <1>5

\* What is found for a local dependency below ancestors.
LEMMA FindsAt ==
  ASSUME NEW f, Finds(f, world.env, world.projects),
         NEW a \in SUBSET Projects, NEW d \in LocalsOf(world.projects)
  PROVE  f[a][d] = IF d.to \notin Projects \/ d.to \in a THEN Failed
                   ELSE WithDependencies(world.env, d.to, world.projects[d.to].dependencies,
                                         FindOwn(world.projects, d), f[a \cup {d.to}])
  <1>1. f = [b \in SUBSET DOMAIN world.projects |-> Gives(world.env, world.projects, b, f)]
    BY DEF Finds, Gives
  <1>2. f[a] = Gives(world.env, world.projects, a, f)
    BY <1>1 DEF Projects
  <1> QED  BY <1>2 DEF Gives, Projects

LEMMA RightAbove ==
  ASSUME WorldOK, NEW f, Finds(f, world.env, world.projects),
         NEW a \in SUBSET Projects, NEW d \in LocalsOf(world.projects),
         d.to \in Projects \ a =>
           \A e \in LocalsOf(world.projects) : FoundRight(f[a \cup {d.to}][e], a \cup {d.to}, e)
  PROVE  FoundRight(f[a][d], a, d)
  <1>1. f[a][d] = IF d.to \notin Projects \/ d.to \in a THEN Failed
                  ELSE WithDependencies(world.env, d.to, world.projects[d.to].dependencies,
                                        FindOwn(world.projects, d), f[a \cup {d.to}])
    BY FindsAt
  <1>2. CASE d.to \notin Projects \/ d.to \in a
    <2>1. f[a][d] = Failed
      BY <1>1, <1>2
    <2>2. ~Sound(a, d)
      BY <1>2 DEF Sound, From
    <2> QED  BY <2>1, <2>2 DEF FoundRight, Failed, Nothing
  <1>3. CASE d.to \in Projects \ a
    <2> DEFINE p == d.to
               own == FindOwn(world.projects, d)
               result == f[a][d]
               all == own.definitions \cup PromisedBy(ReachedFrom(p))
    <2>1. result = WithDependencies(world.env, p, world.projects[p].dependencies, own, f[a \cup {p}])
      BY <1>1, <1>3
    <2>2. p \in Projects /\ OneOfAName(world.projects[p].flags)
      BY <1>3, WorldIs
    <2>3. /\ own.ok \in BOOLEAN
          /\ own.ok <=> Resolvable(world.projects[p].flags, d.using)
          /\ Consistent(own.definitions)
          /\ own.ok => own.definitions = Definitions(p, world.projects[p].flags, d.using)
          /\ own.inputs \subseteq {p}
      BY <2>2, OwnFinds
    <2>4. BelowRight(f[a \cup {p}], a \cup {p}, p)
      BY <1>3, LocalsAreLocal DEF BelowRight
    <2> HIDE DEF own, result, p
    <2>a. ProjectRight(result, p, own, a \cup {p})
      BY <2>1, <2>2, <2>3, <2>4, ProjectFinds
    <2>5. /\ result.ok \in BOOLEAN
          /\ result.ok <=> /\ own.ok /\ Consistent(all)
                           /\ \A e \in DependenciesOf(p) \ Locals(p) : FindForeign(world.env, p, e).ok
                           /\ \A e \in Locals(p) : Sound(a \cup {p}, e)
          /\ result.ok => /\ result.definitions = all
                          /\ \A x \in result.inputs : x \in own.inputs \/ x \notin a \cup {p}
      BY <2>a DEF ProjectRight
    <2>6. own.ok => all = PromisedBy(From(d))
      <3>1. From(d) = {d} \cup ReachedFrom(p)
        BY DEF From, p
      <3>2. PromisedBy(From(d)) = Definitions(p, world.projects[p].flags, d.using) \cup PromisedBy(ReachedFrom(p))
        BY <3>1 DEF PromisedBy, p
      <3> QED  BY <2>3, <3>2
    <2>7. Sound(a, d)
            <=> /\ Resolvable(world.projects[p].flags, d.using)
                /\ \A e \in DependenciesOf(p) \ Locals(p) : FindForeign(world.env, p, e).ok
                /\ \A e \in Locals(p) : Sound(a \cup {p}, e)
                /\ Consistent(PromisedBy(From(d)))
      BY <1>3, SoundBelow DEF p
    <2> HIDE DEF all
    <2>8. result.ok <=> Sound(a, d)
      BY <2>3, <2>5, <2>6, <2>7
    <2>9. p \notin a
      BY <1>3 DEF p
    <2>10. result.ok => result.definitions = PromisedBy(From(d)) /\ result.inputs \cap a = {}
      BY <2>3, <2>5, <2>6, <2>9
    <2> QED  BY <2>5, <2>8, <2>10 DEF FoundRight, result
  <1> QED  BY <1>2, <1>3

LEMMA LocalsRight ==
  ASSUME WorldOK, NEW f, Finds(f, world.env, world.projects),
         NEW a \in SUBSET Projects, NEW d \in LocalsOf(world.projects)
  PROVE  FoundRight(f[a][d], a, d)
  <1> DEFINE Right(b) == \A e \in LocalsOf(world.projects) : FoundRight(f[b][e], b, e)
             Wrong == {n \in Nat : \E b \in SUBSET Projects : Leaves(world.projects, b) = n /\ ~Right(b)}
  <1>1. ASSUME NEW b \in SUBSET Projects
        PROVE  /\ Leaves(world.projects, b) \in Nat
               /\ \A p \in Projects \ b : /\ b \cup {p} \in SUBSET Projects
                                          /\ Leaves(world.projects, b \cup {p}) = Leaves(world.projects, b) - 1
    BY WorldIs, FewerLeft DEF Projects
  <1>2. SUFFICES ASSUME ~Right(a) PROVE FALSE
    OBVIOUS
  <1> HIDE DEF Right
  <1>3. Wrong \in SUBSET Nat /\ Wrong # {}
    BY <1>1, <1>2
  <1>4. PICK n \in Wrong : \A m \in Wrong : n <= m
    <2> HIDE DEF Wrong
    <2> QED  BY <1>3, LeastNumber
  <1>5. PICK b \in SUBSET Projects : Leaves(world.projects, b) = n /\ ~Right(b)
    BY <1>4
  <1>6. \A p \in Projects \ b : Right(b \cup {p})
    <2> SUFFICES ASSUME NEW p \in Projects \ b
                 PROVE  Right(b \cup {p})
      OBVIOUS
    <2>1. /\ b \cup {p} \in SUBSET Projects /\ Leaves(world.projects, b \cup {p}) \in Nat
          /\ Leaves(world.projects, b \cup {p}) = n - 1 /\ n \in Nat
      BY <1>1, <1>5
    <2>2. Leaves(world.projects, b \cup {p}) \notin Wrong
      <3> HIDE DEF Wrong
      <3> QED  BY <1>4, <2>1
    <2> QED  BY <2>1, <2>2
  <1>7. Right(b)
    <2>1. ASSUME NEW e \in LocalsOf(world.projects)
          PROVE  FoundRight(f[b][e], b, e)
      <3>1. e.to \in Projects \ b =>
              \A x \in LocalsOf(world.projects) : FoundRight(f[b \cup {e.to}][x], b \cup {e.to}, x)
        BY <1>6 DEF Right
      <3> QED  BY <1>5, <3>1, RightAbove
    <2> QED  BY <2>1 DEF Right
  <1> QED  BY <1>5, <1>7

Found == FindDependencies(world.env, world.projects, world.root, world.overrides)

\* What writeVariables finds is what is promised, if the project can be built.
LEMMA DependenciesFound ==
  ASSUME WorldOK
  PROVE  /\ Found.ok <=> Buildable /\ Consistent(Promised)
         /\ Found.ok => Found.definitions = Promised /\ world.root \notin Found.inputs
  <1> DEFINE root == world.root
             own == [Nothing EXCEPT !.definitions =
                       Definitions(root, world.projects[root].flags, world.overrides)]
             all == own.definitions \cup PromisedBy(Reached)
  <1>1. IsFiniteSet(Projects) /\ root \in Projects /\ OneOfAName(world.projects[root].flags)
    BY WorldIs
  <1>2. PICK f : /\ Finds(f, world.env, world.projects)
                 /\ FindLocals(world.env, world.projects, root) = f[{root}]
    <2>1. IsFiniteSet(DOMAIN world.projects) /\ root \in DOMAIN world.projects
      BY <1>1 DEF Projects
    <2> QED  BY <2>1, FindIs
  <1>3. Found = WithDependencies(world.env, root, world.projects[root].dependencies, own, f[{root}])
    BY <1>2 DEF Found, FindDependencies
  <1>4. /\ own.ok = TRUE /\ own.inputs = {}
        /\ own.definitions = Definitions(root, world.projects[root].flags, world.overrides)
    BY DEF Nothing
  <1> HIDE DEF own
  <1>5. Consistent(own.definitions)
    BY <1>1, <1>4, DefinitionsConsistent
  <1>6. BelowRight(f[{root}], {root}, root)
    <2>1. {root} \in SUBSET Projects
      BY <1>1
    <2> QED  BY <1>2, <2>1, LocalsAreLocal, LocalsRight DEF BelowRight
  <1>7. /\ Found.ok \in BOOLEAN
        /\ Found.ok <=> /\ Consistent(all)
                        /\ \A d \in DependenciesOf(root) \ Locals(root) : FindForeign(world.env, root, d).ok
                        /\ \A d \in Locals(root) : Sound({root}, d)
        /\ Found.ok => Found.definitions = all /\ root \notin Found.inputs
    <2>1. own.ok \in BOOLEAN
      BY <1>4
    <2>2. ProjectRight(Found, root, own, {root})
      BY <1>1, <1>3, <1>5, <1>6, <2>1, ProjectFinds
    <2> QED  BY <1>4, <2>2 DEF ProjectRight, Reached
  <1>8. Reached = UNION {From(d) : d \in Locals(root)}
    BY ReachedParts DEF Reached
  <1>9. (\A d \in Reached : d.to \in Projects) => all = Promised
    BY <1>4 DEF Promised, PromisedBy, Manifest, Projects
  <1> HIDE DEF all
  <1>10. ASSUME Found.ok PROVE Buildable /\ Consistent(Promised)
    <2>1. \A d \in Reached : /\ d.to \in Projects \ {root}
                             /\ Resolvable(world.projects[d.to].flags, d.using)
                             /\ FitsAlone(d.to)
      BY <1>7, <1>8, <1>10 DEF Sound
    <2>2. FitsAlone(root)
      BY <1>7, <1>10, <2>1 DEF FitsAlone, Reached
    <2>3. Buildable
      BY <2>1, <2>2 DEF Buildable, FitsAlone, ProjectsReached
    <2> QED  BY <1>7, <1>9, <1>10, <2>1, <2>3
  <1>11. ASSUME Buildable, Consistent(Promised) PROVE Found.ok
    <2>1. /\ \A d \in Reached : d.to \in Projects /\ Resolvable(world.projects[d.to].flags, d.using)
          /\ FitsAlone(root) /\ \A d \in Reached : FitsAlone(d.to)
      BY <1>11 DEF Buildable, FitsAlone, ProjectsReached
    <2>2. Consistent(all)
      BY <1>9, <1>11, <2>1
    <2>3. ASSUME NEW d \in Locals(root) PROVE Sound({root}, d)
      <3>1. From(d) \subseteq Reached
        BY <1>8
      <3>2. \A e \in From(d) : e.to # root
        BY <2>1, <3>1 DEF FitsAlone, Reached
      <3>3. PromisedBy(From(d)) \subseteq all
        BY <3>1 DEF PromisedBy, all
      <3>4. Consistent(PromisedBy(From(d)))
        BY <2>2, <3>3, ConsistentParts
      <3> QED  BY <2>1, <3>1, <3>2, <3>4 DEF Sound
    <2>4. \A d \in DependenciesOf(root) \ Locals(root) : FindForeign(world.env, root, d).ok
      BY <2>1 DEF FitsAlone
    <2> QED  BY <1>7, <2>2, <2>3, <2>4
  <1>12. Found.ok => \A d \in Reached : d.to \in Projects
    BY <1>7, <1>8 DEF Sound
  <1> QED  BY <1>7, <1>9, <1>10, <1>11, <1>12

FoundOK ==
  /\ pc = "scan" => found = Found /\ Found.ok
  /\ failure = "variables" => ~Found.ok

FoundInv == WorldOK /\ FoundOK

LEMMA FoundInit == Init => FoundInv
  <1> SUFFICES ASSUME Init PROVE FoundInv
    OBVIOUS
  <1>1. pc = "features" /\ failure = ""
    BY DEF Init, GenerateIn
  <1> QED  BY <1>1, WorldInit DEF FoundInv, FoundOK

LEMMA FoundStep == FoundInv /\ [Next]_vars => FoundInv'
  <1> SUFFICES ASSUME FoundInv, [Next]_vars
               PROVE  FoundOK'
    BY WorldStep DEF FoundInv
  <1>1. Found' = Found
    <2>1. world' = world
      BY DEF Next, vars, ResolveFeatureFlags, BuildSourceSet, WriteVariables, SkipScan, EndScan,
             WriteEdges, BuildEnds, ScanUnit, Touch, Build
    <2> QED  BY <2>1 DEF Found
  <1>2. CASE WriteVariables
    <2>1. found' = Found /\ IF found'.ok THEN pc' = "scan" /\ failure' = failure
                            ELSE pc' = "failed" /\ failure' = "variables"
      BY <1>2 DEF WriteVariables, Found, Continue, Fail
    <2> HIDE DEF Found
    <2>2. failure = "variables" => ~Found.ok
      BY DEF FoundInv, FoundOK
    <2> QED  BY <1>1, <2>1, <2>2 DEF FoundOK
  <1>3. CASE \E u \in sources : ScanUnit(u)
    <2>1. pc = "scan" /\ found' = found /\ failure' \in {failure, "scan"}
      BY <1>3 DEF ScanUnit, Fail
    <2> HIDE DEF Found
    <2> QED  BY <1>1, <2>1 DEF FoundInv, FoundOK
  <1>4. CASE UNCHANGED vars
    <2>1. pc' = pc /\ found' = found /\ failure' = failure
      BY <1>4 DEF vars
    <2> HIDE DEF Found
    <2> QED  BY <1>1, <2>1 DEF FoundInv, FoundOK
  <1>5. CASE \/ ResolveFeatureFlags \/ BuildSourceSet \/ SkipScan \/ EndScan \/ WriteEdges \/ BuildEnds
             \/ \E f : Touch(f)
             \/ \E e \in edges : Build(e)
    <2>1. pc' # "scan" /\ failure' \in {failure, "features", "sources", "scan", "build", "cycle"}
      BY <1>5 DEF ResolveFeatureFlags, BuildSourceSet, SkipScan, EndScan, WriteEdges, BuildEnds,
                  Touch, Build, Fail, Continue
    <2> HIDE DEF Found
    <2> QED  BY <1>1, <2>1 DEF FoundInv, FoundOK
  <1> QED  BY <1>2, <1>3, <1>4, <1>5 DEF Next

\* A project is compiled with the definitions that it and the local projects it
\* reaches promise, and is refused for the listed reasons and no other
\* (writeVariables, findDep and what they call).
THEOREM DefinitionsAsPromised == Spec => []DefinitionsExact
  <1>1. FoundInv => DefinitionsExact
    <2> HIDE DEF Found
    <2> QED  BY DependenciesFound DEF FoundInv, FoundOK, DefinitionsExact, VariablesWritten
  <1> QED  BY <1>1, FoundInit, FoundStep, PTL DEF Spec

\* What is built is no input of itself: a project that is reached from itself is
\* refused, however long the cycle is.
THEOREM NoInputOfItself == Spec => []NotOwnInput
  <1>1. FoundInv => NotOwnInput
    <2> HIDE DEF Found
    <2> QED  BY DependenciesFound DEF FoundInv, FoundOK, NotOwnInput, VariablesWritten
  <1> QED  BY <1>1, FoundInit, FoundStep, PTL DEF Spec

(***************************************************************************)
(* The order of libraries.  What FlattenSeq and the visit of ports give are*)
(* lists; what a visit finds is in the order of what is needed, cycles     *)
(* excepted; lists that are in order stay so when they are joined; hence   *)
(* what each local dependency gives is in order, and what a project links. *)
(***************************************************************************)

(***************************************************************************)
(* Lists.                                                                  *)
(***************************************************************************)

\* What is in a list after a position.
After(s, i) == {s[j] : j \in (i + 1) .. Len(s)}

\* Positions of a list, and what is after one of them.
LEMMA ListIs ==
  ASSUME NEW s, IsList(s)
  PROVE  /\ Len(s) \in Nat /\ DOMAIN s = 1 .. Len(s)
         /\ ToSet(s) = After(s, 0)
         /\ \A i \in Nat : After(s, i) \subseteq ToSet(s)
         /\ \A i \in 1 .. Len(s) : s[i] \in ToSet(s)
  <1>1. s \in Seq(ToSet(s))
    BY DEF IsList
  <1>2. Len(s) \in Nat /\ DOMAIN s = 1 .. Len(s)
    BY <1>1
  <1>3. ToSet(s) = After(s, 0)
    BY <1>2 DEF ToSet, After
  <1>4. \A i \in Nat : After(s, i) \subseteq ToSet(s)
    BY <1>2 DEF ToSet, After
  <1>5. \A i \in 1 .. Len(s) : s[i] \in ToSet(s)
    BY <1>2 DEF ToSet
  <1> QED  BY <1>2, <1>3, <1>4, <1>5

\* A sequence of anything is a list.
LEMMA AList ==
  ASSUME NEW S, NEW s \in Seq(S)
  PROVE  IsList(s) /\ ToSet(s) \subseteq S
  <1>1. Len(s) \in Nat /\ s \in [1 .. Len(s) -> S] /\ DOMAIN s = 1 .. Len(s)
    BY LenProperties
  <1>2. s \in [1 .. Len(s) -> ToSet(s)]
    BY <1>1 DEF ToSet
  <1>3. s \in Seq(ToSet(s))
    BY <1>1, <1>2, SeqDef
  <1> QED  BY <1>1, <1>3 DEF IsList, ToSet

\* A list is a sequence over each set that has what is in it.
LEMMA ListIn ==
  ASSUME NEW S, NEW s, IsList(s), ToSet(s) \subseteq S
  PROVE  s \in Seq(S)
  BY SeqMonotonic DEF IsList

\* The empty list, and those of one element.
LEMMA ListOfNone ==
  /\ IsList(<<>>) /\ Len(<<>>) = 0 /\ ToSet(<<>>) = {}
  /\ \A x : IsList(<<x>>) /\ Len(<<x>>) = 1 /\ ToSet(<<x>>) = {x}
  <1>1. <<>> \in Seq({}) /\ Len(<<>>) = 0
    BY EmptySeq
  <1>2. IsList(<<>>) /\ ToSet(<<>>) = {}
    <2>1. ToSet(<<>>) = {}
      BY DEF ToSet
    <2> QED  BY <1>1, <2>1 DEF IsList
  <1>3. ASSUME NEW x PROVE IsList(<<x>>) /\ Len(<<x>>) = 1 /\ ToSet(<<x>>) = {x}
    <2>1. <<x>> \in Seq({x}) /\ Len(<<x>>) = 1 /\ <<x>>[1] = x /\ DOMAIN <<x>> = {1}
      OBVIOUS
    <2>2. ToSet(<<x>>) = {x}
      BY <2>1 DEF ToSet
    <2> QED  BY <2>1, <2>2, AList
  <1> QED  BY <1>1, <1>2, <1>3

\* One list after another.
LEMMA ListsJoin ==
  ASSUME NEW s, NEW t, IsList(s), IsList(t)
  PROVE  /\ IsList(s \o t) /\ Len(s \o t) = Len(s) + Len(t)
         /\ ToSet(s \o t) = ToSet(s) \cup ToSet(t)
         /\ \A i \in 1 .. Len(s) :
              (s \o t)[i] = s[i] /\ After(s \o t, i) = After(s, i) \cup ToSet(t)
         /\ \A i \in 1 .. Len(t) :
              (s \o t)[Len(s) + i] = t[i] /\ After(s \o t, Len(s) + i) = After(t, i)
  <1> DEFINE S == ToSet(s) \cup ToSet(t)
             u == s \o t
             m == Len(s)
             n == Len(t)
  <1>1. s \in Seq(S) /\ t \in Seq(S) /\ m \in Nat /\ n \in Nat
    BY ListIn, ListIs
  <1> HIDE DEF S
  <1>2. /\ u \in Seq(S) /\ Len(u) = m + n
        /\ \A i \in 1 .. m + n : u[i] = IF i <= m THEN s[i] ELSE t[i - m]
    BY <1>1, ConcatProperties
  <1>3. IsList(u)
    BY <1>2, AList
  <1> HIDE DEF u, m, n
  <1>4. \A i \in 1 .. m : u[i] = s[i]
    BY <1>1, <1>2
  <1>5. \A i \in 1 .. n : u[m + i] = t[i]
    BY <1>1, <1>2
  <1>6. \A i \in 0 .. m : After(u, i) = After(s, i) \cup ToSet(t)
    <2> SUFFICES ASSUME NEW i \in 0 .. m PROVE After(u, i) = After(s, i) \cup ToSet(t)
      OBVIOUS
    <2>1. ToSet(t) = {t[j] : j \in 1 .. n}
      BY ListIs DEF ToSet, n
    <2>2. After(u, i) = {u[j] : j \in (i + 1) .. (m + n)} /\ After(s, i) = {s[j] : j \in (i + 1) .. m}
      BY <1>2 DEF After, m
    <2>3. ASSUME NEW j \in (i + 1) .. (m + n) PROVE u[j] \in After(s, i) \cup ToSet(t)
      <3>1. CASE j <= m
        <4>1. j \in 1 .. m /\ j \in (i + 1) .. m
          BY <1>1, <2>3, <3>1
        <4> QED  BY <1>4, <2>2, <4>1
      <3>2. CASE j > m
        <4>1. j - m \in 1 .. n /\ j = m + (j - m)
          BY <1>1, <2>3, <3>2
        <4> QED  BY <1>5, <2>1, <4>1
      <3> QED  BY <1>1, <2>3, <3>1, <3>2
    <2>4. ASSUME NEW j \in (i + 1) .. m PROVE s[j] \in After(u, i)
      <3>1. j \in 1 .. m /\ j \in (i + 1) .. (m + n)
        BY <1>1, <2>4
      <3> QED  BY <1>4, <2>2, <3>1
    <2>5. ASSUME NEW j \in 1 .. n PROVE t[j] \in After(u, i)
      <3>1. m + j \in (i + 1) .. (m + n)
        BY <1>1, <2>5
      <3> QED  BY <1>5, <2>2, <3>1
    <2> QED  BY <2>1, <2>2, <2>3, <2>4, <2>5
  <1>7. ToSet(u) = ToSet(s) \cup ToSet(t)
    <2>1. ToSet(u) = After(u, 0) /\ ToSet(s) = After(s, 0) /\ 0 \in 0 .. m
      BY <1>1, <1>3, ListIs
    <2> QED  BY <1>6, <2>1
  <1>8. \A i \in 1 .. n : After(u, m + i) = After(t, i)
    <2> SUFFICES ASSUME NEW i \in 1 .. n PROVE After(u, m + i) = After(t, i)
      OBVIOUS
    <2>1. After(u, m + i) = {u[j] : j \in (m + i + 1) .. (m + n)} /\ After(t, i) = {t[j] : j \in (i + 1) .. n}
      BY <1>2 DEF After, n
    <2>2. ASSUME NEW j \in (m + i + 1) .. (m + n) PROVE u[j] \in After(t, i)
      <3>1. j - m \in (i + 1) .. n /\ j - m \in 1 .. n /\ j = m + (j - m)
        BY <1>1, <2>2
      <3> QED  BY <1>5, <2>1, <3>1
    <2>3. ASSUME NEW j \in (i + 1) .. n PROVE t[j] \in After(u, m + i)
      <3>1. m + j \in (m + i + 1) .. (m + n) /\ j \in 1 .. n
        BY <1>1, <2>3
      <3> QED  BY <1>5, <2>1, <3>1
    <2> QED  BY <2>1, <2>2, <2>3
  <1>9. \A i \in 1 .. m : i \in 0 .. m
    OBVIOUS
  <1>a. /\ IsList(u) /\ Len(u) = m + n /\ ToSet(u) = ToSet(s) \cup ToSet(t)
        /\ \A i \in 1 .. m : u[i] = s[i] /\ After(u, i) = After(s, i) \cup ToSet(t)
        /\ \A i \in 1 .. n : u[m + i] = t[i] /\ After(u, m + i) = After(t, i)
    BY <1>2, <1>3, <1>4, <1>5, <1>6, <1>7, <1>8, <1>9
  <1> QED  BY <1>a DEF u, m, n

(***************************************************************************)
(* Lists of lists.                                                         *)
(***************************************************************************)

\* f has what the first lists give, up to n of them.
Flattens(f, n, lists) ==
  f = [i \in 1 .. n |-> IF i = 1 THEN lists[i] ELSE f[i - 1] \o lists[i]]

\* One more list.
LEMMA FlattenedMore ==
  ASSUME NEW lists, NEW n \in Nat, NEW f, Flattens(f, n, lists)
  PROVE  \E g : Flattens(g, n + 1, lists)
  <1> DEFINE next == IF n + 1 = 1 THEN lists[n + 1] ELSE f[n] \o lists[n + 1]
             g == [i \in 1 .. n + 1 |-> IF i = n + 1 THEN next ELSE f[i]]
             h == [i \in 1 .. n + 1 |-> IF i = 1 THEN lists[i] ELSE g[i - 1] \o lists[i]]
  <1> HIDE DEF next
  <1>1. ASSUME NEW i \in 1 .. n + 1 PROVE g[i] = h[i]
    <2>1. CASE i \in 1 .. n
      <3>1. g[i] = f[i] /\ (i # 1 => g[i - 1] = f[i - 1])
        BY <2>1
      <3>2. f[i] = IF i = 1 THEN lists[i] ELSE f[i - 1] \o lists[i]
        BY <2>1 DEF Flattens
      <3> QED  BY <3>1, <3>2
    <2>2. CASE i = n + 1
      <3>1. g[i] = next /\ (i # 1 => g[i - 1] = f[n])
        BY <2>2
      <3> QED  BY <2>2, <3>1 DEF next
    <2> QED  BY <2>1, <2>2
  <1>2. g = h
    BY <1>1
  <1> HIDE DEF g
  <1> QED  BY <1>2 DEF Flattens

\* Any number of lists can be put together.
LEMMA FlattenedAll ==
  ASSUME NEW lists, NEW n \in Nat
  PROVE  \E f : Flattens(f, n, lists)
  <1> DEFINE Without == {m \in Nat : ~\E f : Flattens(f, m, lists)}
  <1>1. SUFFICES ASSUME Without # {} PROVE FALSE
    OBVIOUS
  <1>2. PICK m \in Without : \A k \in Without : m <= k
    <2>1. Without \in SUBSET Nat
      OBVIOUS
    <2> HIDE DEF Without
    <2> QED  BY <1>1, <2>1, LeastNumber
  <1>3. m # 0
    <2> DEFINE f == [i \in 1 .. 0 |-> {}]
    <2>1. f = [i \in 1 .. 0 |-> IF i = 1 THEN lists[i] ELSE f[i - 1] \o lists[i]]
      OBVIOUS
    <2> HIDE DEF f
    <2>2. \E g : Flattens(g, 0, lists)
      BY <2>1 DEF Flattens
    <2> QED  BY <2>2
  <1>4. m - 1 \in Nat /\ m - 1 \notin Without /\ m - 1 + 1 = m
    BY <1>2, <1>3
  <1>5. PICK f : Flattens(f, m - 1, lists)
    BY <1>4
  <1>6. \E g : Flattens(g, m - 1 + 1, lists)
    BY <1>4, <1>5, FlattenedMore
  <1> QED  BY <1>4, <1>6

\* What FlattenSeq gives is one of these.
LEMMA FlattenIs ==
  ASSUME NEW lists, IsList(lists), Len(lists) # 0
  PROVE  \E f : Flattens(f, Len(lists), lists) /\ FlattenSeq(lists) = f[Len(lists)]
  <1> DEFINE flatten == CHOOSE f : Flattens(f, Len(lists), lists)
  <1>1. Flattens(flatten, Len(lists), lists)
    BY ListIs, FlattenedAll
  <1>2. FlattenSeq(lists) = flatten[Len(lists)]
    BY DEF FlattenSeq, Flattens
  <1> QED  BY <1>1, <1>2

\* s is a list of what the first n lists have; for each position there is a list all
\* of whose followers are to the right.
FlatRight(s, n, lists) ==
  /\ IsList(s)
  /\ ToSet(s) = UNION {ToSet(lists[j]) : j \in 1 .. n}
  /\ \A k \in 1 .. Len(s) : \E i \in 1 .. n :
       /\ s[k] \in ToSet(lists[i])
       /\ \A j \in (i + 1) .. n : ToSet(lists[j]) \subseteq After(s, k)

\* One more list leaves what is right to be right.
LEMMA FlatMore ==
  ASSUME NEW lists, NEW n \in Nat, NEW s, FlatRight(s, n, lists), IsList(lists[n + 1])
  PROVE  FlatRight(s \o lists[n + 1], n + 1, lists)
  <1> DEFINE t == lists[n + 1]
             u == s \o t
  <1>1. IsList(s) /\ IsList(t)
    BY DEF FlatRight
  <1> HIDE DEF t
  <1>2. /\ IsList(u) /\ Len(u) = Len(s) + Len(t) /\ ToSet(u) = ToSet(s) \cup ToSet(t)
        /\ \A i \in 1 .. Len(s) : u[i] = s[i] /\ After(u, i) = After(s, i) \cup ToSet(t)
        /\ \A i \in 1 .. Len(t) : u[Len(s) + i] = t[i]
        /\ Len(s) \in Nat /\ Len(t) \in Nat
        /\ \A i \in 1 .. Len(t) : t[i] \in ToSet(t)
    BY <1>1, ListsJoin, ListIs
  <1> HIDE DEF u
  <1>3. ToSet(u) = UNION {ToSet(lists[j]) : j \in 1 .. n + 1}
    <2>1. 1 .. n + 1 = (1 .. n) \cup {n + 1}
      OBVIOUS
    <2> QED  BY <1>2, <2>1 DEF FlatRight, t
  <1>4. ASSUME NEW k \in 1 .. Len(u)
        PROVE  \E i \in 1 .. n + 1 :
                 /\ u[k] \in ToSet(lists[i])
                 /\ \A j \in (i + 1) .. n + 1 : ToSet(lists[j]) \subseteq After(u, k)
    <2>1. CASE k \in 1 .. Len(s)
      <3>1. PICK i \in 1 .. n : /\ s[k] \in ToSet(lists[i])
                                /\ \A j \in (i + 1) .. n : ToSet(lists[j]) \subseteq After(s, k)
        BY <2>1 DEF FlatRight
      <3>2. u[k] = s[k] /\ After(u, k) = After(s, k) \cup ToSet(t)
        BY <1>2, <2>1
      <3>3. \A j \in (i + 1) .. n + 1 : j \in (i + 1) .. n \/ j = n + 1
        OBVIOUS
      <3>4. \A j \in (i + 1) .. n + 1 : ToSet(lists[j]) \subseteq After(u, k)
        BY <3>1, <3>2, <3>3 DEF t
      <3>5. i \in 1 .. n + 1
        OBVIOUS
      <3> QED  BY <3>1, <3>2, <3>4, <3>5
    <2>2. CASE k \notin 1 .. Len(s)
      <3>1. k - Len(s) \in 1 .. Len(t) /\ Len(s) + (k - Len(s)) = k
        BY <1>2, <2>2
      <3>2. u[k] = t[k - Len(s)] /\ t[k - Len(s)] \in ToSet(t)
        BY <1>2, <3>1
      <3>3. n + 1 \in 1 .. n + 1 /\ ((n + 1) + 1) .. n + 1 = {}
        OBVIOUS
      <3> QED  BY <3>2, <3>3 DEF t
    <2> QED  BY <2>1, <2>2
  <1> QED  BY <1>2, <1>3, <1>4 DEF FlatRight, u, t

\* What FlattenSeq gives is right.
LEMMA FlattenRight ==
  ASSUME NEW lists, IsList(lists), \A i \in 1 .. Len(lists) : IsList(lists[i])
  PROVE  FlatRight(FlattenSeq(lists), Len(lists), lists)
  <1>1. Len(lists) \in Nat
    BY ListIs
  <1>2. FlatRight(<<>>, 0, lists)
    <2>1. IsList(<<>>) /\ Len(<<>>) = 0 /\ ToSet(<<>>) = {}
      BY ListOfNone
    <2> QED  BY <2>1 DEF FlatRight
  <1>3. CASE Len(lists) = 0
    <2>1. lists = <<>>
      BY <1>3 DEF IsList
    <2>2. FlattenSeq(lists) = <<>>
      BY <1>3, <2>1 DEF FlattenSeq
    <2> QED  BY <1>2, <1>3, <2>2
  <1>4. CASE Len(lists) # 0
    <2>1. PICK f : Flattens(f, Len(lists), lists) /\ FlattenSeq(lists) = f[Len(lists)]
      BY <1>4, FlattenIs
    <2> DEFINE Wrong == {n \in 1 .. Len(lists) : ~FlatRight(f[n], n, lists)}
    <2>2. SUFFICES ASSUME Wrong # {} PROVE FALSE
      BY <1>1, <1>4, <2>1
    <2>3. PICK n \in Wrong : \A m \in Wrong : n <= m
      <3>1. Wrong \in SUBSET Nat
        OBVIOUS
      <3> HIDE DEF Wrong
      <3> QED  BY <2>2, <3>1, LeastNumber
    <2>4. f[n] = IF n = 1 THEN lists[n] ELSE f[n - 1] \o lists[n]
      BY <2>1 DEF Flattens
    <2>5. CASE n = 1
      <3>1. 0 \in Nat /\ 0 + 1 = 1 /\ IsList(lists[1])
        BY <1>1, <1>4
      <3>2. FlatRight(<<>> \o lists[1], 1, lists)
        <4> DEFINE z == 0
        <4>1. z \in Nat /\ z + 1 = 1 /\ FlatRight(<<>>, z, lists)
          BY <1>2
        <4> HIDE DEF z
        <4>2. FlatRight(<<>> \o lists[z + 1], z + 1, lists)
          BY <3>1, <4>1, FlatMore
        <4> QED  BY <4>1, <4>2
      <3>3. <<>> \o lists[1] = lists[1]
        BY <3>1, ConcatEmptySeq DEF IsList
      <3> QED  BY <2>3, <2>4, <2>5, <3>2, <3>3
    <2>6. CASE n # 1
      <3>1. n - 1 \in Nat /\ n - 1 \in 1 .. Len(lists) /\ n - 1 \notin Wrong /\ n - 1 + 1 = n
        BY <2>3, <2>6
      <3>2. FlatRight(f[n - 1], n - 1, lists)
        BY <3>1
      <3>3. FlatRight(f[n - 1] \o lists[n - 1 + 1], n - 1 + 1, lists)
        BY <3>1, <3>2, FlatMore
      <3> QED  BY <2>3, <2>4, <2>6, <3>1, <3>3
    <2> QED  BY <2>5, <2>6
  <1> QED  BY <1>3, <1>4

\* A function of the first n numbers is a list.
LEMMA FunctionIsList ==
  ASSUME NEW n \in Nat, NEW f, DOMAIN f = 1 .. n, f = [i \in DOMAIN f |-> f[i]]
  PROVE  IsList(f) /\ Len(f) = n
  <1>1. f \in [1 .. n -> {f[i] : i \in 1 .. n}]
    OBVIOUS
  <1>2. f \in Seq({f[i] : i \in 1 .. n}) /\ Len(f) = n
    BY <1>1, SeqDef
  <1> QED  BY <1>2, AList

\* A list of lists that are given one by one.
LEMMA FlattenEach ==
  ASSUME NEW n \in Nat, NEW lists, DOMAIN lists = 1 .. n, lists = [i \in DOMAIN lists |-> lists[i]],
         \A i \in 1 .. n : IsList(lists[i])
  PROVE  /\ FlatRight(FlattenSeq(lists), n, lists)
         /\ IsList(FlattenSeq(lists))
         /\ ToSet(FlattenSeq(lists)) = UNION {ToSet(lists[i]) : i \in 1 .. n}
  <1>1. IsList(lists) /\ Len(lists) = n
    BY FunctionIsList
  <1> QED  BY <1>1, FlattenRight DEF FlatRight

\* Flags.
LEMMA FlagsAreLists ==
  ASSUME NEW tokens, IsList(tokens)
  PROVE  IsList(LinkFlags(tokens)) /\ IsList(AnsweredLibs(tokens))
  <1> DEFINE linked == [i \in DOMAIN tokens |->
                          IF tokens[i].flag \in {"-I", "-L"} THEN <<>> ELSE <<tokens[i].name>>]
             answered == [i \in DOMAIN tokens |->
                            IF tokens[i].flag = "-L" THEN <<>> ELSE <<tokens[i].name>>]
  <1>1. Len(tokens) \in Nat /\ DOMAIN tokens = 1 .. Len(tokens)
    BY ListIs
  <1>2. /\ \A i \in 1 .. Len(tokens) : IsList(linked[i]) /\ IsList(answered[i])
        /\ DOMAIN linked = 1 .. Len(tokens) /\ linked = [i \in DOMAIN linked |-> linked[i]]
        /\ DOMAIN answered = 1 .. Len(tokens) /\ answered = [i \in DOMAIN answered |-> answered[i]]
    BY <1>1, ListOfNone
  <1>3. LinkFlags(tokens) = FlattenSeq(linked) /\ AnsweredLibs(tokens) = FlattenSeq(answered)
    BY DEF LinkFlags, AnsweredLibs
  <1> HIDE DEF linked, answered
  <1> QED  BY <1>1, <1>2, <1>3, FlattenEach

\* Libraries that are found among the files of a port.
LEMMA ScannedAreLists ==
  ASSUME NEW tree, IsTree(tree), NEW port, NEW triplet
  PROVE  IsList(ScannedLibs(tree, port, triplet))
  <1> DEFINE files == PackageFiles(tree, port, triplet)
             names == [i \in DOMAIN files |->
                         IF files[i].dir = "lib" /\ files[i].library THEN <<files[i].name>> ELSE <<>>]
  <1>1. IsList(files)
    BY ListOfNone DEF PackageFiles, IsTree
  <1> HIDE DEF files
  <1>2. Len(files) \in Nat /\ DOMAIN files = 1 .. Len(files)
    BY <1>1, ListIs
  <1>3. /\ \A i \in 1 .. Len(files) : IsList(names[i])
        /\ DOMAIN names = 1 .. Len(files) /\ names = [i \in DOMAIN names |-> names[i]]
    BY <1>2, ListOfNone
  <1>4. ScannedLibs(tree, port, triplet) = FlattenSeq(names)
    BY DEF ScannedLibs, files
  <1> HIDE DEF names
  <1> QED  BY <1>2, <1>3, <1>4, FlattenEach

\* What the database says that a port depends on.
LEMMA DependsAreLists ==
  ASSUME NEW status, IsList(status), \A i \in DOMAIN status : IsList(status[i].depends),
         NEW port, NEW triplet
  PROVE  IsList(DependsOn(status, port, triplet))
  <1> DEFINE lists == [i \in DOMAIN status |->
                         IF /\ status[i].package = port /\ status[i].triplet = triplet
                            /\ status[i].installed
                         THEN status[i].depends ELSE <<>>]
             tokens == FlattenSeq(lists)
             names == [i \in DOMAIN tokens |->
                         IF \A j \in 1 .. (i - 1) : tokens[j][1] # tokens[i][1]
                         THEN <<tokens[i][1]>> ELSE <<>>]
  <1>1. Len(status) \in Nat /\ DOMAIN status = 1 .. Len(status)
    BY ListIs
  <1>2. /\ \A i \in 1 .. Len(status) : IsList(lists[i])
        /\ DOMAIN lists = 1 .. Len(status) /\ lists = [i \in DOMAIN lists |-> lists[i]]
    BY <1>1, ListOfNone
  <1>3. DependsOn(status, port, triplet) = FlattenSeq(names)
    BY DEF DependsOn
  <1>4. IsList(tokens)
    <2> HIDE DEF lists
    <2> QED  BY <1>1, <1>2, FlattenEach
  <1> HIDE DEF tokens
  <1>5. Len(tokens) \in Nat /\ DOMAIN tokens = 1 .. Len(tokens)
    BY <1>4, ListIs
  <1>6. /\ \A i \in 1 .. Len(tokens) : IsList(names[i])
        /\ DOMAIN names = 1 .. Len(tokens) /\ names = [i \in DOMAIN names |-> names[i]]
    BY <1>5, ListOfNone
  <1> HIDE DEF names
  <1> QED  BY <1>3, <1>5, <1>6, FlattenEach

LinkedPorts(tree, triplet) == {p \in {key[1] : key \in DOMAIN tree.files} : HasArtifacts(tree, p, triplet)}

\* What a port is linked with is among the ports that have artifacts.
LEMMA ChildrenAreLists ==
  ASSUME NEW tree, IsTree(tree), tree.status # NoValue, NEW port, NEW triplet
  PROVE  /\ IsList(LinkedChildren(tree, port, triplet))
         /\ ToSet(LinkedChildren(tree, port, triplet)) \subseteq LinkedPorts(tree, triplet)
  <1> DEFINE depends == DependsOn(tree.status, port, triplet)
             names == [i \in DOMAIN depends |->
                         IF HasArtifacts(tree, depends[i], triplet) THEN <<depends[i]>> ELSE <<>>]
  <1>1. IsList(depends)
    <2>1. IsList(tree.status) /\ \A i \in DOMAIN tree.status : IsList(tree.status[i].depends)
      BY DEF IsTree, IsAnswer
    <2> QED  BY <2>1, DependsAreLists
  <1>2. LinkedChildren(tree, port, triplet) = FlattenSeq(names)
    BY DEF LinkedChildren
  <1> HIDE DEF depends
  <1>3. Len(depends) \in Nat /\ DOMAIN depends = 1 .. Len(depends)
    BY <1>1, ListIs
  <1>4. /\ \A i \in 1 .. Len(depends) : IsList(names[i])
        /\ DOMAIN names = 1 .. Len(depends) /\ names = [i \in DOMAIN names |-> names[i]]
    BY <1>3, ListOfNone
  <1>5. \A p : HasArtifacts(tree, p, triplet) => p \in LinkedPorts(tree, triplet)
    <2> SUFFICES ASSUME NEW p, HasArtifacts(tree, p, triplet)
                 PROVE  p \in LinkedPorts(tree, triplet)
      OBVIOUS
    <2>1. <<p, triplet>> \in DOMAIN tree.files
      <3>1. SUFFICES ASSUME <<p, triplet>> \notin DOMAIN tree.files PROVE FALSE
        OBVIOUS
      <3>2. PackageFiles(tree, p, triplet) = <<>>
        BY <3>1 DEF PackageFiles
      <3> QED  BY <3>2 DEF HasArtifacts
    <2>2. <<p, triplet>>[1] = p
      OBVIOUS
    <2>3. p \in {key[1] : key \in DOMAIN tree.files}
      BY <2>1, <2>2
    <2> QED  BY <2>3 DEF LinkedPorts
  <1>6. \A i \in 1 .. Len(depends) : ToSet(names[i]) \subseteq LinkedPorts(tree, triplet)
    BY <1>3, <1>5, ListOfNone
  <1> HIDE DEF names
  <1>7. IsList(FlattenSeq(names)) /\ ToSet(FlattenSeq(names)) = UNION {ToSet(names[i]) : i \in 1 .. Len(depends)}
    BY <1>3, <1>4, FlattenEach
  <1> QED  BY <1>2, <1>6, <1>7

(***************************************************************************)
(* A visit of ports: that there is one.                                    *)
(***************************************************************************)

\* f has what the visits of the first children find, up to n of them.
VisitsEach(f, n, children, seen, visit) ==
  f = [i \in 0 .. n |-> IF i = 0 THEN <<>>
                        ELSE f[i - 1] \o visit[seen \cup ToSet(f[i - 1])][children[i]]]

\* One more child.
LEMMA VisitsEachMore ==
  ASSUME NEW children, NEW seen, NEW visit, NEW n \in Nat, NEW f,
         VisitsEach(f, n, children, seen, visit)
  PROVE  \E g : VisitsEach(g, n + 1, children, seen, visit)
  <1> DEFINE part(result, i) == result \o visit[seen \cup ToSet(result)][children[i]]
             g == [i \in 0 .. n + 1 |-> IF i = n + 1 THEN part(f[n], n + 1) ELSE f[i]]
             h == [i \in 0 .. n + 1 |-> IF i = 0 THEN <<>> ELSE part(g[i - 1], i)]
  <1> HIDE DEF part
  <1>1. f[0] = <<>> /\ \A i \in 1 .. n : f[i] = part(f[i - 1], i)
    <2>1. \A i \in 0 .. n : f[i] = IF i = 0 THEN <<>> ELSE part(f[i - 1], i)
      BY DEF VisitsEach, part
    <2> QED  BY <2>1
  <1>2. ASSUME NEW i \in 0 .. n + 1 PROVE g[i] = h[i]
    <2>1. CASE i = 0
      BY <1>1, <2>1
    <2>2. CASE i \in 1 .. n
      <3>1. g[i] = f[i] /\ g[i - 1] = f[i - 1] /\ i # 0
        BY <2>2
      <3> QED  BY <1>1, <2>2, <3>1
    <2>3. CASE i = n + 1
      <3>1. g[i] = part(f[n], n + 1) /\ g[i - 1] = f[n] /\ i # 0
        BY <2>3
      <3> QED  BY <2>3, <3>1
    <2> QED  BY <2>1, <2>2, <2>3
  <1>3. g = h
    BY <1>2
  <1> HIDE DEF g
  <1> QED  BY <1>3 DEF VisitsEach, part

\* Any number of children can be visited.
LEMMA VisitsEachAll ==
  ASSUME NEW children, NEW seen, NEW visit, NEW n \in Nat
  PROVE  \E f : VisitsEach(f, n, children, seen, visit)
  <1> DEFINE Without == {m \in Nat : ~\E f : VisitsEach(f, m, children, seen, visit)}
  <1>1. SUFFICES ASSUME Without # {} PROVE FALSE
    OBVIOUS
  <1>2. PICK m \in Without : \A k \in Without : m <= k
    <2>1. Without \in SUBSET Nat
      OBVIOUS
    <2> HIDE DEF Without
    <2> QED  BY <1>1, <2>1, LeastNumber
  <1>3. m # 0
    <2>1. VisitsEach([i \in 0 .. 0 |-> <<>>], 0, children, seen, visit)
      BY DEF VisitsEach
    <2>2. \E f : VisitsEach(f, 0, children, seen, visit)
      BY <2>1
    <2> QED  BY <2>2
  <1>4. m - 1 \in Nat /\ m - 1 \notin Without /\ m - 1 + 1 = m
    BY <1>2, <1>3
  <1>5. PICK f : VisitsEach(f, m - 1, children, seen, visit)
    BY <1>4
  <1>6. \E g : VisitsEach(g, m - 1 + 1, children, seen, visit)
    BY <1>4, <1>5, VisitsEachMore
  <1> QED  BY <1>4, <1>6

FoundByEach(f, children, seen, visit) ==
  /\ f[0] = <<>> /\ VisitEach(children, seen, visit) = f[Len(children)]
  /\ \A i \in 1 .. Len(children) : f[i] = f[i - 1] \o visit[seen \cup ToSet(f[i - 1])][children[i]]

\* VisitEach visits one child after another.
LEMMA VisitEachIs ==
  ASSUME NEW children, Len(children) \in Nat, NEW seen, NEW visit
  PROVE  \E f : FoundByEach(f, children, seen, visit)
  <1> DEFINE result == CHOOSE f : VisitsEach(f, Len(children), children, seen, visit)
  <1>1. VisitsEach(result, Len(children), children, seen, visit)
    BY VisitsEachAll
  <1>2. VisitEach(children, seen, visit) = result[Len(children)]
    BY DEF VisitEach, VisitsEach
  <1> DEFINE part(f, i) == f \o visit[seen \cup ToSet(f)][children[i]]
  <1> HIDE DEF result, part
  <1>3. \A i \in 0 .. Len(children) : result[i] = IF i = 0 THEN <<>> ELSE part(result[i - 1], i)
    BY <1>1 DEF VisitsEach, part
  <1>4. result[0] = <<>> /\ \A i \in 1 .. Len(children) : result[i] = part(result[i - 1], i)
    BY <1>3
  <1> QED  BY <1>2, <1>4 DEF FoundByEach, part

\* Lists of ports.
ListsIn(result, ports) == \A p \in ports : IsList(result[p]) /\ ToSet(result[p]) \subseteq ports

\* v and w give the same lists when seen has been visited, and more.
SameAbove(v, w, ports, seen) ==
  \A T \in SUBSET ports : seen \subseteq T => v[T] = w[T] /\ ListsIn(v[T], ports)

\* The visits below depend only on what visit gives when more has been seen.
LEMMA VisitEachSame ==
  ASSUME NEW ports, NEW seen \in SUBSET ports, NEW children, IsList(children),
         ToSet(children) \subseteq ports, NEW v, NEW w, SameAbove(v, w, ports, seen)
  PROVE  /\ VisitEach(children, seen, v) = VisitEach(children, seen, w)
         /\ IsList(VisitEach(children, seen, v))
         /\ ToSet(VisitEach(children, seen, v)) \subseteq ports
  <1>1. Len(children) \in Nat /\ \A i \in 1 .. Len(children) : children[i] \in ports
    BY ListIs
  <1>2. PICK f : FoundByEach(f, children, seen, v)
    BY <1>1, VisitEachIs
  <1>3. PICK g : FoundByEach(g, children, seen, w)
    BY <1>1, VisitEachIs
  <1> DEFINE Same(i) == f[i] = g[i] /\ IsList(f[i]) /\ ToSet(f[i]) \subseteq ports
             Other == {i \in 0 .. Len(children) : ~Same(i)}
  <1>4. Same(0)
    BY <1>2, <1>3, ListOfNone DEF FoundByEach
  <1>5. ASSUME NEW i \in 1 .. Len(children), Same(i - 1) PROVE Same(i)
    <2> DEFINE T == seen \cup ToSet(f[i - 1])
               more == v[T][children[i]]
    <2>1. T \in SUBSET ports /\ seen \subseteq T
      BY <1>5
    <2>2. v[T] = w[T] /\ IsList(more) /\ ToSet(more) \subseteq ports
      BY <1>1, <2>1 DEF SameAbove, ListsIn
    <2>3. f[i] = f[i - 1] \o more /\ g[i] = g[i - 1] \o w[T][children[i]]
      BY <1>2, <1>3, <1>5 DEF FoundByEach
    <2>4. IsList(f[i - 1] \o more) /\ ToSet(f[i - 1] \o more) = ToSet(f[i - 1]) \cup ToSet(more)
      <3> HIDE DEF more
      <3> QED  BY <1>5, <2>2, ListsJoin
    <2> QED  BY <1>5, <2>2, <2>3, <2>4
  <1>6. Same(Len(children))
    <2> HIDE DEF Same
    <2>1. SUFFICES ASSUME Other # {} PROVE FALSE
      BY <1>1
    <2>2. PICK i \in Other : \A m \in Other : i <= m
      <3>1. Other \in SUBSET Nat
        BY <1>1
      <3> HIDE DEF Other
      <3> QED  BY <2>1, <3>1, LeastNumber
    <2>3. i # 0
      BY <1>4
    <2>4. i \in 1 .. Len(children) /\ i - 1 \notin Other /\ i - 1 \in 0 .. Len(children)
      BY <2>2, <2>3
    <2> QED  BY <1>5, <2>4
  <1> QED  BY <1>2, <1>3, <1>6 DEF FoundByEach

\* What a visit finds when seen has been visited, v further below.
VisitFrom(tree, triplet, ports, v, seen) ==
  [p \in ports |->
     IF p \in seen THEN <<>>
     ELSE Append(VisitEach(LinkedChildren(tree, p, triplet), seen \cup {p}, v), p)]

Visits(v, tree, triplet, ports) ==
  v = [seen \in SUBSET ports |->
         [p \in ports |->
            IF p \in seen THEN <<>>
            ELSE Append(VisitEach(LinkedChildren(tree, p, triplet), seen \cup {p}, v), p)]]

\* The ports have all that is linked with them.
Closed(tree, triplet, ports) ==
  /\ IsFiniteSet(ports)
  /\ \A p \in ports : /\ IsList(LinkedChildren(tree, p, triplet))
                      /\ ToSet(LinkedChildren(tree, p, triplet)) \subseteq ports

Unseen(ports, seen) == Cardinality(ports \ seen)

\* v is right where fewer than n ports are to be seen.
VisitsBelow(v, n, tree, triplet, ports) ==
  \A seen \in SUBSET ports :
    Unseen(ports, seen) < n => /\ v[seen] = VisitFrom(tree, triplet, ports, v, seen)
                               /\ ListsIn(v[seen], ports)

\* Each port that is seen leaves one port less.
LEMMA FewerUnseen ==
  ASSUME NEW ports, IsFiniteSet(ports), NEW seen \in SUBSET ports
  PROVE  /\ Unseen(ports, seen) \in Nat
         /\ Unseen(ports, seen) <= Cardinality(ports) /\ Cardinality(ports) \in Nat
         /\ \A p \in ports \ seen, T \in SUBSET ports :
              seen \cup {p} \subseteq T => Unseen(ports, T) < Unseen(ports, seen)
  <1> DEFINE rest == ports \ seen
  <1>1. IsFiniteSet(rest) /\ Cardinality(rest) \in Nat /\ Cardinality(rest) <= Cardinality(ports)
        /\ Cardinality(ports) \in Nat
    <2>1. rest \subseteq ports
      OBVIOUS
    <2> HIDE DEF rest
    <2> QED  BY <2>1, FS_Subset, FS_CardinalityType
  <1>2. ASSUME NEW p \in ports \ seen, NEW T \in SUBSET ports, seen \cup {p} \subseteq T
        PROVE  Unseen(ports, T) < Unseen(ports, seen)
    <2>1. ports \ T \subseteq rest \ {p} /\ p \in rest
      BY <1>2
    <2>2. Cardinality(rest \ {p}) = Cardinality(rest) - 1 /\ IsFiniteSet(rest \ {p})
      <3> HIDE DEF rest
      <3> QED  BY <1>1, <2>1, FS_RemoveElement, FS_Subset
    <2>3. Cardinality(ports \ T) <= Cardinality(rest \ {p}) /\ Cardinality(ports \ T) \in Nat
      <3> HIDE DEF rest
      <3> QED  BY <2>1, <2>2, FS_Subset, FS_CardinalityType
    <2> QED  BY <1>1, <2>2, <2>3 DEF Unseen
  <1> QED  BY <1>1, <1>2 DEF Unseen

\* A list with one element more.
LEMMA Appended ==
  ASSUME NEW s, IsList(s), NEW x
  PROVE  Append(s, x) = s \o <<x>>
  <1> DEFINE S == ToSet(s) \cup {x}
  <1>1. s \in Seq(S) /\ x \in S
    BY ListIn
  <1> HIDE DEF S
  <1> QED  BY <1>1, AppendIsConcat

\* One more level.
LEMMA VisitFromSame ==
  ASSUME NEW tree, NEW triplet, NEW ports, Closed(tree, triplet, ports), NEW seen \in SUBSET ports,
         NEW v, NEW w,
         \A p \in ports \ seen : SameAbove(v, w, ports, seen \cup {p})
  PROVE  /\ VisitFrom(tree, triplet, ports, v, seen) = VisitFrom(tree, triplet, ports, w, seen)
         /\ ListsIn(VisitFrom(tree, triplet, ports, v, seen), ports)
  <1>1. ASSUME NEW p \in ports \ seen
        PROVE  LET s == VisitEach(LinkedChildren(tree, p, triplet), seen \cup {p}, v) IN
               /\ s = VisitEach(LinkedChildren(tree, p, triplet), seen \cup {p}, w)
               /\ IsList(Append(s, p)) /\ ToSet(Append(s, p)) \subseteq ports
    <2> DEFINE children == LinkedChildren(tree, p, triplet)
               s == VisitEach(children, seen \cup {p}, v)
    <2>1. IsList(children) /\ ToSet(children) \subseteq ports /\ seen \cup {p} \in SUBSET ports
      BY DEF Closed
    <2>2. s = VisitEach(children, seen \cup {p}, w) /\ IsList(s) /\ ToSet(s) \subseteq ports
      <3> DEFINE now == seen \cup {p}
      <3>1. SameAbove(v, w, ports, now)
        OBVIOUS
      <3>2. now \in SUBSET ports
        BY <2>1
      <3> HIDE DEF children, now
      <3>3. /\ VisitEach(children, now, v) = VisitEach(children, now, w)
            /\ IsList(VisitEach(children, now, v)) /\ ToSet(VisitEach(children, now, v)) \subseteq ports
        BY <2>1, <3>1, <3>2, VisitEachSame
      <3> QED  BY <3>3 DEF now
    <2> HIDE DEF s
    <2>3. IsList(Append(s, p)) /\ ToSet(Append(s, p)) = ToSet(s) \cup {p}
      <3>1. Append(s, p) = s \o <<p>> /\ IsList(<<p>>) /\ ToSet(<<p>>) = {p}
        BY <2>2, Appended, ListOfNone
      <3> DEFINE last == <<p>>
      <3>2. IsList(last) /\ ToSet(last) = {p} /\ Append(s, p) = s \o last
        BY <3>1
      <3> HIDE DEF last
      <3>3. IsList(s \o last) /\ ToSet(s \o last) = ToSet(s) \cup ToSet(last)
        BY <2>2, <3>2, ListsJoin
      <3> QED  BY <3>2, <3>3
    <2> QED  BY <2>2, <2>3 DEF s
  <1>2. ASSUME NEW p \in ports
        PROVE  /\ VisitFrom(tree, triplet, ports, v, seen)[p] = VisitFrom(tree, triplet, ports, w, seen)[p]
               /\ IsList(VisitFrom(tree, triplet, ports, v, seen)[p])
               /\ ToSet(VisitFrom(tree, triplet, ports, v, seen)[p]) \subseteq ports
    BY <1>1, ListOfNone DEF VisitFrom
  <1> QED  BY <1>2 DEF VisitFrom, ListsIn

\* Where one more port is to be seen.
LEMMA VisitsMore ==
  ASSUME NEW tree, NEW triplet, NEW ports, Closed(tree, triplet, ports), NEW n \in Nat, NEW v,
         VisitsBelow(v, n, tree, triplet, ports)
  PROVE  \E w : VisitsBelow(w, n + 1, tree, triplet, ports)
  <1> DEFINE w == [seen \in SUBSET ports |-> VisitFrom(tree, triplet, ports, v, seen)]
  <1>1. \A seen \in SUBSET ports : w[seen] = VisitFrom(tree, triplet, ports, v, seen)
    OBVIOUS
  <1> HIDE DEF w
  <1>2. ASSUME NEW seen \in SUBSET ports, Unseen(ports, seen) < n + 1
        PROVE  /\ w[seen] = VisitFrom(tree, triplet, ports, w, seen)
               /\ ListsIn(w[seen], ports)
    <2>a. ASSUME NEW p \in ports \ seen, NEW T \in SUBSET ports, seen \cup {p} \subseteq T
          PROVE  v[T] = w[T] /\ ListsIn(v[T], ports)
      <3>1. Unseen(ports, T) < n
        BY <1>2, <2>a, FewerUnseen DEF Closed
      <3> QED  BY <1>1, <3>1 DEF VisitsBelow
    <2>1. \A p \in ports \ seen : SameAbove(v, w, ports, seen \cup {p})
      BY <2>a DEF SameAbove
    <2>2. /\ VisitFrom(tree, triplet, ports, v, seen) = VisitFrom(tree, triplet, ports, w, seen)
          /\ ListsIn(VisitFrom(tree, triplet, ports, v, seen), ports)
      BY <2>1, VisitFromSame
    <2> QED  BY <1>1, <2>2
  <1>3. VisitsBelow(w, n + 1, tree, triplet, ports)
    BY <1>2 DEF VisitsBelow
  <1> QED  BY <1>3

\* Any number of ports.
LEMMA VisitsAllBelow ==
  ASSUME NEW tree, NEW triplet, NEW ports, Closed(tree, triplet, ports), NEW n \in Nat
  PROVE  \E v : VisitsBelow(v, n, tree, triplet, ports)
  <1> DEFINE Without == {m \in Nat : ~\E v : VisitsBelow(v, m, tree, triplet, ports)}
  <1>1. SUFFICES ASSUME Without # {} PROVE FALSE
    OBVIOUS
  <1>2. PICK m \in Without : \A k \in Without : m <= k
    <2>1. Without \in SUBSET Nat
      OBVIOUS
    <2> HIDE DEF Without
    <2> QED  BY <1>1, <2>1, LeastNumber
  <1>3. m # 0
    <2>1. \A seen \in SUBSET ports : ~(Unseen(ports, seen) < 0)
      BY FewerUnseen DEF Closed
    <2>2. VisitsBelow({}, 0, tree, triplet, ports)
      BY <2>1 DEF VisitsBelow
    <2>3. \E v : VisitsBelow(v, 0, tree, triplet, ports)
      BY <2>2
    <2> QED  BY <2>3
  <1>4. m - 1 \in Nat /\ m - 1 \notin Without /\ m - 1 + 1 = m
    BY <1>2, <1>3
  <1>5. PICK v : VisitsBelow(v, m - 1, tree, triplet, ports)
    BY <1>4
  <1>6. \E w : VisitsBelow(w, m - 1 + 1, tree, triplet, ports)
    BY <1>4, <1>5, VisitsMore
  <1> QED  BY <1>4, <1>6

\* A closed set of ports can be visited.
LEMMA VisitsExist ==
  ASSUME NEW tree, NEW triplet, NEW ports, Closed(tree, triplet, ports)
  PROVE  \E v : Visits(v, tree, triplet, ports)
  <1> DEFINE n == Cardinality(ports) + 1
  <1>1. n \in Nat /\ \A seen \in SUBSET ports : Unseen(ports, seen) < n
    BY FewerUnseen DEF Closed
  <1> HIDE DEF n
  <1>2. PICK v : VisitsBelow(v, n, tree, triplet, ports)
    BY <1>1, VisitsAllBelow
  <1> DEFINE w == [seen \in SUBSET ports |-> VisitFrom(tree, triplet, ports, v, seen)]
  <1>3. \A seen \in SUBSET ports : v[seen] = w[seen] /\ ListsIn(v[seen], ports)
    BY <1>1, <1>2 DEF VisitsBelow
  <1>4. w = [seen \in SUBSET ports |-> VisitFrom(tree, triplet, ports, v, seen)]
    OBVIOUS
  <1> HIDE DEF w
  <1>5. \A seen \in SUBSET ports :
          VisitFrom(tree, triplet, ports, v, seen) = VisitFrom(tree, triplet, ports, w, seen)
    <2> SUFFICES ASSUME NEW seen \in SUBSET ports
                 PROVE  VisitFrom(tree, triplet, ports, v, seen) = VisitFrom(tree, triplet, ports, w, seen)
      OBVIOUS
    <2>1. \A p \in ports \ seen : SameAbove(v, w, ports, seen \cup {p})
      BY <1>3 DEF SameAbove
    <2> QED  BY <2>1, VisitFromSame
  <1>6. w = [seen \in SUBSET ports |-> VisitFrom(tree, triplet, ports, w, seen)]
    BY <1>4, <1>5
  <1>7. Visits(w, tree, triplet, ports)
    BY <1>6 DEF Visits, VisitFrom
  <1> QED  BY <1>7

Ports(tree, root) == {key[1] : key \in DOMAIN tree.files} \cup {root}

\* Visited is such a visit of the ports of the tree.
LEMMA VisitedIs ==
  ASSUME NEW tree, NEW triplet, NEW root, Closed(tree, triplet, Ports(tree, root))
  PROVE  \E v : /\ Visits(v, tree, triplet, Ports(tree, root))
                /\ Visited(tree, root, triplet) = v[{}][root]
  <1> DEFINE visit == CHOOSE v : Visits(v, tree, triplet, Ports(tree, root))
  <1>1. Visits(visit, tree, triplet, Ports(tree, root))
    BY VisitsExist
  <1>2. Visited(tree, root, triplet) = visit[{}][root]
    BY DEF Visited, Visits, Ports
  <1> QED  BY <1>1, <1>2

(***************************************************************************)
(* The ports below one.                                                    *)
(***************************************************************************)

Kids(tree, port, triplet) == ToSet(LinkedChildren(tree, port, triplet))

\* A tree whose database can be followed.
Followable(tree) == IsTree(tree) /\ tree.status # NoValue

\* The ports below one are the least set that has what is linked with it and with them.
LEMMA BelowIs ==
  ASSUME NEW tree, Followable(tree), NEW port, NEW triplet
  PROVE  /\ PortsBelow(tree, port, triplet) \subseteq LinkedPorts(tree, triplet)
         /\ Kids(tree, port, triplet) \subseteq PortsBelow(tree, port, triplet)
         /\ \A q \in PortsBelow(tree, port, triplet) :
              Kids(tree, q, triplet) \subseteq PortsBelow(tree, port, triplet)
         /\ \A S \in SUBSET LinkedPorts(tree, triplet) :
              Kids(tree, port, triplet) \subseteq S /\ (\A q \in S : Kids(tree, q, triplet) \subseteq S)
                => PortsBelow(tree, port, triplet) \subseteq S
  <1> DEFINE linked == LinkedPorts(tree, triplet)
             needs == UNION {{p} \X Kids(tree, p, triplet) : p \in linked \cup {port}}
             closed == {S \in SUBSET linked : \A n \in needs : n[1] \in S \cup {port} => n[2] \in S}
             below == {p \in linked : \A S \in closed : p \in S}
  <1>1. PortsBelow(tree, port, triplet) = below
    BY DEF PortsBelow, LinkedPorts, Kids
  <1>2. \A p : Kids(tree, p, triplet) \subseteq linked
    BY ChildrenAreLists DEF Followable, Kids
  <1>3. ASSUME NEW S \in SUBSET linked
        PROVE  S \in closed <=> \A p \in S \cup {port} : Kids(tree, p, triplet) \subseteq S
    <2>1. ASSUME \A p \in S \cup {port} : Kids(tree, p, triplet) \subseteq S, NEW n \in needs,
                 n[1] \in S \cup {port}
          PROVE  n[2] \in S
      <3>1. PICK p \in linked \cup {port} : n \in {p} \X Kids(tree, p, triplet)
        OBVIOUS
      <3>2. n[1] = p /\ n[2] \in Kids(tree, p, triplet)
        BY <3>1
      <3> QED  BY <2>1, <3>2
    <2>2. ASSUME S \in closed, NEW p \in S \cup {port}, NEW q \in Kids(tree, p, triplet)
          PROVE  q \in S
      <3>1. <<p, q>> \in {p} \X Kids(tree, p, triplet) /\ p \in linked \cup {port}
        OBVIOUS
      <3>2. <<p, q>> \in needs /\ <<p, q>>[1] = p /\ <<p, q>>[2] = q
        BY <3>1
      <3> HIDE DEF needs
      <3> QED  BY <2>2, <3>2
    <2> HIDE DEF needs
    <2> QED  BY <2>1, <2>2
  <1> HIDE DEF linked, closed
  <1>4. \A p \in below \cup {port} : Kids(tree, p, triplet) \subseteq below
    BY <1>2, <1>3 DEF closed
  <1>5. \A S \in SUBSET linked : (\A p \in S \cup {port} : Kids(tree, p, triplet) \subseteq S) => below \subseteq S
    BY <1>3
  <1> QED  BY <1>1, <1>4, <1>5 DEF linked

\* What is below a port below is below.
LEMMA BelowBelow ==
  ASSUME NEW tree, Followable(tree), NEW triplet, NEW port, NEW q \in PortsBelow(tree, port, triplet)
  PROVE  PortsBelow(tree, q, triplet) \subseteq PortsBelow(tree, port, triplet)
  <1> DEFINE S == PortsBelow(tree, port, triplet)
  <1>1. /\ S \in SUBSET LinkedPorts(tree, triplet) /\ Kids(tree, q, triplet) \subseteq S
        /\ \A r \in S : Kids(tree, r, triplet) \subseteq S
    BY BelowIs
  <1> HIDE DEF S
  <1> QED  BY <1>1, BelowIs DEF S

(***************************************************************************)
(* What a visit finds.                                                     *)
(***************************************************************************)

UpTo(s, k) == {s[j] : j \in 1 .. k}

\* Two lists, up to a position.
LEMMA UpToJoined ==
  ASSUME NEW s, NEW t, IsList(s), IsList(t)
  PROVE  /\ \A k \in 1 .. Len(s) : UpTo(s \o t, k) = UpTo(s, k)
         /\ \A k \in 1 .. Len(t) : UpTo(s \o t, Len(s) + k) = ToSet(s) \cup UpTo(t, k)
  <1> DEFINE u == s \o t
             m == Len(s)
  <1>1. /\ m \in Nat /\ Len(t) \in Nat
        /\ \A i \in 1 .. m : u[i] = s[i]
        /\ \A i \in 1 .. Len(t) : u[m + i] = t[i]
        /\ ToSet(s) = {s[i] : i \in 1 .. m}
    BY ListsJoin, ListIs DEF ToSet
  <1> HIDE DEF u, m
  <1>2. ASSUME NEW k \in 1 .. m PROVE UpTo(u, k) = UpTo(s, k)
    <2>1. \A j \in 1 .. k : u[j] = s[j]
      BY <1>1
    <2> QED  BY <2>1 DEF UpTo
  <1>3. ASSUME NEW k \in 1 .. Len(t) PROVE UpTo(u, m + k) = ToSet(s) \cup UpTo(t, k)
    <2>1. ASSUME NEW j \in 1 .. m + k PROVE u[j] \in ToSet(s) \cup UpTo(t, k)
      <3>1. CASE j <= m
        BY <1>1, <3>1
      <3>2. CASE j > m
        <4>1. j - m \in 1 .. k /\ j - m \in 1 .. Len(t) /\ j = m + (j - m)
          BY <1>1, <2>1, <3>2
        <4>2. u[j] = t[j - m]
          BY <1>1, <4>1
        <4> QED  BY <4>1, <4>2 DEF UpTo
      <3> QED  BY <1>1, <3>1, <3>2
    <2>2. ASSUME NEW j \in 1 .. m PROVE s[j] \in UpTo(u, m + k)
      <3>1. j \in 1 .. m + k /\ u[j] = s[j]
        BY <1>1
      <3> QED  BY <3>1 DEF UpTo
    <2>3. ASSUME NEW j \in 1 .. k PROVE t[j] \in UpTo(u, m + k)
      <3>1. m + j \in 1 .. m + k /\ j \in 1 .. Len(t)
        BY <1>1
      <3>2. u[m + j] = t[j]
        BY <1>1, <3>1
      <3> QED  BY <3>1, <3>2 DEF UpTo
    <2> QED  BY <1>1, <2>1, <2>2, <2>3 DEF UpTo
  <1> QED  BY <1>2, <1>3 DEF u, m

\* A list of ports that are to be reached, when seen has been visited.  What is linked
\* with one of them is in the list or seen, and in front of any position at which
\* there is no port below it.
VisitRight(s, seen, reach, tree, triplet) ==
  /\ IsList(s) /\ ToSet(s) \subseteq reach
  /\ \A q \in ToSet(s) : Kids(tree, q, triplet) \subseteq ToSet(s) \cup seen
  /\ \A k \in 1 .. Len(s) : \A q \in UpTo(s, k) : \A c \in Kids(tree, q, triplet) :
       c \in UpTo(s, k) \cup seen \/ s[k] \in PortsBelow(tree, c, triplet)

\* One visit after another.
LEMMA VisitsJoin ==
  ASSUME NEW tree, NEW triplet, NEW seen, NEW reach, NEW s, NEW t,
         VisitRight(s, seen, reach, tree, triplet), VisitRight(t, seen \cup ToSet(s), reach, tree, triplet)
  PROVE  VisitRight(s \o t, seen, reach, tree, triplet)
  <1> DEFINE u == s \o t
             m == Len(s)
             n == Len(t)
  <1>1. IsList(s) /\ IsList(t)
    BY DEF VisitRight
  <1>2. /\ IsList(u) /\ Len(u) = m + n /\ ToSet(u) = ToSet(s) \cup ToSet(t)
        /\ \A i \in 1 .. m : u[i] = s[i]
        /\ \A i \in 1 .. n : u[m + i] = t[i]
    BY <1>1, ListsJoin
  <1>3. /\ m \in Nat /\ n \in Nat
        /\ \A k \in 1 .. m : UpTo(u, k) = UpTo(s, k)
        /\ \A k \in 1 .. n : UpTo(u, m + k) = ToSet(s) \cup UpTo(t, k)
    BY <1>1, ListIs, UpToJoined
  <1> HIDE DEF u
  <1>4. ToSet(u) \subseteq reach /\ \A q \in ToSet(u) : Kids(tree, q, triplet) \subseteq ToSet(u) \cup seen
    BY <1>2 DEF VisitRight
  <1>5. ASSUME NEW k \in 1 .. Len(u), NEW q \in UpTo(u, k), NEW c \in Kids(tree, q, triplet)
        PROVE  c \in UpTo(u, k) \cup seen \/ u[k] \in PortsBelow(tree, c, triplet)
    <2>1. CASE k \in 1 .. m
      BY <1>2, <1>3, <1>5, <2>1 DEF VisitRight
    <2>2. CASE k \notin 1 .. m
      <3> DEFINE i == k - m
      <3>1. i \in 1 .. n /\ k = m + i
        BY <1>2, <1>3, <2>2
      <3> HIDE DEF i
      <3>2. UpTo(u, k) = ToSet(s) \cup UpTo(t, i) /\ u[k] = t[i]
        BY <1>2, <1>3, <3>1
      <3>3. CASE q \in ToSet(s)
        BY <1>5, <3>2, <3>3 DEF VisitRight
      <3>4. CASE q \in UpTo(t, i)
        BY <1>5, <3>1, <3>2, <3>4 DEF VisitRight
      <3> QED  BY <1>5, <3>2, <3>3, <3>4
    <2> QED  BY <2>1, <2>2
  <1> QED  BY <1>2, <1>4, <1>5 DEF VisitRight, u

\* Nothing that is found leads to nothing.
LEMMA NoVisit ==
  ASSUME NEW tree, NEW triplet, NEW seen, NEW reach
  PROVE  VisitRight(<<>>, seen, reach, tree, triplet)
  <1>1. IsList(<<>>) /\ Len(<<>>) = 0 /\ ToSet(<<>>) = {}
    BY ListOfNone
  <1> QED  BY <1>1 DEF VisitRight

\* A port comes after what is linked with it.
LEMMA VisitEnds ==
  ASSUME NEW tree, Followable(tree), NEW triplet, NEW seen, NEW p, NEW s,
         VisitRight(s, seen \cup {p}, PortsBelow(tree, p, triplet), tree, triplet),
         Kids(tree, p, triplet) \subseteq ToSet(s) \cup seen \cup {p}
  PROVE  VisitRight(Append(s, p), seen, {p} \cup PortsBelow(tree, p, triplet), tree, triplet)
  <1> DEFINE last == <<p>>
             u == s \o last
             m == Len(s)
  <1>1. IsList(s) /\ IsList(last) /\ Len(last) = 1 /\ ToSet(last) = {p} /\ last[1] = p
    BY ListOfNone DEF VisitRight
  <1>2. Append(s, p) = u
    BY <1>1, Appended
  <1> HIDE DEF last
  <1>3. /\ IsList(u) /\ Len(u) = m + 1 /\ ToSet(u) = ToSet(s) \cup {p} /\ m \in Nat
        /\ \A i \in 1 .. m : u[i] = s[i]
        /\ \A i \in 1 .. 1 : u[m + i] = last[i]
    <2>1. /\ IsList(u) /\ Len(u) = m + Len(last) /\ ToSet(u) = ToSet(s) \cup ToSet(last)
          /\ \A i \in 1 .. m : u[i] = s[i]
          /\ \A i \in 1 .. Len(last) : u[m + i] = last[i]
      BY <1>1, ListsJoin
    <2> HIDE DEF u
    <2> QED  BY <1>1, <2>1, ListIs
  <1>4. \A k \in 1 .. m : UpTo(u, k) = UpTo(s, k)
    BY <1>1, UpToJoined
  <1>5. u[m + 1] = p /\ UpTo(u, m + 1) = ToSet(u)
    <2>1. ToSet(u) = UpTo(u, Len(u))
      BY <1>3, ListIs DEF ToSet, UpTo
    <2> QED  BY <1>1, <1>3, <2>1
  <1> HIDE DEF u
  <1>6. /\ ToSet(u) \subseteq {p} \cup PortsBelow(tree, p, triplet)
        /\ \A q \in ToSet(u) : Kids(tree, q, triplet) \subseteq ToSet(u) \cup seen
    BY <1>3 DEF VisitRight
  <1>7. ASSUME NEW k \in 1 .. Len(u), NEW q \in UpTo(u, k), NEW c \in Kids(tree, q, triplet)
        PROVE  c \in UpTo(u, k) \cup seen \/ u[k] \in PortsBelow(tree, c, triplet)
    <2>1. CASE k \in 1 .. m
      <3>1. UpTo(u, k) = UpTo(s, k) /\ u[k] = s[k] /\ s[k] \in ToSet(s)
        BY <1>1, <1>3, <1>4, <2>1, ListIs
      <3>2. c \in UpTo(s, k) \cup seen \cup {p} \/ s[k] \in PortsBelow(tree, c, triplet)
        BY <1>7, <2>1, <3>1 DEF VisitRight
      <3>3. s[k] \in PortsBelow(tree, p, triplet)
        BY <3>1 DEF VisitRight
      <3> QED  BY <3>1, <3>2, <3>3
    <2>2. CASE k = m + 1
      BY <1>5, <1>6, <1>7, <2>2
    <2> QED  BY <1>3, <2>1, <2>2
  <1> QED  BY <1>2, <1>3, <1>6, <1>7 DEF VisitRight

\* What a visit of a port finds when seen has been visited.
PortRight(s, seen, p, tree, triplet) ==
  /\ VisitRight(s, seen, {p} \cup PortsBelow(tree, p, triplet), tree, triplet)
  /\ p \in seen \/ (Len(s) # 0 /\ s[Len(s)] = p)

\* A visit stays right when it is asked to reach less.
LEMMA ReachMore ==
  ASSUME NEW s, NEW seen, NEW tree, NEW triplet, NEW low, NEW high, low \subseteq high,
         VisitRight(s, seen, low, tree, triplet)
  PROVE  VisitRight(s, seen, high, tree, triplet)
  BY DEF VisitRight

\* A visit of a port, when those further down are right.
LEMMA PortVisited ==
  ASSUME NEW tree, Followable(tree), NEW triplet, NEW ports, Closed(tree, triplet, ports), NEW v,
         NEW seen \in SUBSET ports, NEW p \in ports \ seen,
         \A T \in SUBSET ports : seen \cup {p} \subseteq T =>
           \A c \in ports : PortRight(v[T][c], T, c, tree, triplet),
         LinkedPorts(tree, triplet) \subseteq ports
  PROVE  PortRight(VisitFrom(tree, triplet, ports, v, seen)[p], seen, p, tree, triplet)
  <1> DEFINE children == LinkedChildren(tree, p, triplet)
             now == seen \cup {p}
             below == PortsBelow(tree, p, triplet)
             s == VisitEach(children, now, v)
  <1>1. /\ IsList(children) /\ ToSet(children) = Kids(tree, p, triplet) /\ now \in SUBSET ports
        /\ Len(children) \in Nat /\ \A i \in 1 .. Len(children) : children[i] \in ToSet(children)
    <2>1. IsList(children)
      BY DEF Closed
    <2> HIDE DEF children
    <2> QED  BY <2>1, ListIs DEF Kids, children
  <1>2. /\ ToSet(children) \subseteq below /\ below \subseteq ports
        /\ \A c \in ToSet(children) : {c} \cup PortsBelow(tree, c, triplet) \subseteq below
    BY <1>1, BelowIs, BelowBelow
  <1>3. \A T \in SUBSET ports : now \subseteq T => \A c \in ports : PortRight(v[T][c], T, c, tree, triplet)
    OBVIOUS
  <1>4. VisitFrom(tree, triplet, ports, v, seen)[p] = Append(s, p)
    BY DEF VisitFrom
  <1> HIDE DEF children, now, below, s
  <1>5. PICK f : FoundByEach(f, children, now, v)
    BY <1>1, VisitEachIs
  <1> DEFINE Right(i) == /\ VisitRight(f[i], now, below, tree, triplet)
                         /\ UpTo(children, i) \subseteq ToSet(f[i]) \cup now
             Wrong == {i \in 0 .. Len(children) : ~Right(i)}
  <1>6. Right(0)
    <2>1. f[0] = <<>> /\ UpTo(children, 0) = {}
      BY <1>5 DEF FoundByEach, UpTo
    <2> QED  BY <2>1, NoVisit
  <1>7. ASSUME NEW i \in 1 .. Len(children), Right(i - 1) PROVE Right(i)
    <2> DEFINE T == now \cup ToSet(f[i - 1])
               c == children[i]
               more == v[T][c]
    <2>1. T \in SUBSET ports /\ now \subseteq T /\ c \in ports /\ c \in ToSet(children)
      BY <1>1, <1>2, <1>7 DEF VisitRight
    <2>2. PortRight(more, T, c, tree, triplet)
      <3> HIDE DEF T, c
      <3> QED  BY <1>3, <2>1
    <2>3. f[i] = f[i - 1] \o more
      BY <1>5 DEF FoundByEach
    <2> HIDE DEF more
    <2>4. VisitRight(more, T, below, tree, triplet)
      BY <1>2, <2>1, <2>2, ReachMore DEF PortRight
    <2>5. VisitRight(f[i - 1] \o more, now, below, tree, triplet)
      BY <1>7, <2>4, VisitsJoin
    <2>6. c \in T \cup ToSet(more)
      <3>1. CASE c \in T
        BY <3>1
      <3>2. CASE c \notin T
        <4>1. IsList(more) /\ Len(more) # 0 /\ more[Len(more)] = c
          BY <2>2, <3>2 DEF PortRight, VisitRight
        <4>2. Len(more) \in 1 .. Len(more)
          BY <4>1, ListIs
        <4> QED  BY <4>1, <4>2, ListIs
      <3> QED  BY <3>1, <3>2
    <2>7. ToSet(f[i]) = ToSet(f[i - 1]) \cup ToSet(more)
      BY <1>7, <2>3, <2>4, ListsJoin DEF VisitRight
    <2>8. UpTo(children, i) \subseteq UpTo(children, i - 1) \cup {c}
      <3>1. \A j \in 1 .. i : j \in 1 .. i - 1 \/ j = i
        OBVIOUS
      <3> QED  BY <3>1 DEF UpTo
    <2> QED  BY <1>7, <2>3, <2>5, <2>6, <2>7, <2>8
  <1>8. Right(Len(children))
    <2> HIDE DEF Right
    <2>1. SUFFICES ASSUME Wrong # {} PROVE FALSE
      BY <1>1
    <2>2. PICK i \in Wrong : \A m \in Wrong : i <= m
      <3>1. Wrong \in SUBSET Nat
        BY <1>1
      <3> HIDE DEF Wrong
      <3> QED  BY <2>1, <3>1, LeastNumber
    <2>3. i # 0
      BY <1>6
    <2>4. i \in 1 .. Len(children) /\ i - 1 \notin Wrong /\ i - 1 \in 0 .. Len(children)
      BY <1>1, <2>2, <2>3
    <2> QED  BY <1>7, <2>4
  <1>9. /\ VisitRight(s, seen \cup {p}, PortsBelow(tree, p, triplet), tree, triplet)
        /\ Kids(tree, p, triplet) \subseteq ToSet(s) \cup seen \cup {p}
    <2>1. s = f[Len(children)]
      BY <1>5 DEF FoundByEach, s
    <2>2. UpTo(children, Len(children)) = Kids(tree, p, triplet)
      BY <1>1, ListIs DEF UpTo, ToSet
    <2> QED  BY <1>8, <2>1, <2>2 DEF now, below
  <1>10. VisitRight(Append(s, p), seen, {p} \cup PortsBelow(tree, p, triplet), tree, triplet)
    BY <1>9, VisitEnds
  <1>11. Len(Append(s, p)) # 0 /\ Append(s, p)[Len(Append(s, p))] = p
    <2>1. s \in Seq(ToSet(s) \cup {p})
      BY <1>9, ListIn DEF VisitRight
    <2> QED  BY <2>1, AppendProperties
  <1> QED  BY <1>4, <1>10, <1>11 DEF PortRight

\* Each visit is right, since each is one of fewer ports that are to be seen.
LEMMA PortsVisited ==
  ASSUME NEW tree, Followable(tree), NEW triplet, NEW ports, Closed(tree, triplet, ports),
         LinkedPorts(tree, triplet) \subseteq ports, NEW v, Visits(v, tree, triplet, ports),
         NEW seen \in SUBSET ports, NEW p \in ports
  PROVE  PortRight(v[seen][p], seen, p, tree, triplet)
  <1> DEFINE Right(T) == \A c \in ports : PortRight(v[T][c], T, c, tree, triplet)
             Wrong == {n \in Nat : \E T \in SUBSET ports : Unseen(ports, T) = n /\ ~Right(T)}
  <1>1. SUFFICES ASSUME ~Right(seen) PROVE FALSE
    OBVIOUS
  <1> HIDE DEF Right
  <1>2. Wrong \in SUBSET Nat /\ Wrong # {}
    BY <1>1, FewerUnseen DEF Closed
  <1>3. PICK n \in Wrong : \A m \in Wrong : n <= m
    <2> HIDE DEF Wrong
    <2> QED  BY <1>2, LeastNumber
  <1>4. PICK T \in SUBSET ports : Unseen(ports, T) = n /\ ~Right(T)
    BY <1>3
  <1>5. ASSUME NEW c \in ports \ T, NEW U \in SUBSET ports, T \cup {c} \subseteq U
        PROVE  Right(U)
    <2>1. Unseen(ports, U) < n /\ Unseen(ports, U) \in Nat /\ n \in Nat
      BY <1>4, <1>5, FewerUnseen DEF Closed
    <2>2. Unseen(ports, U) \notin Wrong
      <3> HIDE DEF Wrong
      <3> QED  BY <1>3, <2>1
    <2> QED  BY <2>1, <2>2
  <1>6. v[T] = VisitFrom(tree, triplet, ports, v, T)
    BY DEF Visits, VisitFrom
  <1>7. ASSUME NEW c \in ports PROVE PortRight(v[T][c], T, c, tree, triplet)
    <2>1. CASE c \in T
      <3>1. v[T][c] = <<>>
        BY <1>6, <2>1 DEF VisitFrom
      <3>2. VisitRight(<<>>, T, {c} \cup PortsBelow(tree, c, triplet), tree, triplet)
        BY NoVisit
      <3> QED  BY <2>1, <3>1, <3>2 DEF PortRight
    <2>2. CASE c \notin T
      BY <1>5, <1>6, <2>2, PortVisited DEF Right
    <2> QED  BY <2>1, <2>2
  <1> QED  BY <1>4, <1>7 DEF Right

(***************************************************************************)
(* The order of the ports that a dependency of vcpkg needs.                *)
(***************************************************************************)

\* The ports of a tree and its root are closed.
LEMMA TreeClosed ==
  ASSUME NEW tree, Followable(tree), NEW triplet, NEW root
  PROVE  /\ Closed(tree, triplet, Ports(tree, root))
         /\ LinkedPorts(tree, triplet) \subseteq Ports(tree, root)
  <1> DEFINE keys == DOMAIN tree.files
             names == {key[1] : key \in keys}
  <1>1. IsFiniteSet(names)
    <2>1. IsFiniteSet(keys)
      BY DEF Followable, IsTree
    <2> DEFINE first == [key \in keys |-> key[1]]
    <2>2. first \in [keys -> names] /\ \A t \in names : \E key \in keys : first[key] = t
      OBVIOUS
    <2>3. first \in Surjection(keys, names)
      <3> HIDE DEF keys, names, first
      <3> QED  BY <2>2 DEF Surjection
    <2> HIDE DEF keys, names, first
    <2> QED  BY <2>1, <2>3, FS_Surjection
  <1>2. IsFiniteSet(Ports(tree, root))
    <2>1. Ports(tree, root) = names \cup {root}
      BY DEF Ports
    <2> HIDE DEF names
    <2> QED  BY <1>1, <2>1, FS_AddElement
  <1>3. LinkedPorts(tree, triplet) \subseteq Ports(tree, root)
    BY DEF LinkedPorts, Ports
  <1> QED  BY <1>2, <1>3, ChildrenAreLists DEF Closed, Followable

\* A port that needs another one that needs it.
PortInCycle(tree, triplet, port) ==
  \E other \in PortsBelow(tree, port, triplet) \ {port} : port \in PortsBelow(tree, other, triplet)

\* What is found before a port that is in no cycle is all that it needs.
LEMMA BelowIsBefore ==
  ASSUME NEW tree, Followable(tree), NEW triplet, NEW reach, NEW s,
         VisitRight(s, {}, reach, tree, triplet), NEW i \in 1 .. Len(s),
         ~PortInCycle(tree, triplet, s[i])
  PROVE  PortsBelow(tree, s[i], triplet) \subseteq UpTo(s, i)
  <1> DEFINE x == s[i]
             below == PortsBelow(tree, x, triplet)
             S == UpTo(s, i) \cap below
  <1>1. i \in 1 .. i /\ x \in UpTo(s, i)
    BY DEF UpTo
  <1>2. /\ below \in SUBSET LinkedPorts(tree, triplet) /\ Kids(tree, x, triplet) \subseteq below
        /\ \A q \in below : Kids(tree, q, triplet) \subseteq below
    BY BelowIs
  <1>3. ASSUME NEW q \in UpTo(s, i), q \in below \cup {x}, NEW c \in Kids(tree, q, triplet)
        PROVE  c \in S
    <2>1. c \in below
      BY <1>2, <1>3
    <2>2. c \in UpTo(s, i) \/ x \in PortsBelow(tree, c, triplet)
      BY <1>3 DEF VisitRight
    <2>3. x \in PortsBelow(tree, c, triplet) => c = x
      BY <2>1 DEF PortInCycle
    <2> QED  BY <1>1, <2>1, <2>2, <2>3
  <1>4. S \in SUBSET LinkedPorts(tree, triplet) /\ \A q \in S \cup {x} : Kids(tree, q, triplet) \subseteq S
    BY <1>1, <1>2, <1>3
  <1>5. below \subseteq S
    <2> HIDE DEF S, x
    <2> QED  BY <1>4, BelowIs DEF below
  <1> QED  BY <1>5

\* A list without its last, from right to left.
LEMMA ReversedFront ==
  ASSUME NEW s, IsList(s), Len(s) # 0
  PROVE  LET b == Reverse(Front(s)) IN
         /\ IsList(b) /\ Len(b) = Len(s) - 1
         /\ \A k \in 1 .. Len(b) : b[k] = s[Len(s) - k] /\ After(b, k) = UpTo(s, Len(s) - k - 1)
  <1> DEFINE n == Len(s)
             front == Front(s)
             b == Reverse(front)
  <1>1. n \in Nat \ {0} /\ \A i \in 1 .. n : s[i] \in ToSet(s)
    BY ListIs
  <1>2. Len(front) = n - 1 /\ \A i \in 1 .. n - 1 : front[i] = s[i]
    <2>1. /\ Len(SubSeq(s, 1, n - 1)) = IF 1 <= n - 1 THEN n - 1 - 1 + 1 ELSE 0
          /\ \A i \in 1 .. n - 1 - 1 + 1 : SubSeq(s, 1, n - 1)[i] = s[1 + i - 1]
      <3>1. 1 \in Int /\ n - 1 \in Int /\ \A i \in 1 .. n - 1 : s[i] \in ToSet(s)
        BY <1>1
      <3> HIDE DEF n
      <3> QED  BY <3>1, SubSeqProperties
    <2> QED  BY <1>1, <2>1 DEF Front
  <1> HIDE DEF n, front
  <1>3. /\ DOMAIN b = 1 .. n - 1 /\ b = [i \in DOMAIN b |-> b[i]]
        /\ \A k \in 1 .. n - 1 : b[k] = s[n - k]
    <2>1. b = [i \in 1 .. n - 1 |-> front[(n - 1 - i) + 1]]
      BY <1>2 DEF Reverse
    <2>2. \A k \in 1 .. n - 1 : (n - 1 - k) + 1 = n - k /\ n - k \in 1 .. n - 1
      BY <1>1
    <2> QED  BY <1>2, <2>1, <2>2
  <1>4. IsList(b) /\ Len(b) = n - 1
    <2>1. n - 1 \in Nat
      BY <1>1
    <2> HIDE DEF b
    <2> QED  BY <1>3, <2>1, FunctionIsList
  <1> HIDE DEF b
  <1>5. ASSUME NEW k \in 1 .. n - 1 PROVE After(b, k) = UpTo(s, n - k - 1)
    <2>1. ASSUME NEW j \in (k + 1) .. (n - 1) PROVE b[j] \in UpTo(s, n - k - 1)
      <3>1. n - j \in 1 .. n - k - 1 /\ j \in 1 .. n - 1
        BY <1>1, <2>1
      <3>2. b[j] = s[n - j]
        BY <1>3, <3>1
      <3> QED  BY <3>1, <3>2 DEF UpTo
    <2>2. ASSUME NEW i \in 1 .. n - k - 1 PROVE s[i] \in {b[j] : j \in (k + 1) .. (n - 1)}
      <3>1. n - i \in (k + 1) .. (n - 1) /\ n - i \in 1 .. n - 1 /\ n - (n - i) = i
        BY <1>1, <2>2
      <3>2. b[n - i] = s[i]
        BY <1>3, <3>1
      <3> QED  BY <3>1, <3>2
    <2>3. After(b, k) = {b[j] : j \in (k + 1) .. (n - 1)}
      BY <1>4 DEF After
    <2> QED  BY <2>1, <2>2, <2>3 DEF UpTo
  <1> QED  BY <1>3, <1>4, <1>5 DEF b, front, n

\* The transitive closure has what is below the root, each port before what it needs.
LEMMA ClosureIs ==
  ASSUME NEW tree, Followable(tree), NEW triplet, NEW root
  PROVE  LET b == TransitiveClosure(tree, root, triplet)
             below == PortsBelow(tree, root, triplet)
         IN /\ IsList(b) /\ ToSet(b) \subseteq {root} \cup below /\ below \subseteq {root} \cup ToSet(b)
            /\ \A k \in 1 .. Len(b) :
                 \/ PortInCycle(tree, triplet, b[k])
                 \/ PortsBelow(tree, b[k], triplet) \subseteq {b[k]} \cup After(b, k)
            /\ \A k \in 1 .. Len(b) : \A c \in Kids(tree, b[k], triplet) :
                 c \in After(b, k) \/ b[k] \in PortsBelow(tree, c, triplet)
  <1> DEFINE s == Visited(tree, root, triplet)
             n == Len(s)
             b == TransitiveClosure(tree, root, triplet)
             below == PortsBelow(tree, root, triplet)
  <1>1. PICK v : Visits(v, tree, triplet, Ports(tree, root)) /\ s = v[{}][root]
    BY TreeClosed, VisitedIs
  <1>2. PortRight(s, {}, root, tree, triplet)
    <2>1. {} \in SUBSET Ports(tree, root) /\ root \in Ports(tree, root)
      BY DEF Ports
    <2> HIDE DEF s
    <2> QED  BY <1>1, <2>1, TreeClosed, PortsVisited
  <1> HIDE DEF s
  <1>3. VisitRight(s, {}, {root} \cup below, tree, triplet) /\ n # 0 /\ s[n] = root
    BY <1>2 DEF PortRight
  <1>4. IsList(s) /\ n \in Nat \ {0} /\ ToSet(s) = {s[i] : i \in 1 .. n}
    BY <1>3, ListIs DEF VisitRight, ToSet
  <1>5. /\ IsList(b) /\ Len(b) = n - 1
        /\ \A k \in 1 .. n - 1 : b[k] = s[n - k] /\ After(b, k) = UpTo(s, n - k - 1)
    BY <1>3, <1>4, ReversedFront DEF TransitiveClosure, s
  <1> HIDE DEF b, below, n
  <1>6. ToSet(b) = {s[i] : i \in 1 .. n - 1}
    <2>1. ToSet(b) = {b[k] : k \in 1 .. n - 1}
      BY <1>5, ListIs DEF ToSet
    <2>2. \A k \in 1 .. n - 1 : n - k \in 1 .. n - 1 /\ n - (n - k) = k
      BY <1>4
    <2> DEFINE front == {s[i] : i \in 1 .. n - 1}
    <2>3. \A k \in 1 .. n - 1 : b[k] \in front
      BY <1>5, <2>2
    <2>4. \A i \in 1 .. n - 1 : s[i] \in {b[k] : k \in 1 .. n - 1}
      <3> SUFFICES ASSUME NEW i \in 1 .. n - 1
                   PROVE  s[i] \in {b[k] : k \in 1 .. n - 1}
        OBVIOUS
      <3>1. b[n - i] = s[i] /\ n - i \in 1 .. n - 1
        BY <1>5, <2>2
      <3> QED  BY <3>1
    <2> QED  BY <2>1, <2>3, <2>4
  <1>7. ToSet(b) \subseteq {root} \cup below
    <2>1. ToSet(b) \subseteq ToSet(s)
      BY <1>4, <1>6
    <2> QED  BY <1>3, <2>1 DEF VisitRight
  <1>8. below \subseteq ToSet(s)
    <2> DEFINE S == ToSet(s) \cap below
    <2>1. /\ below \in SUBSET LinkedPorts(tree, triplet) /\ Kids(tree, root, triplet) \subseteq below
          /\ \A q \in below : Kids(tree, q, triplet) \subseteq below
      BY BelowIs DEF below
    <2>2. root \in ToSet(s) /\ \A q \in ToSet(s) : Kids(tree, q, triplet) \subseteq ToSet(s)
      BY <1>3, <1>4 DEF VisitRight
    <2>3. /\ S \in SUBSET LinkedPorts(tree, triplet) /\ Kids(tree, root, triplet) \subseteq S
          /\ \A q \in S : Kids(tree, q, triplet) \subseteq S
      BY <2>1, <2>2
    <2> HIDE DEF S
    <2>4. below \subseteq S
      BY <2>3, BelowIs DEF below
    <2> QED  BY <2>4 DEF S
  <1>9. below \subseteq {root} \cup ToSet(b)
    <2>1. \A i \in 1 .. n : i \in 1 .. n - 1 \/ i = n
      BY <1>4
    <2> QED  BY <1>3, <1>4, <1>6, <1>8, <2>1
  <1>10. ASSUME NEW k \in 1 .. n - 1, ~PortInCycle(tree, triplet, b[k])
         PROVE  PortsBelow(tree, b[k], triplet) \subseteq {b[k]} \cup After(b, k)
    <2> DEFINE i == n - k
    <2>1. i \in 1 .. n /\ b[k] = s[i] /\ After(b, k) = UpTo(s, i - 1)
      BY <1>4, <1>5
    <2> HIDE DEF i
    <2>2. PortsBelow(tree, s[i], triplet) \subseteq UpTo(s, i)
      BY <1>3, <1>10, <2>1, BelowIsBefore DEF n
    <2>3. \A j \in 1 .. i : j \in 1 .. i - 1 \/ j = i
      BY <2>1
    <2>4. UpTo(s, i) \subseteq {s[i]} \cup UpTo(s, i - 1)
      BY <2>3 DEF UpTo
    <2> QED  BY <2>1, <2>2, <2>4
  <1>11. ASSUME NEW k \in 1 .. n - 1, NEW c \in Kids(tree, b[k], triplet)
         PROVE  c \in After(b, k) \/ b[k] \in PortsBelow(tree, c, triplet)
    <2> DEFINE i == n - k
    <2>1. i \in 1 .. n /\ b[k] = s[i] /\ After(b, k) = UpTo(s, i - 1)
      BY <1>4, <1>5
    <2> HIDE DEF i
    <2>2. c \in UpTo(s, i) \/ s[i] \in PortsBelow(tree, c, triplet)
      <3>1. \A j \in 1 .. n : \A q \in UpTo(s, j) : \A x \in Kids(tree, q, triplet) :
              x \in UpTo(s, j) \cup {} \/ s[j] \in PortsBelow(tree, x, triplet)
        BY <1>3 DEF VisitRight, n
      <3>2. c \in Kids(tree, s[i], triplet) /\ s[i] \in UpTo(s, i)
        BY <1>11, <2>1 DEF UpTo
      <3> QED  BY <2>1, <3>1, <3>2
    <2>3. \A j \in 1 .. i : j \in 1 .. i - 1 \/ j = i
      BY <2>1
    <2>4. c \in UpTo(s, i) => c = s[i] \/ c \in UpTo(s, i - 1)
      BY <2>3 DEF UpTo
    <2>5. c = s[i] => s[i] \in PortsBelow(tree, c, triplet)
      BY <1>11, <2>1, BelowIs
    <2> QED  BY <2>1, <2>2, <2>4, <2>5
  <1> QED  BY <1>5, <1>7, <1>9, <1>10, <1>11 DEF b, below, n

(***************************************************************************)
(* Lists of libraries that are in order.                                   *)
(***************************************************************************)

\* What is at a position is there for a node, all of whose needs follow.
PlacedFor(node, libs, i) ==
  /\ libs[i] \in LibrariesOf(node)
  /\ \/ \A needed \in NeededBy(node) \ {node} : LibrariesOf(needed) \subseteq After(libs, i)
     \/ /\ InCycle(node)
        /\ \A child \in FurtherDown(node) : LibrariesOf(child) \subseteq After(libs, i)

\* All that the nodes need is there, and all that is there is for one of them.
InOrder(libs, nodes) ==
  /\ IsList(libs)
  /\ \A n \in nodes : LibrariesOf(n) \subseteq ToSet(libs)
  /\ \A i \in 1 .. Len(libs) : \E n \in nodes : PlacedFor(n, libs, i)

\* A place is kept when lists are joined.
LEMMA PlacedInBoth ==
  ASSUME NEW s, NEW t, IsList(s), IsList(t)
  PROVE  /\ \A n : \A i \in 1 .. Len(s) : PlacedFor(n, s, i) => PlacedFor(n, s \o t, i)
         /\ \A n : \A i \in 1 .. Len(t) : PlacedFor(n, t, i) => PlacedFor(n, s \o t, Len(s) + i)
  <1> DEFINE u == s \o t
  <1>1. /\ \A i \in 1 .. Len(s) : u[i] = s[i] /\ After(u, i) = After(s, i) \cup ToSet(t)
        /\ \A i \in 1 .. Len(t) : u[Len(s) + i] = t[i] /\ After(u, Len(s) + i) = After(t, i)
    BY ListsJoin
  <1> HIDE DEF u
  <1>2. \A n : \A i \in 1 .. Len(s) : PlacedFor(n, s, i) => PlacedFor(n, u, i)
    <2> SUFFICES ASSUME NEW n, NEW i \in 1 .. Len(s), PlacedFor(n, s, i)
                 PROVE  PlacedFor(n, u, i)
      OBVIOUS
    <2>1. u[i] = s[i] /\ After(s, i) \subseteq After(u, i)
      BY <1>1
    <2> QED  BY <2>1 DEF PlacedFor
  <1>3. \A n : \A i \in 1 .. Len(t) : PlacedFor(n, t, i) => PlacedFor(n, u, Len(s) + i)
    <2> SUFFICES ASSUME NEW n, NEW i \in 1 .. Len(t), PlacedFor(n, t, i)
                 PROVE  PlacedFor(n, u, Len(s) + i)
      OBVIOUS
    <2>1. u[Len(s) + i] = t[i] /\ After(u, Len(s) + i) = After(t, i)
      BY <1>1
    <2> QED  BY <2>1 DEF PlacedFor
  <1> QED  BY <1>2, <1>3 DEF u

\* Places in two lists that are joined.
LEMMA PlacedInJoined ==
  ASSUME NEW s, NEW t, IsList(s), IsList(t), NEW nodes,
         \A i \in 1 .. Len(s) : \E n \in nodes : PlacedFor(n, s \o t, i),
         \A i \in 1 .. Len(t) : \E n \in nodes : PlacedFor(n, t, i)
  PROVE  \A i \in 1 .. Len(s \o t) : \E n \in nodes : PlacedFor(n, s \o t, i)
  <1> SUFFICES ASSUME NEW i \in 1 .. Len(s \o t)
               PROVE  \E n \in nodes : PlacedFor(n, s \o t, i)
    OBVIOUS
  <1>1. Len(s) \in Nat /\ Len(t) \in Nat /\ Len(s \o t) = Len(s) + Len(t)
    BY ListsJoin, ListIs
  <1>2. CASE i \in 1 .. Len(s)
    BY <1>2
  <1>3. CASE i \notin 1 .. Len(s)
    <2> DEFINE j == i - Len(s)
    <2>1. j \in 1 .. Len(t) /\ Len(s) + j = i
      BY <1>1, <1>3
    <2> HIDE DEF j
    <2>2. PICK n \in nodes : PlacedFor(n, t, j)
      BY <2>1
    <2>3. PlacedFor(n, s \o t, Len(s) + j)
      BY <2>1, <2>2, PlacedInBoth
    <2> QED  BY <2>1, <2>3
  <1> QED  BY <1>2, <1>3

\* Two lists that are in order, one after the other.
LEMMA InOrderJoined ==
  ASSUME NEW s, NEW t, NEW A, NEW B, InOrder(s, A), InOrder(t, B)
  PROVE  InOrder(s \o t, A \cup B)
  <1>1. IsList(s) /\ IsList(t) /\ IsList(s \o t) /\ ToSet(s \o t) = ToSet(s) \cup ToSet(t)
    BY ListsJoin DEF InOrder
  <1>2. \A i \in 1 .. Len(s) : \E n \in A \cup B : PlacedFor(n, s \o t, i)
    <2> SUFFICES ASSUME NEW i \in 1 .. Len(s)
                 PROVE  \E n \in A \cup B : PlacedFor(n, s \o t, i)
      OBVIOUS
    <2>1. PICK n \in A : PlacedFor(n, s, i)
      BY DEF InOrder
    <2>2. PlacedFor(n, s \o t, i)
      BY <1>1, <2>1, PlacedInBoth
    <2> QED  BY <2>2
  <1>3. \A i \in 1 .. Len(t) : \E n \in A \cup B : PlacedFor(n, t, i)
    BY DEF InOrder
  <1>4. \A i \in 1 .. Len(s \o t) : \E n \in A \cup B : PlacedFor(n, s \o t, i)
    BY <1>1, <1>2, <1>3, PlacedInJoined
  <1> QED  BY <1>1, <1>4 DEF InOrder

\* The empty list is in order for nothing.
LEMMA InOrderNone == InOrder(<<>>, {})
  BY ListOfNone DEF InOrder

\* A node before all that it needs.
LEMMA InOrderAbove ==
  ASSUME NEW node, NEW own, NEW rest, IsList(own), IsList(rest), ToSet(own) = LibrariesOf(node),
         \A n \in NeededBy(node) \ {node} : LibrariesOf(n) \subseteq ToSet(rest),
         \A i \in 1 .. Len(rest) : \E n \in {node} \cup NeededBy(node) : PlacedFor(n, rest, i)
  PROVE  InOrder(own \o rest, {node} \cup NeededBy(node))
  <1> DEFINE u == own \o rest
             nodes == {node} \cup NeededBy(node)
  <1>1. /\ IsList(u) /\ ToSet(u) = ToSet(own) \cup ToSet(rest)
        /\ \A i \in 1 .. Len(own) :
             u[i] = own[i] /\ own[i] \in ToSet(own) /\ After(u, i) = After(own, i) \cup ToSet(rest)
    BY ListsJoin, ListIs
  <1> HIDE DEF u
  <1>2. ASSUME NEW i \in 1 .. Len(own) PROVE \E n \in nodes : PlacedFor(n, u, i)
    <2>1. PlacedFor(node, u, i)
      BY <1>1 DEF PlacedFor
    <2> QED  BY <2>1
  <1>3. \A n \in nodes : LibrariesOf(n) \subseteq ToSet(u)
    BY <1>1
  <1>4. \A i \in 1 .. Len(rest) : \E n \in nodes : PlacedFor(n, rest, i)
    OBVIOUS
  <1> HIDE DEF nodes
  <1>5. \A i \in 1 .. Len(u) : \E n \in nodes : PlacedFor(n, u, i)
    BY <1>2, <1>4, PlacedInJoined DEF u
  <1> QED  BY <1>1, <1>3, <1>5 DEF InOrder, u, nodes

(***************************************************************************)
(* Ports.                                                                  *)
(***************************************************************************)

\* A port without artifacts has no libraries.
LEMMA NothingScanned ==
  ASSUME NEW tree, IsTree(tree), NEW port, NEW triplet, ~HasArtifacts(tree, port, triplet)
  PROVE  ToSet(ScannedLibs(tree, port, triplet)) = {}
  <1> DEFINE files == PackageFiles(tree, port, triplet)
             names == [i \in DOMAIN files |->
                         IF files[i].dir = "lib" /\ files[i].library THEN <<files[i].name>> ELSE <<>>]
  <1>1. IsList(files)
    BY ListOfNone DEF PackageFiles, IsTree
  <1>2. \A i \in DOMAIN files : files[i].dir # "lib"
    BY DEF HasArtifacts
  <1> HIDE DEF files
  <1>3. Len(files) \in Nat /\ DOMAIN files = 1 .. Len(files)
    BY <1>1, ListIs
  <1>4. /\ \A i \in 1 .. Len(files) : IsList(names[i]) /\ ToSet(names[i]) = {}
        /\ DOMAIN names = 1 .. Len(files) /\ names = [i \in DOMAIN names |-> names[i]]
    BY <1>2, <1>3, ListOfNone
  <1>5. ScannedLibs(tree, port, triplet) = FlattenSeq(names)
    BY DEF ScannedLibs, files
  <1> HIDE DEF names
  <1>6. ToSet(FlattenSeq(names)) = UNION {ToSet(names[i]) : i \in 1 .. Len(files)}
    BY <1>3, <1>4, FlattenEach
  <1> QED  BY <1>4, <1>5, <1>6

PortNode(port, triplet, p) == <<"port", port, triplet, p>>

\* What a port needs, and its libraries.
LEMMA PortNodeIs ==
  ASSUME NEW port, NEW triplet, NEW p
  PROVE  LET tree == InstalledRoot(world.env, p)
             node == PortNode(port, triplet, p)
         IN /\ NeededBy(node) = {PortNode(q, triplet, p) : q \in PortsBelow(tree, port, triplet)}
            /\ LibrariesOf(node) = IF HasArtifacts(tree, port, triplet)
                                   THEN ToSet(ScannedLibs(tree, port, triplet)) ELSE {port}
            /\ FurtherDown(node) = {child \in {PortNode(c, triplet, p) : c \in Kids(tree, port, triplet)} :
                                      node \notin NeededBy(child)}
            /\ \A q : PortNode(q, triplet, p) = node <=> q = port
  <1> DEFINE node == PortNode(port, triplet, p)
  <1>1. node[1] = "port" /\ node[2] = port /\ node[3] = triplet /\ node[4] = p
    BY DEF PortNode
  <1>2. \A q : PortNode(q, triplet, p) = node => q = port
    BY DEF PortNode
  <1>3. PortNodesBelow(node) = {PortNode(q, triplet, p) :
                                  q \in PortsBelow(InstalledRoot(world.env, p), port, triplet)}
    BY <1>1 DEF PortNodesBelow, PortNode
  <1>4. NeededBy(node) = PortNodesBelow(node)
    BY <1>1 DEF NeededBy
  <1>5. LibrariesOf(node) = IF HasArtifacts(InstalledRoot(world.env, p), port, triplet)
                            THEN ToSet(ScannedLibs(InstalledRoot(world.env, p), port, triplet)) ELSE {port}
    BY <1>1 DEF LibrariesOf
  <1>6. FurtherDown(node) =
          {child \in {PortNode(c, triplet, p) : c \in Kids(InstalledRoot(world.env, p), port, triplet)} :
             node \notin NeededBy(child)}
    BY <1>1 DEF FurtherDown, PortNode, Kids
  <1> QED  BY <1>2, <1>3, <1>4, <1>5, <1>6

\* A port of a tree that is in a cycle is a node that is in one.
LEMMA NodeInCycle ==
  ASSUME NEW port, NEW triplet, NEW p, PortInCycle(InstalledRoot(world.env, p), triplet, port)
  PROVE  InCycle(PortNode(port, triplet, p))
  <1> DEFINE tree == InstalledRoot(world.env, p)
             node == PortNode(port, triplet, p)
  <1>1. PICK other \in PortsBelow(tree, port, triplet) \ {port} : port \in PortsBelow(tree, other, triplet)
    BY DEF PortInCycle
  <1>2. PortNode(other, triplet, p) \in NeededBy(node) /\ PortNode(other, triplet, p) # node
    BY <1>1, PortNodeIs
  <1>3. node \in NeededBy(PortNode(other, triplet, p))
    BY <1>1, PortNodeIs
  <1> QED  BY <1>2, <1>3 DEF InCycle

\* What is searched for below a port.
LEMMA PortsPlaced ==
  ASSUME NEW p, Followable(InstalledRoot(world.env, p)), NEW port, NEW triplet
  PROVE  LET tree == InstalledRoot(world.env, p)
             below == TransitiveClosure(tree, port, triplet)
             libs == FlattenSeq([i \in DOMAIN below |-> ScannedLibs(tree, below[i], triplet)])
             node == PortNode(port, triplet, p)
         IN /\ IsList(libs)
            /\ \A n \in NeededBy(node) \ {node} : LibrariesOf(n) \subseteq ToSet(libs)
            /\ \A k \in 1 .. Len(libs) : \E n \in {node} \cup NeededBy(node) : PlacedFor(n, libs, k)
  <1> DEFINE tree == InstalledRoot(world.env, p)
             below == TransitiveClosure(tree, port, triplet)
             lists == [i \in DOMAIN below |-> ScannedLibs(tree, below[i], triplet)]
             libs == FlattenSeq(lists)
             needed == PortsBelow(tree, port, triplet)
             node == PortNode(port, triplet, p)
             m == Len(below)
  <1>0. Followable(tree) /\ IsTree(tree)
    BY DEF Followable
  <1>1. /\ IsList(below) /\ ToSet(below) \subseteq {port} \cup needed /\ needed \subseteq {port} \cup ToSet(below)
        /\ \A k \in 1 .. m :
             \/ PortInCycle(tree, triplet, below[k])
             \/ PortsBelow(tree, below[k], triplet) \subseteq {below[k]} \cup After(below, k)
        /\ \A k \in 1 .. m : \A c \in Kids(tree, below[k], triplet) :
             c \in After(below, k) \/ below[k] \in PortsBelow(tree, c, triplet)
    BY <1>0, ClosureIs
  <1> HIDE DEF below
  <1>2. m \in Nat /\ DOMAIN below = 1 .. m /\ \A k \in 1 .. m : below[k] \in ToSet(below)
    BY <1>1, ListIs
  <1>3. /\ DOMAIN lists = 1 .. m /\ lists = [i \in DOMAIN lists |-> lists[i]]
        /\ \A i \in 1 .. m : lists[i] = ScannedLibs(tree, below[i], triplet) /\ IsList(lists[i])
    BY <1>0, <1>2, ScannedAreLists
  <1> HIDE DEF lists, m
  <1>4. /\ FlatRight(libs, m, lists) /\ IsList(libs)
        /\ ToSet(libs) = UNION {ToSet(lists[i]) : i \in 1 .. m}
    BY <1>2, <1>3, FlattenEach
  <1> HIDE DEF libs
  <1>5. \A q : HasArtifacts(tree, q, triplet) =>
                 LibrariesOf(PortNode(q, triplet, p)) = ToSet(ScannedLibs(tree, q, triplet))
    BY PortNodeIs
  <1>6. \A x : \A q \in PortsBelow(tree, x, triplet) : HasArtifacts(tree, q, triplet)
    BY <1>0, BelowIs DEF LinkedPorts
  <1>7. ASSUME NEW n \in NeededBy(node) \ {node} PROVE LibrariesOf(n) \subseteq ToSet(libs)
    <2>1. PICK q \in needed : n = PortNode(q, triplet, p) /\ q # port
      BY <1>7, PortNodeIs
    <2>2. q \in ToSet(below)
      BY <1>1, <2>1
    <2>3. PICK i \in 1 .. m : below[i] = q
      BY <1>2, <2>2 DEF ToSet
    <2>4. LibrariesOf(n) = ToSet(lists[i])
      BY <1>3, <1>5, <1>6, <2>1, <2>3
    <2> QED  BY <1>4, <2>4
  <1>8. ASSUME NEW k \in 1 .. Len(libs) PROVE \E n \in {node} \cup NeededBy(node) : PlacedFor(n, libs, k)
    <2>1. PICK i \in 1 .. m : /\ libs[k] \in ToSet(lists[i])
                              /\ \A j \in (i + 1) .. m : ToSet(lists[j]) \subseteq After(libs, k)
      BY <1>4 DEF FlatRight
    <2> DEFINE x == below[i]
               n == PortNode(x, triplet, p)
    <2>2. n \in {node} \cup NeededBy(node)
      <3>1. x \in {port} \cup needed
        BY <1>1, <1>2
      <3>2. x \in needed => n \in NeededBy(node)
        BY PortNodeIs
      <3> QED  BY <3>1, <3>2
    <2>3. libs[k] \in LibrariesOf(n)
      <3>1. libs[k] \in ToSet(ScannedLibs(tree, x, triplet))
        BY <1>3, <2>1
      <3>2. HasArtifacts(tree, x, triplet)
        BY <1>0, <3>1, NothingScanned
      <3> QED  BY <1>5, <3>1, <3>2
    <2>4. CASE PortInCycle(tree, triplet, x)
      <3>1. InCycle(n)
        BY <2>4, NodeInCycle
      <3>2. ASSUME NEW y \in FurtherDown(n) PROVE LibrariesOf(y) \subseteq After(libs, k)
        <4>1. PICK c \in Kids(tree, x, triplet) : y = PortNode(c, triplet, p) /\ n \notin NeededBy(y)
          BY <3>2, PortNodeIs
        <4>2. x \notin PortsBelow(tree, c, triplet)
          BY <4>1, PortNodeIs
        <4>3. c \in After(below, i)
          BY <1>1, <4>1, <4>2 DEF m
        <4>4. PICK j \in (i + 1) .. m : c = below[j]
          BY <4>3 DEF After, m
        <4>5. j \in 1 .. m
          BY <1>2
        <4>6. HasArtifacts(tree, c, triplet)
          BY <1>0, <1>6, <4>1, BelowIs
        <4>7. LibrariesOf(y) = ToSet(lists[j])
          BY <1>3, <1>5, <4>1, <4>4, <4>5, <4>6
        <4> QED  BY <2>1, <4>7
      <3> QED  BY <2>2, <2>3, <3>1, <3>2 DEF PlacedFor
    <2>5. CASE PortsBelow(tree, x, triplet) \subseteq {x} \cup After(below, i)
      <3>1. ASSUME NEW y \in NeededBy(n) \ {n} PROVE LibrariesOf(y) \subseteq After(libs, k)
        <4>1. PICK q \in PortsBelow(tree, x, triplet) : y = PortNode(q, triplet, p) /\ q # x
          BY <3>1, PortNodeIs
        <4>2. q \in After(below, i)
          BY <2>5, <4>1
        <4>3. PICK j \in (i + 1) .. m : q = below[j]
          BY <4>2 DEF After, m
        <4>4. j \in 1 .. m
          BY <1>2
        <4>5. LibrariesOf(y) = ToSet(lists[j])
          BY <1>3, <1>5, <1>6, <4>1, <4>3, <4>4
        <4> QED  BY <2>1, <4>5
      <3> QED  BY <2>2, <2>3, <3>1 DEF PlacedFor
    <2> QED  BY <1>1, <2>4, <2>5 DEF m
  <1> QED  BY <1>4, <1>7, <1>8 DEF libs, lists, below

(***************************************************************************)
(* Dependencies that are not local.                                        *)
(***************************************************************************)

\* What the assumption on worlds says of what surrounds a project.
LEMMA AroundIs ==
  ASSUME WorldOK, NEW p \in Projects
  PROVE  /\ InstalledRoot(world.env, p) = NoValue \/ IsTree(InstalledRoot(world.env, p))
         /\ world.env.builds[p].conan # NoValue =>
              \A n \in DOMAIN world.env.builds[p].conan : IsList(world.env.builds[p].conan[n])
         /\ \A d \in DependenciesOf(p) : d.source = "custom" => IsAnswer(world.env.prints[d.to])
         /\ \A n \in DOMAIN world.env.packages : IsList(world.env.packages[n])
  BY WorldsAssumption DEF WorldOK, Projects, DependenciesOf

\* What a package of vcpkg gives apart from what it needs.
LEMMA ResolvedIs ==
  ASSUME NEW tree, IsTree(tree), NEW d
  PROVE  /\ IsList(ResolvedPackage(tree, d).libs)
         /\ ~Answered(tree, d) /\ IsLinked(d) =>
              ResolvedPackage(tree, d).libs = IF HasArtifacts(tree, d.to, d.triplet)
                                              THEN ScannedLibs(tree, d.to, d.triplet) ELSE <<d.to>>
  <1>1. \A libs : [Nothing EXCEPT !.libs = libs].libs = libs
    BY DEF Nothing
  <1>2. NamedLike(d).libs = IF IsLinked(d) THEN <<d.to>> ELSE <<>>
    BY <1>1 DEF NamedLike
  <1>3. IsList(NamedLike(d).libs)
    BY <1>2, ListOfNone
  <1>4. CASE Answered(tree, d)
    <2>1. IsList(tree.pkgConfig[<<d.to, d.triplet>>])
      BY <1>4 DEF Answered, IsTree, IsAnswer
    <2>2. ResolvedPackage(tree, d).libs = AnsweredLibs(tree.pkgConfig[<<d.to, d.triplet>>])
      BY <1>1, <1>4 DEF ResolvedPackage
    <2> QED  BY <1>4, <2>1, <2>2, FlagsAreLists
  <1>5. CASE ~Answered(tree, d) /\ (~HasArtifacts(tree, d.to, d.triplet) \/ ~IsLinked(d))
    <2>1. ResolvedPackage(tree, d) = NamedLike(d)
      BY <1>5 DEF ResolvedPackage
    <2> QED  BY <1>2, <1>3, <1>5, <2>1
  <1>6. CASE ~Answered(tree, d) /\ HasArtifacts(tree, d.to, d.triplet) /\ IsLinked(d)
    <2>1. ResolvedPackage(tree, d).libs = ScannedLibs(tree, d.to, d.triplet)
      BY <1>1, <1>6 DEF ResolvedPackage
    <2> QED  BY <1>6, <2>1, ScannedAreLists
  <1> QED  BY <1>4, <1>5, <1>6

\* A dependency with all that is needed for it.
Whole(p, d) == {NodeOf(p, d)} \cup NeededBy(NodeOf(p, d))

IsPort(p, d) == d.source = "vcpkg" /\ Followed(InstalledRoot(world.env, p), d) /\ IsLinked(d)

\* A dependency of vcpkg that is followed through the database.
LEMMA PortInOrder ==
  ASSUME WorldOK, NEW p \in Projects, NEW d, IsPort(p, d), FindForeign(world.env, p, d).ok
  PROVE  InOrder(FindForeign(world.env, p, d).libs, Whole(p, d))
  <1> DEFINE tree == InstalledRoot(world.env, p)
             node == PortNode(d.to, d.triplet, p)
             own == ResolvedPackage(tree, d).libs
             below == TransitiveClosure(tree, d.to, d.triplet)
             rest == FlattenSeq([i \in DOMAIN below |-> ScannedLibs(tree, below[i], d.triplet)])
  <1>1. NodeOf(p, d) = node
    BY DEF NodeOf, IsPort, PortNode
  <1>2. FindForeign(world.env, p, d) = FindVcpkg(world.env, p, d)
    BY DEF FindForeign, IsPort
  <1>3. d.triplet # NoValue /\ tree # NoValue
    <2>1. Failed.ok = FALSE
      BY DEF Failed, Nothing
    <2> QED  BY <1>2, <2>1 DEF FindVcpkg
  <1>4. FindForeign(world.env, p, d).libs = own \o rest
    <2>1. \A libs : [Nothing EXCEPT !.libs = libs].libs = libs
      BY DEF Nothing
    <2>2. Followed(tree, d) /\ IsLinked(d)
      BY DEF IsPort
    <2> QED  BY <1>2, <1>3, <2>1, <2>2 DEF FindVcpkg
  <1>5. IsTree(tree) /\ Followable(tree) /\ ~Answered(tree, d)
    BY <1>3, AroundIs DEF IsPort, Followed, Followable
  <1>6. IsList(own) /\ own = IF HasArtifacts(tree, d.to, d.triplet)
                             THEN ScannedLibs(tree, d.to, d.triplet) ELSE <<d.to>>
    BY <1>5, ResolvedIs DEF IsPort
  <1>7. ToSet(own) = LibrariesOf(node)
    <2>1. LibrariesOf(node) = IF HasArtifacts(tree, d.to, d.triplet)
                              THEN ToSet(ScannedLibs(tree, d.to, d.triplet)) ELSE {d.to}
      <3>1. \A x, y : LibrariesOf(PortNode(x, y, p)) =
                        IF HasArtifacts(tree, x, y) THEN ToSet(ScannedLibs(tree, x, y)) ELSE {x}
        BY PortNodeIs
      <3> HIDE DEF tree
      <3> QED  BY <3>1
    <2>2. ToSet(<<d.to>>) = {d.to}
      BY ListOfNone
    <2> HIDE DEF own, node
    <2> QED  BY <1>6, <2>1, <2>2
  <1>8. /\ IsList(rest)
        /\ \A n \in NeededBy(node) \ {node} : LibrariesOf(n) \subseteq ToSet(rest)
        /\ \A k \in 1 .. Len(rest) : \E n \in {node} \cup NeededBy(node) : PlacedFor(n, rest, k)
    BY <1>5, PortsPlaced
  <1> HIDE DEF own, rest, node
  <1>9. InOrder(own \o rest, {node} \cup NeededBy(node))
    BY <1>6, <1>7, <1>8, InOrderAbove
  <1> QED  BY <1>1, <1>4, <1>9 DEF Whole

\* Any other dependency gives a list.
LEMMA ForeignIsList ==
  ASSUME WorldOK, NEW p \in Projects, NEW d \in DependenciesOf(p), ~IsPort(p, d)
  PROVE  IsList(FindForeign(world.env, p, d).libs)
  <1> DEFINE env == world.env
  <1>1. \A libs : [Nothing EXCEPT !.libs = libs].libs = libs
    BY DEF Nothing
  <1>2. Failed.libs = <<>> /\ IsList(Failed.libs)
    BY ListOfNone DEF Failed, Nothing
  <1>3. IsList(NamedLike(d).libs)
    BY <1>1, ListOfNone DEF NamedLike
  <1>4. CASE d.source = "vcpkg"
    <2> DEFINE tree == InstalledRoot(env, p)
    <2>1. FindForeign(env, p, d) = FindVcpkg(env, p, d)
      BY <1>4 DEF FindForeign
    <2>2. ~Followed(tree, d) \/ ~IsLinked(d)
      BY <1>4 DEF IsPort
    <2>3. CASE d.triplet = NoValue \/ tree = NoValue
      <3>1. FindVcpkg(env, p, d) = Failed
        BY <2>3 DEF FindVcpkg
      <3> QED  BY <1>2, <2>1, <3>1
    <2>4. CASE ~(d.triplet = NoValue \/ tree = NoValue)
      <3>1. FindVcpkg(env, p, d) = ResolvedPackage(tree, d)
        BY <2>2, <2>4 DEF FindVcpkg
      <3>2. IsTree(tree)
        BY <2>4, AroundIs
      <3> QED  BY <2>1, <3>1, <3>2, ResolvedIs
    <2> QED  BY <2>3, <2>4
  <1>5. CASE d.source = "system"
    <2>1. FindForeign(env, p, d) = FindSystem(env, d)
      BY <1>5 DEF FindForeign
    <2>2. d.to \in DOMAIN env.packages => IsList(LinkFlags(env.packages[d.to]))
      BY AroundIs, FlagsAreLists
    <2> QED  BY <1>1, <1>3, <2>1, <2>2 DEF FindSystem
  <1>6. CASE d.source = "git"
    <2>1. FindForeign(env, p, d) = FindGit(env, p, d)
      BY <1>6 DEF FindForeign
    <2>2. \A x : IsList(<<x>>)
      BY ListOfNone
    <2> QED  BY <1>1, <1>2, <2>1, <2>2 DEF FindGit
  <1>7. CASE d.source = "conan"
    <2>1. FindForeign(env, p, d) = FindConan(env, p, d)
      BY <1>7 DEF FindForeign
    <2>2. env.builds[p].conan # NoValue =>
            \A n \in DOMAIN env.builds[p].conan : IsList(LinkFlags(env.builds[p].conan[n]))
      BY AroundIs, FlagsAreLists
    <2> QED  BY <1>1, <1>2, <2>1, <2>2 DEF FindConan
  <1>8. CASE d.source = "custom"
    <2>1. FindForeign(env, p, d) = FindCustom(env, d)
      BY <1>8 DEF FindForeign
    <2>2. env.prints[d.to] \notin {NoValue, <<>>} => IsList(LinkFlags(env.prints[d.to]))
      BY <1>8, AroundIs, FlagsAreLists DEF IsAnswer
    <2> QED  BY <1>1, <1>2, <2>1, <2>2 DEF FindCustom
  <1>9. CASE d.source \notin {"vcpkg", "system", "git", "conan", "custom"}
    <2>1. FindForeign(env, p, d) = Failed
      BY <1>9 DEF FindForeign
    <2> QED  BY <1>2, <2>1
  <1> QED  BY <1>4, <1>5, <1>6, <1>7, <1>8, <1>9

\* What is linked for a dependency that is not local is in order.
LEMMA ForeignInOrder ==
  ASSUME WorldOK, NEW p \in Projects, NEW d \in DependenciesOf(p), d.source # "local",
         FindForeign(world.env, p, d).ok
  PROVE  InOrder(FindForeign(world.env, p, d).libs, Whole(p, d))
  <1>1. CASE IsPort(p, d)
    BY <1>1, PortInOrder
  <1>2. CASE ~IsPort(p, d)
    <2> DEFINE node == <<"other", d, p>>
               libs == FindForeign(world.env, p, d).libs
    <2>1. NodeOf(p, d) = node
      BY <1>2 DEF NodeOf, IsPort
    <2>2. node[1] = "other" /\ node[2] = d /\ node[3] = p
      OBVIOUS
    <2>3. IsList(libs)
      BY <1>2, ForeignIsList
    <2> HIDE DEF node
    <2>4. NeededBy(node) = {}
      BY <2>2 DEF NeededBy, PortNodesBelow
    <2>5. LibrariesOf(node) = ToSet(libs)
      BY <2>2 DEF LibrariesOf
    <2> HIDE DEF libs
    <2>6. \A i \in 1 .. Len(libs) : PlacedFor(node, libs, i)
      BY <2>3, <2>4, <2>5, ListIs DEF PlacedFor
    <2>7. InOrder(libs, {node})
      BY <2>3, <2>5, <2>6 DEF InOrder
    <2> QED  BY <2>1, <2>4, <2>7 DEF Whole, libs
  <1> QED  BY <1>1, <1>2

(***************************************************************************)
(* The line of a project.                                                  *)
(***************************************************************************)

\* After what a project has itself is what is in order for some nodes.
Extended(libs, own, nodes) == \E rest : libs = own \o rest /\ InOrder(rest, nodes)

\* One dependency more.
LEMMA MoreInOrder ==
  ASSUME NEW own, IsList(own), NEW first, NEW part, NEW A, NEW B,
         first.ok => Extended(first.libs, own, A), part.ok => InOrder(part.libs, B)
  PROVE  More(first, part).ok => Extended(More(first, part).libs, own, A \cup B)
  <1> SUFFICES ASSUME More(first, part).ok
               PROVE  Extended(More(first, part).libs, own, A \cup B)
    OBVIOUS
  <1>1. first.ok
    BY DEF More
  <1>2. More(first, part) = Joined(first, part)
    BY <1>1 DEF More
  <1>3. part.ok /\ More(first, part).libs = first.libs \o part.libs
    <2> DEFINE both == first.ok /\ part.ok /\ ~Conflict(first.definitions, part.definitions)
               joined == Joined(first, part)
    <2>1. joined.ok = both /\ joined.libs = first.libs \o part.libs
      <3> HIDE DEF both
      <3> QED  BY DEF Joined, both
    <2> HIDE DEF joined
    <2>2. joined.ok
      BY <1>2 DEF joined
    <2>3. both
      BY <2>1, <2>2
    <2> QED  BY <1>2, <2>1, <2>3 DEF joined
  <1>4. PICK rest : first.libs = own \o rest /\ InOrder(rest, A)
    BY <1>1 DEF Extended
  <1>5. InOrder(part.libs, B)
    BY <1>3
  <1> DEFINE last == part.libs
  <1>6. More(first, part).libs = (own \o rest) \o last
    BY <1>3, <1>4
  <1> HIDE DEF last
  <1>7. (own \o rest) \o last = own \o (rest \o last)
    <2> DEFINE S == ToSet(own) \cup ToSet(rest) \cup ToSet(last)
    <2>1. IsList(rest) /\ IsList(last)
      BY <1>4, <1>5 DEF InOrder, last
    <2>2. own \in Seq(S) /\ rest \in Seq(S) /\ last \in Seq(S)
      BY <2>1, ListIn
    <2> HIDE DEF S
    <2> QED  BY <2>2, ConcatAssociative
  <1>8. InOrder(rest \o last, A \cup B)
    BY <1>4, <1>5, InOrderJoined DEF last
  <1> QED  BY <1>6, <1>7, <1>8 DEF Extended

\* What a project needs is what it has dependencies on, with all that those need.
LEMMA NeededByProject ==
  ASSUME NEW p
  PROVE  NeededBy(<<"project", p>>) = UNION {Whole(p, d) : d \in DependenciesOf(p)}
  <1> DEFINE node == <<"project", p>>
             all == UNION {Whole(p, d) : d \in DependenciesOf(p)}
             Nodes(R) == UNION {NodesFor(d.to) : d \in R}
  <1>1. ASSUME NEW q
        PROVE  NeededBy(<<"project", q>>) = NodesFor(q) \cup Nodes(ReachedFrom(q))
    <2>1. <<"project", q>>[1] = "project" /\ <<"project", q>>[2] = q
      OBVIOUS
    <2> QED  BY <2>1 DEF NeededBy
  <1>2. \A d : NodeOf(p, d)[1] = "project" => d.source = "local"
    BY DEF NodeOf
  <1>3. \A d \in DependenciesOf(p) :
          IF d \in Locals(p)
          THEN Whole(p, d) = {NodeOf(p, d)} \cup NodesFor(d.to) \cup Nodes(ReachedFrom(d.to))
          ELSE Whole(p, d) = {NodeOf(p, d)} \cup PortNodesBelow(NodeOf(p, d))
    <2> SUFFICES ASSUME NEW d \in DependenciesOf(p)
                 PROVE  IF d \in Locals(p)
                        THEN Whole(p, d) = {NodeOf(p, d)} \cup NodesFor(d.to) \cup Nodes(ReachedFrom(d.to))
                        ELSE Whole(p, d) = {NodeOf(p, d)} \cup PortNodesBelow(NodeOf(p, d))
      OBVIOUS
    <2>1. CASE d \in Locals(p)
      <3>1. NodeOf(p, d) = <<"project", d.to>>
        BY <2>1 DEF NodeOf, Locals
      <3>2. NeededBy(NodeOf(p, d)) = NodesFor(d.to) \cup Nodes(ReachedFrom(d.to))
        BY <1>1, <3>1
      <3> HIDE DEF Nodes
      <3> QED  BY <2>1, <3>2 DEF Whole
    <2>2. CASE d \notin Locals(p)
      <3>1. NodeOf(p, d)[1] # "project"
        BY <1>2, <2>2 DEF Locals
      <3> QED  BY <2>2, <3>1 DEF Whole, NeededBy
    <2> QED  BY <2>1, <2>2
  <1>4. \A d \in Locals(p) : d \in DependenciesOf(p) /\ PortNodesBelow(NodeOf(p, d)) = {}
    <2> SUFFICES ASSUME NEW d \in Locals(p)
                 PROVE  d \in DependenciesOf(p) /\ PortNodesBelow(NodeOf(p, d)) = {}
      OBVIOUS
    <2>1. NodeOf(p, d) = <<"project", d.to>> /\ d \in DependenciesOf(p)
      BY DEF NodeOf, Locals
    <2> QED  BY <2>1 DEF PortNodesBelow
  <1>5. Nodes(ReachedFrom(p)) = UNION {NodesFor(d.to) \cup Nodes(ReachedFrom(d.to)) : d \in Locals(p)}
    <2>1. ReachedFrom(p) = UNION {{d} \cup ReachedFrom(d.to) : d \in Locals(p)}
      BY ReachedParts DEF From
    <2> QED  BY <2>1
  <1>6. NodesFor(p) = UNION {{NodeOf(p, d)} \cup PortNodesBelow(NodeOf(p, d)) : d \in DependenciesOf(p)}
    BY DEF NodesFor
  <1>7. NeededBy(node) = NodesFor(p) \cup Nodes(ReachedFrom(p))
    BY <1>1
  <1> HIDE DEF Nodes, node
  <1>8. NeededBy(node) \subseteq all
    <2>1. NodesFor(p) \subseteq all
      <3> SUFFICES ASSUME NEW d \in DependenciesOf(p)
                   PROVE  {NodeOf(p, d)} \cup PortNodesBelow(NodeOf(p, d)) \subseteq Whole(p, d)
        BY <1>6
      <3> QED  BY <1>3, <1>4
    <2>2. Nodes(ReachedFrom(p)) \subseteq all
      <3> SUFFICES ASSUME NEW d \in Locals(p)
                   PROVE  NodesFor(d.to) \cup Nodes(ReachedFrom(d.to)) \subseteq Whole(p, d)
        BY <1>4, <1>5
      <3> QED  BY <1>3, <1>4
    <2> QED  BY <1>7, <2>1, <2>2
  <1>9. all \subseteq NeededBy(node)
    <2> SUFFICES ASSUME NEW d \in DependenciesOf(p)
                 PROVE  Whole(p, d) \subseteq NeededBy(node)
      OBVIOUS
    <2>1. {NodeOf(p, d)} \cup PortNodesBelow(NodeOf(p, d)) \subseteq NodesFor(p)
      BY <1>6
    <2>2. d \in Locals(p) => NodesFor(d.to) \cup Nodes(ReachedFrom(d.to)) \subseteq Nodes(ReachedFrom(p))
      BY <1>5
    <2> QED  BY <1>3, <1>7, <2>1, <2>2
  <1> QED  BY <1>8, <1>9 DEF node

\* What is found for each local dependency is in order.
BelowInOrder(below, p) == \A d \in Locals(p) : below[d].ok => InOrder(below[d].libs, Whole(p, d))

\* The loop over the dependencies of a project, when those below are in order.
LEMMA LoopInOrder ==
  ASSUME WorldOK, NEW p \in Projects, NEW own, IsList(own.libs), NEW below, BelowInOrder(below, p)
  PROVE  LET result == WithDependencies(world.env, p, world.projects[p].dependencies, own, below)
         IN result.ok => Extended(result.libs, own.libs, NeededBy(<<"project", p>>))
  <1> DEFINE deps == world.projects[p].dependencies
             result == WithDependencies(world.env, p, deps, own, below)
             part(i) == FindDep(world.env, p, deps[i], below)
             nodes(n) == UNION {Whole(p, deps[i]) : i \in 1 .. n}
  <1>1. Len(deps) \in Nat /\ DependenciesOf(p) = {deps[i] : i \in 1 .. Len(deps)}
    BY WorldIs DEF DependenciesOf, ToSet
  <1>2. \A i \in 1 .. Len(deps) : part(i).ok => InOrder(part(i).libs, Whole(p, deps[i]))
    <2> SUFFICES ASSUME NEW i \in 1 .. Len(deps), part(i).ok
                 PROVE  InOrder(part(i).libs, Whole(p, deps[i]))
      OBVIOUS
    <2>1. deps[i] \in DependenciesOf(p)
      BY <1>1
    <2>2. CASE deps[i].source = "local"
      <3>1. deps[i] \in Locals(p)
        BY <2>1, <2>2 DEF Locals
      <3> QED  BY <2>2, <3>1 DEF FindDep, BelowInOrder
    <2>3. CASE deps[i].source # "local"
      <3>1. part(i) = FindForeign(world.env, p, deps[i])
        BY <2>3 DEF FindDep
      <3> HIDE DEF part, deps
      <3> QED  BY <2>1, <2>3, <3>1, ForeignInOrder
    <2> QED  BY <2>2, <2>3
  <1> HIDE DEF deps
  <1>3. PICK r : Loops(r, Len(deps), world.env, p, deps, own, below) /\ result = r[Len(deps)]
    BY <1>1, LoopIs
  <1>4. r[0] = own /\ \A i \in 1 .. Len(deps) : r[i] = More(r[i - 1], part(i))
    BY <1>1, <1>3, LoopAt
  <1> HIDE DEF part, result
  <1> DEFINE Right(n) == r[n].ok => Extended(r[n].libs, own.libs, nodes(n))
             Wrong == {n \in 0 .. Len(deps) : ~Right(n)}
  <1>5. Right(0)
    <2>1. own.libs \o <<>> = own.libs
      BY ConcatEmptySeq DEF IsList
    <2>2. nodes(0) = {}
      OBVIOUS
    <2> HIDE DEF nodes
    <2> QED  BY <1>4, <2>1, <2>2, InOrderNone DEF Extended
  <1>6. ASSUME NEW n \in 1 .. Len(deps), Right(n - 1) PROVE Right(n)
    <2>1. nodes(n) = nodes(n - 1) \cup Whole(p, deps[n])
      <3>1. 1 .. n = (1 .. n - 1) \cup {n}
        OBVIOUS
      <3> QED  BY <3>1
    <2>2. r[n] = More(r[n - 1], part(n))
      BY <1>4
    <2> HIDE DEF nodes
    <2> DEFINE first == r[n - 1]
               last == part(n)
               above == own.libs
               A == nodes(n - 1)
               B == Whole(p, deps[n])
    <2>3. /\ IsList(above) /\ (first.ok => Extended(first.libs, above, A))
          /\ last.ok => InOrder(last.libs, B)
      BY <1>2, <1>6
    <2> HIDE DEF first, last, above, A, B
    <2>4. More(first, last).ok => Extended(More(first, last).libs, above, A \cup B)
      BY <2>3, MoreInOrder
    <2> QED  BY <2>1, <2>2, <2>4 DEF first, last, above, A, B
  <1>7. Right(Len(deps))
    <2> HIDE DEF Right
    <2>1. SUFFICES ASSUME Wrong # {} PROVE FALSE
      BY <1>1
    <2>2. PICK n \in Wrong : \A m \in Wrong : n <= m
      <3>1. Wrong \in SUBSET Nat
        OBVIOUS
      <3> HIDE DEF Wrong
      <3> QED  BY <2>1, <3>1, LeastNumber
    <2>3. n \in 1 .. Len(deps) /\ n - 1 \in 0 .. Len(deps) /\ n - 1 \notin Wrong
      BY <1>1, <1>5, <2>2
    <2> QED  BY <1>6, <2>2, <2>3
  <1>8. nodes(Len(deps)) = NeededBy(<<"project", p>>)
    <2>1. nodes(Len(deps)) = UNION {Whole(p, d) : d \in DependenciesOf(p)}
      BY <1>1
    <2> QED  BY <2>1, NeededByProject
  <1> HIDE DEF nodes
  <1> QED  BY <1>3, <1>7, <1>8 DEF result, deps

(***************************************************************************)
(* What local dependencies link.                                           *)
(***************************************************************************)

ProjectNode(p) == <<"project", p>>

\* What is found for a local dependency is in order.
LocalInOrder(x, d) ==
  x.ok => InOrder(x.libs, {ProjectNode(d.to)} \cup NeededBy(ProjectNode(d.to)))

\* The local dependencies of a project are among all local ones.
LEMMA LocalsBelow ==
  ASSUME NEW p, NEW below, \A d \in LocalsOf(world.projects) : LocalInOrder(below[d], d)
  PROVE  BelowInOrder(below, p)
  <1> SUFFICES ASSUME NEW d \in Locals(p), below[d].ok
               PROVE  InOrder(below[d].libs, Whole(p, d))
    BY DEF BelowInOrder
  <1>1. NodeOf(p, d) = ProjectNode(d.to)
    BY DEF NodeOf, Locals, ProjectNode
  <1>2. LocalInOrder(below[d], d)
    BY LocalsAreLocal
  <1> QED  BY <1>1, <1>2 DEF LocalInOrder, Whole

\* A local dependency, when those below one more ancestor are in order.
LEMMA OrderAbove ==
  ASSUME WorldOK, NEW f, Finds(f, world.env, world.projects),
         NEW a \in SUBSET Projects, NEW d \in LocalsOf(world.projects),
         d.to \in Projects \ a => \A e \in LocalsOf(world.projects) : LocalInOrder(f[a \cup {d.to}][e], e)
  PROVE  LocalInOrder(f[a][d], d)
  <1>1. f[a][d] = IF d.to \notin Projects \/ d.to \in a THEN Failed
                  ELSE WithDependencies(world.env, d.to, world.projects[d.to].dependencies,
                                        FindOwn(world.projects, d), f[a \cup {d.to}])
    BY FindsAt
  <1>2. Failed.ok = FALSE /\ Failed.libs = <<>>
    BY DEF Failed, Nothing
  <1>3. CASE d.to \notin Projects \/ d.to \in a
    BY <1>1, <1>2, <1>3 DEF LocalInOrder
  <1>4. CASE d.to \in Projects \ a
    <2> DEFINE p == d.to
               node == ProjectNode(p)
               own == FindOwn(world.projects, d)
               result == f[a][d]
    <2>1. result = WithDependencies(world.env, p, world.projects[p].dependencies, own, f[a \cup {p}])
      BY <1>1, <1>4
    <2>2. BelowInOrder(f[a \cup {p}], p)
      BY <1>4, LocalsBelow
    <2>3. IsList(own.libs)
      BY <1>2, ListOfNone DEF FindOwn
    <2>4. Resolvable(world.projects[p].flags, d.using) => ToSet(own.libs) = LibrariesOf(node)
      <3>1. LibrariesOf(node) = IF world.projects[p].type = "INTERFACE" THEN {} ELSE {p}
        <4>1. node[1] = "project" /\ node[2] = p
          BY DEF ProjectNode
        <4> QED  BY <4>1 DEF LibrariesOf
      <3>2. Resolvable(world.projects[p].flags, d.using) =>
              own.libs = IF world.projects[p].type = "INTERFACE" THEN <<>> ELSE <<p>>
        BY DEF FindOwn
      <3>3. ToSet(<<>>) = {} /\ ToSet(<<p>>) = {p}
        BY ListOfNone
      <3> HIDE DEF own, p, node
      <3> QED  BY <3>1, <3>2, <3>3
    <2>5. p \in Projects
      BY <1>4
    <2> HIDE DEF own, result, p, node
    <2>6. SUFFICES ASSUME result.ok
                   PROVE  InOrder(result.libs, {node} \cup NeededBy(node))
      BY DEF LocalInOrder, result, node, p
    <2>7. PICK rest : result.libs = own.libs \o rest /\ InOrder(rest, NeededBy(node))
      <3>1. Extended(result.libs, own.libs, NeededBy(node))
        BY <2>1, <2>2, <2>3, <2>5, <2>6, LoopInOrder DEF node, ProjectNode
      <3> QED  BY <3>1 DEF Extended
    <2>8. Resolvable(world.projects[p].flags, d.using)
      <3>1. FoundRight(result, a, d)
        BY LocalsRight DEF result
      <3>2. d \in From(d)
        BY DEF From
      <3> QED  BY <2>6, <3>1, <3>2 DEF FoundRight, Sound, p
    <2> DEFINE above == own.libs
    <2>9. IsList(above) /\ ToSet(above) = LibrariesOf(node)
      BY <2>3, <2>4, <2>8
    <2>10. /\ IsList(rest)
           /\ \A n \in NeededBy(node) \ {node} : LibrariesOf(n) \subseteq ToSet(rest)
           /\ \A i \in 1 .. Len(rest) : \E n \in {node} \cup NeededBy(node) : PlacedFor(n, rest, i)
      BY <2>7 DEF InOrder
    <2>11. result.libs = above \o rest
      BY <2>7
    <2> HIDE DEF above
    <2>12. InOrder(above \o rest, {node} \cup NeededBy(node))
      BY <2>9, <2>10, InOrderAbove
    <2> QED  BY <2>11, <2>12
  <1> QED  BY <1>3, <1>4

\* All local dependencies, below any ancestors.
LEMMA LocalsInOrder ==
  ASSUME WorldOK, NEW f, Finds(f, world.env, world.projects),
         NEW a \in SUBSET Projects, NEW d \in LocalsOf(world.projects)
  PROVE  LocalInOrder(f[a][d], d)
  <1> DEFINE Right(b) == \A e \in LocalsOf(world.projects) : LocalInOrder(f[b][e], e)
             Wrong == {n \in Nat : \E b \in SUBSET Projects : Leaves(world.projects, b) = n /\ ~Right(b)}
  <1>1. ASSUME NEW b \in SUBSET Projects
        PROVE  /\ Leaves(world.projects, b) \in Nat
               /\ \A p \in Projects \ b : /\ b \cup {p} \in SUBSET Projects
                                          /\ Leaves(world.projects, b \cup {p}) = Leaves(world.projects, b) - 1
    BY WorldIs, FewerLeft DEF Projects
  <1>2. SUFFICES ASSUME ~Right(a) PROVE FALSE
    OBVIOUS
  <1> HIDE DEF Right
  <1>3. Wrong \in SUBSET Nat /\ Wrong # {}
    BY <1>1, <1>2
  <1>4. PICK n \in Wrong : \A m \in Wrong : n <= m
    <2> HIDE DEF Wrong
    <2> QED  BY <1>3, LeastNumber
  <1>5. PICK b \in SUBSET Projects : Leaves(world.projects, b) = n /\ ~Right(b)
    BY <1>4
  <1>6. \A p \in Projects \ b : Right(b \cup {p})
    <2> SUFFICES ASSUME NEW p \in Projects \ b
                 PROVE  Right(b \cup {p})
      OBVIOUS
    <2>1. /\ b \cup {p} \in SUBSET Projects /\ Leaves(world.projects, b \cup {p}) \in Nat
          /\ Leaves(world.projects, b \cup {p}) = n - 1 /\ n \in Nat
      BY <1>1, <1>5
    <2>2. Leaves(world.projects, b \cup {p}) \notin Wrong
      <3> HIDE DEF Wrong
      <3> QED  BY <1>4, <2>1
    <2> QED  BY <2>1, <2>2
  <1>7. Right(b)
    <2>1. ASSUME NEW e \in LocalsOf(world.projects) PROVE LocalInOrder(f[b][e], e)
      <3>1. e.to \in Projects \ b => \A x \in LocalsOf(world.projects) : LocalInOrder(f[b \cup {e.to}][x], x)
        BY <1>6 DEF Right
      <3> QED  BY <1>5, <3>1, OrderAbove
    <2> QED  BY <2>1 DEF Right
  <1> QED  BY <1>5, <1>7

\* What writeVariables finds is in order.
LEMMA FoundInOrder ==
  ASSUME WorldOK, Found.ok
  PROVE  InOrder(Found.libs, NeededBy(ProjectNode(world.root)))
  <1> DEFINE root == world.root
             own == [Nothing EXCEPT !.definitions =
                       Definitions(root, world.projects[root].flags, world.overrides)]
  <1>1. IsFiniteSet(Projects) /\ root \in Projects /\ {root} \in SUBSET Projects
    BY WorldIs
  <1>2. PICK f : /\ Finds(f, world.env, world.projects)
                 /\ FindLocals(world.env, world.projects, root) = f[{root}]
    <2>1. IsFiniteSet(DOMAIN world.projects) /\ root \in DOMAIN world.projects
      BY <1>1 DEF Projects
    <2> QED  BY <2>1, FindIs
  <1>3. Found = WithDependencies(world.env, root, world.projects[root].dependencies, own, f[{root}])
    BY <1>2 DEF Found, FindDependencies
  <1>4. own.libs = <<>>
    BY DEF Nothing
  <1> HIDE DEF own
  <1>5. BelowInOrder(f[{root}], root)
    BY <1>1, <1>2, LocalsInOrder, LocalsBelow
  <1>6. IsList(own.libs)
    BY <1>4, ListOfNone
  <1> HIDE DEF Found
  <1>7. Extended(Found.libs, own.libs, NeededBy(ProjectNode(root)))
    BY <1>1, <1>3, <1>5, <1>6, LoopInOrder DEF ProjectNode
  <1>8. PICK rest : Found.libs = <<>> \o rest /\ InOrder(rest, NeededBy(ProjectNode(root)))
    BY <1>4, <1>7 DEF Extended
  <1>9. <<>> \o rest = rest
    BY <1>8, ConcatEmptySeq DEF InOrder, IsList
  <1> QED  BY <1>8, <1>9

\* What is linked has all that a project needs, and each library is before all that
\* what it is there for needs itself, or, in a cycle of ports, before what it is linked
\* with outside the cycle (findDep, the loop of writeVariables, and the search
\* through the database of vcpkg).
THEOREM LibrariesInOrder == Spec => []LinksInOrder
  <1>1. FoundInv => LinksInOrder
    <2> SUFFICES ASSUME FoundInv PROVE LinksInOrder
      OBVIOUS
    <2> HIDE DEF Found
    <2>1. NotOwnInput
      BY DependenciesFound DEF FoundInv, FoundOK, NotOwnInput, VariablesWritten
    <2>2. CASE VariablesWritten
      <3> DEFINE libs == found.libs
                 nodes == NeededBy(<<"project", world.root>>)
                 below == [n \in nodes |-> NeededBy(n)]
                 after == [i \in 0 .. Len(libs) |-> {libs[j] : j \in (i + 1) .. Len(libs)}]
      <3>1. found = Found /\ Found.ok /\ WorldOK
        BY <2>2 DEF VariablesWritten, FoundInv, FoundOK
      <3>2. InOrder(libs, nodes)
        BY <3>1, FoundInOrder DEF ProjectNode
      <3> HIDE DEF libs, nodes
      <3>3. Len(libs) \in Nat /\ DOMAIN libs = 1 .. Len(libs) /\ ToSet(libs) = After(libs, 0)
        BY <3>2, ListIs DEF InOrder
      <3>4. \A i \in 0 .. Len(libs) : after[i] = After(libs, i)
        BY DEF After
      <3>5. \A n \in nodes : LibrariesOf(n) \subseteq after[0]
        BY <3>2, <3>3, <3>4 DEF InOrder
      <3>6. \A i \in DOMAIN libs : \E n \in nodes :
              /\ libs[i] \in LibrariesOf(n)
              /\ \/ \A needed \in below[n] \ {n} : LibrariesOf(needed) \subseteq after[i]
                 \/ /\ InCycle(n)
                    /\ \A child \in FurtherDown(n) : LibrariesOf(child) \subseteq after[i]
        <4> SUFFICES ASSUME NEW i \in 1 .. Len(libs)
                     PROVE  \E n \in nodes :
                              /\ libs[i] \in LibrariesOf(n)
                              /\ \/ \A needed \in below[n] \ {n} : LibrariesOf(needed) \subseteq after[i]
                                 \/ /\ InCycle(n)
                                    /\ \A child \in FurtherDown(n) : LibrariesOf(child) \subseteq after[i]
          BY <3>3
        <4>1. PICK n \in nodes : PlacedFor(n, libs, i)
          BY <3>2 DEF InOrder
        <4>2. below[n] = NeededBy(n) /\ after[i] = After(libs, i)
          BY <3>4
        <4> HIDE DEF below, after
        <4> QED  BY <4>1, <4>2 DEF PlacedFor
      <3> QED  BY <2>1, <3>5, <3>6 DEF LinksInOrder, libs, nodes
    <2> QED  BY <2>1, <2>2 DEF LinksInOrder
  <1> QED  BY <1>1, FoundInit, FoundStep, PTL DEF Spec

(***************************************************************************)
(* Edges.                                                                  *)
(***************************************************************************)
TheEdges ==
  {CompileEdge(u) : u \in sources} \cup IF Manifest.type = "INTERFACE" THEN {} ELSE {LinkEdge}

\* Sources, objects and artifacts are different files.
LEMMA DifferentFiles ==
  ASSUME NEW u, NEW v, NEW p
  PROVE  /\ Source(u) # Object(v) /\ Source(u) # Artifact(p) /\ Object(u) # Artifact(p)
         /\ Object(u) = Object(v) <=> u.path = v.path
  BY DEF Source, Object, Artifact

LEMMA ThreeWriters ==
  ASSUME WorldOK, NEW e
  PROVE  /\ e.inputs \subseteq Triggers(e)
         /\ e.implicit \subseteq Triggers(e) \cup Step(e).orderOnly
         /\ Triggers(e) \cup Step(e).orderOnly \subseteq e.inputs \cup e.implicit
         /\ world.generator # "make" => Triggers(e) = e.inputs \cup e.implicit
  <1>1. world.generator \in {"ninja", "cob", "make"}
    BY WorldsAssumption DEF WorldOK
  <1>2. CASE world.generator = "ninja"
    BY <1>2 DEF Triggers, Step, NinjaStep
  <1>3. CASE world.generator = "cob"
    BY <1>3 DEF Triggers, Step, CobStep
  <1>4. CASE world.generator = "make"
    BY <1>4 DEF Triggers, Step, MakeStep
  <1> QED  BY <1>1, <1>2, <1>3, <1>4

\* The edge of a unit of a project that has been scanned.
LEMMA ScannedEdge ==
  ASSUME NEW u \in sources
  PROVE  /\ CompileEdge(u).output = Object(u)
         /\ CompileEdge(u).inputs = {Source(u)}
         /\ scanned = sources => CompileEdge(u).bmis = u.requires
         /\ scanned = {} => CompileEdge(u).bmis = {}
         /\ scanned = sources =>
              CompileEdge(u).implicit = {Object(p) : p \in ProvidersOf(u.requires)}
  BY DEF CompileEdge

LEMMA Providers ==
  ASSUME UnitsRead, scanned = sources, NEW modules
  PROVE  ProvidersOf(modules) = {v \in sources : v.provides \cap modules # {}}
  <1>1. ASSUME NEW v \in ProvidersOf(modules)
        PROVE  v \in sources /\ v.provides \cap modules # {}
    <2>1. PICK p \in providers : p[1] \in modules /\ p[2] = v
      BY <1>1 DEF ProvidersOf
    <2> QED  BY <2>1, ProvidedByPairs DEF UnitsRead
  <1>2. ASSUME NEW v \in sources, NEW m \in v.provides \cap modules
        PROVE  v \in ProvidersOf(modules)
    <2>1. <<m, v>> \in providers /\ <<m, v>>[1] = m /\ <<m, v>>[2] = v
      BY <1>2, ProvidedByPairs DEF UnitsRead
    <2> QED  BY <2>1 DEF ProvidersOf
  <1> QED  BY <1>1, <1>2

(***************************************************************************)
(* The backend.                                                            *)
(***************************************************************************)

IsCycle(cycle) ==
  cycle # {} /\ \A u \in cycle : \E w \in cycle : w.provides \cap u.requires # {}

FilesOK ==
  /\ IF EdgesWritten THEN edges = TheEdges ELSE edges = {} /\ built = {} /\ newer = {}
  /\ \A n \in newer : n = <<n[1], n[2]>> /\ n[2] \in built /\ n[1] \in MadeFrom(n[2])
  /\ \A o \in built : \E e \in edges : e.output = o
  /\ pc = "done" => \A e \in edges : ~Pending(e)

\* All that the interface units of its imports import, a unit imports itself.
ImportsAll(u) == \A v \in sources : v.provides \cap u.requires # {} => v.requires \subseteq u.requires

\* Units whose imports nothing has been written for are compiled only when they have
\* none; others only outside of cycles, and if they import all that they reach.
ImportsBuilt ==
  /\ ~HasInterface(sources) =>
       \A u \in sources : Object(u) \in built => u.requires = {}
  /\ HasInterface(sources) =>
       /\ \A cycle \in SUBSET sources : IsCycle(cycle) => \A u \in cycle : Object(u) \notin built
       /\ \A u \in sources : Object(u) \in built => ImportsAll(u)

MissesIndirect == HasInterface(sources) /\ failure = "build" => ImportsIndirectly

BuildInv == ScanInv /\ WorldOK /\ FilesOK /\ ImportsBuilt /\ MissesIndirect

LEMMA BuildInit == Init => BuildInv
  <1> SUFFICES ASSUME Init
               PROVE  BuildInv
    OBVIOUS
  <1>1. pc = "features" /\ failure = "" /\ sources = {} /\ edges = {} /\ built = {} /\ newer = {}
    BY DEF Init, GenerateIn
  <1>2. FilesOK /\ ImportsBuilt /\ MissesIndirect
    BY <1>1 DEF FilesOK, ImportsBuilt, MissesIndirect, EdgesWritten
  <1> QED  BY <1>2, ScanInit, WorldInit DEF BuildInv

\* A unit of a cycle is never ready before another one of it has been built.
LEMMA EdgeOfUnit ==
  ASSUME BuildInv, pc = "build", HasInterface(sources), NEW x \in sources, Ready(CompileEdge(x))
  PROVE  /\ \A v \in sources : v.provides \cap x.requires # {} => Object(v) \in built
         /\ Compiles(CompileEdge(x)) <=> ImportsAll(x)
  <1>1. scanned = sources /\ UnitsRead /\ edges = TheEdges /\ WorldOK /\ OneAtPath
    BY DEF BuildInv, ScanInv, ScanOK, Scanned, FilesOK, EdgesWritten, WorldOK
  <1>2. ASSUME NEW v \in sources, v.provides \cap x.requires # {}
        PROVE  Object(v) \in built
    <2>1. v \in ProvidersOf(x.requires)
      BY <1>1, <1>2, Providers
    <2>2. Object(v) \in CompileEdge(x).implicit
      BY <1>1, <2>1, ScannedEdge
    <2>3. CompileEdge(v).output \in Triggers(CompileEdge(x)) \cup Step(CompileEdge(x)).orderOnly
      BY <1>1, <2>2, ThreeWriters, ScannedEdge
    <2>4. CompileEdge(v) \in edges
      BY <1>1 DEF TheEdges
    <2>5. ~Pending(CompileEdge(v))
      BY <2>3, <2>4 DEF Ready
    <2> QED  BY <2>5, ScannedEdge DEF Pending
  <1>3. ASSUME NEW u \in sources, CompileEdge(x).output = Object(u)
        PROVE  u = x
    BY <1>1, <1>3, ScannedEdge, DifferentFiles DEF OneAtPath
  <1>4. CompileEdge(x).bmis = x.requires /\ CompileEdge(x).output = Object(x)
    BY <1>1, ScannedEdge
  <1>5. ProvidersOf(x.requires) = {v \in sources : v.provides \cap x.requires # {}}
    BY <1>1, Providers
  <1>6. \A p \in ProvidersOf(x.requires) : Object(p) \in built
    BY <1>2, <1>5
  <1>7. Compiles(CompileEdge(x)) <=> \A p \in ProvidersOf(x.requires) : p.requires \subseteq x.requires
    BY <1>3, <1>4, <1>6 DEF Compiles
  <1>8. Compiles(CompileEdge(x)) <=> ImportsAll(x)
    BY <1>5, <1>7 DEF ImportsAll
  <1> QED  BY <1>2, <1>8

LEMMA LinkCompiles ==
  Compiles(LinkEdge)
  BY DifferentFiles DEF Compiles, LinkEdge, Target

LEMMA BuildFilesSame ==
  ASSUME UNCHANGED <<world, sources, found, scanned, providers>>
  PROVE  /\ TheEdges' = TheEdges
         /\ \A o : MadeFrom(o)' = MadeFrom(o)
         /\ OneAtPath' = OneAtPath
         /\ HasInterface(sources)' = HasInterface(sources)
  <1>1. \A u : CompileEdge(u)' = CompileEdge(u)
    BY DEF CompileEdge, Object, Source, ProvidersOf
  <1>2. LinkEdge' = LinkEdge
    BY DEF LinkEdge, Target, Manifest, Object, Artifact
  <1>3. TheEdges' = TheEdges
    BY <1>1, <1>2 DEF TheEdges, Manifest
  <1>4. \A o : MadeFrom(o)' = MadeFrom(o)
    BY DEF MadeFrom, Target, Manifest, Object, Artifact, Source
  <1> QED  BY <1>3, <1>4 DEF OneAtPath, HasInterface

LEMMA PendingSame ==
  ASSUME UNCHANGED <<world, built, newer>>
  PROVE  \A e : Pending(e)' = Pending(e)
  BY DEF Pending, Triggers, Step, NinjaStep, CobStep, MakeStep

\* Nothing has been written yet.
LEMMA NotWritten ==
  ASSUME BuildInv, ~EdgesWritten, ~EdgesWritten', ScanInv', UNCHANGED <<edges, built, newer>>
  PROVE  FilesOK' /\ ImportsBuilt' /\ MissesIndirect'
  <1>1. edges' = {} /\ built' = {} /\ newer' = {}
    BY DEF BuildInv, FilesOK
  <1>2. pc' # "done" /\ failure' # "build"
    BY DEF EdgesWritten
  <1> QED  BY <1>1, <1>2 DEF FilesOK, ImportsBuilt, MissesIndirect

LEMMA BuildOutput ==
  ASSUME BuildInv, NEW edge, Build(edge), Compiles(edge)
  PROVE  FilesOK' /\ ImportsBuilt'
  <1>1. /\ pc = "build" /\ pc' = "build" /\ edge \in edges /\ Ready(edge)
        /\ built' = built \cup {edge.output}
        /\ newer' = {n \in newer : n[2] # edge.output} \cup Affected(edge.output, built)
        /\ UNCHANGED <<world, sources, found, scanned, providers, edges, failure>>
    BY DEF Build
  <1>2. edges = TheEdges /\ OneAtPath /\ ScanInv
    BY <1>1 DEF BuildInv, FilesOK, EdgesWritten, WorldOK
  <1>3. /\ TheEdges' = TheEdges /\ HasInterface(sources)' = HasInterface(sources)
        /\ \A o : MadeFrom(o)' = MadeFrom(o)
    BY <1>1, BuildFilesSame
  <1>4. \A n \in newer' : n = <<n[1], n[2]>> /\ n[2] \in built /\ n[1] \in MadeFrom(n[2])
    <2>1. \A n \in Affected(edge.output, built) :
             n = <<n[1], n[2]>> /\ n[2] \in built /\ n[1] \in MadeFrom(n[2])
      BY DEF Affected
    <2> QED  BY <1>1, <2>1 DEF BuildInv, FilesOK
  <1>5. FilesOK'
    <2>1. (IF EdgesWritten THEN edges = TheEdges ELSE edges = {} /\ built = {} /\ newer = {})'
      BY <1>1, <1>2, <1>3 DEF EdgesWritten
    <2>2. (\A n \in newer : n = <<n[1], n[2]>> /\ n[2] \in built /\ n[1] \in MadeFrom(n[2]))'
      BY <1>1, <1>3, <1>4
    <2>3. (\A o \in built : \E e \in edges : e.output = o)'
      BY <1>1 DEF BuildInv, FilesOK
    <2> QED  BY <1>1, <2>1, <2>2, <2>3 DEF FilesOK
  <1>6. ASSUME ~HasInterface(sources), NEW u \in sources, Object(u) \in built'
        PROVE  u.requires = {}
    <2>1. CASE Object(u) \in built
      BY <1>6, <2>1 DEF BuildInv, ImportsBuilt
    <2>2. CASE Object(u) = edge.output
      <3>1. scanned = {}
        BY <1>2, <1>6 DEF ScanInv, ScanOK
      <3>2. PICK x \in sources : edge = CompileEdge(x)
        <4>1. edge # LinkEdge
          BY <2>2, DifferentFiles DEF LinkEdge, Target
        <4> QED  BY <1>1, <1>2, <4>1 DEF TheEdges
      <3>3. u.requires \subseteq edge.bmis
        BY <2>2 DEF Compiles
      <3> QED  BY <3>1, <3>2, <3>3, ScannedEdge
    <2> QED  BY <1>1, <1>6, <2>1, <2>2
  <1>7. ASSUME HasInterface(sources), NEW cycle \in SUBSET sources, IsCycle(cycle), NEW u \in cycle
        PROVE  Object(u) \notin built'
    <2>1. \A v \in cycle : Object(v) \notin built
      BY <1>7 DEF BuildInv, ImportsBuilt
    <2>2. SUFFICES ASSUME Object(u) = edge.output
                   PROVE  FALSE
      BY <1>1, <2>1
    <2>3. PICK x \in sources : edge = CompileEdge(x)
      BY <1>1, <1>2, <2>2, DifferentFiles DEF TheEdges, LinkEdge, Target
    <2>4. x = u
      BY <1>2, <1>7, <2>2, <2>3, ScannedEdge, DifferentFiles DEF OneAtPath
    <2>5. PICK w \in cycle : w.provides \cap u.requires # {}
      BY <1>7 DEF IsCycle
    <2>6. Object(w) \in built
      BY <1>1, <1>7, <2>3, <2>4, <2>5, EdgeOfUnit
    <2> QED  BY <2>1, <2>6
  <1>8. ImportsBuilt'
    <2>1. ASSUME HasInterface(sources), NEW u \in sources, Object(u) \in built'
          PROVE  ImportsAll(u)
      <3>1. CASE Object(u) \in built
        BY <2>1, <3>1 DEF BuildInv, ImportsBuilt
      <3>2. CASE Object(u) = edge.output
        <4>1. PICK x \in sources : edge = CompileEdge(x)
          <5>1. edge # LinkEdge
            BY <3>2, DifferentFiles DEF LinkEdge, Target
          <5> QED  BY <1>1, <1>2, <5>1 DEF TheEdges
        <4>2. x = u
          BY <1>2, <3>2, <4>1, ScannedEdge, DifferentFiles DEF OneAtPath
        <4> QED  BY <1>1, <2>1, <4>1, <4>2, EdgeOfUnit
      <3> QED  BY <1>1, <2>1, <3>1, <3>2
    <2>2. \A u : ImportsAll(u)' = ImportsAll(u)
      BY <1>1 DEF ImportsAll
    <2> QED  BY <1>1, <1>3, <1>6, <1>7, <2>1, <2>2 DEF ImportsBuilt, Object
  <1> QED  BY <1>5, <1>8

LEMMA BuildStep == BuildInv /\ [Next]_vars => BuildInv'
  <1> SUFFICES ASSUME BuildInv, [Next]_vars
               PROVE  BuildInv'
    OBVIOUS
  <1>a. ScanInv' /\ WorldOK'
    BY ScanStep, WorldStep DEF BuildInv
  <1>b. PhasesOK
    BY DEF BuildInv, ScanInv
  <1> SUFFICES FilesOK' /\ ImportsBuilt' /\ MissesIndirect'
    BY <1>a DEF BuildInv
  <1>1. CASE \/ ResolveFeatureFlags \/ BuildSourceSet \/ WriteVariables \/ SkipScan \/ EndScan
             \/ \E u \in sources : ScanUnit(u)
    <2>1. pc \in {"features", "sources", "variables", "scan"}
      BY <1>1 DEF ResolveFeatureFlags, BuildSourceSet, WriteVariables, SkipScan, EndScan, ScanUnit
    <2>2. /\ pc' \in {"features", "sources", "variables", "scan", "edges", "failed"}
          /\ failure' \in {failure, "features", "sources", "variables", "scan"}
          /\ UNCHANGED <<edges, built, newer>>
      BY <1>1, <2>1 DEF ResolveFeatureFlags, BuildSourceSet, WriteVariables, SkipScan, EndScan,
                        ScanUnit, Fail, Continue
    <2>3. failure = ""
      BY <1>b, <2>1 DEF PhasesOK
    <2>4. ~EdgesWritten /\ ~EdgesWritten'
      BY <2>1, <2>2, <2>3 DEF EdgesWritten
    <2> QED  BY <1>a, <2>2, <2>4, NotWritten
  <1>2. CASE WriteEdges
    <2>1. /\ pc = "edges" /\ pc' = "build" /\ failure' = failure /\ edges' = TheEdges
          /\ UNCHANGED <<world, sources, found, scanned, providers, built, newer>>
      BY <1>2 DEF WriteEdges, Continue, TheEdges
    <2>2. failure = ""
      BY <1>b, <2>1 DEF PhasesOK
    <2>3. ~EdgesWritten /\ EdgesWritten'
      BY <2>1, <2>2 DEF EdgesWritten
    <2>4. built' = {} /\ newer' = {}
      BY <2>1, <2>3 DEF BuildInv, FilesOK
    <2>5. TheEdges' = TheEdges
      BY <2>1, BuildFilesSame
    <2> QED
      BY <2>1, <2>2, <2>3, <2>4, <2>5 DEF FilesOK, ImportsBuilt, MissesIndirect
  <1>3. CASE \E e \in edges : Build(e)
    <2>1. PICK e \in edges : Build(e)
      BY <1>3
    <2>2. /\ pc = "build" /\ failure = "" /\ Ready(e)
          /\ UNCHANGED <<world, sources, found, scanned, providers, edges>>
      BY <1>b, <2>1 DEF Build, PhasesOK
    <2>3. CASE Compiles(e)
      <3>1. failure' = failure
        BY <2>1, <2>3 DEF Build
      <3> QED  BY <2>1, <2>2, <2>3, <3>1, BuildOutput DEF MissesIndirect
    <2>4. CASE ~Compiles(e)
      <3>1. pc' = "failed" /\ failure' = "build" /\ UNCHANGED <<built, newer>>
        BY <2>1, <2>4 DEF Build, Fail
      <3>2. edges = TheEdges
        BY <2>2 DEF BuildInv, FilesOK, EdgesWritten
      <3>3. HasInterface(sources) => ImportsIndirectly
        <4>1. SUFFICES ASSUME HasInterface(sources)
                       PROVE  ImportsIndirectly
          OBVIOUS
        <4>2. CASE e = LinkEdge
          BY <2>4, <4>2, LinkCompiles
        <4>3. CASE \E x \in sources : e = CompileEdge(x)
          <5>1. PICK x \in sources : e = CompileEdge(x)
            BY <4>3
          <5>2. ~ImportsAll(x)
            BY <2>2, <2>4, <4>1, <5>1, EdgeOfUnit
          <5> QED  BY <5>2 DEF ImportsAll, ImportsIndirectly
        <4> QED  BY <3>2, <4>2, <4>3 DEF TheEdges
      <3>4. /\ TheEdges' = TheEdges /\ HasInterface(sources)' = HasInterface(sources)
            /\ \A o : MadeFrom(o)' = MadeFrom(o)
        BY <2>2, BuildFilesSame
      <3>5. FilesOK'
        BY <2>2, <3>1, <3>2, <3>4 DEF BuildInv, FilesOK, EdgesWritten
      <3>6. ImportsBuilt'
        BY <2>2, <3>1, <3>4 DEF BuildInv, ImportsBuilt, ImportsAll, Object
      <3>7. ImportsIndirectly' = ImportsIndirectly
        BY <2>2 DEF ImportsIndirectly
      <3> QED  BY <3>3, <3>4, <3>5, <3>6, <3>7 DEF MissesIndirect
    <2> QED  BY <2>3, <2>4
  <1>4. CASE BuildEnds
    <2>1. /\ pc = "build" /\ failure = ""
          /\ UNCHANGED <<world, sources, found, scanned, providers, edges, built, newer>>
      BY <1>4, <1>b DEF BuildEnds, PhasesOK
    <2>2. /\ TheEdges' = TheEdges /\ HasInterface(sources)' = HasInterface(sources)
          /\ \A o : MadeFrom(o)' = MadeFrom(o)
          /\ \A e : Pending(e)' = Pending(e)
      BY <2>1, BuildFilesSame, PendingSame
    <2>3. edges = TheEdges
      BY <2>1 DEF BuildInv, FilesOK, EdgesWritten
    <2>4. \/ pc' = "failed" /\ failure' = "cycle"
          \/ pc' = "done" /\ failure' = "" /\ \A e \in edges : ~Pending(e)
      BY <1>4, <2>1 DEF BuildEnds, Fail, Continue
    <2>5. FilesOK'
      BY <2>1, <2>2, <2>3, <2>4 DEF BuildInv, FilesOK, EdgesWritten
    <2>6. ImportsBuilt'
      BY <2>1, <2>2 DEF BuildInv, ImportsBuilt, ImportsAll, Object
    <2> QED  BY <2>4, <2>5, <2>6 DEF MissesIndirect
  <1>5. CASE \E f : Touch(f)
    <2>1. PICK f : Touch(f)
      BY <1>5
    <2>2. /\ pc = "done" /\ pc' = "build" /\ failure' = failure /\ failure = ""
          /\ newer' = newer \cup Affected(f, built)
          /\ UNCHANGED <<world, sources, found, scanned, providers, edges, built>>
      BY <1>b, <2>1 DEF Touch, Continue, PhasesOK
    <2>3. /\ TheEdges' = TheEdges /\ HasInterface(sources)' = HasInterface(sources)
          /\ \A o : MadeFrom(o)' = MadeFrom(o)
      BY <2>2, BuildFilesSame
    <2>4. \A n \in newer' : n = <<n[1], n[2]>> /\ n[2] \in built /\ n[1] \in MadeFrom(n[2])
      <3>1. \A n \in Affected(f, built) : n = <<n[1], n[2]>> /\ n[2] \in built /\ n[1] \in MadeFrom(n[2])
        BY DEF Affected
      <3> QED  BY <2>2, <3>1 DEF BuildInv, FilesOK
    <2>5. edges = TheEdges
      BY <2>2 DEF BuildInv, FilesOK, EdgesWritten
    <2>6. FilesOK'
      <3>1. (IF EdgesWritten THEN edges = TheEdges ELSE edges = {} /\ built = {} /\ newer = {})'
        BY <2>2, <2>3, <2>5 DEF EdgesWritten
      <3>2. (\A n \in newer : n = <<n[1], n[2]>> /\ n[2] \in built /\ n[1] \in MadeFrom(n[2]))'
        BY <2>2, <2>3, <2>4
      <3>3. (\A o \in built : \E e \in edges : e.output = o)'
        BY <2>2 DEF BuildInv, FilesOK
      <3> QED  BY <2>2, <3>1, <3>2, <3>3 DEF FilesOK
    <2>7. ImportsBuilt'
      BY <2>2, <2>3 DEF BuildInv, ImportsBuilt, ImportsAll, Object
    <2> QED  BY <2>2, <2>6, <2>7 DEF MissesIndirect
  <1>6. CASE UNCHANGED vars
    <2>1. UNCHANGED <<world, sources, found, scanned, providers, edges, built, newer, pc, failure>>
      BY <1>6 DEF vars
    <2>2. /\ TheEdges' = TheEdges /\ HasInterface(sources)' = HasInterface(sources)
          /\ \A o : MadeFrom(o)' = MadeFrom(o)
          /\ \A e : Pending(e)' = Pending(e)
      BY <2>1, BuildFilesSame, PendingSame
    <2>3. FilesOK'
      BY <2>1, <2>2 DEF BuildInv, FilesOK, EdgesWritten
    <2>4. ImportsBuilt'
      BY <2>1, <2>2 DEF BuildInv, ImportsBuilt, ImportsAll, Object
    <2> QED  BY <2>1, <2>2, <2>3, <2>4 DEF BuildInv, MissesIndirect, ImportsIndirectly
  <1> QED
    BY <1>1, <1>2, <1>3, <1>4, <1>5, <1>6 DEF Next

LEMMA BuildInvHolds == Spec => []BuildInv
  BY BuildInit, BuildStep, PTL DEF Spec

(***************************************************************************)
(* What a build leaves.                                                    *)
(***************************************************************************)

\* An output is made from what its edge names, and under ninja and cob it follows all
\* of it.
LEMMA EdgesTellAll ==
  ASSUME BuildInv, pc = "done", NEW n \in newer
  PROVE  \E e \in edges : e.output = n[2] /\ n[1] \in e.inputs \cup e.implicit
  <1>1. /\ n[2] \in built /\ n[1] \in MadeFrom(n[2]) /\ edges = TheEdges /\ ScanInv
        /\ \A o \in built : \E e \in edges : e.output = o
    BY DEF BuildInv, FilesOK, EdgesWritten
  <1>2. CASE n[2] = Target
    <2>1. PICK e \in edges : e.output = Target
      BY <1>1, <1>2
    <2>2. e = LinkEdge
      BY <1>1, <2>1, ScannedEdge, DifferentFiles DEF TheEdges, Target
    <2>3. n[1] \in LinkEdge.inputs \cup LinkEdge.implicit
      BY <1>1, <1>2 DEF MadeFrom, LinkEdge
    <2> QED  BY <1>2, <2>1, <2>2, <2>3
  <1>3. CASE n[2] # Target
    <2>1. PICK u \in sources :
            /\ Object(u) = n[2]
            /\ n[1] \in {Source(u)} \cup
                         {Object(v) : v \in {w \in sources : w.provides \cap u.requires # {}}}
      BY <1>1, <1>3 DEF MadeFrom
    <2>2. CompileEdge(u) \in edges /\ CompileEdge(u).output = n[2]
      BY <1>1, <2>1, ScannedEdge DEF TheEdges
    <2>3. CASE n[1] = Source(u)
      BY <2>2, <2>3, ScannedEdge
    <2>4. CASE \E v \in sources : v.provides \cap u.requires # {} /\ n[1] = Object(v)
      <3>1. PICK v \in sources : v.provides \cap u.requires # {} /\ n[1] = Object(v)
        BY <2>4
      <3>2. HasInterface(sources)
        BY <1>1, <2>1, <3>1 DEF BuildInv, ImportsBuilt
      <3>3. scanned = sources /\ UnitsRead
        BY <1>1, <3>2 DEF ScanInv, ScanOK, Scanned
      <3>4. v \in ProvidersOf(u.requires)
        BY <3>1, <3>3, Providers
      <3>5. n[1] \in CompileEdge(u).implicit
        BY <3>1, <3>3, <3>4, ScannedEdge
      <3> QED  BY <2>2, <3>5
    <2> QED  BY <2>1, <2>3, <2>4
  <1> QED  BY <1>2, <1>3

\* A build that succeeds leaves nothing behind a file it is made from, whatever has
\* been touched before, under each of the writers.
THEOREM NothingBehind == Spec => []UpToDate
  <1>1. BuildInv => UpToDate
    <2>1. SUFFICES ASSUME BuildInv, pc = "done", NEW n \in newer
                   PROVE  /\ world.generator = "make"
                          /\ \E e \in edges : e.output = n[2] /\ n[1] \in e.implicit
      BY DEF UpToDate
    <2>2. PICK e \in edges : e.output = n[2] /\ n[1] \in e.inputs \cup e.implicit
      BY <2>1, EdgesTellAll
    <2>3. n = <<n[1], e.output>> /\ ~Pending(e) /\ WorldOK
      BY <2>1, <2>2 DEF BuildInv, FilesOK
    <2>4. n[1] \notin Triggers(e)
      BY <2>1, <2>3 DEF Pending
    <2> QED  BY <2>2, <2>3, <2>4, ThreeWriters
  <1> QED  BY <1>1, BuildInvHolds, PTL

(***************************************************************************)
(* Cycles.                                                                 *)
(***************************************************************************)

LEMMA DoneWithoutCycle == BuildInv /\ pc = "done" /\ HasInterface(sources) => ~ImportCycle
  <1>1. SUFFICES ASSUME BuildInv, pc = "done", HasInterface(sources),
                        NEW cycle \in SUBSET sources, IsCycle(cycle)
                 PROVE  FALSE
    BY DEF ImportCycle, IsCycle
  <1>2. PICK u \in cycle : TRUE
    BY <1>1 DEF IsCycle
  <1>3. edges = TheEdges /\ \A e \in edges : ~Pending(e)
    BY <1>1 DEF BuildInv, FilesOK, EdgesWritten
  <1>4. Object(u) \in built
    BY <1>3, ScannedEdge DEF TheEdges, Pending
  <1> QED  BY <1>1, <1>4 DEF BuildInv, ImportsBuilt

LEMMA DoneImportsAll == BuildInv /\ pc = "done" /\ HasInterface(sources) => ~ImportsIndirectly
  <1>1. SUFFICES ASSUME BuildInv, pc = "done", HasInterface(sources), NEW u \in sources
                 PROVE  ImportsAll(u)
    BY DEF ImportsIndirectly, ImportsAll
  <1>2. edges = TheEdges /\ \A e \in edges : ~Pending(e)
    BY <1>1 DEF BuildInv, FilesOK, EdgesWritten
  <1>3. Object(u) \in built
    BY <1>2, ScannedEdge DEF TheEdges, Pending
  <1> QED  BY <1>1, <1>3 DEF BuildInv, ImportsBuilt

\* A backend that is stuck waits for units that wait for each other.
LEMMA StuckInCycle ==
  ASSUME BuildInv, pc = "build", HasInterface(sources), world.root \notin found.inputs,
         \A e \in edges : ~(Pending(e) /\ Ready(e)), \E e \in edges : Pending(e)
  PROVE  ImportCycle
  <1>1. scanned = sources /\ UnitsRead /\ edges = TheEdges /\ WorldOK /\ OneAtPath
    BY DEF BuildInv, ScanInv, ScanOK, Scanned, FilesOK, EdgesWritten, WorldOK
  <1> DEFINE stuck == {u \in sources : Pending(CompileEdge(u))}
  <1>2. ASSUME NEW e \in edges, Pending(e)
        PROVE  \E w \in stuck : Object(w) \in e.inputs \cup e.implicit
    <2>1. PICK d \in edges : d.output \in e.inputs \cup e.implicit /\ Pending(d)
      BY <1>1, <1>2, ThreeWriters DEF Ready
    <2>2. CASE d = LinkEdge
      <3>1. Target \in e.inputs \cup e.implicit
        BY <2>1, <2>2 DEF LinkEdge
      <3>2. CASE e = LinkEdge
        BY <3>1, <3>2, DifferentFiles DEF LinkEdge, Target, Artifact
      <3>3. CASE \E u \in sources : e = CompileEdge(u)
        BY <3>1, <3>3, <1>1, ScannedEdge, DifferentFiles DEF Target
      <3> QED  BY <1>1, <3>2, <3>3 DEF TheEdges
    <2>3. CASE \E w \in sources : d = CompileEdge(w)
      BY <2>1, <2>3, ScannedEdge
    <2> QED  BY <1>1, <2>1, <2>2, <2>3 DEF TheEdges
  <1>3. ASSUME NEW u \in stuck
        PROVE  \E w \in stuck : w.provides \cap u.requires # {}
    <2>1. CompileEdge(u) \in edges /\ Pending(CompileEdge(u)) /\ u \in sources
      BY <1>1 DEF TheEdges
    <2>2. PICK w \in stuck : Object(w) \in CompileEdge(u).inputs \cup CompileEdge(u).implicit
      BY <1>2, <2>1
    <2>3. PICK p \in ProvidersOf(u.requires) : Object(w) = Object(p)
      BY <1>1, <2>1, <2>2, ScannedEdge, DifferentFiles
    <2>4. p \in sources /\ p.provides \cap u.requires # {}
      BY <1>1, Providers
    <2> QED  BY <1>1, <2>2, <2>3, <2>4, DifferentFiles DEF OneAtPath
  <1>4. stuck # {}
    BY <1>2
  <1> QED  BY <1>3, <1>4 DEF ImportCycle

\* What generate has found is not an input of itself.
RootNotOwn ==
  pc \in {"scan", "edges", "build", "done"} \/ failure \in {"scan", "build", "cycle"} =>
    world.root \notin found.inputs

CycleInv ==
  /\ RootNotOwn
  /\ failure = "cycle" /\ HasInterface(sources) => ImportCycle

LEMMA CycleStep == BuildInv /\ CycleInv /\ [Next]_vars /\ NotOwnInput' => CycleInv'
  <1> SUFFICES ASSUME BuildInv, CycleInv, [Next]_vars, NotOwnInput'
               PROVE  CycleInv'
    OBVIOUS
  <1>a. PhasesOK
    BY DEF BuildInv, ScanInv
  <1>1. CASE WriteVariables
    <2>a. pc = "variables" /\ UNCHANGED <<world, sources, scanned>>
      BY <1>1 DEF WriteVariables
    <2>b. scanned' = {} /\ failure = ""
      BY <2>a, <1>a DEF PhasesOK, BuildInv, ScanInv, ScanOK
    <2>1. \/ pc' = "scan" /\ failure' = ""
          \/ pc' = "failed" /\ failure' = "variables"
      BY <1>1, <2>b DEF WriteVariables, Fail, Continue
    <2>2. pc' = "scan" => (world.root \notin found.inputs)'
      BY <2>b DEF NotOwnInput, VariablesWritten
    <2> QED  BY <2>1, <2>2 DEF CycleInv, RootNotOwn
  <1>2. CASE \/ ResolveFeatureFlags \/ BuildSourceSet
    <2>1. /\ pc \in {"features", "sources"} /\ failure = ""
          /\ \/ pc' \in {"sources", "variables"} /\ failure' = ""
             \/ pc' = "failed" /\ failure' \in {"features", "sources"}
      BY <1>2, <1>a DEF ResolveFeatureFlags, BuildSourceSet, Fail, Continue, PhasesOK
    <2> QED  BY <2>1 DEF CycleInv, RootNotOwn
  <1>3. CASE \/ SkipScan \/ EndScan \/ WriteEdges \/ \E f : Touch(f)
             \/ \E u \in sources : ScanUnit(u)
             \/ \E e \in edges : Build(e)
    <2>1. /\ pc \in {"scan", "edges", "build", "done"} /\ failure = ""
          /\ failure' # "cycle" /\ UNCHANGED <<world, found>>
      BY <1>3, <1>a DEF SkipScan, EndScan, WriteEdges, Touch, ScanUnit, Build, Fail, Continue,
                        PhasesOK
    <2> QED  BY <2>1 DEF CycleInv, RootNotOwn
  <1>4. CASE BuildEnds
    <2>1. /\ pc = "build" /\ failure = "" /\ UNCHANGED <<world, sources, found>>
          /\ \A e \in edges : ~(Pending(e) /\ Ready(e))
          /\ failure' = "cycle" => \E e \in edges : Pending(e)
      BY <1>4, <1>a DEF BuildEnds, Fail, Continue, PhasesOK
    <2>2. failure' = "cycle" /\ HasInterface(sources) => ImportCycle
      BY <2>1, StuckInCycle DEF CycleInv, RootNotOwn
    <2> QED  BY <2>1, <2>2 DEF CycleInv, RootNotOwn, HasInterface, ImportCycle
  <1>5. CASE UNCHANGED vars
    BY <1>5 DEF vars, CycleInv, RootNotOwn, HasInterface, ImportCycle
  <1> QED  BY <1>1, <1>2, <1>3, <1>4, <1>5 DEF Next

\* In whatever order a build takes what is ready, a compile misses a BMI only where a
\* unit does not import what an interface unit that it imports imports, a build that
\* can go no further has met an import cycle, and one that ends well has neither.
THEOREM ModulesBuildInAnyOrder == Spec => []ModulesBuild
  <1>1. BuildInv /\ CycleInv => ModulesBuild
    BY DoneWithoutCycle, DoneImportsAll DEF ModulesBuild, BuildInv, MissesIndirect, CycleInv
  <1>2. Init => CycleInv
    BY DEF Init, GenerateIn, CycleInv, RootNotOwn
  <1> QED  BY <1>1, <1>2, BuildInvHolds, NoInputOfItself, CycleStep, PTL DEF Spec
==============================================================================
