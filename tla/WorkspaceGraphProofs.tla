------------------------ MODULE WorkspaceGraphProofs ------------------------
(***************************************************************************)
(* Proofs about the planning of a workspace build, for every workspace.    *)
(***************************************************************************)
EXTENDS WorkspaceGraph, FiniteSetTheorems, TLAPS

(***************************************************************************)
(* The inductive invariant.  The visit is correct because of what holds of *)
(* the open calls: they are the Visiting packages, each a dependency of    *)
(* the one before it (PathOK); a package is in the build order when its    *)
(* call has returned (VisitedOK); and a dependency that an open call has   *)
(* passed has returned (TodoOK).                                           *)
(***************************************************************************)
PathOK ==
  /\ \A i \in DOMAIN active_path : active_path[i] \in Packages
  /\ \A n \in PackageNames :
       states[n] = "Visiting" <=> \E i \in DOMAIN active_path : active_path[i] = n
  /\ \A i, j \in DOMAIN active_path : active_path[i] = active_path[j] => i = j
  /\ \A i \in 1 .. Len(active_path) - 1 : active_path[i + 1] \in DepsOf(active_path[i])

VisitedOK ==
  /\ \A i \in DOMAIN build_order : build_order[i] \in Packages
  /\ \A n \in PackageNames :
       states[n] = "Visited" <=> \E i \in DOMAIN build_order : build_order[i] = n
  /\ \A i, j \in DOMAIN build_order : build_order[i] = build_order[j] => i = j

TodoOK ==
  \A i \in DOMAIN active_path :
    /\ unfollowed[active_path[i]] \subseteq manifest[owner[active_path[i]]].deps
    /\ \A n \in DepsOf(active_path[i]) :
         n \in unfollowed[active_path[i]] \/ states[n] = "Visited"

NothingVisitedYet ==
  phase = "loading" => active_path = <<>> /\ build_order = <<>>

VisitInv == TypeOK /\ NothingVisitedYet /\ PathOK /\ VisitedOK /\ TodoOK /\ BuildOrderTopological

(***************************************************************************)
(* Type correctness of the steps.                                          *)
(***************************************************************************)
LEMMA EnterType ==
  ASSUME TypeOK, NEW p \in Packages, Enter(p)
  PROVE  /\ states' \in [PackageNames -> {"Unvisited", "Visiting", "Visited"}]
         /\ active_path' \in Seq(PackageNames)
         /\ unfollowed' \in [PackageNames -> SUBSET PackageNames]
  BY WorkspaceAssumption DEF TypeOK, Enter, Packages, Manifest

LEMMA CurrentType ==
  ASSUME TypeOK, active_path # <<>>
  PROVE  /\ Len(active_path) \in DOMAIN active_path
         /\ Current \in PackageNames
         /\ Current = active_path[Len(active_path)]
  BY DEF TypeOK, Current

LEMMA StepType ==
  ASSUME TypeOK, PathOK, [GraphNext]_graphVars
  PROVE  TypeOK'
  <1> USE WorkspaceAssumption DEF TypeOK, loadVars, visitVars, selectVars, Fail
  <1>1. ASSUME NEW m \in Members,
               LoadThrows(m) \/ LoadNameless(m) \/ LoadMember(m) \/ LoadDuplicate(m)
        PROVE  TypeOK'
    BY <1>1 DEF LoadThrows, LoadNameless, LoadMember, LoadDuplicate, Manifest
  <1>2. CASE LoadDone
    BY <1>2 DEF LoadDone
  <1>3. ASSUME NEW p \in PackageNames, VisitRoot(p) \/ VisitDependency(p) PROVE TypeOK'
    BY <1>3, EnterType DEF VisitRoot, VisitDependency, Follow
  <1>4. ASSUME NEW p \in PackageNames, SkipDependency(p) PROVE TypeOK'
    BY <1>4 DEF SkipDependency, Follow
  <1>5. ASSUME NEW p \in PackageNames, FindCycle(p) PROVE TypeOK'
    <2> DEFINE start == CHOOSE i \in DOMAIN active_path : active_path[i] = p
    <2>1. start \in DOMAIN active_path
      BY <1>5 DEF FindCycle, PathOK
    <2>2. start \in 1 .. Len(active_path)
      BY <2>1
    <2> HIDE DEF start
    <2>3. SubSeq(active_path, start, Len(active_path)) \in Seq(PackageNames)
      BY <2>2
    <2>4. cycle' \in Seq(PackageNames)
      BY <2>3, <1>5 DEF FindCycle, start
    <2> QED  BY <2>4, <1>5 DEF FindCycle
  <1>6. CASE Leave
    <2>1. active_path' \in Seq(PackageNames)
      BY <1>6 DEF Leave
    <2>2. states' \in [PackageNames -> {"Unvisited", "Visiting", "Visited"}]
      BY <1>6 DEF Leave
    <2>3. build_order' \in Seq(PackageNames)
      BY <1>6, CurrentType DEF Leave
    <2> QED  BY <2>1, <2>2, <2>3, <1>6 DEF Leave
  <1>7. CASE VisitDone
    BY <1>7 DEF VisitDone, SelectAll, SelectUnknown, SelectPackage, Packages
  <1>8. ASSUME NEW p \in PackageNames, AddWithDependencies(p) PROVE TypeOK'
    BY <1>8 DEF AddWithDependencies, DepsOf, Packages
  <1>9. CASE SelectDone
    BY <1>9 DEF SelectDone
  <1>10. CASE UNCHANGED graphVars
    BY <1>10 DEF graphVars
  <1> QED
    BY <1>1, <1>2, <1>3, <1>4, <1>5, <1>6, <1>7, <1>8, <1>9, <1>10 DEF GraphNext, Terminating

(***************************************************************************)
(* The steps of the visit.                                                 *)
(***************************************************************************)
\* A step that changes neither the graph nor the visit.
LEMMA VisitUntouched ==
  ASSUME VisitInv, TypeOK', UNCHANGED <<manifest, owner>>, UNCHANGED visitVars,
         phase' = "loading" => phase = "loading"
  PROVE  VisitInv'
  <1> USE DEF VisitInv, visitVars, Packages, DepsOf
  <1>1. NothingVisitedYet'  BY DEF NothingVisitedYet
  <1>2. PathOK'  BY DEF PathOK
  <1>3. VisitedOK'  BY DEF VisitedOK
  <1>4. TodoOK'  BY DEF TodoOK
  <1>5. BuildOrderTopological'  BY DEF BuildOrderTopological
  <1> QED  BY <1>1, <1>2, <1>3, <1>4, <1>5

\* A call of visit opens for p.
LEMMA VisitEnters ==
  ASSUME VisitInv, TypeOK', NEW p \in Packages, states[p] = "Unvisited", Enter(p),
         active_path = <<>> \/ p \in DepsOf(Current), phase # "loading",
         UNCHANGED <<manifest, owner, phase, build_order, cycle>>
  PROVE  VisitInv'
  <1> USE DEF VisitInv, TypeOK, Enter
  <1> DEFINE n == Len(active_path)
  <1>1. p \in PackageNames  BY DEF Packages
  <1>2. /\ DOMAIN active_path' = 1 .. n + 1
        /\ \A i \in 1 .. n : active_path'[i] = active_path[i]
        /\ active_path'[n + 1] = p
        /\ n \in Nat /\ DOMAIN active_path = 1 .. n
        /\ Len(active_path') = n + 1
    BY <1>1
  <1>3. /\ Packages' = Packages
        /\ \A q : DepsOf(q)' = DepsOf(q)
    BY DEF Packages, DepsOf
  <1>4. \A i \in 1 .. n : active_path[i] # p
    BY <1>1, <1>2 DEF PathOK
  <1> HIDE DEF n
  <1>5. NothingVisitedYet'
    BY DEF NothingVisitedYet
  <1>6. PathOK'
    <2>1. \A i \in DOMAIN active_path' : active_path'[i] \in Packages'
      BY <1>2, <1>3 DEF PathOK
    <2>2. \A q \in PackageNames :
            states'[q] = "Visiting" <=> \E i \in DOMAIN active_path' : active_path'[i] = q
      BY <1>1, <1>2 DEF PathOK
    <2>3. \A i, j \in DOMAIN active_path' : active_path'[i] = active_path'[j] => i = j
      BY <1>2, <1>4 DEF PathOK
    <2>4. ASSUME NEW i \in 1 .. Len(active_path') - 1
          PROVE  active_path'[i + 1] \in DepsOf(active_path[i])'
      <3>1. DepsOf(active_path[i])' = DepsOf(active_path'[i])
        BY DEF DepsOf, Packages
      <3>2. CASE i < n
        BY <3>1, <3>2, <1>2 DEF PathOK, n
      <3>3. CASE i = n
        BY <3>1, <3>3, <1>2 DEF Current, n
      <3> QED  BY <3>2, <3>3, <1>2
    <2> QED  BY <2>1, <2>2, <2>3, <2>4 DEF PathOK
  <1>7. VisitedOK'
    BY <1>1, <1>3 DEF VisitedOK
  <1>8. TodoOK'
    <2>0. ASSUME NEW i \in DOMAIN active_path'
          PROVE  unfollowed'[active_path'[i]] \subseteq manifest'[owner'[active_path'[i]]].deps
      <3>1. CASE active_path'[i] = p
        BY <3>1, <1>1
      <3>2. CASE i \in 1 .. n /\ active_path[i] # p
        <4>1. unfollowed[active_path[i]] \subseteq manifest[owner[active_path[i]]].deps
          BY <3>2, <1>2 DEF TodoOK
        <4>2. active_path[i] \in PackageNames
          BY <3>2, <1>2 DEF PathOK, Packages
        <4>3. unfollowed'[active_path[i]] = unfollowed[active_path[i]]
          BY <3>2, <4>2
        <4>4. active_path'[i] = active_path[i] /\ manifest' = manifest /\ owner' = owner
          BY <3>2, <1>2
        <4> QED  BY <4>1, <4>3, <4>4
      <3>3. i = n + 1 \/ (i \in 1 .. n /\ active_path[i] # p)
        BY <1>2, <1>4
      <3>4. i = n + 1 => active_path'[i] = p
        BY <1>2
      <3> QED  BY <3>1, <3>2, <3>3, <3>4
    <2> SUFFICES ASSUME NEW i \in DOMAIN active_path', NEW q \in DepsOf(active_path[i])'
                 PROVE  q \in unfollowed'[active_path'[i]] \/ states'[q] = "Visited"
      BY <2>0 DEF TodoOK
    <2>1. q \in DepsOf(active_path'[i]) /\ q \in PackageNames
      BY DEF DepsOf, Packages
    <2>2. CASE i = n + 1
      BY <2>1, <2>2, <1>1, <1>2 DEF DepsOf
    <2>3. CASE i \in 1 .. n
      <3>1. q \in unfollowed[active_path[i]] \/ states[q] = "Visited"
        BY <2>1, <2>3, <1>2 DEF TodoOK
      <3>2. active_path[i] # p /\ active_path[i] \in PackageNames
        BY <1>2, <1>4, <2>3 DEF PathOK, Packages
      <3> QED  BY <3>1, <3>2, <2>1, <2>3, <1>1, <1>2
    <2> QED  BY <2>2, <2>3, <1>2
  <1>9. BuildOrderTopological'
    BY <1>3 DEF BuildOrderTopological
  <1> QED  BY <1>5, <1>6, <1>7, <1>8, <1>9

\* The innermost call passes a dependency that is no package or is visited.
LEMMA VisitSkips ==
  ASSUME VisitInv, TypeOK', NEW d \in PackageNames, SkipDependency(d)
  PROVE  VisitInv'
  <1> USE DEF VisitInv, SkipDependency, Follow, loadVars
  <1>1. /\ Packages' = Packages
        /\ \A q : DepsOf(q)' = DepsOf(q)
    BY DEF Packages, DepsOf
  <1>2. NothingVisitedYet'  BY DEF NothingVisitedYet
  <1>3. PathOK'  BY <1>1 DEF PathOK
  <1>4. VisitedOK'  BY <1>1 DEF VisitedOK
  <1>5. TodoOK'
    <2>0. ASSUME NEW i \in DOMAIN active_path
          PROVE  unfollowed'[active_path[i]] \subseteq manifest[owner[active_path[i]]].deps
      <3>1. active_path[i] \in PackageNames
        BY DEF PathOK, Packages
      <3>2. unfollowed'[active_path[i]] \subseteq unfollowed[active_path[i]]
        BY <3>1 DEF TypeOK
      <3> QED  BY <3>2 DEF TodoOK
    <2> SUFFICES ASSUME NEW i \in DOMAIN active_path, NEW q \in DepsOf(active_path[i])
                 PROVE  q \in unfollowed'[active_path[i]] \/ states[q] = "Visited"
      BY <2>0, <1>1 DEF TodoOK
    <2>1. q \in unfollowed[active_path[i]] \/ states[q] = "Visited"
      BY DEF TodoOK
    <2>2. q \in Packages /\ active_path[i] \in PackageNames
      BY DEF DepsOf, PathOK, Packages
    <2> QED  BY <2>1, <2>2 DEF TypeOK
  <1>6. BuildOrderTopological'  BY <1>1 DEF BuildOrderTopological
  <1> QED  BY <1>2, <1>3, <1>4, <1>5, <1>6

\* The innermost call returns: all its dependencies have returned before, so
\* the package goes behind them.
LEMMA VisitLeaves ==
  ASSUME VisitInv, TypeOK', Leave
  PROVE  VisitInv'
  <1> DEFINE n == Len(active_path)
             k == Len(build_order)
  <1>0. /\ n \in Nat /\ n >= 1 /\ DOMAIN active_path = 1 .. n
        /\ Current = active_path[n] /\ Current \in PackageNames
    BY CurrentType DEF VisitInv, TypeOK, Leave
  <1>1. /\ n \in Nat /\ n >= 1 /\ DOMAIN active_path = 1 .. n
        /\ Len(active_path') = n - 1 /\ DOMAIN active_path' = 1 .. n - 1
        /\ \A i \in 1 .. n - 1 : active_path'[i] = active_path[i]
        /\ Current = active_path[n] /\ Current \in PackageNames
    BY <1>0 DEF VisitInv, TypeOK, Leave
  <1>2. /\ k \in Nat /\ DOMAIN build_order = 1 .. k
        /\ DOMAIN build_order' = 1 .. k + 1
        /\ \A i \in 1 .. k : build_order'[i] = build_order[i]
        /\ build_order'[k + 1] = Current
    BY <1>1 DEF VisitInv, TypeOK, Leave
  <1>3. /\ Packages' = Packages
        /\ \A q : DepsOf(q)' = DepsOf(q)
        /\ phase # "loading" /\ phase' = phase
        /\ unfollowed[Current] = {} /\ unfollowed' = unfollowed
        /\ owner' = owner /\ manifest' = manifest
        /\ states' = [states EXCEPT ![Current] = "Visited"]
        /\ states \in [PackageNames -> {"Unvisited", "Visiting", "Visited"}]
        /\ PathOK /\ VisitedOK /\ TodoOK /\ BuildOrderTopological
    BY DEF Packages, DepsOf, Leave, loadVars, VisitInv, TypeOK
  <1> HIDE DEF n, k
  <1>4. Current \in Packages /\ states[Current] = "Visiting"
    BY <1>1, <1>3 DEF PathOK
  <1>5. \A i \in 1 .. n - 1 : active_path[i] # Current
    BY <1>1, <1>3 DEF PathOK
  <1>6. \A i \in 1 .. k : build_order[i] # Current
    BY <1>1, <1>2, <1>3, <1>4 DEF VisitedOK
  <1>7. NothingVisitedYet'
    BY <1>3 DEF NothingVisitedYet
  <1>8. PathOK'
    <2>1. \A i \in DOMAIN active_path' : active_path'[i] \in Packages'
      BY <1>1, <1>3 DEF PathOK
    <2>2. \A q \in PackageNames :
            states'[q] = "Visiting" <=> \E i \in DOMAIN active_path' : active_path'[i] = q
      <3> SUFFICES ASSUME NEW q \in PackageNames
                   PROVE  states'[q] = "Visiting" <=>
                            \E i \in 1 .. n - 1 : active_path[i] = q
        BY <1>1
      <3>1. CASE q = Current
        BY <3>1, <1>1, <1>3, <1>5
      <3>2. CASE q # Current
        <4>1. states'[q] = states[q]  BY <3>2, <1>3
        <4>2. (\E i \in 1 .. n : active_path[i] = q) <=> \E i \in 1 .. n - 1 : active_path[i] = q
          BY <3>2, <1>1
        <4> QED  BY <4>1, <4>2, <1>1, <1>3 DEF PathOK
      <3> QED  BY <3>1, <3>2
    <2>3. \A i, j \in DOMAIN active_path' : active_path'[i] = active_path'[j] => i = j
      BY <1>1, <1>3 DEF PathOK
    <2>4. ASSUME NEW i \in 1 .. Len(active_path') - 1
          PROVE  active_path'[i + 1] \in DepsOf(active_path[i])'
      <3>1. DepsOf(active_path[i])' = DepsOf(active_path'[i])
        BY <1>3, <1>1 DEF DepsOf, Packages
      <3> QED  BY <3>1, <1>1, <1>3 DEF PathOK, n
    <2> QED  BY <2>1, <2>2, <2>3, <2>4 DEF PathOK
  <1>9. VisitedOK'
    <2>1. \A i \in DOMAIN build_order' : build_order'[i] \in Packages'
      BY <1>2, <1>3, <1>4 DEF VisitedOK
    <2>2. \A q \in PackageNames :
            states'[q] = "Visited" <=> \E i \in DOMAIN build_order' : build_order'[i] = q
      <3> SUFFICES ASSUME NEW q \in PackageNames
                   PROVE  states'[q] = "Visited" <=> \E i \in 1 .. k + 1 : build_order'[i] = q
        BY <1>2
      <3>1. CASE q = Current
        BY <3>1, <1>1, <1>2, <1>3
      <3>2. CASE q # Current
        <4>1. states'[q] = states[q]  BY <3>2, <1>3
        <4>2. (\E i \in 1 .. k : build_order[i] = q) <=> \E i \in 1 .. k + 1 : build_order'[i] = q
          BY <3>2, <1>2
        <4> QED  BY <4>1, <4>2, <1>2, <1>3 DEF VisitedOK
      <3> QED  BY <3>1, <3>2
    <2>3. \A i, j \in DOMAIN build_order' : build_order'[i] = build_order'[j] => i = j
      BY <1>2, <1>3, <1>6 DEF VisitedOK
    <2> QED  BY <2>1, <2>2, <2>3 DEF VisitedOK
  <1>10. TodoOK'
    <2>0. \A i \in DOMAIN active_path' :
            unfollowed'[active_path'[i]] \subseteq manifest'[owner'[active_path'[i]]].deps
      BY <1>1, <1>3 DEF TodoOK
    <2> SUFFICES ASSUME NEW i \in 1 .. n - 1, NEW q \in DepsOf(active_path[i])
                 PROVE  q \in unfollowed[active_path[i]] \/ states'[q] = "Visited"
      BY <2>0, <1>1, <1>3 DEF TodoOK
    <2>1. q \in unfollowed[active_path[i]] \/ states[q] = "Visited"
      BY <1>1, <1>3 DEF TodoOK
    <2>2. q \in PackageNames  BY DEF DepsOf, Packages
    <2> QED  BY <2>1, <2>2, <1>1, <1>3
  <1>11. BuildOrderTopological'
    <2> SUFFICES ASSUME NEW i \in 1 .. k + 1, NEW d \in DepsOf(build_order'[i])
                 PROVE  \E j \in 1 .. i - 1 : build_order'[j] = d
      BY <1>2, <1>3 DEF BuildOrderTopological
    <2>1. CASE i \in 1 .. k
      <3>1. PICK j \in 1 .. i - 1 : build_order[j] = d
        BY <2>1, <1>2, <1>3 DEF BuildOrderTopological
      <3> QED  BY <3>1, <2>1, <1>2
    <2>2. CASE i = k + 1
      <3>1. d \in DepsOf(Current)  BY <2>2, <1>2
      <3>2. states[d] = "Visited" /\ d \in PackageNames
        BY <3>1, <1>1, <1>3 DEF TodoOK, DepsOf, Packages
      <3>3. PICK j \in 1 .. k : build_order[j] = d
        BY <3>2, <1>2, <1>3 DEF VisitedOK
      <3> QED  BY <3>3, <2>2, <1>2
    <2> QED  BY <2>1, <2>2, <1>2
  <1> QED  BY <1>7, <1>8, <1>9, <1>10, <1>11 DEF VisitInv

LEMMA VisitInit == GraphInit => VisitInv
  <1> SUFFICES ASSUME GraphInit PROVE VisitInv
    OBVIOUS
  <1>1. TypeOK
    BY WorkspaceAssumption DEF GraphInit, TypeOK
  <1>2. NothingVisitedYet /\ PathOK /\ VisitedOK /\ TodoOK /\ BuildOrderTopological
    BY DEF GraphInit, NothingVisitedYet, PathOK, VisitedOK, TodoOK, BuildOrderTopological
  <1> QED  BY <1>1, <1>2 DEF VisitInv

LEMMA VisitStep == VisitInv /\ [GraphNext]_graphVars => VisitInv'
  <1> SUFFICES ASSUME VisitInv, [GraphNext]_graphVars PROVE VisitInv'
    OBVIOUS
  <1>1. TypeOK'
    BY StepType DEF VisitInv
  <1>2. ASSUME NEW m \in Members, LoadThrows(m) \/ LoadNameless(m) \/ LoadDuplicate(m)
        PROVE  VisitInv'
    BY <1>1, <1>2, VisitUntouched
    DEF LoadThrows, LoadNameless, LoadDuplicate, loadVars, Fail
  <1>3. ASSUME NEW m \in Members, LoadMember(m) PROVE VisitInv'
    <2>1. /\ active_path = <<>> /\ build_order = <<>>
          /\ active_path' = <<>> /\ build_order' = <<>>
          /\ states' = states
      BY <1>3 DEF LoadMember, VisitInv, NothingVisitedYet, visitVars
    <2>2. NothingVisitedYet' /\ TodoOK' /\ BuildOrderTopological'
      BY <2>1 DEF NothingVisitedYet, TodoOK, BuildOrderTopological
    <2>3. PathOK' /\ VisitedOK'
      BY <2>1 DEF VisitInv, PathOK, VisitedOK
    <2> QED  BY <1>1, <2>2, <2>3 DEF VisitInv
  <1>4. CASE LoadDone
    BY <1>1, <1>4, VisitUntouched DEF LoadDone, loadVars
  <1>5. ASSUME NEW p \in PackageNames, VisitRoot(p) PROVE VisitInv'
    BY <1>1, <1>5, VisitEnters DEF VisitRoot, loadVars
  <1>6. ASSUME NEW p \in PackageNames, VisitDependency(p) PROVE VisitInv'
    <2>1. p \in DepsOf(Current)
      <3>1. Current \in PackageNames /\ Len(active_path) \in DOMAIN active_path
        BY <1>6, CurrentType DEF VisitDependency, Follow, VisitInv
      <3>2. unfollowed[Current] \subseteq manifest[owner[Current]].deps
        BY <3>1 DEF VisitInv, TodoOK, Current
      <3> QED  BY <1>6, <3>1, <3>2 DEF VisitDependency, Follow, DepsOf
    <2> QED
      BY <1>1, <1>6, <2>1, VisitEnters DEF VisitDependency, Follow, loadVars
  <1>7. ASSUME NEW p \in PackageNames, SkipDependency(p) PROVE VisitInv'
    BY <1>1, <1>7, VisitSkips
  <1>8. ASSUME NEW p \in PackageNames, FindCycle(p) PROVE VisitInv'
    <2>1. /\ UNCHANGED <<manifest, owner, states, active_path, unfollowed, build_order>>
          /\ phase' # "loading"
      BY <1>8 DEF FindCycle, Follow, Fail, loadVars
    <2>2. Packages' = Packages /\ \A q : DepsOf(q)' = DepsOf(q)
      BY <2>1 DEF Packages, DepsOf
    <2>3. NothingVisitedYet'  BY <2>1 DEF NothingVisitedYet
    <2>4. PathOK'  BY <2>1, <2>2 DEF VisitInv, PathOK
    <2>5. VisitedOK' /\ BuildOrderTopological'
      BY <2>1, <2>2 DEF VisitInv, VisitedOK, BuildOrderTopological
    <2>6. TodoOK'  BY <2>1, <2>2 DEF VisitInv, TodoOK
    <2> QED  BY <1>1, <2>3, <2>4, <2>5, <2>6 DEF VisitInv
  <1>9. CASE Leave
    BY <1>1, <1>9, VisitLeaves
  <1>10. CASE VisitDone
    BY <1>1, <1>10, VisitUntouched
    DEF VisitDone, SelectAll, SelectUnknown, SelectPackage, Fail, loadVars
  <1>11. ASSUME NEW p \in PackageNames, AddWithDependencies(p) PROVE VisitInv'
    BY <1>1, <1>11, VisitUntouched DEF AddWithDependencies, loadVars
  <1>12. CASE SelectDone
    BY <1>1, <1>12, VisitUntouched DEF SelectDone, loadVars
  <1>13. CASE UNCHANGED graphVars
    BY <1>1, <1>13, VisitUntouched DEF graphVars, visitVars
  <1> QED
    BY <1>2, <1>3, <1>4, <1>5, <1>6, <1>7, <1>8, <1>9, <1>10, <1>11, <1>12, <1>13
    DEF GraphNext, Terminating

LEMMA VisitInvariant == GraphSpec => []VisitInv
  BY VisitInit, VisitStep, PTL DEF GraphSpec

\* Every variable keeps its type, whatever the manifests say.
THEOREM TypeCorrect == GraphSpec => []TypeOK
  BY VisitInvariant, PTL DEF VisitInv

\* In every workspace a package is ordered behind all packages it depends on.
THEOREM OrderIsTopological == GraphSpec => []BuildOrderTopological
  BY VisitInvariant, PTL DEF VisitInv

(***************************************************************************)
(* What holds when the visit has ended.                                    *)
(***************************************************************************)
\* Nothing is left unvisited, and a cycle error carries the walk of edges
\* from the repeated package along the open calls back to it.
EndInv ==
  /\ phase \in {"selecting", "ok"} => \A p \in Packages : states[p] = "Visited"
  /\ error = "cycle" =>
       /\ phase = "failed"
       /\ Len(cycle) > 1 /\ cycle[1] = cycle[Len(cycle)]
       /\ \A i \in 1 .. Len(cycle) - 1 : cycle[i + 1] \in DepsOf(cycle[i])
  /\ phase # "failed" => error = "none"

\* The walk that FindCycle reports.
LEMMA FoundCycle ==
  ASSUME VisitInv, NEW d \in PackageNames, FindCycle(d)
  PROVE  /\ Len(cycle') > 1 /\ cycle'[1] = cycle'[Len(cycle')]
         /\ \A i \in 1 .. Len(cycle') - 1 : cycle'[i + 1] \in DepsOf(cycle'[i])
  <1> DEFINE n == Len(active_path)
             start == CHOOSE i \in DOMAIN active_path : active_path[i] = d
             tail == SubSeq(active_path, start, n)
  <1>1. /\ n \in Nat /\ n >= 1 /\ DOMAIN active_path = 1 .. n
        /\ Current = active_path[n]
    BY CurrentType DEF FindCycle, Follow, VisitInv, TypeOK
  <1>2. start \in 1 .. n /\ active_path[start] = d
    BY <1>1 DEF FindCycle, PathOK, VisitInv
  <1>3. cycle' = tail \o <<d>>
    BY DEF FindCycle
  <1>4. d \in DepsOf(active_path[n])
    <2>1. d \in unfollowed[active_path[n]] /\ d \in Packages
      BY <1>1 DEF FindCycle, Follow
    <2>2. unfollowed[active_path[n]] \subseteq manifest[owner[active_path[n]]].deps
      BY <1>1 DEF VisitInv, TodoOK
    <2> QED  BY <2>1, <2>2 DEF DepsOf
  <1>5. active_path \in Seq(PackageNames)
    BY DEF VisitInv, TypeOK
  <1>6. \A i \in 1 .. n - 1 : active_path[i + 1] \in DepsOf(active_path[i])
    BY DEF VisitInv, PathOK
  <1> HIDE DEF n, start
  <1>7. /\ Len(tail) = n - start + 1
        /\ \A i \in 1 .. n - start + 1 : tail[i] = active_path[start + i - 1]
        /\ tail \in Seq(PackageNames)
    BY <1>1, <1>2, <1>5
  <1> HIDE DEF tail
  <1>8. /\ Len(cycle') = n - start + 2
        /\ \A i \in 1 .. n - start + 1 : cycle'[i] = active_path[start + i - 1]
        /\ cycle'[n - start + 2] = d
    <2>1. n - start + 1 \in Nat
      BY <1>1, <1>2
    <2>2. /\ Len(tail \o <<d>>) = Len(tail) + 1
          /\ \A i \in 1 .. Len(tail) : (tail \o <<d>>)[i] = tail[i]
          /\ (tail \o <<d>>)[Len(tail) + 1] = d
      BY <1>7
    <2>3. Len(tail) + 1 = n - start + 2
      BY <2>1, <1>7, <1>1, <1>2
    <2> QED  BY <2>1, <2>2, <2>3, <1>3, <1>7
  <1>9. Len(cycle') > 1 /\ cycle'[1] = cycle'[Len(cycle')]
    BY <1>1, <1>2, <1>8
  <1>10. ASSUME NEW i \in 1 .. Len(cycle') - 1
         PROVE  cycle'[i + 1] \in DepsOf(cycle'[i])
    <2>1. i \in 1 .. n - start + 1 /\ cycle'[i] = active_path[start + i - 1]
      BY <1>1, <1>2, <1>8
    <2>2. CASE i = n - start + 1
      BY <2>1, <2>2, <1>1, <1>2, <1>4, <1>8
    <2>3. CASE i < n - start + 1
      <3>1. cycle'[i + 1] = active_path[start + i]
        BY <2>1, <2>3, <1>1, <1>2, <1>8
      <3>2. start + i - 1 \in 1 .. n - 1 /\ (start + i - 1) + 1 = start + i
        BY <2>1, <2>3, <1>1, <1>2
      <3> QED  BY <2>1, <3>1, <3>2, <1>6
    <2> QED  BY <2>1, <2>2, <2>3, <1>1, <1>2
  <1> QED  BY <1>9, <1>10

LEMMA EndStep == VisitInv /\ EndInv /\ [GraphNext]_graphVars => EndInv'
  <1> SUFFICES ASSUME VisitInv, EndInv, [GraphNext]_graphVars PROVE EndInv'
    OBVIOUS
  <1>1. ASSUME UNCHANGED <<manifest, owner, states, cycle>>,
               phase' \in {"selecting", "ok"} => phase \in {"selecting", "ok"},
               error' = "cycle" => error = "cycle" /\ phase' = phase,
               phase' # "failed" => error' = "none"
        PROVE  EndInv'
    BY <1>1 DEF EndInv, Packages, DepsOf
  <1>2. ASSUME NEW m \in Members,
               LoadThrows(m) \/ LoadNameless(m) \/ LoadDuplicate(m)
        PROVE  EndInv'
    BY <1>1, <1>2 DEF LoadThrows, LoadNameless, LoadDuplicate, loadVars, visitVars, Fail,
                      EndInv
  <1>3. ASSUME NEW m \in Members, LoadMember(m) PROVE EndInv'
    BY <1>3 DEF LoadMember, EndInv
  <1>4. CASE LoadDone
    BY <1>1, <1>4 DEF LoadDone, loadVars, visitVars, EndInv
  <1>5. ASSUME NEW p \in PackageNames, VisitRoot(p) \/ VisitDependency(p) \/ SkipDependency(p)
        PROVE  EndInv'
    BY <1>5 DEF VisitRoot, VisitDependency, SkipDependency, Follow, EndInv
  <1>6. ASSUME NEW p \in PackageNames, FindCycle(p) PROVE EndInv'
    <2>1. Packages' = Packages /\ owner' = owner /\ manifest' = manifest
      BY <1>6 DEF FindCycle, loadVars, Packages
    <2>2. \A i : DepsOf(cycle[i])' = DepsOf(cycle'[i])
      BY <2>1 DEF DepsOf
    <2> QED  BY <1>6, <2>2, FoundCycle DEF FindCycle, Fail, EndInv
  <1>7. CASE Leave
    BY <1>7 DEF Leave, EndInv
  <1>8. CASE VisitDone
    <2>1. Packages' = Packages /\ owner' = owner /\ manifest' = manifest
      BY <1>8 DEF VisitDone, loadVars, Packages
    <2> QED
      BY <1>8, <2>1 DEF VisitDone, SelectAll, SelectUnknown, SelectPackage, Fail,
                        visitVars, EndInv, DepsOf
  <1>9. ASSUME NEW p \in PackageNames, AddWithDependencies(p) PROVE EndInv'
    BY <1>1, <1>9 DEF AddWithDependencies, loadVars, visitVars, EndInv
  <1>10. CASE SelectDone
    BY <1>1, <1>10 DEF SelectDone, loadVars, visitVars, EndInv
  <1>11. CASE UNCHANGED graphVars
    BY <1>1, <1>11 DEF graphVars, EndInv
  <1> QED
    BY <1>2, <1>3, <1>4, <1>5, <1>6, <1>7, <1>8, <1>9, <1>10, <1>11 DEF GraphNext, Terminating

LEMMA EndInvariant == GraphSpec => []EndInv
  <1>1. GraphInit => EndInv
    BY DEF GraphInit, EndInv
  <1> QED  BY <1>1, VisitInvariant, EndStep, PTL DEF GraphSpec

\* The cycle error is raised only for a real cycle, which it names, and never
\* missed: where the visit has ended well no package needs itself.
THEOREM CycleVerdictCorrect == GraphSpec => []CycleVerdict
  <1>1. VisitInv /\ EndInv => CycleVerdict
    <2> SUFFICES ASSUME VisitInv, EndInv, phase \in {"selecting", "ok"}, NEW p \in Packages,
                        NEW d \in DepsOf(p)
                 PROVE  p \notin Closure(d)
      BY DEF CycleVerdict, OnCycle, EndInv
    <2>1. PICK i \in DOMAIN build_order : build_order[i] = p
      BY DEF EndInv, VisitInv, VisitedOK, Packages
    <2> DEFINE Before == {build_order[j] : j \in 1 .. i - 1}
    <2>2. DOMAIN build_order = 1 .. Len(build_order) /\ Len(build_order) \in Nat
      BY DEF VisitInv, TypeOK
    <2>3. d \in Before
      BY <2>1 DEF VisitInv, BuildOrderTopological
    <2>4. p \notin Before
      BY <2>1, <2>2 DEF VisitInv, VisitedOK
    <2>5. Before \in SUBSET Packages
      BY <2>2 DEF VisitInv, VisitedOK
    <2>6. DependencyClosed(Before)
      <3> SUFFICES ASSUME NEW j \in 1 .. i - 1, NEW e \in DepsOf(build_order[j])
                   PROVE  e \in Before
        BY DEF DependencyClosed
      <3>1. PICK k \in 1 .. j - 1 : build_order[k] = e
        BY <2>2 DEF VisitInv, BuildOrderTopological
      <3> QED  BY <3>1, <2>2
    <2> HIDE DEF Before
    <2> QED  BY <2>3, <2>4, <2>5, <2>6 DEF Closure
  <1> QED  BY <1>1, VisitInvariant, EndInvariant, PTL

\* After the visit the build order is an enumeration of the packages.
THEOREM OrderIsComplete == GraphSpec => []BuildOrderComplete
  <1>1. VisitInv /\ EndInv => BuildOrderComplete
    <2> SUFFICES ASSUME VisitInv, EndInv, phase \in {"selecting", "ok"}
                 PROVE  Range(build_order) = Packages /\ Len(build_order) = Cardinality(Packages)
      BY DEF BuildOrderComplete
    <2> DEFINE k == Len(build_order)
    <2>1. k \in Nat /\ DOMAIN build_order = 1 .. k /\ build_order \in [1 .. k -> PackageNames]
      BY DEF VisitInv, TypeOK
    <2>2. Range(build_order) = Packages
      BY DEF VisitInv, VisitedOK, EndInv, Range, Packages
    <2>3. build_order \in Bijection(1 .. k, Packages)
      <3>1. build_order \in [1 .. k -> Packages]
        BY <2>1 DEF VisitInv, VisitedOK
      <3>2. \A q \in Packages : \E i \in 1 .. k : build_order[i] = q
        BY <2>1 DEF VisitInv, VisitedOK, EndInv, Packages
      <3>3. \A i, j \in 1 .. k : build_order[i] = build_order[j] => i = j
        BY <2>1 DEF VisitInv, VisitedOK
      <3> HIDE DEF k
      <3> QED  BY <3>1, <3>2, <3>3 DEF Bijection, Injection, Surjection, IsInjective
    <2>4. IsFiniteSet(1 .. k) /\ Cardinality(1 .. k) = k
      BY <2>1, FS_Interval
    <2> HIDE DEF k
    <2>5. ExistsBijection(1 .. k, Packages)
      BY <2>3 DEF ExistsBijection
    <2>6. Cardinality(Packages) = k
      BY <2>4, <2>5, FS_Bijection
    <2> QED  BY <2>2, <2>6 DEF k
  <1> QED  BY <1>1, VisitInvariant, EndInvariant, PTL

(***************************************************************************)
(* Loading.                                                                *)
(***************************************************************************)
\* Every name belongs to the one loaded member that carries it.
LoadInv ==
  /\ phase \in {"visiting", "selecting", "ok"} => unloaded = {}
  /\ phase \in {"loading", "visiting", "selecting", "ok"} =>
       \A m \in Members \ unloaded :
         manifest[m].name # Unnamed => owner[manifest[m].name] = m

LEMMA LoadStep == TypeOK /\ LoadInv /\ [GraphNext]_graphVars => LoadInv'
  <1> SUFFICES ASSUME TypeOK, LoadInv, [GraphNext]_graphVars PROVE LoadInv'
    OBVIOUS
  <1> USE DEF LoadInv
  <1>1. ASSUME NEW m \in Members, LoadThrows(m) \/ LoadDuplicate(m) PROVE LoadInv'
    BY <1>1 DEF LoadThrows, LoadDuplicate, Fail
  <1>2. ASSUME NEW m \in Members, LoadNameless(m) PROVE LoadInv'
    BY <1>2 DEF LoadNameless
  <1>3. ASSUME NEW m \in Members, LoadMember(m) PROVE LoadInv'
    <2>1. manifest[m].name \in PackageNames /\ owner \in [PackageNames -> Members \cup {NoMember}]
      BY <1>3 DEF LoadMember, TypeOK, Manifest
    <2>2. ASSUME NEW q \in Members \ unloaded', manifest[q].name # Unnamed
          PROVE  owner'[manifest[q].name] = q
      <3>1. CASE q = m
        BY <3>1, <2>1, <1>3 DEF LoadMember
      <3>2. CASE q # m
        <4>1. owner[manifest[q].name] = q
          BY <3>2, <2>2, <1>3 DEF LoadMember
        <4>2. manifest[q].name # manifest[m].name
          BY <4>1, <1>3, WorkspaceAssumption DEF LoadMember
        <4>3. manifest[q].name \in PackageNames
          BY <2>2 DEF TypeOK, Manifest
        <4> QED  BY <4>1, <4>2, <4>3, <2>1, <1>3 DEF LoadMember
      <3> QED  BY <3>1, <3>2
    <2> QED  BY <2>2, <1>3 DEF LoadMember
  <1>4. CASE LoadDone
    BY <1>4 DEF LoadDone, loadVars
  <1>5. ASSUME UNCHANGED <<manifest, owner, unloaded>>,
               phase \in {"visiting", "selecting", "ok"} \/ phase' = phase
        PROVE  LoadInv'
    BY <1>5 DEF TypeOK
  <1>6. ASSUME NEW p \in PackageNames,
               \/ VisitRoot(p) \/ SkipDependency(p) \/ VisitDependency(p)
               \/ FindCycle(p) \/ AddWithDependencies(p)
        PROVE  LoadInv'
    BY <1>5, <1>6 DEF VisitRoot, SkipDependency, VisitDependency, FindCycle,
                      AddWithDependencies, Follow, loadVars
  <1>7. CASE Leave \/ VisitDone \/ SelectDone
    BY <1>5, <1>7 DEF Leave, VisitDone, SelectDone, loadVars
  <1>8. CASE UNCHANGED graphVars
    BY <1>5, <1>8 DEF graphVars
  <1> QED
    BY <1>1, <1>2, <1>3, <1>4, <1>6, <1>7, <1>8 DEF GraphNext, Terminating

\* No workspace loses a named member on the way into the plan.
THEOREM NoMemberLost == GraphSpec => []EveryMemberPlanned
  <1>1. GraphInit => LoadInv
    BY DEF GraphInit, LoadInv
  <1>2. LoadInv => EveryMemberPlanned
    BY DEF LoadInv, EveryMemberPlanned
  <1> QED  BY <1>1, <1>2, LoadStep, TypeCorrect, PTL DEF GraphSpec

(***************************************************************************)
(* Selection.                                                              *)
(***************************************************************************)
\* While packages are selected, the selected and the pending ones are needed
\* by the requested package, and a selected one has its dependencies among
\* the selected and the pending ones.
SelectInv ==
  /\ phase \in {"loading", "visiting"} => frontier = {} /\ targets = {}
  /\ phase = "selecting" =>
       /\ requested \in targets \cup frontier
       /\ \A p \in targets : DepsOf(p) \subseteq targets \cup frontier
  /\ phase \in {"selecting", "ok"} =>
       IF requested = AllPackages
         THEN targets = Packages
         ELSE /\ requested \in Packages
              /\ targets \cup frontier \subseteq Closure(requested)
  /\ phase = "ok" => TargetsAreClosure

LEMMA ClosureStep ==
  ASSUME NEW p \in PackageNames, NEW q \in Closure(p)
  PROVE  DepsOf(q) \subseteq Closure(p)
  BY DEF Closure, DependencyClosed, DepsOf

LEMMA SelectStep == TypeOK /\ SelectInv /\ [GraphNext]_graphVars => SelectInv'
  <1> SUFFICES ASSUME TypeOK, SelectInv, [GraphNext]_graphVars PROVE SelectInv'
    OBVIOUS
  <1> USE WorkspaceAssumption
  <1>1. ASSUME phase \in {"loading", "visiting"}, phase' \in {"loading", "visiting", "failed"},
               UNCHANGED selectVars
        PROVE  SelectInv'
    BY <1>1 DEF SelectInv, selectVars
  <1>2. ASSUME NEW m \in Members,
               LoadThrows(m) \/ LoadNameless(m) \/ LoadMember(m) \/ LoadDuplicate(m)
        PROVE  SelectInv'
    BY <1>1, <1>2 DEF LoadThrows, LoadNameless, LoadMember, LoadDuplicate, Fail
  <1>3. CASE LoadDone
    BY <1>1, <1>3 DEF LoadDone
  <1>4. ASSUME NEW p \in PackageNames,
               VisitRoot(p) \/ SkipDependency(p) \/ VisitDependency(p) \/ FindCycle(p)
        PROVE  SelectInv'
    BY <1>1, <1>4 DEF VisitRoot, SkipDependency, VisitDependency, FindCycle, Follow, Fail
  <1>5. CASE Leave
    BY <1>1, <1>5 DEF Leave
  <1>6. ASSUME UNCHANGED <<manifest, owner>>
        PROVE  /\ Packages' = Packages
               /\ \A p : DepsOf(p)' = DepsOf(p)
               /\ \A p : Closure(p)' = Closure(p)
    BY <1>6 DEF Packages, DepsOf, Closure, DependencyClosed
  <1>7. CASE VisitDone
    <2>1. UNCHANGED <<manifest, owner, requested>> /\ phase = "visiting"
      BY <1>7 DEF VisitDone, loadVars
    <2>2. frontier = {} /\ targets = {}
      BY <2>1 DEF SelectInv
    <2>3. CASE SelectAll
      BY <2>1, <2>2, <2>3, <1>6 DEF SelectAll, SelectInv, TargetsAreClosure
    <2>4. CASE SelectUnknown
      BY <2>1, <2>4 DEF SelectUnknown, SelectInv, Fail
    <2>5. CASE SelectPackage
      <3>1. requested \in Packages /\ requested # AllPackages /\ requested \in Closure(requested)
        BY <2>5 DEF SelectPackage, Closure, Packages
      <3>2. phase' = "selecting" /\ frontier' = {requested} /\ targets' = {}
        BY <2>2, <2>5 DEF SelectPackage
      <3> QED  BY <3>1, <3>2, <2>1, <1>6 DEF SelectInv
    <2> QED  BY <1>7, <2>3, <2>4, <2>5 DEF VisitDone
  <1>8. ASSUME NEW p \in PackageNames, AddWithDependencies(p) PROVE SelectInv'
    <2>1. /\ UNCHANGED <<manifest, owner, requested, phase>>
          /\ phase = "selecting" /\ p \in frontier
          /\ targets' = targets \cup {p}
          /\ frontier' = IF p \in targets THEN frontier \ {p}
                                          ELSE (frontier \ {p}) \cup DepsOf(p)
      BY <1>8 DEF AddWithDependencies, loadVars
    <2>2. targets \cup frontier \subseteq targets' \cup frontier'
      BY <2>1
    <2>3. \A q \in targets' : DepsOf(q) \subseteq targets' \cup frontier'
      BY <2>1, <2>2 DEF SelectInv
    <2>4. CASE requested = AllPackages
      BY <2>1, <2>2, <2>3, <2>4, <1>6 DEF SelectInv, TypeOK
    <2>5. CASE requested # AllPackages
      <3>1. requested \in PackageNames /\ p \in Closure(requested)
        BY <2>1, <2>5 DEF SelectInv, Packages
      <3>2. targets' \cup frontier' \subseteq Closure(requested)
        BY <3>1, <2>1, <2>5, ClosureStep DEF SelectInv
      <3> QED  BY <3>2, <2>1, <2>2, <2>3, <2>5, <1>6 DEF SelectInv
    <2> QED  BY <2>4, <2>5
  <1>9. CASE SelectDone
    <2>1. /\ UNCHANGED <<manifest, owner, requested, targets, frontier>>
          /\ phase = "selecting" /\ frontier = {} /\ phase' = "ok"
      BY <1>9 DEF SelectDone, loadVars, selectVars
    <2>2. CASE requested = AllPackages
      BY <2>1, <2>2, <1>6 DEF SelectInv, TargetsAreClosure
    <2>3. CASE requested # AllPackages
      <3>1. targets \in SUBSET Packages /\ requested \in targets /\ DependencyClosed(targets)
        BY <2>1, <2>3 DEF SelectInv, DependencyClosed, Closure
      <3>2. targets = Closure(requested)
        BY <3>1, <2>1, <2>3 DEF SelectInv, Closure
      <3> QED  BY <3>2, <2>1, <2>3, <1>6 DEF SelectInv, TargetsAreClosure
    <2> QED  BY <2>2, <2>3
  <1>10. CASE UNCHANGED graphVars
    BY <1>10, <1>6 DEF graphVars, SelectInv, TargetsAreClosure
  <1> QED
    BY <1>2, <1>3, <1>4, <1>5, <1>7, <1>8, <1>9, <1>10 DEF GraphNext, Terminating

\* The selection is the dependency closure of the request in every workspace.
THEOREM SelectionIsClosure == GraphSpec => []TargetsAreClosure
  <1>1. GraphInit => SelectInv
    BY DEF GraphInit, SelectInv
  <1>2. SelectInv => TargetsAreClosure
    BY DEF SelectInv, TargetsAreClosure
  <1> QED  BY <1>1, <1>2, SelectStep, TypeCorrect, PTL DEF GraphSpec

\* Every plan handed on is what the assumptions of WorkspaceBuild ask for.
THEOREM PlanIsPromised == GraphSpec => []PlanPromised
  <1>1. VisitInv /\ EndInv /\ SelectInv => PlanPromised
    <2> SUFFICES ASSUME VisitInv, EndInv, SelectInv, phase = "ok"
                 PROVE  IsPlan(Packages, [p \in Packages |-> DepsOf(p)], build_order, targets)
      BY DEF PlanPromised
    <2> DEFINE deps == [p \in Packages |-> DepsOf(p)]
    <2>1. build_order \in Seq(Packages)
      BY DEF VisitInv, VisitedOK, TypeOK
    <2>2. \A p \in Packages : \E i \in DOMAIN build_order : build_order[i] = p
      BY DEF VisitInv, VisitedOK, EndInv, Packages
    <2>3. \A i, j \in DOMAIN build_order : build_order[i] = build_order[j] => i = j
      BY DEF VisitInv, VisitedOK
    <2>4. \A i \in DOMAIN build_order : \A d \in deps[build_order[i]] \cap Packages :
            \E j \in 1 .. i - 1 : build_order[j] = d
      BY <2>1 DEF VisitInv, VisitedOK, BuildOrderTopological
    <2>5. IsBuildOrder(build_order, Packages, deps)
      BY <2>1, <2>2, <2>3, <2>4 DEF IsBuildOrder
    <2>6. targets \subseteq Packages /\ \A p \in targets : DepsOf(p) \subseteq targets
      <3>1. CASE requested = AllPackages
        BY <3>1 DEF SelectInv, DepsOf
      <3>2. CASE requested # AllPackages
        <4>1. targets = Closure(requested) /\ requested \in PackageNames
          BY <3>2 DEF SelectInv, TargetsAreClosure, Packages
        <4> QED  BY <4>1, ClosureStep DEF Closure
      <3> QED  BY <3>1, <3>2
    <2>7. IsClosedSelection(targets, Packages, deps)
      BY <2>6 DEF IsClosedSelection
    <2> QED  BY <2>5, <2>7 DEF IsPlan
  <1>2. GraphInit => SelectInv
    BY DEF GraphInit, SelectInv
  <1> QED
    BY <1>1, <1>2, VisitInvariant, EndInvariant, SelectStep, TypeCorrect, PTL DEF GraphSpec
=============================================================================
