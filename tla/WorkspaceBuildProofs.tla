------------------------ MODULE WorkspaceBuildProofs ------------------------
(***************************************************************************)
(* Proofs about the threaded build of a workspace, for every set of        *)
(* packages and every plan that keeps what WorkspaceGraph promises.        *)
(***************************************************************************)
EXTENDS WorkspaceBuild, WellFoundedInduction, TLAPS

(***************************************************************************)
(* The inductive invariant.  DispatchOK: the packages with a thread are    *)
(* the targets that the loop has passed.  ThreadOK: a waiting thread still *)
(* holds the future of every dependency that it has not seen succeed, and  *)
(* an outcome is explained by the outcomes of the dependencies.  CollectOK:*)
(* the caller has recorded what it has collected.                          *)
(***************************************************************************)
Order == plan.build_order

DispatchOK ==
  /\ \A p \in Packages : thread[p] # "none" <=> p \in Range(dispatched)
  /\ \A i \in DOMAIN Order : i < next /\ Order[i] \in plan.targets => Order[i] \in Range(dispatched)
  /\ \A p \in Range(dispatched) : p \in plan.targets /\ \E i \in DOMAIN Order : i < next /\ Order[i] = p
  /\ phase # "dispatching" => dispatch_error \/ next > Len(Order)
  /\ dispatch_error => /\ phase # "dispatching" /\ next <= Len(Order)
                       /\ Order[next] \in plan.targets

AllBuilt(p) == \A d \in DepsOf(p) : thread[d] = "built"

ThreadOK ==
  \A p \in Packages :
    /\ thread[p] = "waiting" =>
         /\ dependency_futures[p] \subseteq DepsOf(p)
         /\ \A d \in DepsOf(p) : d \in dependency_futures[p] \/ thread[d] = "built"
    /\ thread[p] \in {"building", "built", "failed"} => AllBuilt(p)
    /\ thread[p] = "skipped" => \E d \in DepsOf(p) : thread[d] \in {"failed", "skipped"}

CollectOK ==
  /\ \A i \in 1 .. collected : Resolved(dispatched[i])
  /\ errors = {dispatched[i] : i \in {j \in 1 .. collected : thread[dispatched[j]] # "built"}}
  /\ phase = "dispatching" => collected = 0
  /\ phase = "returned" => collected = Len(dispatched)
  /\ result = IF phase # "returned" THEN "none"
              ELSE IF errors = {} /\ ~dispatch_error THEN "ok" ELSE "failed"

BuildInv == BuildTypeOK /\ plan \in Plans /\ DispatchOK /\ ThreadOK /\ CollectOK

(***************************************************************************)
(* Facts about plans.                                                      *)
(***************************************************************************)
\* A dependency that is a target stands ahead of its dependent.
LEMMA DependencyAhead ==
  ASSUME plan \in Plans, NEW i \in DOMAIN Order, NEW d \in DepsOf(Order[i])
  PROVE  \E j \in DOMAIN Order : j < i /\ Order[j] = d
  <1> DEFINE deps == [p \in Packages |-> Range(plan.dependencies[p])]
  <1>1. IsBuildOrder(Order, Packages, deps) /\ plan.targets \subseteq Packages
    BY PlansAssumption DEF IsPlan, Order, Plan
  <1>2. Order \in Seq(Packages) /\ Order[i] \in Packages
    BY <1>1 DEF IsBuildOrder
  <1>3. d \in deps[Order[i]] \cap Packages
    BY <1>1, <1>2 DEF DepsOf
  <1>4. PICK j \in 1 .. i - 1 : Order[j] = d
    BY <1>1, <1>3 DEF IsBuildOrder
  <1>5. j \in DOMAIN Order /\ j < i
    BY <1>2, <1>4
  <1> QED  BY <1>4, <1>5

LEMMA PlanFacts ==
  ASSUME plan \in Plans
  PROVE  /\ Order \in Seq(Packages) /\ plan.targets \subseteq Packages
         /\ Len(Order) \in Nat /\ DOMAIN Order = 1 .. Len(Order)
         /\ \A p \in Packages : \E i \in DOMAIN Order : Order[i] = p
         /\ \A i, j \in DOMAIN Order : Order[i] = Order[j] => i = j
         /\ \A p \in Packages : DepsOf(p) \subseteq Packages
         /\ \A i \in DOMAIN Order : Order[i] \in Packages
  <1> DEFINE deps == [p \in Packages |-> Range(plan.dependencies[p])]
  <1>1. IsBuildOrder(Order, Packages, deps) /\ plan.targets \subseteq Packages
    BY PlansAssumption DEF IsPlan, Order, Plan
  <1>2. Order \in Seq(Packages)
    BY <1>1 DEF IsBuildOrder
  <1>3. /\ \A p \in Packages : \E i \in DOMAIN Order : Order[i] = p
        /\ \A i, j \in DOMAIN Order : Order[i] = Order[j] => i = j
    BY <1>1 DEF IsBuildOrder
  <1>4. \A p \in Packages : DepsOf(p) \subseteq Packages
    BY <1>1 DEF DepsOf
  <1> QED  BY <1>1, <1>2, <1>3, <1>4

LEMMA RangeAppend ==
  ASSUME NEW S, NEW s \in Seq(S), NEW x \in S
  PROVE  Range(Append(s, x)) = Range(s) \cup {x}
  <1>1. /\ Append(s, x) \in Seq(S)
        /\ DOMAIN Append(s, x) = 1 .. Len(s) + 1
        /\ \A i \in 1 .. Len(s) : Append(s, x)[i] = s[i]
        /\ Append(s, x)[Len(s) + 1] = x
        /\ DOMAIN s = 1 .. Len(s) /\ Len(s) \in Nat
    OBVIOUS
  <1>2. Range(Append(s, x)) \subseteq Range(s) \cup {x}
    BY <1>1 DEF Range
  <1>3. Range(s) \cup {x} \subseteq Range(Append(s, x))
    BY <1>1 DEF Range
  <1> QED  BY <1>2, <1>3

\* A thread that waits has a first future to wait for.
LEMMA FirstAwaitedExists ==
  ASSUME BuildInv, NEW p \in Packages, thread[p] = "waiting", dependency_futures[p] # {}
  PROVE  FirstAwaited(p) \in dependency_futures[p]
  <1> DEFINE deps == plan.dependencies[p]
             T == {i \in DOMAIN deps : deps[i] \in dependency_futures[p]}
             Less == {ij \in Nat \X Nat : ij[1] < ij[2]}
  <1>1. deps \in Seq(Names)
    BY DEF BuildInv, BuildTypeOK, Plan
  <1>2. dependency_futures[p] \subseteq Range(deps)
    BY DEF BuildInv, ThreadOK, DepsOf
  <1>3. T \subseteq Nat /\ T # {}
    BY <1>1, <1>2 DEF Range
  <1>4. IsWellFoundedOn(Less, Nat)
    BY NatLessThanWellFounded, Zenon DEF OpToRel
  <1>5. PICK i \in T : \A j \in T : ~(<<j, i>> \in Less)
    <2> HIDE DEF T, Less
    <2> QED  BY <1>3, <1>4, WFMin
  <1>6. \A j \in T : ~(j < i)
    BY <1>3, <1>5
  <1>7. \A j \in 1 .. i - 1 : deps[j] \notin dependency_futures[p]
    BY <1>1, <1>6
  <1>8. /\ deps[i] \in dependency_futures[p]
        /\ \E k \in DOMAIN deps :
             /\ deps[k] = deps[i]
             /\ \A j \in 1 .. k - 1 : deps[j] \notin dependency_futures[p]
    BY <1>7
  <1> QED  BY <1>8 DEF FirstAwaited

(***************************************************************************)
(* The invariant holds initially and is kept by every step.                *)
(***************************************************************************)
LEMMA BuildInit == StartBuild => BuildInv
  <1> SUFFICES ASSUME StartBuild PROVE BuildInv
    OBVIOUS
  <1> USE DEF StartBuild, Untouched
  <1>1. plan \in Plan /\ Len(Order) \in Nat /\ Order = plan.build_order
    BY PlansAssumption, PlanFacts DEF Order
  <1>2. BuildTypeOK
    <2>1. next \in 1 .. Len(plan.build_order) + 1
      BY <1>1
    <2>2. collected \in 0 .. Len(dispatched) /\ dispatched \in Seq(Packages)
      OBVIOUS
    <2> QED  BY <1>1, <2>1, <2>2 DEF BuildTypeOK
  <1>3. DispatchOK
    BY <1>1, PlanFacts DEF DispatchOK, Range
  <1>4. ThreadOK
    BY DEF ThreadOK
  <1>5. CollectOK
    BY DEF CollectOK
  <1> QED  BY <1>2, <1>3, <1>4, <1>5 DEF BuildInv

\* The steps of the caller that leave the threads alone.
LEMMA CallerStep ==
  ASSUME BuildInv, SkipNonTarget \/ DispatchThrows \/ DispatchDone \/ Collect \/ Return
  PROVE  BuildInv'
  <1>0. /\ UNCHANGED <<plan, thread, dependency_futures, dispatched>>
        /\ Order' = Order
    BY DEF SkipNonTarget, DispatchThrows, DispatchDone, Collect, Return, Order
  <1>1. /\ Len(Order) \in Nat /\ DOMAIN Order = 1 .. Len(Order) /\ next \in Nat
        /\ Order = plan.build_order /\ plan \in Plans
        /\ plan.targets \subseteq Packages
        /\ DispatchOK /\ ThreadOK /\ CollectOK /\ BuildTypeOK
    BY PlanFacts DEF BuildInv, BuildTypeOK, Order
  <1>2. ThreadOK'
    BY <1>0, <1>1 DEF ThreadOK, AllBuilt, DepsOf
  <1>3. CASE SkipNonTarget
    <2>1. BuildTypeOK'  BY <1>3, <1>1, <1>0 DEF BuildTypeOK, SkipNonTarget, Loop
    <2>2. DispatchOK'
      BY <1>3, <1>1, <1>0 DEF DispatchOK, SkipNonTarget, Loop
    <2>3. CollectOK'
      BY <1>3, <1>1, <1>0 DEF CollectOK, SkipNonTarget, Loop, Resolved
    <2> QED  BY <1>0, <1>1, <1>2, <2>1, <2>2, <2>3 DEF BuildInv
  <1>4. CASE DispatchThrows
    <2>1. BuildTypeOK'  BY <1>4, <1>1, <1>0 DEF BuildTypeOK, DispatchThrows, Loop
    <2>2. DispatchOK'
      BY <1>4, <1>1, <1>0 DEF DispatchOK, DispatchThrows, Loop
    <2>3. CollectOK'
      BY <1>4, <1>1, <1>0 DEF CollectOK, DispatchThrows, Loop, Resolved
    <2> QED  BY <1>0, <1>1, <1>2, <2>1, <2>2, <2>3 DEF BuildInv
  <1>5. CASE DispatchDone
    <2>1. BuildTypeOK'  BY <1>5, <1>1, <1>0 DEF BuildTypeOK, DispatchDone
    <2>2. DispatchOK'
      BY <1>5, <1>1, <1>0 DEF DispatchOK, DispatchDone
    <2>3. CollectOK'
      BY <1>5, <1>1, <1>0 DEF CollectOK, DispatchDone, Resolved
    <2> QED  BY <1>0, <1>1, <1>2, <2>1, <2>2, <2>3 DEF BuildInv
  <1>6. CASE Collect
    <2>0. /\ Len(dispatched) \in Nat /\ DOMAIN dispatched = 1 .. Len(dispatched)
          /\ collected \in Nat /\ collected + 1 \in DOMAIN dispatched
          /\ dispatched[collected + 1] \in Packages
          /\ collected' = collected + 1
      BY <1>6, <1>1 DEF BuildTypeOK, Collect
    <2>1. BuildTypeOK'
      BY <1>6, <1>1, <1>0, <2>0 DEF BuildTypeOK, Collect
    <2>2. DispatchOK'
      BY <1>6, <1>1, <1>0 DEF DispatchOK, Collect
    <2>3. \A i \in 1 .. collected + 1 : Resolved(dispatched[i])
      BY <1>6, <1>1, <2>0 DEF CollectOK, Collect
    <2>4. errors' = {dispatched[i] : i \in {j \in 1 .. collected + 1 : thread[dispatched[j]] # "built"}}
      BY <1>6, <1>1, <2>0 DEF CollectOK, Collect
    <2>5. CollectOK'
      BY <1>6, <1>1, <1>0, <2>0, <2>3, <2>4 DEF CollectOK, Collect, Resolved
    <2> QED  BY <1>0, <1>1, <1>2, <2>1, <2>2, <2>5 DEF BuildInv
  <1>7. CASE Return
    <2>1. BuildTypeOK'  BY <1>7, <1>1, <1>0 DEF BuildTypeOK, Return
    <2>2. DispatchOK'
      BY <1>7, <1>1, <1>0 DEF DispatchOK, Return
    <2>3. CollectOK'
      BY <1>7, <1>1, <1>0 DEF CollectOK, Return, Resolved
    <2> QED  BY <1>0, <1>1, <1>2, <2>1, <2>2, <2>3 DEF BuildInv
  <1> QED  BY <1>3, <1>4, <1>5, <1>6, <1>7

\* Dispatching a thread: all its dependencies have a thread already.
LEMMA DispatchStep ==
  ASSUME BuildInv, Dispatch
  PROVE  BuildInv'
  <1> DEFINE p == Order[next]
  <1>1. /\ Order \in Seq(Packages) /\ plan.targets \subseteq Packages
        /\ Len(Order) \in Nat /\ DOMAIN Order = 1 .. Len(Order)
        /\ \A i, j \in DOMAIN Order : Order[i] = Order[j] => i = j
        /\ \A q \in Packages : DepsOf(q) \subseteq Packages
        /\ Order = plan.build_order /\ plan \in Plans
    BY PlanFacts DEF BuildInv, Order
  <1>2. /\ UNCHANGED <<plan, phase, dispatch_error, collected, errors, result>>
        /\ next \in DOMAIN Order /\ next' = next + 1 /\ phase = "dispatching"
        /\ p \in plan.targets /\ p \in Packages
        /\ dependency_futures' = [dependency_futures EXCEPT ![p] = Awaited(p)]
        /\ thread' = [thread EXCEPT ![p] = "waiting"]
        /\ dispatched' = Append(dispatched, p)
        /\ Order' = Order
    BY <1>1 DEF Dispatch, Loop, Order, BuildInv, BuildTypeOK
  <1>3. BuildTypeOK /\ DispatchOK /\ ThreadOK /\ CollectOK
    BY DEF BuildInv
  <1>4. /\ dispatched \in Seq(Packages) /\ dispatched' \in Seq(Packages)
        /\ Len(dispatched') = Len(dispatched) + 1
        /\ Len(dispatched) \in Nat
        /\ Range(dispatched') = Range(dispatched) \cup {p}
    BY <1>2, <1>3, RangeAppend DEF BuildTypeOK
  <1>5. p \notin Range(dispatched) /\ thread[p] = "none"
    <2>1. ASSUME p \in Range(dispatched) PROVE FALSE
      <3>1. PICK j \in DOMAIN Order : j < next /\ Order[j] = p
        BY <1>3, <2>1 DEF DispatchOK
      <3>2. j = next
        BY <1>1, <1>2, <3>1
      <3> QED  BY <1>1, <1>2, <3>1, <3>2
    <2>2. thread[p] # "none" <=> p \in Range(dispatched)
      BY <1>2, <1>3 DEF DispatchOK
    <2> QED  BY <2>1, <2>2
  <1>6. DepsOf(p) \subseteq Range(dispatched) /\ Awaited(p) = DepsOf(p)
    <2>1. ASSUME NEW d \in DepsOf(p) PROVE d \in Range(dispatched)
      <3>0. next \in DOMAIN Order /\ plan \in Plans /\ d \in DepsOf(Order[next])
        BY <1>1, <1>2
      <3>1. PICK j \in DOMAIN Order : j < next /\ Order[j] = d
        <4> HIDE DEF p
        <4> QED  BY <3>0, DependencyAhead
      <3> QED  BY <3>1, <1>3 DEF DispatchOK, DepsOf
    <2> QED  BY <2>1 DEF Awaited
  <1>7. \A q : DepsOf(q)' = DepsOf(q)
    BY <1>2 DEF DepsOf
  <1> HIDE DEF p
  <1>8. /\ thread \in [Packages -> {"none", "waiting", "building", "built", "failed", "skipped"}]
        /\ dependency_futures \in [Packages -> SUBSET Packages]
    BY <1>3 DEF BuildTypeOK
  <1>9. BuildTypeOK'
    <2>1. next' \in 1 .. Len(Order') + 1
      BY <1>1, <1>2
    <2>2. dependency_futures' \in [Packages -> SUBSET Packages]
      BY <1>1, <1>2, <1>6, <1>8
    <2>3. collected' \in 0 .. Len(dispatched')
      BY <1>2, <1>3, <1>4 DEF BuildTypeOK
    <2> QED  BY <2>1, <2>2, <2>3, <1>2, <1>3, <1>4 DEF BuildTypeOK, Order
  <1>10. DispatchOK'
    <2>1. \A q \in Packages : thread'[q] # "none" <=> q \in Range(dispatched')
      BY <1>2, <1>3, <1>4, <1>8 DEF DispatchOK
    <2>2. \A i \in DOMAIN Order : i < next + 1 /\ Order[i] \in plan.targets => Order[i] \in Range(dispatched')
      BY <1>1, <1>2, <1>3, <1>4 DEF DispatchOK, p
    <2>3. \A q \in Range(dispatched') :
            q \in plan.targets /\ \E i \in DOMAIN Order : i < next + 1 /\ Order[i] = q
      BY <1>1, <1>2, <1>3, <1>4 DEF DispatchOK, p
    <2> QED  BY <2>1, <2>2, <2>3, <1>2, <1>3 DEF DispatchOK
  <1>11. ThreadOK'
    <2> SUFFICES ASSUME NEW q \in Packages
                 PROVE  /\ thread'[q] = "waiting" =>
                             /\ dependency_futures'[q] \subseteq DepsOf(q)
                             /\ \A d \in DepsOf(q) : d \in dependency_futures'[q] \/ thread'[d] = "built"
                        /\ thread'[q] \in {"building", "built", "failed"} =>
                             \A d \in DepsOf(q) : thread'[d] = "built"
                        /\ thread'[q] = "skipped" =>
                             \E d \in DepsOf(q) : thread'[d] \in {"failed", "skipped"}
      BY <1>7 DEF ThreadOK, AllBuilt
    <2>1. CASE q = p
      BY <2>1, <1>2, <1>6, <1>8
    <2>2. CASE q # p
      <3>1. \A d \in DepsOf(q) : d \in Packages /\ (thread[d] = "built" => thread'[d] = "built")
        BY <1>1, <1>2, <1>5, <1>8
      <3>2. \A d \in DepsOf(q) : thread[d] \in {"failed", "skipped"} => thread'[d] = thread[d]
        BY <1>1, <1>2, <1>5, <1>8
      <3>3. thread'[q] = thread[q] /\ dependency_futures'[q] = dependency_futures[q]
        BY <2>2, <1>2, <1>8
      <3> QED  BY <3>1, <3>2, <3>3, <1>3 DEF ThreadOK, AllBuilt
    <2> QED  BY <2>1, <2>2
  <1>12. CollectOK'
    BY <1>2, <1>3 DEF CollectOK, BuildTypeOK
  <1> QED  BY <1>1, <1>2, <1>9, <1>10, <1>11, <1>12 DEF BuildInv

\* The steps of a thread.
LEMMA ThreadStep ==
  ASSUME BuildInv, NEW p \in Packages, Thread(p)
  PROVE  BuildInv'
  <1>1. /\ UNCHANGED plan /\ UNCHANGED callerVars
        /\ thread[p] \in {"waiting", "building"}
        /\ thread' \in [Packages -> {"none", "waiting", "building", "built", "failed", "skipped"}]
        /\ thread'[p] # "none"
        /\ \A q \in Packages : q # p => thread'[q] = thread[q]
        /\ dependency_futures' \in [Packages -> SUBSET Packages]
        /\ \A q \in Packages : q # p => dependency_futures'[q] = dependency_futures[q]
    BY DEF BuildInv, BuildTypeOK, Thread, DependencyBuilt, DependencyFailed, StartMember, MemberExits
  <1>2. /\ \A q \in Packages : DepsOf(q) \subseteq Packages
        /\ plan \in Plans
    BY PlanFacts DEF BuildInv
  <1>3. BuildTypeOK /\ DispatchOK /\ ThreadOK /\ CollectOK
    BY DEF BuildInv
  <1>4. BuildTypeOK'
    BY <1>1, <1>3 DEF BuildTypeOK, callerVars
  <1>5. DispatchOK'
    BY <1>1, <1>3 DEF DispatchOK, callerVars, Order
  <1>6. \A q : DepsOf(q)' = DepsOf(q)
    BY <1>1 DEF DepsOf
  <1>7. ThreadOK'
    <2> SUFFICES ASSUME NEW q \in Packages
                 PROVE  /\ thread'[q] = "waiting" =>
                             /\ dependency_futures'[q] \subseteq DepsOf(q)
                             /\ \A d \in DepsOf(q) : d \in dependency_futures'[q] \/ thread'[d] = "built"
                        /\ thread'[q] \in {"building", "built", "failed"} =>
                             \A d \in DepsOf(q) : thread'[d] = "built"
                        /\ thread'[q] = "skipped" =>
                             \E d \in DepsOf(q) : thread'[d] \in {"failed", "skipped"}
      BY <1>6 DEF ThreadOK, AllBuilt
    <2>1. \A d \in DepsOf(q) :
            /\ d \in Packages
            /\ thread[d] = "built" => thread'[d] = "built"
            /\ thread[d] \in {"failed", "skipped"} => thread'[d] = thread[d]
      BY <1>1, <1>2
    <2>2. CASE q # p
      BY <2>1, <2>2, <1>1, <1>3 DEF ThreadOK, AllBuilt
    <2>3. CASE q = p
      <3>1. CASE DependencyBuilt(p)
        <4>1. /\ thread[p] = "waiting" /\ thread' = thread
              /\ dependency_futures'[p] = dependency_futures[p] \ {FirstAwaited(p)}
              /\ thread[FirstAwaited(p)] = "built"
          BY <3>1, <1>3 DEF DependencyBuilt, BuildTypeOK
        <4> QED  BY <4>1, <2>3, <1>3 DEF ThreadOK
      <3>2. CASE DependencyFailed(p)
        <4>1. FirstAwaited(p) \in DepsOf(p)
          BY <3>2, <1>3, FirstAwaitedExists DEF DependencyFailed, ThreadOK
        <4>2. thread'[FirstAwaited(p)] \in {"failed", "skipped"}
          BY <4>1, <2>1, <2>3, <3>2 DEF DependencyFailed
        <4>3. thread'[p] = "skipped"
          BY <3>2, <1>3 DEF DependencyFailed, BuildTypeOK
        <4> QED  BY <4>1, <4>2, <4>3, <2>3
      <3>3. CASE StartMember(p)
        <4>1. /\ thread[p] = "waiting" /\ dependency_futures[p] = {}
              /\ thread'[p] \in {"building", "failed"}
          BY <3>3, <1>3 DEF StartMember, BuildTypeOK
        <4> QED  BY <4>1, <2>1, <2>3, <1>3 DEF ThreadOK
      <3>4. CASE MemberExits(p)
        <4>1. thread[p] = "building" /\ thread'[p] \in {"built", "failed"}
          BY <3>4, <1>3 DEF MemberExits, BuildTypeOK
        <4> QED  BY <4>1, <2>1, <2>3, <1>3 DEF ThreadOK, AllBuilt
      <3> QED  BY <3>1, <3>2, <3>3, <3>4 DEF Thread
    <2> QED  BY <2>2, <2>3
  <1>8. CollectOK'
    <2>1. /\ collected \in 0 .. Len(dispatched) /\ dispatched \in Seq(Packages)
          /\ UNCHANGED <<phase, dispatched, dispatch_error, collected, errors, result>>
      BY <1>1, <1>3 DEF BuildTypeOK, callerVars
    <2>2. \A i \in 1 .. collected :
            dispatched[i] \in Packages /\ thread'[dispatched[i]] = thread[dispatched[i]]
      BY <2>1, <1>1, <1>3 DEF CollectOK, Resolved
    <2>3. {j \in 1 .. collected : thread'[dispatched[j]] # "built"}
            = {j \in 1 .. collected : thread[dispatched[j]] # "built"}
      BY <2>2
    <2>4. \A i \in 1 .. collected : Resolved(dispatched[i])'
      BY <2>1, <2>2, <1>3 DEF CollectOK, Resolved
    <2> QED  BY <2>1, <2>3, <2>4, <1>3 DEF CollectOK, Resolved
  <1> QED  BY <1>1, <1>2, <1>4, <1>5, <1>7, <1>8 DEF BuildInv

LEMMA BuildStep == BuildInv /\ [BuildNext]_buildVars => BuildInv'
  <1> SUFFICES ASSUME BuildInv, [BuildNext]_buildVars PROVE BuildInv'
    OBVIOUS
  <1>1. CASE Caller
    BY <1>1, CallerStep, DispatchStep DEF Caller
  <1>2. ASSUME NEW p \in Packages, Thread(p) PROVE BuildInv'
    BY <1>2, ThreadStep
  <1>3. CASE UNCHANGED buildVars
    BY <1>3 DEF buildVars, BuildInv, BuildTypeOK, DispatchOK, ThreadOK, CollectOK, Order, AllBuilt,
                DepsOf, Resolved
  <1> QED  BY <1>1, <1>2, <1>3 DEF BuildNext, Terminating

LEMMA BuildInvariant == BuildSpec => []BuildInv
  BY BuildInit, BuildStep, PTL DEF BuildSpec

(***************************************************************************)
(* Theorems.                                                               *)
(***************************************************************************)
\* Every variable keeps its type.
THEOREM TypeCorrect == BuildSpec => []BuildTypeOK
  BY BuildInvariant, PTL DEF BuildInv

\* No member's build starts before the members it depends on are built.
THEOREM DependenciesFirst == BuildSpec => []StartsAfterDependencies
  <1>1. BuildInv => StartsAfterDependencies
    BY PlanFacts DEF BuildInv, ThreadOK, AllBuilt, StartsAfterDependencies
  <1> QED  BY <1>1, BuildInvariant, PTL

\* What the caller has collected when it returns.
LEMMA WhenReturned ==
  ASSUME BuildInv, phase = "returned"
  PROVE  /\ \A p \in Range(dispatched) : Resolved(p)
         /\ errors = {p \in Range(dispatched) : thread[p] # "built"}
         /\ Range(dispatched) \subseteq plan.targets
         /\ ~dispatch_error => Range(dispatched) = plan.targets
         /\ dispatch_error => \E p \in plan.targets : thread[p] = "none"
  <1>1. /\ dispatched \in Seq(Packages) /\ collected = Len(dispatched)
        /\ DOMAIN dispatched = 1 .. collected
    BY DEF BuildInv, BuildTypeOK, CollectOK
  <1>2. Range(dispatched) = {dispatched[i] : i \in 1 .. collected}
    BY <1>1 DEF Range
  <1>3. \A p \in Range(dispatched) : Resolved(p)
    BY <1>2 DEF BuildInv, CollectOK
  <1>4. errors = {p \in Range(dispatched) : thread[p] # "built"}
    BY <1>2 DEF BuildInv, CollectOK
  <1>5. Range(dispatched) \subseteq plan.targets
    BY DEF BuildInv, DispatchOK
  <1>6. ~dispatch_error => Range(dispatched) = plan.targets
    <2> SUFFICES ASSUME ~dispatch_error, NEW p \in plan.targets PROVE p \in Range(dispatched)
      BY <1>5
    <2>1. PICK i \in DOMAIN Order : Order[i] = p
      BY PlanFacts DEF BuildInv
    <2>2. i < next
      BY PlanFacts DEF BuildInv, DispatchOK, BuildTypeOK
    <2> QED  BY <2>1, <2>2 DEF BuildInv, DispatchOK
  <1>7. dispatch_error => \E p \in plan.targets : thread[p] = "none"
    <2> SUFFICES ASSUME dispatch_error PROVE \E p \in plan.targets : thread[p] = "none"
      OBVIOUS
    <2>1. next \in DOMAIN Order /\ Order[next] \in plan.targets /\ Order[next] \in Packages
      BY PlanFacts DEF BuildInv, DispatchOK, BuildTypeOK
    <2>2. \A i \in DOMAIN Order : Order[i] = Order[next] => ~(i < next)
      BY <2>1, PlanFacts DEF BuildInv, BuildTypeOK
    <2>3. Order[next] \notin Range(dispatched)
      BY <2>2 DEF BuildInv, DispatchOK
    <2> QED  BY <2>1, <2>3 DEF BuildInv, DispatchOK
  <1> QED  BY <1>3, <1>4, <1>5, <1>6, <1>7

LEMMA NothingLeftInv == BuildInv => NothingLeftRunning
  <1> SUFFICES ASSUME BuildInv, phase = "returned", NEW p \in Packages
               PROVE  thread[p] \notin {"waiting", "building"}
    BY DEF NothingLeftRunning
  <1>1. CASE p \in Range(dispatched)
    BY <1>1, WhenReturned DEF Resolved
  <1>2. CASE p \notin Range(dispatched)
    BY <1>2 DEF BuildInv, DispatchOK
  <1> QED  BY <1>1, <1>2

\* When the command returns none of its threads and child builds is left.
THEOREM NothingLeft == BuildSpec => []NothingLeftRunning
  BY NothingLeftInv, BuildInvariant, PTL

\* A failed member stops its dependents and no other member.
THEOREM Containment == BuildSpec => []FailureIsContained
  <1>1. BuildInv => FailureIsContained
    <2> SUFFICES ASSUME BuildInv, phase = "returned", ~dispatch_error, NEW p \in plan.targets
                 PROVE  /\ Resolved(p)
                        /\ thread[p] = "skipped" <=>
                             \E d \in DepsOf(p) : thread[d] \in {"failed", "skipped"}
      BY DEF FailureIsContained
    <2>1. Resolved(p) /\ p \in Packages
      BY WhenReturned, PlanFacts DEF BuildInv
    <2>2. thread[p] \in {"built", "failed"} => AllBuilt(p)
      BY <2>1 DEF BuildInv, ThreadOK
    <2>3. thread[p] = "skipped" => \E d \in DepsOf(p) : thread[d] \in {"failed", "skipped"}
      BY <2>1 DEF BuildInv, ThreadOK
    <2> QED  BY <2>1, <2>2, <2>3 DEF Resolved, AllBuilt
  <1> QED  BY <1>1, BuildInvariant, PTL

LEMMA CompletenessInv == BuildInv => ErrorIsComplete
  <1> SUFFICES ASSUME BuildInv, phase = "returned"
               PROVE  /\ errors = {p \in Range(dispatched) : thread[p] # "built"}
                      /\ result = "ok" <=> \A p \in plan.targets : thread[p] = "built"
    BY DEF ErrorIsComplete
  <1>1. result = IF errors = {} /\ ~dispatch_error THEN "ok" ELSE "failed"
    BY DEF BuildInv, CollectOK
  <1>2. CASE dispatch_error
    BY <1>1, <1>2, WhenReturned
  <1>3. CASE ~dispatch_error
    BY <1>1, <1>3, WhenReturned
  <1>4. dispatch_error \in BOOLEAN
    BY DEF BuildInv, BuildTypeOK
  <1> QED  BY <1>2, <1>3, <1>4

\* The error is complete and success means that every target is built.
THEOREM Completeness == BuildSpec => []ErrorIsComplete
  BY CompletenessInv, BuildInvariant, PTL

(***************************************************************************)
(* The threaded build implements the contract.                             *)
(***************************************************************************)
\* A step of a thread that changes its visible progress.
LEMMA ProgressOf ==
  ASSUME BuildTypeOK, BuildTypeOK', UNCHANGED plan, NEW p \in Packages, NEW s, NEW t,
         thread' = [thread EXCEPT ![p] = s],
         t = CASE s \in {"none", "waiting"} -> "idle"
               [] s = "building" -> "running"
               [] s = "built" -> "ok"
               [] OTHER -> s
  PROVE  Progress' = [Progress EXCEPT ![p] = t]
  <1>1. thread \in [Packages -> {"none", "waiting", "building", "built", "failed", "skipped"}]
    BY DEF BuildTypeOK
  <1>2. \A q \in Packages : thread'[q] = IF q = p THEN s ELSE thread[q]
    BY <1>1
  <1>3. \A q \in Packages : Progress'[q] = IF q = p THEN t ELSE Progress[q]
    BY <1>2 DEF Progress
  <1>4. Progress' \in [Packages -> {Progress'[q] : q \in Packages}] /\ DOMAIN Progress = Packages
    BY DEF Progress
  <1> QED  BY <1>3, <1>4 DEF Progress

LEMMA ContractInit == StartBuild => Contract!Init
  <1> SUFFICES ASSUME StartBuild PROVE Contract!Init
    OBVIOUS
  <1>1. plan.targets \in SUBSET Packages
    BY PlanFacts DEF StartBuild, Untouched
  <1>2. [p \in plan.targets |-> DepsOf(p)] \in [plan.targets -> SUBSET plan.targets]
    BY DEF DepsOf
  <1>3. Progress = [p \in Packages |-> "idle"]
    BY DEF StartBuild, Untouched, Progress
  <1> QED  BY <1>1, <1>2, <1>3 DEF StartBuild, Untouched, Contract!Init

LEMMA ContractStutter ==
  ASSUME UNCHANGED <<plan, result>>, Progress' = Progress
  PROVE  UNCHANGED Contract!contractVars
  BY DEF Contract!contractVars, DepsOf

LEMMA ContractStep ==
  BuildInv /\ BuildInv' /\ [BuildNext]_buildVars => [Contract!Next]_(Contract!contractVars)
  <1> SUFFICES ASSUME BuildInv, BuildInv', [BuildNext]_buildVars
               PROVE  Contract!Next \/ UNCHANGED Contract!contractVars
    OBVIOUS
  <1> DEFINE deps == [p \in plan.targets |-> DepsOf(p)]
  <1>1. BuildTypeOK /\ BuildTypeOK' /\ plan.targets \subseteq Packages
    BY PlanFacts DEF BuildInv
  <1>2. ASSUME UNCHANGED <<plan, thread, result>> PROVE UNCHANGED Contract!contractVars
    BY <1>2, ContractStutter DEF Progress
  <1>3. CASE SkipNonTarget \/ DispatchThrows \/ DispatchDone \/ Collect
    BY <1>2, <1>3 DEF SkipNonTarget, DispatchThrows, DispatchDone, Collect
  <1>4. CASE Dispatch
    <2> DEFINE p == plan.build_order[next]
    <2>1. p \in Packages /\ p \in plan.targets
      BY <1>1, <1>4 DEF Dispatch
    <2>2. thread' = [thread EXCEPT ![p] = "waiting"] /\ UNCHANGED <<plan, result>>
      BY <1>4 DEF Dispatch
    <2>3. thread[p] = "none"
      <3>1. next \in DOMAIN Order /\ Order[next] = p
        BY <1>4, PlanFacts DEF Dispatch, Loop, Order, BuildInv, BuildTypeOK
      <3>2. p \notin Range(dispatched)
        BY <3>1, PlanFacts DEF BuildInv, DispatchOK, BuildTypeOK
      <3> QED  BY <3>2, <2>1 DEF BuildInv, DispatchOK
    <2> HIDE DEF p
    <2>4. Progress' = [Progress EXCEPT ![p] = "idle"]
      BY <1>1, <2>1, <2>2, ProgressOf
    <2>5. Progress' = Progress
      BY <2>1, <2>3, <2>4 DEF Progress
    <2> QED  BY <2>2, <2>5, ContractStutter
  <1>5. CASE Return
    <2>1. Progress' = Progress /\ UNCHANGED <<plan, thread, dispatched, errors, dispatch_error>>
      BY <1>5 DEF Return, Progress
    <2>2. phase = "collecting" /\ phase' = "returned" /\ result = "none"
      BY <1>5 DEF Return, BuildInv, CollectOK
    <2>3. /\ \A p \in plan.targets : thread[p] \notin {"waiting", "building"}
          /\ result' = IF \A p \in plan.targets : thread[p] = "built" THEN "ok" ELSE "failed"
      <3>1. NothingLeftRunning' /\ ErrorIsComplete'
        BY NothingLeftInv, CompletenessInv, PTL
      <3>2. result' \in {"ok", "failed"}
        BY <1>5 DEF Return
      <3> QED  BY <3>1, <3>2, <2>1, <2>2, <1>1 DEF NothingLeftRunning, ErrorIsComplete
    <2>4. \A p \in plan.targets : /\ Progress[p] # "running"
                                  /\ Progress[p] = "ok" <=> thread[p] = "built"
      BY <2>3, <1>1 DEF Progress, BuildTypeOK
    <2>5. result' = IF \A p \in plan.targets : Progress[p] = "ok" THEN "ok" ELSE "failed"
      BY <2>3, <2>4
    <2> QED  BY <2>1, <2>2, <2>4, <2>5 DEF Contract!Next, Contract!Report, DepsOf
  <1>6. ASSUME NEW p \in Packages, Thread(p)
        PROVE  Contract!Next \/ UNCHANGED Contract!contractVars
    <2>1. CASE DependencyBuilt(p)
      BY <1>2, <2>1 DEF DependencyBuilt, callerVars
    <2>2. /\ UNCHANGED <<plan, result>>
          /\ thread[p] \in {"waiting", "building"}
      BY <1>6 DEF Thread, DependencyBuilt, DependencyFailed, StartMember, MemberExits, callerVars
    <2>3. p \in plan.targets
      BY <2>2 DEF BuildInv, DispatchOK
    <2>4. result = "none"
      <3>1. phase # "returned"
        BY <2>2, WhenReturned DEF BuildInv, DispatchOK, Resolved
      <3> QED  BY <3>1 DEF BuildInv, CollectOK
    <2>5. /\ thread[p] = "waiting" => Progress[p] = "idle"
          /\ thread[p] = "building" => Progress[p] = "running"
          /\ \A d \in DepsOf(p) : /\ d \in Packages
                                  /\ thread[d] = "built" => Progress[d] = "ok"
                                  /\ thread[d] \in {"failed", "skipped"} => Progress[d] = thread[d]
      BY PlanFacts DEF Progress, BuildInv
    <2>6. deps[p] = DepsOf(p) /\ deps' = deps /\ plan.targets' = plan.targets
      BY <2>2, <2>3 DEF DepsOf
    <2>7. CASE DependencyFailed(p)
      <3>1. thread' = [thread EXCEPT ![p] = "skipped"] /\ thread[p] = "waiting"
        BY <2>7 DEF DependencyFailed
      <3>2. Progress' = [Progress EXCEPT ![p] = "skipped"]
        BY <3>1, <2>2, <1>1, ProgressOf
      <3>3. \E d \in DepsOf(p) : thread[d] \in {"failed", "skipped"}
        BY <2>7, FirstAwaitedExists DEF DependencyFailed, BuildInv, ThreadOK
      <3>4. \E d \in deps[p] : Progress[d] \in {"failed", "skipped"}
        BY <3>3, <2>5, <2>6
      <3> QED
        BY <3>1, <3>2, <3>4, <2>2, <2>3, <2>4, <2>5, <2>6
        DEF Contract!Next, Contract!PassOver, Contract!Becomes
    <2>8. CASE StartMember(p)
      <3>1. /\ thread[p] = "waiting" /\ dependency_futures[p] = {}
            /\ \/ thread' = [thread EXCEPT ![p] = "building"]
               \/ thread' = [thread EXCEPT ![p] = "failed"]
        BY <2>8 DEF StartMember
      <3>2. \/ Progress' = [Progress EXCEPT ![p] = "running"]
            \/ Progress' = [Progress EXCEPT ![p] = "failed"]
        BY <3>1, <2>2, <1>1, ProgressOf
      <3>3. \A d \in deps[p] : Progress[d] = "ok"
        BY <3>1, <2>5, <2>6 DEF BuildInv, ThreadOK
      <3> QED
        BY <3>1, <3>2, <3>3, <2>2, <2>3, <2>4, <2>5, <2>6
        DEF Contract!Next, Contract!Run, Contract!CannotRun, Contract!Ready, Contract!Becomes
    <2>9. CASE MemberExits(p)
      <3>1. /\ thread[p] = "building"
            /\ \/ thread' = [thread EXCEPT ![p] = "built"]
               \/ thread' = [thread EXCEPT ![p] = "failed"]
        BY <2>9 DEF MemberExits
      <3>2. \/ Progress' = [Progress EXCEPT ![p] = "ok"]
            \/ Progress' = [Progress EXCEPT ![p] = "failed"]
        BY <3>1, <2>2, <1>1, ProgressOf
      <3> QED
        BY <3>1, <3>2, <2>2, <2>3, <2>4, <2>5, <2>6
        DEF Contract!Next, Contract!Finish, Contract!Becomes
    <2> QED  BY <1>6, <2>1, <2>7, <2>8, <2>9 DEF Thread
  <1>7. CASE UNCHANGED buildVars
    BY <1>2, <1>7 DEF buildVars
  <1> QED
    BY <1>3, <1>4, <1>5, <1>6, <1>7 DEF BuildNext, Caller, Terminating

\* For every workspace, the threads, futures and child processes together do
\* what the contract says.
THEOREM Implementation == BuildSpec => ImplementsContract
  BY ContractInit, ContractStep, BuildInvariant, PTL DEF BuildSpec, ImplementsContract, Contract!Spec
=============================================================================
