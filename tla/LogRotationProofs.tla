-------------------------- MODULE LogRotationProofs --------------------------
(*****************************************************************************)
(* That no process loses the log it appends to, that top-level processes   *)
(* never share one, that .catalyst.log names one that is kept, and that    *)
(* only what is old is pruned, for any number of processes and of retained *)
(* generations.                                                            *)
(*****************************************************************************)
EXTENDS LogRotation, FiniteSetTheorems, WellFoundedInduction, TLAPS

(***************************************************************************)
(* The newest of a set of generations.                                     *)
(***************************************************************************)
Bounded(S) == \E n \in Nat : \A m \in S : m <= n

LEMMA MaxOfBounded ==
  ASSUME NEW S \in SUBSET Nat, S # {}, Bounded(S)
  PROVE  Max(S) \in S /\ \A m \in S : m <= Max(S)
  <1> DEFINE Bounds == {n \in Nat : \A m \in S : m <= n}
  <1>1. Bounds # {} /\ Bounds \subseteq Nat
    BY DEF Bounded
  <1>2. PICK n \in Bounds : \A k \in Bounds : ~(<<k, n>> \in OpToRel(<, Nat))
    BY <1>1, NatLessThanWellFounded, WFMin
  <1>3. n \in Nat /\ S \subseteq Nat /\ \A m \in S : m <= n
    BY <1>2
  <1>4. n \in S
    <2>1. SUFFICES ASSUME n \notin S PROVE FALSE
      OBVIOUS
    <2>2. \A m \in S : m \in Nat /\ m <= n /\ m # n
      BY <1>3, <2>1
    <2>3. n # 0 /\ n - 1 \in Nat /\ n - 1 < n
      <3>1. PICK m \in S : TRUE
        OBVIOUS
      <3> QED  BY <1>3, <2>2, <3>1
    <2>4. \A m \in S : m <= n - 1
      BY <1>3, <2>2
    <2>5. n - 1 \in Bounds
      BY <2>3, <2>4
    <2>6. <<n - 1, n>> \in OpToRel(<, Nat)
      BY <1>3, <2>3 DEF OpToRel
    <2> QED  BY <1>2, <2>5, <2>6
  <1>5. \E x \in S : \A y \in S : x >= y
    BY <1>3, <1>4
  <1>6. Max(S) \in S /\ \A y \in S : Max(S) >= y
    BY <1>5 DEF Max
  <1> QED  BY <1>3, <1>6

(***************************************************************************)
(* The inductive invariant.                                                *)
(***************************************************************************)
Owning == {"publishing", "pruning", "locking", "opening", "running"}

\* A top-level process that has a generation of its own.
Owner(p) == kind[p] = "top" /\ pc[p] \in Owning

\* While p sets up in .catalyst.logs it holds the lock there.
Exclusive ==
  \A p \in Processes : pc[p] \in Setup /\ DirectoryOf(p) = "logs" => rotation["logs"] = p

\* Only top-level processes rotate, with a generation newer than all that they prune.
Rotating ==
  \A p \in Processes : pc[p] \in {"creating", "publishing", "pruning"} =>
    /\ kind[p] = "top" /\ selected[p] \in Nat
    /\ \A n \in todo[p] : n < selected[p]

\* A child has been told a log, the others have chosen one.
Selected ==
  \A p \in Processes :
    \/ pc[p] \in Owning \cup {"creating"}
    \/ kind[p] = "child" /\ pc[p] \in {"starting", "selecting"}
    => selected[p] # NoLog

\* No other process owns the generation that p is about to create.
NotTaken ==
  \A p, q \in Processes : pc[p] = "creating" /\ Owner(q) => selected[p] # selected[q]

Owned == \A p \in Processes : Owner(p) => selected[p] \in generations

Locking == \A p \in Processes : pc[p] \in {"opening", "running"} => locked[p]

Distinguished ==
  \A p, q \in Processes : p # q /\ Owner(p) /\ Owner(q) => selected[p] # selected[q]

Published == \A p \in Processes : pc[p] = "pruning" => latest = selected[p]

LogInv ==
  /\ TypeOK /\ Bounded(generations)
  /\ Exclusive /\ Rotating /\ Selected /\ NotTaken /\ Owned /\ Locking /\ Distinguished /\ Published
  /\ ActiveGenerationKept /\ LatestIsKept

LEMMA LogInvInit == Init => LogInv
  BY ConstantsAssumption
  DEF Init, LogInv, TypeOK, Bounded, Exclusive, Rotating, Selected, NotTaken, Owned, Locking, Distinguished,
      Published, ActiveGenerationKept, LatestIsKept, Owner, Owning, Setup, Steps, Kinds, Directories
(***************************************************************************)
(* Steps.                                                                  *)
(***************************************************************************)
LEMMA DirectoryOfTop == \A p \in Processes : kind[p] # "child" => DirectoryOf(p) = "logs"
  BY DEF DirectoryOf

\* Of the processes that set up in .catalyst.logs there is one at a time.
LEMMA OneSetsUp ==
  ASSUME Exclusive, NEW p \in Processes, NEW q \in Processes,
         pc[p] \in Setup, pc[q] \in Setup, kind[p] # "child", kind[q] # "child"
  PROVE  p = q
  BY DirectoryOfTop DEF Exclusive

\* A process starts that has no log yet or a parent's.
LEMMA StepStartAs ==
  ASSUME LogInv, NEW p \in Processes, NEW k \in Kinds, NEW log \in Nat \cup {Latest, NoLog},
         k = "child" => log # NoLog, StartAs(p, k, log)
  PROVE  LogInv'
  <1>1. TypeOK'
    BY DEF LogInv, StartAs, Goto, files, pruning, TypeOK, Kinds, Steps, Setup, Directories
  <1>2. (Bounded(generations) /\ Locking /\ LatestIsKept)'
    BY DEF LogInv, StartAs, Goto, files, pruning, TypeOK, Bounded, Locking, LatestIsKept
  <1>3. (Exclusive /\ Rotating /\ Published)'
    BY DEF LogInv, StartAs, Goto, files, pruning, TypeOK, Exclusive, DirectoryOf, Released,
       Setup, Directories, Rotating, Published
  <1>4. (Selected /\ Owned /\ ActiveGenerationKept)'
    BY DEF LogInv, StartAs, Goto, files, pruning, TypeOK, Selected, Owning, Owned, Owner,
       ActiveGenerationKept, Locking, Held
  <1>5. (NotTaken /\ Distinguished)'
    BY DEF LogInv, StartAs, Goto, files, pruning, TypeOK, NotTaken, Owner, Owning, Exclusive,
       Setup, DirectoryOf, Distinguished
  <1> QED  BY <1>1, <1>2, <1>3, <1>4, <1>5 DEF LogInv

\* A lock that is free is held by no process that sets up.
LEMMA StepAcquireRotation ==
  ASSUME LogInv, NEW p \in Processes, AcquireRotation(p)
  PROVE  LogInv'
  <1>1. TypeOK'
    BY DEF LogInv, AcquireRotation, Goto, files, pruning, TypeOK, Kinds, Steps, Setup,
       Directories
  <1>2. (Bounded(generations) /\ Locking /\ LatestIsKept)'
    BY DEF LogInv, AcquireRotation, Goto, files, pruning, TypeOK, Bounded, Locking, LatestIsKept
  <1>3. (Rotating /\ Published)'
    BY DEF LogInv, AcquireRotation, Goto, files, pruning, TypeOK, Rotating, Published,
       Exclusive, Setup, DirectoryOf
  <1>4. Exclusive'
    <2>1. /\ pc' = [pc EXCEPT ![p] = "selecting"] /\ rotation[DirectoryOf(p)] = Nobody
          /\ rotation' = [rotation EXCEPT ![DirectoryOf(p)] = p]
          /\ UNCHANGED <<kind, selected>>
      BY DEF AcquireRotation, Goto
    <2>2. DirectoryOf(p) \in Directories /\ \A q \in Processes : DirectoryOf(q)' = DirectoryOf(q)
      BY <2>1 DEF DirectoryOf, Directories
    <2>3. ASSUME NEW q \in Processes, pc'[q] \in Setup, DirectoryOf(q) = "logs"
          PROVE  rotation'["logs"] = q
      <3>1. CASE q = p
        BY <2>1, <2>2, <2>3, <3>1 DEF LogInv, TypeOK
      <3>2. CASE q # p
        <4>1. pc[q] \in Setup
          BY <2>1, <2>3, <3>2 DEF LogInv, TypeOK
        <4>2. rotation["logs"] = q /\ q # Nobody
          BY <2>3, <4>1, ConstantsAssumption DEF LogInv, Exclusive
        <4>3. DirectoryOf(p) # "logs"
          BY <2>1, <4>2
        <4> QED  BY <2>1, <2>2, <4>2, <4>3 DEF LogInv, TypeOK
      <3> QED  BY <3>1, <3>2
    <2> QED  BY <2>2, <2>3 DEF Exclusive
  <1>5. (Selected /\ Owned /\ ActiveGenerationKept)'
    BY DEF LogInv, AcquireRotation, Goto, files, pruning, TypeOK, Selected, Owning, Owned,
       Owner, ActiveGenerationKept, Locking, Held
  <1>6. (NotTaken /\ Distinguished)'
    BY DEF LogInv, AcquireRotation, Goto, files, pruning, TypeOK, NotTaken, Owner, Owning,
       Exclusive, Setup, DirectoryOf, Distinguished
  <1> QED  BY <1>1, <1>2, <1>3, <1>4, <1>5, <1>6 DEF LogInv

\* A child keeps the log that it was told.
LEMMA StepSelectInherited ==
  ASSUME LogInv, NEW p \in Processes, SelectInherited(p)
  PROVE  LogInv'
  <1>1. TypeOK'
    BY DEF LogInv, SelectInherited, Goto, files, pruning, TypeOK, Kinds, Steps, Setup,
       Directories
  <1>2. (Bounded(generations) /\ Locking /\ LatestIsKept)'
    BY DEF LogInv, SelectInherited, Goto, files, pruning, TypeOK, Bounded, Locking, LatestIsKept
  <1>3. (Exclusive /\ Rotating /\ Published)'
    BY DEF LogInv, SelectInherited, Goto, files, pruning, TypeOK, Exclusive, DirectoryOf,
       Released, Setup, Directories, Rotating, Published
  <1>4. (Selected /\ Owned /\ ActiveGenerationKept)'
    BY DEF LogInv, SelectInherited, Goto, files, pruning, TypeOK, Selected, Owning, Owned,
       Owner, ActiveGenerationKept, Locking, Held
  <1>5. (NotTaken /\ Distinguished)'
    BY DEF LogInv, SelectInherited, Goto, files, pruning, TypeOK, NotTaken, Owner, Owning,
       Exclusive, Setup, DirectoryOf, Distinguished
  <1> QED  BY <1>1, <1>2, <1>3, <1>4, <1>5 DEF LogInv

\* A machine process takes the newest generation.
LEMMA StepSelectNewest ==
  ASSUME LogInv, NEW p \in Processes, SelectNewest(p)
  PROVE  LogInv'
  <1>1. TypeOK'
    <2>1. generations # {} => Max(generations) \in Nat
      BY MaxOfBounded DEF LogInv, TypeOK
    <2> QED  BY <2>1 DEF LogInv, SelectNewest, Goto, files, pruning, TypeOK, Steps, Setup
  <1>2. (Bounded(generations) /\ Locking /\ LatestIsKept)'
    BY DEF LogInv, SelectNewest, Goto, files, pruning, TypeOK, Bounded, Locking, LatestIsKept
  <1>3. (Exclusive /\ Rotating /\ Published)'
    BY DEF LogInv, SelectNewest, Goto, files, pruning, TypeOK, Exclusive, DirectoryOf, Released,
       Setup, Directories, Rotating, Published
  <1>4. (Owned /\ ActiveGenerationKept)'
    BY DEF LogInv, SelectNewest, Goto, files, pruning, TypeOK, Owned, Owner, Owning,
       ActiveGenerationKept, Locking, Held
  <1>5. Selected'
    <2>1. generations # {} => Max(generations) \in Nat
      BY MaxOfBounded DEF LogInv, TypeOK
    <2> QED
      BY <2>1, ConstantsAssumption DEF LogInv, SelectNewest, Goto, files, pruning, TypeOK, Selected, Owning
  <1>6. (NotTaken /\ Distinguished)'
    BY DEF LogInv, SelectNewest, Goto, files, pruning, TypeOK, NotTaken, Owner, Owning,
       Exclusive, Setup, DirectoryOf, Distinguished
  <1> QED  BY <1>1, <1>2, <1>3, <1>4, <1>5, <1>6 DEF LogInv

\* A top-level process takes a number above all generations.
LEMMA StepSelectNext ==
  ASSUME LogInv, NEW p \in Processes, SelectNext(p)
  PROVE  LogInv'
  <1> DEFINE next == IF generations = {} THEN 1 ELSE Max(generations) + 1
  <1>a. next \in Nat /\ \A n \in generations : n < next
    <2>1. CASE generations = {}
      BY <2>1
    <2>2. CASE generations # {}
      <3>1. Max(generations) \in Nat /\ \A n \in generations : n \in Nat /\ n <= Max(generations)
        BY <2>2, MaxOfBounded DEF LogInv, TypeOK
      <3> QED  BY <2>2, <3>1
    <2> QED  BY <2>1, <2>2
  <1>b. /\ pc[p] = "selecting" /\ kind[p] = "top"
        /\ pc' = [pc EXCEPT ![p] = "creating"] /\ selected' = [selected EXCEPT ![p] = next]
        /\ todo' = [todo EXCEPT ![p] = generations']
        /\ UNCHANGED <<rotation, kind, locked, completed, file>>
    BY DEF SelectNext, Goto
  <1>c. \/ generations = {} /\ generations' = {0} /\ latest' = NoLog
        \/ UNCHANGED <<generations, latest>>
    BY DEF SelectNext, files
  <1>d. generations' \subseteq Nat /\ \A n \in generations' : n < next
    <2>1. CASE generations = {} /\ generations' = {0}
      BY <2>1
    <2>2. CASE generations' = generations
      BY <2>2, <1>a DEF LogInv, TypeOK
    <2> QED  BY <1>c, <2>1, <2>2
  <1> HIDE DEF next
  <1>1. TypeOK'
    BY <1>a, <1>b, <1>c, <1>d DEF LogInv, TypeOK, Steps, Setup
  <1>2. Bounded(generations)'
    <2>1. \A m \in generations' : m \in Nat /\ m < next
      BY <1>d
    <2>2. \A m \in generations' : m <= next
      BY <1>a, <2>1
    <2> QED  BY <1>a, <2>2 DEF Bounded
  <1>3. Locking'
    BY <1>b DEF LogInv, TypeOK, Locking
  <1>4. LatestIsKept'
    BY <1>c, ConstantsAssumption DEF LogInv, LatestIsKept
  <1>5. Exclusive'
    BY <1>b DEF LogInv, TypeOK, Exclusive, DirectoryOf, Setup
  <1>6. Rotating'
    BY <1>a, <1>b, <1>d DEF LogInv, TypeOK, Rotating
  <1>7. Published'
    <2>1. ASSUME NEW q \in Processes, pc'[q] = "pruning" PROVE FALSE
      <3>1. pc[q] = "pruning" /\ q # p
        BY <1>b, <2>1 DEF LogInv, TypeOK
      <3>2. kind[q] # "child" /\ kind[p] # "child" /\ pc[p] \in Setup /\ pc[q] \in Setup
        BY <1>b, <3>1 DEF LogInv, Rotating, Setup
      <3> QED  BY <3>1, <3>2, OneSetsUp DEF LogInv
    <2> QED  BY <2>1 DEF Published
  <1>8. Selected'
    BY <1>a, <1>b, ConstantsAssumption DEF LogInv, TypeOK, Selected, Owning
  <1>9. Owned'
    BY <1>b, <1>c DEF LogInv, TypeOK, Owned, Owner, Owning
  <1>10. ActiveGenerationKept'
    BY <1>b, <1>c DEF LogInv, TypeOK, ActiveGenerationKept
  <1>11. NotTaken'
    <2> SUFFICES ASSUME NEW q \in Processes, NEW r \in Processes, pc'[q] = "creating", Owner(r)'
                 PROVE  selected'[q] # selected'[r]
      BY DEF NotTaken
    <2>1. r # p /\ Owner(r) /\ selected'[r] = selected[r]
      BY <1>b DEF LogInv, TypeOK, Owner, Owning
    <2>2. CASE q = p
      <3>1. selected[r] \in generations /\ selected'[q] = next
        BY <1>b, <2>1, <2>2 DEF LogInv, TypeOK, Owned
      <3> QED  BY <1>a, <2>1, <3>1
    <2>3. CASE q # p
      BY <1>b, <2>1, <2>3 DEF LogInv, TypeOK, NotTaken
    <2> QED  BY <2>2, <2>3
  <1>12. Distinguished'
    BY <1>b DEF LogInv, TypeOK, Distinguished, Owner, Owning
  <1> QED  BY <1>1, <1>2, <1>3, <1>4, <1>5, <1>6, <1>7, <1>8, <1>9, <1>10, <1>11, <1>12 DEF LogInv

\* The file of the new generation is created; nobody else owns it.
LEMMA StepCreate ==
  ASSUME LogInv, NEW p \in Processes, Create(p)
  PROVE  LogInv'
  <1>a. selected[p] \in Nat /\ kind[p] = "top" /\ pc[p] = "creating"
    BY DEF LogInv, TypeOK, Rotating, Create
  <1>1. TypeOK'
    BY <1>a DEF LogInv, Create, Goto, pruning, TypeOK, Steps, Setup
  <1>2. (Locking /\ LatestIsKept)'
    BY DEF LogInv, Create, Goto, files, pruning, TypeOK, Locking, LatestIsKept
  <1>3. Bounded(generations)'
    <2>1. PICK n \in Nat : \A m \in generations : m <= n
      BY DEF LogInv, Bounded
    <2>2. selected[p] \in Nat /\ generations' = generations \cup {selected[p]} /\ generations \subseteq Nat
      BY DEF LogInv, TypeOK, Rotating, Create
    <2>3. n + selected[p] \in Nat /\ selected[p] <= n + selected[p]
      BY <2>1, <2>2
    <2>4. \A m \in generations : m \in Nat /\ m <= n + selected[p]
      BY <2>1, <2>2
    <2>5. \A m \in generations' : m <= n + selected[p]
      BY <2>2, <2>3, <2>4
    <2> QED  BY <2>3, <2>5 DEF Bounded
  <1>4. (Exclusive /\ Rotating)'
    BY DEF LogInv, Create, Goto, files, pruning, TypeOK, Exclusive, DirectoryOf, Released,
       Setup, Directories, Rotating
  <1>5. Published'
    <2>1. ASSUME NEW q \in Processes, pc'[q] = "pruning" PROVE latest' = selected'[q]
      BY <2>1 DEF LogInv, TypeOK, Published, Create, Goto
    <2> QED  BY <2>1 DEF Published
  <1>6. (Selected /\ Owned /\ ActiveGenerationKept)'
    BY DEF LogInv, Create, Goto, files, pruning, TypeOK, Selected, Owning, Owned, Owner,
       ActiveGenerationKept, Locking, Held
  <1>7. Distinguished'
    BY DEF LogInv, Create, Goto, files, pruning, TypeOK, Distinguished, NotTaken, Owner, Owning
  <1>8. NotTaken'
    <2>1. ASSUME NEW q \in Processes, pc'[q] = "creating" PROVE FALSE
      <3>1. pc[q] = "creating" /\ q # p
        BY <2>1 DEF LogInv, TypeOK, Create, Goto
      <3>2. kind[q] # "child" /\ kind[p] # "child" /\ pc[p] \in Setup /\ pc[q] \in Setup
        BY <1>a, <3>1 DEF LogInv, Rotating, Setup
      <3> QED  BY <3>1, <3>2, OneSetsUp DEF LogInv
    <2> QED  BY <2>1 DEF NotTaken
  <1> QED  BY <1>1, <1>2, <1>3, <1>4, <1>5, <1>6, <1>7, <1>8 DEF LogInv

\* .catalyst.log names the new generation, while no other process prunes.
LEMMA StepPublish ==
  ASSUME LogInv, NEW p \in Processes, Publish(p)
  PROVE  LogInv'
  <1>a. selected[p] \in Nat /\ selected[p] \in generations
    BY DEF LogInv, TypeOK, Rotating, Owned, Owner, Owning, Publish
  <1>1. TypeOK'
    BY <1>a DEF LogInv, Publish, Goto, pruning, TypeOK, Steps, Setup
  <1>2. (Bounded(generations) /\ Locking)'
    BY DEF LogInv, Publish, Goto, files, pruning, TypeOK, Bounded, Locking
  <1>3. LatestIsKept'
    BY <1>a DEF LogInv, Publish, LatestIsKept
  <1>4. (Exclusive /\ Rotating /\ Published)'
    BY DEF LogInv, Publish, Goto, files, pruning, TypeOK, Exclusive, DirectoryOf, Released,
       Setup, Directories, Rotating, Published
  <1>5. (Selected /\ Owned /\ ActiveGenerationKept)'
    BY DEF LogInv, Publish, Goto, files, pruning, TypeOK, Selected, Owning, Owned, Owner,
       ActiveGenerationKept, Locking, Held
  <1>6. (NotTaken /\ Distinguished)'
    BY DEF LogInv, Publish, Goto, files, pruning, TypeOK, NotTaken, Owner, Owning, Exclusive,
       Setup, DirectoryOf, Distinguished
  <1> QED  BY <1>1, <1>2, <1>3, <1>4, <1>5, <1>6 DEF LogInv

\* What is pruned is older than the log of the pruning process, and not in use.
LEMMA StepPrune ==
  ASSUME LogInv, NEW p \in Processes, Prune(p)
  PROVE  LogInv'
  <1> DEFINE n == Max(todo[p])
  <1>a. /\ pc[p] = "pruning" /\ kind[p] = "top" /\ selected[p] \in Nat /\ latest = selected[p]
        /\ n \in todo[p] /\ n \in Nat /\ n < selected[p]
    <2>1. /\ pc[p] = "pruning" /\ todo[p] # {} /\ todo[p] \in SUBSET Nat
          /\ selected[p] \in Nat /\ \A m \in todo[p] : m < selected[p]
      BY DEF LogInv, TypeOK, Prune, Rotating
    <2>2. Bounded(todo[p])
      BY <2>1 DEF Bounded
    <2> QED  BY <2>1, <2>2, MaxOfBounded DEF LogInv, Rotating, Published
  <1>b. /\ todo' = [todo EXCEPT ![p] = @ \ {n}]
        /\ completed' = [completed EXCEPT ![p] = IF Held(n) THEN @ ELSE @ + 1]
        /\ UNCHANGED <<latest, rotation, pc, kind, selected, locked, file>>
    BY DEF Prune
  <1>c. \/ UNCHANGED generations
        \/ generations' = generations \ {n} /\ ~Held(n)
    BY DEF Prune
  <1> HIDE DEF n
  <1>1. TypeOK'
    <2>1. generations' \subseteq Nat /\ todo' \in [Processes -> SUBSET Nat]
      BY <1>b, <1>c DEF LogInv, TypeOK
    <2>2. completed' \in [Processes -> Nat]
      BY <1>b DEF LogInv, TypeOK
    <2> QED  BY <1>b, <2>1, <2>2 DEF LogInv, TypeOK
  <1>2. Bounded(generations)'
    BY <1>b, <1>c DEF LogInv, Bounded
  <1>3. Locking'
    BY <1>b, <1>c DEF LogInv, Locking
  <1>4. LatestIsKept'
    BY <1>a, <1>b, <1>c DEF LogInv, LatestIsKept
  <1>5. Exclusive'
    BY <1>b, <1>c DEF LogInv, Exclusive, DirectoryOf
  <1>6. Rotating'
    BY <1>b, <1>c DEF LogInv, TypeOK, Rotating
  <1>7. Published'
    BY <1>b, <1>c DEF LogInv, Published
  <1>8. Selected'
    BY <1>b, <1>c DEF LogInv, Selected
  <1>9. Owned'
    <2> SUFFICES ASSUME NEW q \in Processes, Owner(q) PROVE selected[q] \in generations'
      BY <1>b, <1>c DEF Owned, Owner
    <2>0. selected[q] \in generations
      BY DEF LogInv, Owned
    <2>1. CASE q = p
      BY <1>a, <1>b, <1>c, <2>0, <2>1
    <2>2. CASE q # p /\ pc[q] \in Setup
      BY <1>a, <2>2, OneSetsUp DEF LogInv, Owner, Setup
    <2>3. CASE pc[q] \in {"opening", "running"}
      <3>1. locked[q]
        BY <2>3 DEF LogInv, Locking
      <3>2. selected[q] = n => Held(n)
        BY <3>1 DEF Held
      <3> QED  BY <1>b, <1>c, <2>0, <3>2
    <2> QED  BY <2>1, <2>2, <2>3 DEF Owner, Owning, Setup
  <1>10. ActiveGenerationKept'
    <2> SUFFICES ASSUME NEW q \in Processes, pc[q] = "running", selected[q] \in Nat
                 PROVE  selected[q] \in generations'
      BY <1>b, <1>c DEF ActiveGenerationKept
    <2>1. selected[q] \in generations /\ (selected[q] = n => Held(n))
      BY DEF LogInv, ActiveGenerationKept, Locking, Held
    <2> QED  BY <1>b, <1>c, <2>1
  <1>11. NotTaken'
    BY <1>b, <1>c DEF LogInv, NotTaken, Owner
  <1>12. Distinguished'
    BY <1>b, <1>c DEF LogInv, Distinguished, Owner
  <1> QED  BY <1>1, <1>2, <1>3, <1>4, <1>5, <1>6, <1>7, <1>8, <1>9, <1>10, <1>11, <1>12 DEF LogInv

\* Pruning is over.
LEMMA StepPruneDone ==
  ASSUME LogInv, NEW p \in Processes, PruneDone(p)
  PROVE  LogInv'
  <1>1. TypeOK'
    BY DEF LogInv, PruneDone, Goto, files, pruning, TypeOK, Kinds, Steps, Setup, Directories
  <1>2. (Bounded(generations) /\ Locking /\ LatestIsKept)'
    BY DEF LogInv, PruneDone, Goto, files, pruning, TypeOK, Bounded, Locking, LatestIsKept
  <1>3. (Exclusive /\ Rotating /\ Published)'
    BY DEF LogInv, PruneDone, Goto, files, pruning, TypeOK, Exclusive, DirectoryOf, Released,
       Setup, Directories, Rotating, Published
  <1>4. (Selected /\ Owned /\ ActiveGenerationKept)'
    BY DEF LogInv, PruneDone, Goto, files, pruning, TypeOK, Selected, Owning, Owned, Owner,
       ActiveGenerationKept, Locking, Held
  <1>5. (NotTaken /\ Distinguished)'
    BY DEF LogInv, PruneDone, Goto, files, pruning, TypeOK, NotTaken, Owner, Owning, Exclusive,
       Setup, DirectoryOf, Distinguished
  <1> QED  BY <1>1, <1>2, <1>3, <1>4, <1>5 DEF LogInv

\* A process locks its log and gives the rotation lock back.
LEMMA StepLockLog ==
  ASSUME LogInv, NEW p \in Processes, LockLog(p)
  PROVE  LogInv'
  <1>1. TypeOK'
    <2>1. rotation' \in [Directories -> Processes \cup {Nobody}]
      BY DEF LogInv, TypeOK, LockLog, Released
    <2> QED  BY <2>1 DEF LogInv, LockLog, Goto, pruning, files, TypeOK, Steps, Setup, Kinds
  <1>2. (Bounded(generations) /\ Locking /\ LatestIsKept)'
    BY DEF LogInv, LockLog, Goto, files, pruning, TypeOK, Bounded, Locking, LatestIsKept
  <1>3. (Exclusive /\ Rotating /\ Published)'
    BY DEF LogInv, LockLog, Goto, files, pruning, TypeOK, Exclusive, DirectoryOf, Released,
       Setup, Directories, Rotating, Published
  <1>4. (Selected /\ Owned /\ ActiveGenerationKept)'
    BY DEF LogInv, LockLog, Goto, files, pruning, TypeOK, Selected, Owning, Owned, Owner,
       ActiveGenerationKept, Locking, Held
  <1>5. (NotTaken /\ Distinguished)'
    BY DEF LogInv, LockLog, Goto, files, pruning, TypeOK, NotTaken, Owner, Owning, Exclusive,
       Setup, DirectoryOf, Distinguished
  <1> QED  BY <1>1, <1>2, <1>3, <1>4, <1>5 DEF LogInv

\* A log that is opened exists.
LEMMA StepOpenGeneration ==
  ASSUME LogInv, NEW p \in Processes, OpenGeneration(p)
  PROVE  LogInv'
  <1>a. selected[p] \in Nat
    BY DEF LogInv, TypeOK, OpenGeneration, Selected, Owning
  <1>1. TypeOK'
    BY <1>a DEF LogInv, OpenGeneration, Goto, TypeOK, pruning, Steps, Setup
  <1>2. (Locking /\ LatestIsKept)'
    BY DEF LogInv, OpenGeneration, Goto, files, pruning, TypeOK, Locking, LatestIsKept
  <1>3. Bounded(generations)'
    <2>1. PICK n \in Nat : \A m \in generations : m <= n
      BY DEF LogInv, Bounded
    <2>2. generations' = generations \cup {selected[p]} /\ generations \subseteq Nat
      BY DEF LogInv, TypeOK, OpenGeneration
    <2>3. \A m \in generations' : m <= n + selected[p]
      BY <1>a, <2>1, <2>2
    <2> QED  BY <1>a, <2>3 DEF Bounded
  <1>4. (Exclusive /\ Rotating /\ Published)'
    BY DEF LogInv, OpenGeneration, Goto, files, pruning, TypeOK, Exclusive, DirectoryOf,
       Released, Setup, Directories, Rotating, Published
  <1>5. (Selected /\ Owned /\ ActiveGenerationKept)'
    BY DEF LogInv, OpenGeneration, Goto, files, pruning, TypeOK, Selected, Owning, Owned, Owner,
       ActiveGenerationKept, Locking, Held
  <1>6. (NotTaken /\ Distinguished)'
    BY DEF LogInv, OpenGeneration, Goto, files, pruning, TypeOK, NotTaken, Owner, Owning,
       Exclusive, Setup, DirectoryOf, Distinguished
  <1> QED  BY <1>1, <1>2, <1>3, <1>4, <1>5, <1>6 DEF LogInv

\* .catalyst.log is created only where no process prunes.
LEMMA StepOpenLatest ==
  ASSUME LogInv, NEW p \in Processes, OpenLatest(p)
  PROVE  LogInv'
  <1>1. TypeOK'
    BY DEF LogInv, OpenLatest, Goto, files, pruning, TypeOK, Kinds, Steps, Setup, Directories
  <1>2. (Bounded(generations) /\ Locking /\ LatestIsKept)'
    BY DEF LogInv, OpenLatest, Goto, files, pruning, TypeOK, Bounded, Locking, LatestIsKept
  <1>3. (Exclusive /\ Rotating)'
    BY DEF LogInv, OpenLatest, Goto, files, pruning, TypeOK, Exclusive, DirectoryOf, Released,
       Setup, Directories, Rotating
  <1>4. Published'
    BY ConstantsAssumption DEF LogInv, OpenLatest, Goto, TypeOK, Published, Rotating
  <1>5. (Selected /\ Owned)'
    BY DEF LogInv, OpenLatest, Goto, files, pruning, TypeOK, Selected, Owning, Owned, Owner
  <1>6. ActiveGenerationKept'
    BY ConstantsAssumption DEF LogInv, OpenLatest, Goto, TypeOK, ActiveGenerationKept
  <1>7. (NotTaken /\ Distinguished)'
    BY DEF LogInv, OpenLatest, Goto, files, pruning, TypeOK, NotTaken, Owner, Owning, Exclusive,
       Setup, DirectoryOf, Distinguished
  <1> QED  BY <1>1, <1>2, <1>3, <1>4, <1>5, <1>6, <1>7 DEF LogInv

\* A process whose setup fails has no log.
LEMMA StepSetupFails ==
  ASSUME LogInv, NEW p \in Processes, SetupFails(p)
  PROVE  LogInv'
  <1>1. TypeOK'
    <2>1. rotation' \in [Directories -> Processes \cup {Nobody}]
      BY DEF LogInv, TypeOK, SetupFails, Unwind, Released
    <2> QED  BY <2>1 DEF LogInv, SetupFails, Unwind, Goto, files, TypeOK, Steps, Setup, Kinds
  <1>2. (Bounded(generations) /\ Locking /\ LatestIsKept)'
    BY DEF LogInv, SetupFails, Unwind, Goto, files, pruning, TypeOK, Bounded, Locking,
       LatestIsKept
  <1>3. (Exclusive /\ Rotating /\ Published)'
    BY DEF LogInv, SetupFails, Unwind, Goto, files, pruning, TypeOK, Exclusive, DirectoryOf,
       Released, Setup, Directories, Rotating, Published
  <1>4. (Selected /\ Owned /\ ActiveGenerationKept)'
    BY DEF LogInv, SetupFails, Unwind, Goto, files, pruning, TypeOK, Selected, Owning, Owned,
       Owner, ActiveGenerationKept, Locking, Held
  <1>5. (NotTaken /\ Distinguished)'
    BY DEF LogInv, SetupFails, Unwind, Goto, files, pruning, TypeOK, NotTaken, Owner, Owning,
       Exclusive, Setup, DirectoryOf, Distinguished
  <1> QED  BY <1>1, <1>2, <1>3, <1>4, <1>5 DEF LogInv

\* A process ends anywhere.
LEMMA StepEnd ==
  ASSUME LogInv, NEW p \in Processes, End(p)
  PROVE  LogInv'
  <1>1. TypeOK'
    <2>1. rotation' \in [Directories -> Processes \cup {Nobody}]
      BY DEF LogInv, TypeOK, End, Unwind, Released
    <2> QED  BY <2>1 DEF LogInv, End, Unwind, Goto, files, TypeOK, Steps, Setup, Kinds
  <1>2. (Bounded(generations) /\ Locking /\ LatestIsKept)'
    BY DEF LogInv, End, Unwind, Goto, files, pruning, TypeOK, Bounded, Locking, LatestIsKept
  <1>3. (Exclusive /\ Rotating /\ Published)'
    BY DEF LogInv, End, Unwind, Goto, files, pruning, TypeOK, Exclusive, DirectoryOf, Released,
       Setup, Directories, Rotating, Published
  <1>4. (Selected /\ Owned /\ ActiveGenerationKept)'
    BY DEF LogInv, End, Unwind, Goto, files, pruning, TypeOK, Selected, Owning, Owned, Owner,
       ActiveGenerationKept, Locking, Held
  <1>5. (NotTaken /\ Distinguished)'
    BY DEF LogInv, End, Unwind, Goto, files, pruning, TypeOK, NotTaken, Owner, Owning,
       Exclusive, Setup, DirectoryOf, Distinguished
  <1> QED  BY <1>1, <1>2, <1>3, <1>4, <1>5 DEF LogInv

LEMMA LogInvStep == LogInv /\ [Next]_vars => LogInv'
  <1> SUFFICES ASSUME LogInv, [Next]_vars PROVE LogInv'
    OBVIOUS
  <1>1. ASSUME NEW p \in Processes, Start(p) PROVE LogInv'
    BY <1>1, StepStartAs DEF Start, Kinds
  <1>2. ASSUME NEW p \in Processes, StartChild(p) PROVE LogInv'
    <2>1. PICK parent \in Processes : pc[parent] = "running" /\ StartAs(p, "child", selected[parent])
      BY <1>2 DEF StartChild
    <2>2. selected[parent] \in Nat \cup {Latest, NoLog} /\ selected[parent] # NoLog
      BY <2>1 DEF LogInv, TypeOK, Selected, Owning
    <2> QED  BY <2>1, <2>2, StepStartAs DEF Kinds
  <1>3. ASSUME NEW p \in Processes, SetUp(p) PROVE LogInv'
    BY <1>3, StepAcquireRotation, StepSelectInherited, StepSelectNewest, StepSelectNext, StepCreate,
       StepPublish, StepPrune, StepPruneDone, StepLockLog, StepOpenGeneration, StepOpenLatest
    DEF SetUp
  <1>4. CASE UNCHANGED vars
    BY <1>4
    DEF vars, files, pruning, LogInv, TypeOK, Bounded, Exclusive, Rotating, Selected, NotTaken, Owned,
        Locking, Distinguished, Published, ActiveGenerationKept, LatestIsKept, Owner, DirectoryOf
  <1> QED  BY <1>1, <1>2, <1>3, <1>4, StepSetupFails, StepEnd DEF Next

THEOREM LogInvariant == Spec => []LogInv
  BY LogInvInit, LogInvStep, PTL DEF Spec

\* A process that runs finds the generation that it appends to in place, however
\* many others rotate and prune.
THEOREM LogsKept == Spec => []ActiveGenerationKept
  <1>1. LogInv => ActiveGenerationKept
    BY DEF LogInv
  <1> QED  BY LogInvariant, <1>1, PTL

\* Two top-level processes never append to one generation.
THEOREM GenerationsDistinct == Spec => []OwnGeneration
  <1>1. LogInv => OwnGeneration
    BY DEF LogInv, Distinguished, Owner, Owning, OwnGeneration
  <1> QED  BY LogInvariant, <1>1, PTL

\* .catalyst.log never names a generation that has been pruned.
THEOREM LatestExists == Spec => []LatestIsKept
  <1>1. LogInv => LatestIsKept
    BY DEF LogInv
  <1> QED  BY LogInvariant, <1>1, PTL

(***************************************************************************)
(* Pruning.                                                                *)
(***************************************************************************)
\* A process has no lock on a log before it opens one.
Unlocked == \A p \in Processes : locked[p] => pc[p] \in {"opening", "running"}

\* What p has still to look at exists, for nobody else prunes.
Waiting ==
  \A p \in Processes :
    /\ pc[p] \in {"creating", "publishing", "pruning"} => todo[p] \subseteq generations
    /\ pc[p] # "pruning" => completed[p] = 0

\* The completed generations that p has passed.
Passed(p) == {m \in generations : m < selected[p] /\ ~Held(m) /\ \A t \in todo[p] : t < m}

\* The counter is right until enough have been counted.
Counted ==
  \A p \in Processes : pc[p] = "pruning" =>
    \/ completed[p] <= Cardinality(Passed(p))
    \/ RETAINED_INVOCATIONS <= Cardinality(Passed(p))

PruneInv == Unlocked /\ Waiting /\ Counted

LEMMA BelowFinite ==
  ASSUME NEW k \in Nat, NEW S \in SUBSET Nat, \A m \in S : m < k
  PROVE  IsFiniteSet(S) /\ Cardinality(S) \in Nat
  <1>1. IsFiniteSet(0..k)
    BY FS_Interval
  <1>2. S \subseteq 0..k
    OBVIOUS
  <1> QED  BY <1>1, <1>2, FS_Subset, FS_CardinalityType

\* While p prunes, the generations that it has passed stay there, and nobody
\* opens them.
LEMMA PassedStays ==
  ASSUME TypeOK, TypeOK', NEW p \in Processes, selected[p] \in Nat, selected'[p] = selected[p],
         todo'[p] \subseteq todo[p], completed'[p] = completed[p],
         generations \subseteq generations',
         \A m \in Nat : m < selected[p] /\ Held(m)' => Held(m),
         \/ completed[p] <= Cardinality(Passed(p))
         \/ RETAINED_INVOCATIONS <= Cardinality(Passed(p))
  PROVE  \/ completed'[p] <= Cardinality(Passed(p)')
         \/ RETAINED_INVOCATIONS <= Cardinality(Passed(p)')
  <1>1. Passed(p) \subseteq Passed(p)'
    BY DEF Passed, TypeOK
  <1>2. Passed(p)' \in SUBSET Nat /\ \A m \in Passed(p)' : m < selected[p]
    BY DEF Passed, TypeOK
  <1>3. IsFiniteSet(Passed(p)') /\ Cardinality(Passed(p)') \in Nat
    BY <1>2, BelowFinite
  <1>4. Cardinality(Passed(p)) <= Cardinality(Passed(p)')
    BY <1>1, <1>3, FS_Subset
  <1>5. completed[p] \in Nat /\ RETAINED_INVOCATIONS \in Nat
    BY ConstantsAssumption DEF TypeOK
  <1>6. Cardinality(Passed(p)) \in Nat
    <2>1. Passed(p) \in SUBSET Nat /\ \A m \in Passed(p) : m < selected[p]
      BY DEF Passed, TypeOK
    <2> QED  BY <2>1, BelowFinite
  <1> QED  BY <1>3, <1>4, <1>5, <1>6

\* A step of q that leaves the other processes and all generations alone.
Elsewhere(q) ==
  /\ \A p \in Processes \ {q} :
       /\ pc'[p] = pc[p] /\ selected'[p] = selected[p] /\ locked'[p] = locked[p]
       /\ todo'[p] = todo[p] /\ completed'[p] = completed[p]
  /\ generations \subseteq generations'

LEMMA CountedElsewhere ==
  ASSUME LogInv, LogInv', PruneInv, NEW q \in Processes, Elsewhere(q),
         Unlocked', completed'[q] = 0,
         pc'[q] \in {"creating", "publishing", "pruning"} => todo'[q] \subseteq generations',
         \A p \in Processes \ {q} : pc[p] = "pruning" =>
           \A m \in Nat : locked'[q] /\ selected'[q] = m => Held(m)
  PROVE  PruneInv'
  <1>1. Waiting'
    BY DEF PruneInv, Waiting, Elsewhere
  <1>2. ASSUME NEW p \in Processes, pc'[p] = "pruning"
        PROVE  \/ completed'[p] <= Cardinality(Passed(p)')
               \/ RETAINED_INVOCATIONS <= Cardinality(Passed(p)')
    <2>1. selected'[p] \in Nat /\ TypeOK /\ TypeOK'
      BY <1>2 DEF LogInv, Rotating
    <2>2. CASE p = q
      <3>1. Passed(p)' \in SUBSET Nat /\ \A m \in Passed(p)' : m < selected'[p]
        BY <2>1 DEF Passed, TypeOK
      <3>2. Cardinality(Passed(p)') \in Nat
        BY <2>1, <3>1, BelowFinite
      <3> QED  BY <2>2, <3>2
    <2>3. CASE p # q
      <3>1. /\ pc[p] = "pruning" /\ selected[p] \in Nat /\ selected'[p] = selected[p]
            /\ todo'[p] = todo[p] /\ completed'[p] = completed[p] /\ generations \subseteq generations'
        BY <1>2, <2>1, <2>3 DEF Elsewhere
      <3>2. ASSUME NEW m \in Nat, Held(m)' PROVE Held(m)
        <4>1. PICK r \in Processes : locked'[r] /\ selected'[r] = m
          BY <3>2 DEF Held
        <4>2. CASE r = q
          BY <2>3, <3>1, <3>2, <4>1, <4>2
        <4>3. CASE r # q
          BY <4>1, <4>3 DEF Elsewhere, Held
        <4> QED  BY <4>2, <4>3
      <3> QED  BY <2>1, <3>1, <3>2, PassedStays DEF PruneInv, Counted
    <2> QED  BY <2>2, <2>3
  <1>3. Counted'
    BY <1>2 DEF Counted
  <1> QED  BY <1>1, <1>3 DEF PruneInv

LEMMA PruneInvInit == Init => PruneInv
  BY DEF Init, PruneInv, Unlocked, Waiting, Counted

\* A process starts or goes on without a lock.
LEMMA PruneInvUnlocked ==
  ASSUME LogInv, LogInv', PruneInv, NEW q \in Processes,
         \/ \E k \in Kinds, log \in Nat \cup {Latest, NoLog} : StartAs(q, k, log)
         \/ AcquireRotation(q) \/ SelectInherited(q) \/ SelectNewest(q) \/ SelectNext(q)
         \/ Create(q) \/ Publish(q) \/ PruneDone(q) \/ SetupFails(q) \/ End(q)
  PROVE  PruneInv'
  <1>1. Unlocked'
    BY DEF LogInv, TypeOK, PruneInv, Unlocked, StartAs, AcquireRotation, SelectInherited,
      SelectNewest, SelectNext, Create, Publish, PruneDone, SetupFails, End, Unwind, Goto, Setup
  <1>2. Elsewhere(q)
    BY DEF LogInv, TypeOK, Elsewhere, StartAs, AcquireRotation, SelectInherited,
      SelectNewest, SelectNext, Create, Publish, PruneDone, SetupFails, End, Unwind, Goto,
      files, pruning
  <1>3. completed'[q] = 0
    BY DEF LogInv, TypeOK, PruneInv, Waiting, StartAs, AcquireRotation, SelectInherited,
      SelectNewest, SelectNext, Create, Publish, PruneDone, SetupFails, End, Unwind, pruning
  <1>4. pc'[q] \in {"creating", "publishing", "pruning"} => todo'[q] \subseteq generations'
    BY DEF LogInv, TypeOK, PruneInv, Waiting, StartAs, AcquireRotation, SelectInherited,
      SelectNewest, SelectNext, Create, Publish, PruneDone, SetupFails, End, Unwind, Goto,
      files, pruning
  <1>5. ~locked'[q]
    <2>1. pc'[q] \notin {"opening", "running"}
      BY DEF LogInv, TypeOK, StartAs, AcquireRotation, SelectInherited,
        SelectNewest, SelectNext, Create, Publish, PruneDone, SetupFails, End, Goto
    <2> QED  BY <1>1, <2>1 DEF Unlocked
  <1> QED  BY <1>1, <1>2, <1>3, <1>4, <1>5, CountedElsewhere

\* A process takes the lock of a numbered generation only while it has
\* rotation.lock, and so nobody else prunes.
LEMMA PruneInvLockLog ==
  ASSUME LogInv, LogInv', PruneInv, NEW q \in Processes, LockLog(q)
  PROVE  PruneInv'
  <1>1. Unlocked' /\ Elsewhere(q) /\ completed'[q] = 0 /\ pc'[q] = "opening" /\ selected' = selected
    BY DEF LogInv, TypeOK, PruneInv, Unlocked, Waiting, LockLog, Elsewhere, Goto, files, pruning
  <1>2. ASSUME NEW p \in Processes \ {q}, pc[p] = "pruning", NEW m \in Nat, selected'[q] = m
        PROVE  FALSE
    <2>1. DirectoryOf(q) = "logs"
      BY <1>1, <1>2, ConstantsAssumption DEF DirectoryOf
    <2>2. rotation["logs"] = q
      BY <2>1 DEF LogInv, Exclusive, LockLog, Setup
    <2>3. rotation["logs"] = p
      BY <1>2, DirectoryOfTop DEF LogInv, Exclusive, Rotating, Setup
    <2> QED  BY <1>2, <2>2, <2>3
  <1> QED  BY <1>1, <1>2, CountedElsewhere

\* A process opens the log that it has locked.
LEMMA PruneInvOpen ==
  ASSUME LogInv, LogInv', PruneInv, NEW q \in Processes, OpenGeneration(q) \/ OpenLatest(q)
  PROVE  PruneInv'
  <1>1. /\ Unlocked' /\ Elsewhere(q) /\ completed'[q] = 0 /\ pc'[q] = "running"
        /\ selected' = selected /\ locked' = locked
    BY DEF LogInv, TypeOK, PruneInv, Unlocked, Waiting, OpenGeneration, OpenLatest, Elsewhere, Goto,
      files, pruning
  <1> QED  BY <1>1, CountedElsewhere DEF Held

\* What Prune(p) looks at is older than all that p has passed.
LEMMA NextToPrune ==
  ASSUME LogInv, PruneInv, NEW p \in Processes, Prune(p)
  PROVE  /\ Max(todo[p]) \in todo[p] \cap generations /\ Max(todo[p]) < selected[p]
         /\ \A t \in todo[p] : t <= Max(todo[p])
         /\ \A m \in Passed(p) : Max(todo[p]) < m
  <1>1. /\ todo[p] # {} /\ todo[p] \in SUBSET Nat /\ todo[p] \subseteq generations
        /\ selected[p] \in Nat /\ \A m \in todo[p] : m < selected[p]
    BY DEF LogInv, TypeOK, Prune, Rotating, PruneInv, Waiting
  <1>2. Bounded(todo[p])
    BY <1>1 DEF Bounded
  <1>3. Max(todo[p]) \in todo[p] /\ \A t \in todo[p] : t <= Max(todo[p])
    BY <1>1, <1>2, MaxOfBounded
  <1> QED  BY <1>1, <1>3 DEF Passed

\* Prune(p) counts what it looks at, or leaves it to its process, or removes it
\* when enough have been counted.
LEMMA PruneInvPrune ==
  ASSUME LogInv, LogInv', PruneInv, NEW p \in Processes, Prune(p)
  PROVE  PruneInv'
  <1> DEFINE n == Max(todo[p])
  <1>1. /\ pc[p] = "pruning" /\ selected[p] \in Nat /\ kind[p] = "top"
        /\ n \in todo[p] /\ n \in generations /\ n \in Nat /\ n < selected[p]
        /\ (\A t \in todo[p] : t <= n) /\ todo[p] \subseteq generations /\ todo[p] \in SUBSET Nat
        /\ \A m \in Passed(p) : n < m
    BY NextToPrune DEF LogInv, TypeOK, Rotating, Prune, PruneInv, Waiting
  <1>2. /\ todo' = [todo EXCEPT ![p] = @ \ {n}]
        /\ completed' = [completed EXCEPT ![p] = IF Held(n) THEN @ ELSE @ + 1]
        /\ generations' = IF ~Held(n) /\ completed'[p] > RETAINED_INVOCATIONS
                            THEN generations \ {n} ELSE generations
        /\ UNCHANGED <<pc, kind, selected, locked>>
    BY DEF Prune
  <1> HIDE DEF n
  <1>3. todo'[p] = todo[p] \ {n} /\ completed'[p] = IF Held(n) THEN completed[p] ELSE completed[p] + 1
    BY <1>2 DEF LogInv, TypeOK
  <1>4. \A m : Held(m)' <=> Held(m)
    BY <1>2 DEF Held
  <1>5. \A q \in Processes \ {p} : pc[q] \notin {"creating", "publishing", "pruning"}
    BY <1>1, OneSetsUp DEF LogInv, Rotating, Setup
  <1>6. Unlocked'
    BY <1>2 DEF PruneInv, Unlocked
  <1>7. Waiting'
    <2>1. todo'[p] \subseteq generations'
      BY <1>1, <1>2, <1>3
    <2>2. \A q \in Processes \ {p} : completed'[q] = completed[q] /\ pc'[q] = pc[q]
      BY <1>2 DEF LogInv, TypeOK
    <2> QED  BY <1>1, <1>2, <1>5, <2>1, <2>2 DEF PruneInv, Waiting
  <1>8. /\ Passed(p) \in SUBSET Nat /\ Passed(p)' \in SUBSET Nat
        /\ (\A m \in Passed(p) : m < selected[p]) /\ (\A m \in Passed(p)' : m < selected[p])
    BY <1>2 DEF LogInv, TypeOK, Passed
  <1>9. /\ IsFiniteSet(Passed(p)) /\ Cardinality(Passed(p)) \in Nat
        /\ IsFiniteSet(Passed(p)') /\ Cardinality(Passed(p)') \in Nat
    BY <1>1, <1>8, BelowFinite
  <1>10. Passed(p) \subseteq Passed(p)'
    <2> SUFFICES ASSUME NEW m \in Passed(p) PROVE m \in Passed(p)'
      OBVIOUS
    <2>1. m \in generations /\ m < selected[p] /\ ~Held(m) /\ m \in Nat /\ n < m
      BY <1>1, <1>8 DEF Passed
    <2>2. m \in generations'
      BY <1>1, <1>2, <2>1
    <2>3. \A t \in todo'[p] : t < m
      BY <1>3 DEF Passed
    <2> QED  BY <1>2, <1>4, <2>1, <2>2, <2>3 DEF Passed
  <1>11. Cardinality(Passed(p)) <= Cardinality(Passed(p)')
    BY <1>9, <1>10, FS_Subset
  <1>12. completed[p] \in Nat /\ RETAINED_INVOCATIONS \in Nat
    BY ConstantsAssumption DEF LogInv, TypeOK
  <1>13. \/ completed[p] <= Cardinality(Passed(p))
         \/ RETAINED_INVOCATIONS <= Cardinality(Passed(p))
    BY <1>1 DEF PruneInv, Counted
  <1>14. \/ completed'[p] <= Cardinality(Passed(p)')
         \/ RETAINED_INVOCATIONS <= Cardinality(Passed(p)')
    <2>1. CASE Held(n)
      BY <1>3, <1>9, <1>11, <1>12, <1>13, <2>1
    <2>2. CASE ~Held(n) /\ completed'[p] > RETAINED_INVOCATIONS
      BY <1>3, <1>9, <1>11, <1>12, <1>13, <2>2
    <2>3. CASE ~Held(n) /\ ~(completed'[p] > RETAINED_INVOCATIONS)
      <3>1. generations' = generations
        BY <1>2, <2>3
      <3>2. \A t \in todo'[p] : t < n
        <4>1. \A t \in todo'[p] : t \in Nat /\ t <= n /\ t # n
          BY <1>1, <1>3
        <4> QED  BY <1>1, <4>1
      <3>3. n \in Passed(p)'
        BY <1>1, <1>2, <1>4, <2>3, <3>1, <3>2 DEF Passed
      <3>4. n \notin Passed(p)
        BY <1>1
      <3>5. Cardinality(Passed(p) \cup {n}) = Cardinality(Passed(p)) + 1
        BY <1>9, <3>4, FS_AddElement
      <3>6. Passed(p) \cup {n} \subseteq Passed(p)'
        BY <1>10, <3>3
      <3>7. Cardinality(Passed(p) \cup {n}) <= Cardinality(Passed(p)')
        BY <1>9, <3>6, FS_Subset
      <3> QED  BY <1>3, <1>9, <1>11, <1>12, <1>13, <2>3, <3>5, <3>7
    <2> QED  BY <2>1, <2>2, <2>3
  <1>15. Counted'
    BY <1>2, <1>5, <1>14 DEF Counted
  <1> QED  BY <1>6, <1>7, <1>15 DEF PruneInv

LEMMA PruneInvStep == LogInv /\ LogInv' /\ PruneInv /\ [Next]_vars => PruneInv'
  <1> SUFFICES ASSUME LogInv, LogInv', PruneInv, [Next]_vars PROVE PruneInv'
    OBVIOUS
  <1>1. ASSUME NEW p \in Processes, Start(p) PROVE PruneInv'
    BY <1>1, PruneInvUnlocked DEF Start, Kinds
  <1>2. ASSUME NEW p \in Processes, StartChild(p) PROVE PruneInv'
    BY <1>2, PruneInvUnlocked DEF StartChild, Kinds, LogInv, TypeOK
  <1>3. ASSUME NEW p \in Processes, SetUp(p) PROVE PruneInv'
    BY <1>3, PruneInvUnlocked, PruneInvLockLog, PruneInvOpen, PruneInvPrune DEF SetUp
  <1>4. ASSUME NEW p \in Processes, SetupFails(p) \/ End(p) PROVE PruneInv'
    BY <1>4, PruneInvUnlocked
  <1>5. CASE UNCHANGED vars
    BY <1>5 DEF vars, files, pruning, PruneInv, Unlocked, Waiting, Counted, Passed, Held
  <1> QED  BY <1>1, <1>2, <1>3, <1>4, <1>5 DEF Next

\* Only Prune removes a generation.
LEMMA OnlyPruneRemoves ==
  ASSUME LogInv, [Next]_vars, generations \ generations' # {}
  PROVE  \E p \in Processes : Prune(p)
  <1>1. \A p \in Processes : Start(p) \/ StartChild(p) => UNCHANGED generations
    BY DEF Start, StartChild, StartAs, files
  <1>2. \A p \in Processes : SetUp(p) /\ ~Prune(p) => generations \subseteq generations'
    BY DEF SetUp, AcquireRotation, SelectInherited, SelectNewest, SelectNext, Create, Publish, PruneDone,
      LockLog, OpenGeneration, OpenLatest, files
  <1>3. \A p \in Processes : SetupFails(p) \/ End(p) => UNCHANGED generations
    BY DEF SetupFails, End, files
  <1>4. CASE UNCHANGED vars
    BY <1>4 DEF vars, files
  <1> QED  BY <1>1, <1>2, <1>3, <1>4 DEF Next

\* A removed generation has enough newer ones that completed.
LEMMA RemovedWhenOld ==
  ASSUME LogInv, PruneInv, NEW p \in Processes, Prune(p), NEW n \in generations \ generations'
  PROVE  /\ pc[p] = "pruning"
         /\ RETAINED_INVOCATIONS <=
              Cardinality({m \in generations' : n < m /\ m < selected[p] /\ ~Held(m)})
  <1> DEFINE Newer == {m \in generations' : n < m /\ m < selected[p] /\ ~Held(m)}
  <1>1. /\ pc[p] = "pruning" /\ n = Max(todo[p]) /\ ~Held(n) /\ completed'[p] > RETAINED_INVOCATIONS
        /\ completed' = [completed EXCEPT ![p] = IF Held(n) THEN @ ELSE @ + 1]
        /\ generations' = generations \ {n}
    BY DEF Prune
  <1>2. /\ selected[p] \in Nat /\ n \in Nat /\ completed[p] \in Nat /\ RETAINED_INVOCATIONS \in Nat
        /\ completed'[p] = completed[p] + 1
    BY <1>1, ConstantsAssumption DEF LogInv, TypeOK, Rotating
  <1>3. Passed(p) \subseteq Newer
    BY <1>1, <1>2, NextToPrune DEF Passed, LogInv, TypeOK
  <1>4. Newer \in SUBSET Nat /\ \A m \in Newer : m < selected[p]
    BY <1>1 DEF LogInv, TypeOK
  <1>5. Passed(p) \in SUBSET Nat /\ \A m \in Passed(p) : m < selected[p]
    BY DEF Passed, LogInv, TypeOK
  <1> HIDE DEF Newer
  <1>6. IsFiniteSet(Newer) /\ Cardinality(Newer) \in Nat /\ Cardinality(Passed(p)) \in Nat
    BY <1>2, <1>4, <1>5, BelowFinite
  <1>7. Cardinality(Passed(p)) <= Cardinality(Newer)
    BY <1>3, <1>6, FS_Subset
  <1>8. RETAINED_INVOCATIONS <= Cardinality(Passed(p))
    BY <1>1, <1>2, <1>6 DEF PruneInv, Counted
  <1>9. RETAINED_INVOCATIONS <= Cardinality(Newer)
    BY <1>2, <1>6, <1>7, <1>8
  <1> QED  BY <1>1, <1>9 DEF Newer

\* The inductive invariant of pruning: what waits to be looked at exists, and the
\* counter is that of completed generations passed.
THEOREM PruneInvariant == Spec => []PruneInv
  BY PruneInvInit, PruneInvStep, LogInvariant, PTL DEF Spec

\* A generation is removed only when enough newer ones, all older than the log
\* of the process that removes it, have completed.
THEOREM OldOnesPruned == Spec => PrunedWhenOld
  <1>1. LogInv /\ PruneInv /\ [Next]_vars =>
          [\A n \in generations \ generations' : \E p \in Processes :
             /\ pc[p] = "pruning"
             /\ RETAINED_INVOCATIONS <=
                  Cardinality({m \in generations' : n < m /\ m < selected[p] /\ ~Held(m)})]_vars
    <2> SUFFICES ASSUME LogInv, PruneInv, [Next]_vars, NEW n \in generations \ generations'
                 PROVE  \E p \in Processes :
                          /\ pc[p] = "pruning"
                          /\ RETAINED_INVOCATIONS <=
                               Cardinality({m \in generations' : n < m /\ m < selected[p] /\ ~Held(m)})
      OBVIOUS
    <2>1. PICK p \in Processes : Prune(p)
      BY OnlyPruneRemoves
    <2> QED  BY <2>1, RemovedWhenOld
  <1> QED  BY <1>1, LogInvariant, PruneInvariant, PTL DEF Spec, PrunedWhenOld
==============================================================================
