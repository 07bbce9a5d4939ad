---------------------------- MODULE ToolsProofs -----------------------------
(*****************************************************************************)
(* What processes share without a common lock, and what runs inside one.   *)
(* The report: no record of an explained build is lost, doubled or         *)
(* misplaced, for any number of builds, of children and of faults.  The    *)
(* backend: no process runs a torn or stale cob, for any number of         *)
(* processes that install it at the same time.  Hooks: commands inside     *)
(* commands leave the process as they found it, codegen hooks keep their   *)
(* outputs newer than their inputs, and slices are those of Python.        *)
(*****************************************************************************)
EXTENDS ExplainReport, EmbeddedCob, HookDispatch, SequenceTheorems, FiniteSetTheorems,
        WellFoundedInduction, TLAPS

(***************************************************************************)
(* The inductive invariant.  SpoolsOK: children have spools of their own.  *)
(* SinksOK: a stream is that of the file that its build owns.  OwnersOK:   *)
(* no two top-level builds own one report.  RecordsOK: a record has been   *)
(* written by its build, once.  NoneForeign and NoneMissing: a file has    *)
(* the records of its owner and of what the owner has collected.           *)
(***************************************************************************)
Stages == {"idle", "locking", "creating", "unlocking", "active", "ended", "killed", "collected"}
Records == Builds \X Nat

ReportTypeOK ==
  /\ stage \in [Builds -> Stages]
  /\ suffix \in [Tops -> 0 .. MAX_SUFFIX - 1]
  /\ locked \subseteq 0 .. MAX_SUFFIX - 1
  /\ files \in [FileNames -> Seq(Records) \cup {NoFile}]
  /\ sink \in [Builds -> FileNames \cup {NoFile}]
  /\ failed_sink \subseteq Builds
  /\ written \in [Builds -> 0 .. MaxRecords]
  /\ counter \in [Builds -> Nat]
  /\ parent \in [Children -> Builds \cup {NoFile}]
  /\ spool \in [Children -> FileNames \cup {NoFile}]

Started(c) == parent[c] # NoFile

SpoolsOK ==
  /\ \A p \in Builds : counter[p] = Cardinality(Kids(p))
  /\ \A c \in Children :
       IF Started(c) THEN \E k \in 1 .. counter[parent[c]] : spool[c] = SpoolFile(parent[c], k)
       ELSE spool[c] = NoFile /\ stage[c] = "idle"
  /\ \A c, d \in Children : Started(c) /\ spool[c] = spool[d] => c = d
  /\ \A c \in Children : Started(c) /\ stage[c] \in {"idle", "collected"} => files[spool[c]] = NoFile

\* The file of a build, and whether it is the build's alone.
OwnFile(p) == IF p \in Tops THEN Report(suffix[p]) ELSE spool[p]

OwnsFile(p) ==
  IF p \in Tops THEN sink[p] # NoFile \/ (stage[p] = "ended" /\ p \notin failed_sink)
  ELSE stage[p] \in {"active", "ended", "killed"} /\ files[spool[p]] # NoFile

SinksOK ==
  /\ \A p \in Builds : sink[p] # NoFile => sink[p] = OwnFile(p) /\ stage[p] \in {"unlocking", "active"}
  /\ \A p \in Builds : stage[p] = "active" /\ p \notin failed_sink => sink[p] # NoFile
  /\ \A p \in Tops : stage[p] # "collected"
  /\ \A c \in Children : stage[c] \in {"idle", "active", "ended", "killed", "collected"}
  /\ \A p \in Builds : stage[p] \in {"idle", "locking", "creating", "unlocking"} =>
       p \notin failed_sink /\ written[p] = 0 /\ Kids(p) = {}

OwnersOK ==
  /\ \A p \in Tops : OwnsFile(p) => files[Report(suffix[p])] # NoFile
  /\ \A c \in Children : stage[c] \in {"active", "ended", "killed"} /\ c \notin failed_sink => files[spool[c]] # NoFile
  /\ \A c \in Children : sink[c] # NoFile => files[spool[c]] # NoFile
  /\ \A p, q \in Tops : OwnsFile(p) /\ OwnsFile(q) /\ suffix[p] = suffix[q] => p = q

Collected == {c \in Children : stage[c] = "collected"}

\* The builds to whom p leads over children, those in C, that are not broken.
Reach(C, par, p, broken) ==
  {q \in Builds \ broken :
     p \notin broken /\ \A S \in SUBSET Builds : p \in S /\ (\A c \in C \ broken : par[c] \in S => c \in S) => q \in S}

Present == {f \in FileNames : files[f] # NoFile}

RecordsOK ==
  /\ \A f \in Present : \A i \in DOMAIN files[f] :
       files[f][i][2] >= 1 /\ files[f][i][2] <= written[files[f][i][1]]
  /\ \A f, g \in Present : \A i \in DOMAIN files[f], j \in DOMAIN files[g] :
       files[f][i] = files[g][j] => f = g /\ i = j

NoneForeign ==
  \A p \in Builds : OwnsFile(p) => \A i \in DOMAIN files[OwnFile(p)] : files[OwnFile(p)][i][1] \in Reach(Collected, parent, p, {})

NoneMissing ==
  \A p \in Builds : OwnsFile(p) /\ p \notin failed_sink =>
    \A q \in Reach(Collected, parent, p, failed_sink) : \A n \in 1 .. written[q] :
      \E i \in DOMAIN files[OwnFile(p)] : files[OwnFile(p)][i] = <<q, n>>

ReportInv ==
  ReportTypeOK /\ SpoolsOK /\ SinksOK /\ OwnersOK /\ RecordsOK /\ NoneForeign /\ NoneMissing

(***************************************************************************)
(* Names, and what a build leads to.                                       *)
(***************************************************************************)
LEMMA NamesDiffer ==
  /\ \A m, n : Report(m) = Report(n) => m = n
  /\ \A p, q, m, n : SpoolFile(p, m) = SpoolFile(q, n) => p = q /\ m = n
  /\ \A m, p, n : Report(m) # SpoolFile(p, n)
  BY DEF Report, SpoolFile

LEMMA Apart ==
  /\ \A p \in Tops : p \in Builds /\ p \notin Children
  /\ \A c \in Children : c \in Builds /\ c \notin Tops
  /\ \A p \in Builds : p \in Tops \/ p \in Children
  /\ Children \subseteq Builds
  BY BuildsAssumption DEF Builds

LEMMA ReachItself ==
  ASSUME NEW C, NEW par, NEW b, NEW p \in Builds \ b
  PROVE  p \in Reach(C, par, p, b)
  BY DEF Reach

LEMMA ReachCollected ==
  ASSUME NEW C \in SUBSET Builds, NEW par, NEW b, NEW p \in Builds, NEW q \in Reach(C, par, p, b)
  PROVE  q = p \/ q \in C \ b
  <1>1. {p} \cup (C \ b) \in SUBSET Builds
    OBVIOUS
  <1> QED  BY <1>1 DEF Reach

LEMMA ReachAlone ==
  ASSUME NEW C \in SUBSET Builds, NEW par, NEW b, NEW p \in Builds, NEW q \in Reach(C, par, p, b),
         \A c \in C : par[c] # p
  PROVE  q = p
  <1>1. {p} \in SUBSET Builds
    OBVIOUS
  <1> QED  BY <1>1 DEF Reach

LEMMA ReachGrows ==
  ASSUME NEW C, NEW D, C \subseteq D, NEW par, NEW b, NEW a, a \subseteq b, NEW p
  PROVE  Reach(C, par, p, b) \subseteq Reach(D, par, p, a)
  BY DEF Reach

LEMMA ReachOfSame ==
  ASSUME NEW C, NEW f, NEW g, \A c \in C : f[c] = g[c], NEW b, NEW p
  PROVE  Reach(C, f, p, b) = Reach(C, g, p, b)
  BY DEF Reach

LEMMA ReachOfParent ==
  ASSUME NEW C \in SUBSET Builds, NEW par, NEW b, NEW c \in Builds, par[c] \in Builds, par[c] \notin b
  PROVE  Reach(C, par, c, b) \subseteq Reach(C \cup {c}, par, par[c], b)
  BY DEF Reach

LEMMA ReachOfCollector ==
  ASSUME NEW C \in SUBSET Builds, NEW par, NEW b, NEW c \in Builds, par[c] \in Builds,
         NEW q \in Reach(C \cup {c}, par, par[c], b)
  PROVE  q \in Reach(C, par, par[c], b) \/ q \in Reach(C, par, c, b)
  <1> DEFINE U == Reach(C, par, par[c], b) \cup Reach(C, par, c, b)
  <1>1. U \in SUBSET Builds /\ par[c] \notin b
    BY DEF Reach
  <1>2. par[c] \in U
    BY <1>1, ReachItself
  <1>3. ASSUME NEW d \in (C \cup {c}) \ b, par[d] \in U PROVE d \in U
    <2>1. CASE d = c
      BY <2>1, <1>3, ReachItself
    <2>2. CASE d \in C
      BY <2>2, <1>3 DEF Reach
    <2> QED  BY <2>1, <2>2
  <1> HIDE DEF U
  <1>4. q \in U
    BY <1>1, <1>2, <1>3 DEF Reach
  <1> QED  BY <1>4 DEF U

LEMMA ReachOfOthers ==
  ASSUME NEW C \in SUBSET Builds, NEW par, NEW b, NEW c \in Builds, NEW p \in Builds,
         par[c] \notin Reach(C, par, p, b), par[c] \in Builds
  PROVE  Reach(C \cup {c}, par, p, b) \subseteq Reach(C, par, p, b)
  <1> DEFINE U == Reach(C, par, p, b)
  <1>1. CASE p \in b
    BY <1>1 DEF Reach
  <1>2. CASE p \notin b
    <2>1. U \in SUBSET Builds /\ p \in U
      BY <1>2, ReachItself DEF Reach
    <2>2. ASSUME NEW d \in (C \cup {c}) \ b, par[d] \in U PROVE d \in U
      BY <2>2 DEF Reach
    <2> HIDE DEF U
    <2>3. Reach(C \cup {c}, par, p, b) \subseteq U
      BY <2>1, <2>2 DEF Reach
    <2> QED  BY <2>3 DEF U
  <1> QED  BY <1>1, <1>2

(***************************************************************************)
(* The invariant is inductive.                                             *)
(***************************************************************************)
LEMMA ReportInvInit == ReportInit => ReportInv
  <1> SUFFICES ASSUME ReportInit PROVE ReportInv
    OBVIOUS
  <1> USE DEF ReportInit
  <1>1. ReportTypeOK
    BY BuildsAssumption DEF ReportTypeOK, Stages, Builds
  <1>2. SpoolsOK
    <2>1. ASSUME NEW p \in Builds PROVE Kids(p) = {}
      BY <2>1, BuildsAssumption DEF Kids
    <2> QED  BY <2>1, FS_EmptySet DEF SpoolsOK, Started, Builds
  <1>3. SinksOK
    BY BuildsAssumption DEF SinksOK, Builds, Kids
  <1>4. OwnersOK /\ RecordsOK /\ NoneForeign /\ NoneMissing
    BY DEF OwnersOK, OwnsFile, RecordsOK, NoneForeign, NoneMissing, Present, Builds
  <1> QED  BY <1>1, <1>2, <1>3, <1>4 DEF ReportInv

\* The next name is tried, or no report is written.
LEMMA TryNextStep ==
  ASSUME ReportInv, NEW p \in Tops, stage[p] \in {"locking", "unlocking"}, sink[p] = NoFile,
         TryNext(p), locked' \subseteq locked,
         UNCHANGED <<files, sink, written, counter, parent, spool>>
  PROVE  ReportInv'
  <1> USE DEF ReportInv
  <1>1. /\ p \in Builds /\ stage' \in [Builds -> Stages] /\ suffix' \in [Tops -> 0 .. MAX_SUFFIX - 1]
        /\ \A q \in Builds : q # p => stage'[q] = stage[q]
        /\ \A q \in Tops : q # p => suffix'[q] = suffix[q]
        /\ \/ stage'[p] = "locking" /\ failed_sink' = failed_sink
           \/ stage'[p] = "active" /\ failed_sink' = failed_sink \cup {p}
    <2>1. CASE suffix[p] + 1 < MAX_SUFFIX
      <3>1. suffix[p] + 1 \in 0 .. MAX_SUFFIX - 1
        BY <2>1, BuildsAssumption DEF ReportTypeOK
      <3>2. /\ suffix' = [suffix EXCEPT ![p] = suffix[p] + 1] /\ UNCHANGED failed_sink
            /\ stage' = [stage EXCEPT ![p] = "locking"]
        BY <2>1 DEF TryNext, Enter
      <3>3. suffix' \in [Tops -> 0 .. MAX_SUFFIX - 1] /\ \A q \in Tops : q # p => suffix'[q] = suffix[q]
        BY <3>1, <3>2 DEF ReportTypeOK
      <3> QED  BY <3>2, <3>3, Apart DEF ReportTypeOK, Stages
    <2>2. CASE ~(suffix[p] + 1 < MAX_SUFFIX)
      BY <2>2, Apart DEF ReportTypeOK, Stages, TryNext, Enter
    <2> QED  BY <2>1, <2>2
  <1>2. Collected' = Collected
    BY <1>1, Apart DEF Collected
  <1>3. ReportTypeOK'
    BY <1>1 DEF ReportTypeOK
  <1>4. SpoolsOK'
    BY <1>1, Apart DEF SpoolsOK, ReportTypeOK, Started, Kids
  <1>5. SinksOK'
    <2>1. p \notin failed_sink /\ written[p] = 0 /\ Kids(p) = {}
      BY <1>1 DEF SinksOK
    <2>2. \A q \in Builds : OwnFile(q)' = OwnFile(q) \/ q = p
      BY <1>1 DEF OwnFile
    <2> QED  BY <1>1, <2>1, <2>2, Apart DEF SinksOK, Kids
  <1>6. ASSUME NEW q \in Builds PROVE OwnsFile(q)' => OwnsFile(q) /\ OwnFile(q)' = OwnFile(q)
    BY <1>1, Apart DEF OwnsFile, ReportTypeOK, OwnFile, SinksOK
  <1>7. OwnersOK'
    <2>1. ~OwnsFile(p)'
      BY <1>1 DEF OwnsFile
    <2>2. \A q \in Tops : OwnsFile(q)' => OwnsFile(q) /\ suffix'[q] = suffix[q]
      BY <1>1, <1>6, <2>1, Apart
    <2>3. \A c \in Children : stage'[c] = stage[c] /\ (c \notin failed_sink' => c \notin failed_sink)
      BY <1>1, Apart
    <2> QED  BY <2>2, <2>3 DEF OwnersOK
  <1>8. RecordsOK'
    BY DEF RecordsOK, Present
  <1>9. NoneForeign'
    BY <1>2, <1>6 DEF NoneForeign
  <1>10. NoneMissing'
    <2>1. failed_sink \subseteq failed_sink'
      BY <1>1
    <2>2. ASSUME NEW q \in Builds
          PROVE  Reach(Collected', parent', q, failed_sink') \subseteq Reach(Collected, parent, q, failed_sink)
      BY <2>1, <1>2, ReachGrows
    <2> QED  BY <1>6, <2>1, <2>2 DEF NoneMissing
  <1> QED  BY <1>3, <1>4, <1>5, <1>7, <1>8, <1>9, <1>10

\* A build gets on without any file being touched.
LEMMA AdvanceStep ==
  ASSUME ReportInv, NEW p \in Tops, NEW to \in {"locking", "creating", "unlocking", "active"},
         stage[p] \in {"idle", "locking", "creating", "unlocking"}, sink[p] # NoFile <=> to = "active",
         Enter(p, to), locked' \subseteq 0 .. MAX_SUFFIX - 1,
         UNCHANGED <<suffix, files, sink, failed_sink, written, counter, parent, spool>>
  PROVE  ReportInv'
  <1> USE DEF ReportInv, Enter
  <1>1. Collected' = Collected
    BY Apart DEF Collected, ReportTypeOK
  <1>2. ReportTypeOK'
    BY DEF ReportTypeOK, Stages
  <1>3. SpoolsOK'
    BY Apart DEF SpoolsOK, ReportTypeOK, Started, Kids
  <1>4. SinksOK'
    BY Apart DEF SinksOK, ReportTypeOK, OwnFile, Kids
  <1>5. OwnersOK'
    BY Apart DEF OwnersOK, ReportTypeOK, SinksOK, OwnsFile
  <1>6. RecordsOK'
    BY DEF RecordsOK, Present
  <1>7. ASSUME NEW q \in Builds PROVE OwnsFile(q)' => OwnsFile(q) /\ OwnFile(q)' = OwnFile(q)
    BY Apart DEF OwnsFile, ReportTypeOK, OwnFile
  <1>8. NoneForeign'
    BY <1>1, <1>7 DEF NoneForeign
  <1>9. NoneMissing'
    BY <1>1, <1>7 DEF NoneMissing
  <1> QED  BY <1>2, <1>3, <1>4, <1>5, <1>6, <1>8, <1>9

\* The spool of a child is a file that no top-level build has.
LEMMA SpoolOfChild ==
  ASSUME ReportInv, NEW c \in Children, Started(c) \/ stage[c] # "idle"
  PROVE  /\ Started(c) /\ parent[c] \in Builds /\ OwnFile(c) = spool[c]
         /\ spool[c] \in FileNames /\ spool[c] # NoFile
         /\ \A n : spool[c] # Report(n)
         /\ \A d \in Children : spool[d] = spool[c] => d = c
  <1>1. Started(c) /\ parent[c] \in Builds
    BY DEF ReportInv, SpoolsOK, ReportTypeOK, Started
  <1>2. PICK k \in 1 .. counter[parent[c]] : spool[c] = SpoolFile(parent[c], k)
    BY <1>1 DEF ReportInv, SpoolsOK
  <1>3. /\ k <= Cardinality(Kids(parent[c]))
        /\ Cardinality(Kids(parent[c])) <= Cardinality(Children)
        /\ Cardinality(Children) \in Nat /\ Cardinality(Kids(parent[c])) \in Nat
    <2>1. IsFiniteSet(Children) /\ Kids(parent[c]) \subseteq Children
      BY BuildsAssumption DEF Kids
    <2>2. counter[parent[c]] = Cardinality(Kids(parent[c])) /\ counter[parent[c]] \in Nat
      BY <1>1 DEF ReportInv, SpoolsOK, ReportTypeOK
    <2> QED  BY <2>1, <2>2, FS_Subset, FS_CardinalityType
  <1>4. spool[c] \in FileNames
    <2>1. counter[parent[c]] = Cardinality(Kids(parent[c]))
      BY <1>1 DEF ReportInv, SpoolsOK
    <2>2. k \in 1 .. Cardinality(Children)
      BY <1>3, <2>1
    <2> QED  BY <1>1, <1>2, <2>2 DEF FileNames
  <1> QED
    BY <1>1, <1>2, <1>4, NamesDiffer, Apart, BuildsAssumption DEF ReportInv, SpoolsOK, OwnFile, Started

LEMMA ReportOfTop ==
  ASSUME ReportInv, NEW p \in Tops
  PROVE  OwnFile(p) = Report(suffix[p]) /\ OwnFile(p) \in FileNames
  BY DEF ReportInv, ReportTypeOK, OwnFile, FileNames

\* No file has two owners.
LEMMA OwnersDiffer ==
  ASSUME ReportInv, NEW p \in Builds, NEW q \in Builds, OwnsFile(p), OwnsFile(q), p # q
  PROVE  OwnFile(p) # OwnFile(q) /\ OwnFile(p) \in Present /\ OwnFile(q) \in Present
  <1>1. \A r \in Children : OwnsFile(r) => stage[r] # "idle" /\ files[spool[r]] # NoFile
    BY Apart DEF OwnsFile
  <1>2. \A r \in Tops : OwnsFile(r) => files[Report(suffix[r])] # NoFile
    BY DEF ReportInv, OwnersOK
  <1>3. ASSUME p \in Tops, q \in Tops PROVE suffix[p] # suffix[q]
    BY <1>3 DEF ReportInv, OwnersOK
  <1> QED
    BY <1>1, <1>2, <1>3, Apart, SpoolOfChild, ReportOfTop, NamesDiffer DEF Present

LEMMA BeginTopStep ==
  ASSUME ReportInv, NEW p \in Tops, BeginTop(p) PROVE ReportInv'
  <1>1. sink[p] = NoFile
    BY Apart DEF BeginTop, ReportInv, SinksOK
  <1> QED  BY <1>1, AdvanceStep DEF BeginTop, ReportInv, ReportTypeOK

LEMMA LockNameStep ==
  ASSUME ReportInv, NEW p \in Tops, LockName(p) PROVE ReportInv'
  <1>1. CASE suffix[p] \in locked
    <2>1. sink[p] = NoFile
      BY Apart DEF LockName, ReportInv, SinksOK
    <2> QED  BY <1>1, <2>1, TryNextStep DEF LockName
  <1>2. CASE suffix[p] \notin locked
    <2>1. locked' = locked \cup {suffix[p]}
      BY <1>2 DEF LockName
    <2>2. locked' \subseteq 0 .. MAX_SUFFIX - 1
      BY <2>1 DEF ReportInv, ReportTypeOK
    <2>3. sink[p] = NoFile
      BY Apart DEF LockName, ReportInv, SinksOK
    <2> QED  BY <1>2, <2>2, <2>3, AdvanceStep DEF LockName
  <1> QED  BY <1>1, <1>2

LEMMA UnlockStep ==
  ASSUME ReportInv, NEW p \in Tops, Unlock(p) PROVE ReportInv'
  <1>1. CASE sink[p] = NoFile
    BY <1>1, TryNextStep DEF Unlock
  <1>2. CASE sink[p] # NoFile
    <2>1. locked' \subseteq 0 .. MAX_SUFFIX - 1
      BY DEF Unlock, ReportInv, ReportTypeOK
    <2> QED  BY <1>2, <2>1, AdvanceStep DEF Unlock
  <1> QED  BY <1>1, <1>2

LEMMA WriteFailsStep ==
  ASSUME ReportInv, NEW p \in Builds, WriteFails(p) PROVE ReportInv'
  <1> USE DEF WriteFails, Enter, ReportInv
  <1>1. Collected' = Collected
    BY Apart DEF Collected, ReportTypeOK
  <1>2. ReportTypeOK'
    BY Apart DEF ReportTypeOK, Stages
  <1>3. SpoolsOK'
    BY Apart DEF SpoolsOK, ReportTypeOK, Started, Kids
  <1>4. SinksOK'
    BY Apart DEF SinksOK, ReportTypeOK, OwnFile, Kids
  <1>7. ASSUME NEW q \in Builds PROVE OwnsFile(q)' => OwnsFile(q) /\ OwnFile(q)' = OwnFile(q)
    BY Apart DEF OwnsFile, ReportTypeOK, OwnFile, SinksOK, OwnersOK
  <1>5. OwnersOK'
    BY <1>7, Apart DEF OwnersOK, ReportTypeOK, SinksOK, OwnsFile
  <1>6. RecordsOK'
    BY DEF RecordsOK, Present
  <1>8. NoneForeign'
    BY <1>1, <1>7 DEF NoneForeign
  <1>9. NoneMissing'
    BY <1>1, <1>7, ReachGrows DEF NoneMissing
  <1> QED  BY <1>2, <1>3, <1>4, <1>5, <1>6, <1>8, <1>9

LEMMA EndSessionStep ==
  ASSUME ReportInv, NEW p \in Builds, EndSession(p) PROVE ReportInv'
  <1> USE DEF EndSession, Enter, ReportInv
  <1>1. Collected' = Collected
    BY Apart DEF Collected, ReportTypeOK
  <1>2. ReportTypeOK'
    BY Apart DEF ReportTypeOK, Stages
  <1>3. SpoolsOK'
    BY Apart DEF SpoolsOK, ReportTypeOK, Started, Kids
  <1>4. SinksOK'
    BY Apart DEF SinksOK, ReportTypeOK, OwnFile, Kids
  <1>7. ASSUME NEW q \in Builds PROVE OwnsFile(q)' => OwnsFile(q) /\ OwnFile(q)' = OwnFile(q)
    BY Apart DEF OwnsFile, ReportTypeOK, OwnFile, SinksOK, OwnersOK
  <1>5. OwnersOK'
    BY <1>7, Apart DEF OwnersOK, ReportTypeOK, SinksOK, OwnsFile
  <1>6. RecordsOK'
    BY DEF RecordsOK, Present
  <1>8. NoneForeign'
    BY <1>1, <1>7 DEF NoneForeign
  <1>9. NoneMissing'
    BY <1>1, <1>7, ReachGrows DEF NoneMissing
  <1> QED  BY <1>2, <1>3, <1>4, <1>5, <1>6, <1>8, <1>9

LEMMA KillBuildStep ==
  ASSUME ReportInv, NEW p \in Builds, KillBuild(p) PROVE ReportInv'
  <1> USE DEF KillBuild, Enter, ReportInv
  <1>1. Collected' = Collected
    BY Apart DEF Collected, ReportTypeOK
  <1>2. ReportTypeOK'
    BY Apart DEF ReportTypeOK, Stages
  <1>3. SpoolsOK'
    BY Apart DEF SpoolsOK, ReportTypeOK, Started, Kids
  <1>4. SinksOK'
    BY Apart DEF SinksOK, ReportTypeOK, OwnFile, Kids
  <1>7. ASSUME NEW q \in Builds PROVE OwnsFile(q)' => OwnsFile(q) /\ OwnFile(q)' = OwnFile(q)
    BY Apart DEF OwnsFile, ReportTypeOK, OwnFile, SinksOK, OwnersOK
  <1>5. OwnersOK'
    BY <1>7, Apart DEF OwnersOK, ReportTypeOK, SinksOK, OwnsFile
  <1>6. RecordsOK'
    BY DEF RecordsOK, Present
  <1>8. NoneForeign'
    BY <1>1, <1>7 DEF NoneForeign
  <1>9. NoneMissing'
    BY <1>1, <1>7, ReachGrows DEF NoneMissing
  <1> QED  BY <1>2, <1>3, <1>4, <1>5, <1>6, <1>8, <1>9

LEMMA CreateReportStep ==
  ASSUME ReportInv, NEW p \in Tops, CreateReport(p) PROVE ReportInv'
  <1> USE DEF ReportInv
  <1> DEFINE f == Report(suffix[p])
  <1>1. /\ p \in Builds /\ stage[p] = "creating" /\ f \in FileNames /\ sink[p] = NoFile
        /\ \A c \in Children : Started(c) => spool[c] # f
    BY NamesDiffer, Apart DEF CreateReport, FileNames, SpoolsOK, SinksOK, ReportTypeOK
  <1>2. \A q \in Tops : q # p /\ OwnsFile(q) /\ files[f] = NoFile => Report(suffix[q]) # f
    BY DEF OwnersOK
  <1>3. CASE files[f] # NoFile
    BY <1>1, <1>3, AdvanceStep DEF CreateReport, ReportTypeOK
  <1>4. CASE files[f] = NoFile
    <2>1. /\ stage' = [stage EXCEPT ![p] = "unlocking"]
          /\ UNCHANGED <<suffix, locked, failed_sink, written, counter, parent, spool>>
          /\ files' = [files EXCEPT ![f] = <<>>]
          /\ sink' = [sink EXCEPT ![p] = f]
      BY <1>4 DEF CreateReport, Enter
    <2>2. f = Report(suffix[p])
      OBVIOUS
    <2> HIDE DEF f
    <2>3. \A g \in FileNames : files'[g] = IF g = f THEN << >> ELSE files[g]
      BY <2>1 DEF ReportTypeOK
    <2>4. Collected' = Collected
      BY <1>1, <2>1, Apart DEF Collected, ReportTypeOK
    <2>5. ReportTypeOK'
      <3>1. << >> \in Seq(Records)
        OBVIOUS
      <3>2. stage' \in [Builds -> Stages] /\ sink' \in [Builds -> FileNames \cup {NoFile}]
        BY <1>1, <2>1 DEF ReportTypeOK, Stages
      <3>3. files' \in [FileNames -> Seq(Records) \cup {NoFile}]
        BY <3>1, <1>1, <2>1 DEF ReportTypeOK
      <3> QED  BY <3>2, <3>3, <2>1 DEF ReportTypeOK
    <2>6. \A c \in Children : stage'[c] = stage[c] /\ sink'[c] = sink[c] /\ (Started(c) => files'[spool[c]] = files[spool[c]])
      BY <1>1, <2>1, <2>3, Apart, NamesDiffer DEF ReportTypeOK, SpoolsOK
    <2>7. SpoolsOK'
      BY <2>1, <2>6 DEF SpoolsOK, Started, Kids
    <2>8. SinksOK'
      BY <1>1, <2>1, <2>2, Apart DEF SinksOK, ReportTypeOK, OwnFile, Kids
    <2>9. ASSUME NEW q \in Builds, q # p, OwnsFile(q)'
          PROVE  OwnsFile(q) /\ OwnFile(q)' = OwnFile(q) /\ OwnFile(q) # f /\ files'[OwnFile(q)] = files[OwnFile(q)]
      <3>1. CASE q \in Tops
        <4>1. OwnsFile(q) /\ OwnFile(q) = Report(suffix[q]) /\ OwnFile(q)' = OwnFile(q) /\ OwnFile(q) \in FileNames
          BY <1>1, <2>1, <2>9, <3>1 DEF OwnsFile, OwnFile, ReportTypeOK, FileNames
        <4> QED  BY <4>1, <1>2, <1>4, <2>3, <2>9, <3>1
      <3>2. CASE q \in Children
        <4>1. stage[q] # "idle"
          BY <2>6, <2>9, <3>2, Apart DEF OwnsFile
        <4>2. Started(q) /\ spool[q] \in FileNames /\ OwnFile(q) = spool[q] /\ OwnFile(q)' = spool[q]
          BY <4>1, <3>2, <2>1, SpoolOfChild, Apart DEF OwnFile
        <4> QED  BY <4>2, <2>6, <2>9, <3>2, <1>1, <2>1, Apart DEF OwnsFile
      <3> QED  BY <3>1, <3>2, Apart
    <2>10. OwnersOK'
      <3>1. \A q \in Tops : OwnsFile(q)' => files'[Report(suffix[q])] # NoFile
        <4>1. << >> # NoFile
          <5>1. << >> \in Seq(Builds \X Nat)
            OBVIOUS
          <5> QED  BY <5>1, BuildsAssumption
        <4> QED  BY <1>1, <4>1, <2>2, <2>3, <2>9, Apart, ReportOfTop DEF OwnersOK
      <3>2. \A c \in Children : stage[c] # "idle" \/ sink[c] # NoFile => files'[spool[c]] = files[spool[c]]
        BY <2>6, SpoolOfChild, Apart DEF SinksOK
      <3>3. \A q, r \in Tops : OwnsFile(q)' /\ OwnsFile(r)' /\ suffix[q] = suffix[r] => q = r
        BY <2>9, <2>2, <1>2, <1>4, Apart DEF OwnersOK
      <3> QED  BY <2>1, <2>6, <3>1, <3>2, <3>3 DEF OwnersOK
    <2>11. RecordsOK'
      BY <2>1, <2>3 DEF RecordsOK, Present
    <2>12. OwnFile(p)' = f /\ files'[f] = << >>
      BY <1>1, <2>1, <2>2, <2>3 DEF OwnFile
    <2>13. NoneForeign'
      BY <2>1, <2>4, <2>9, <2>12 DEF NoneForeign
    <2>14. NoneMissing'
      <3>1. \A c \in Collected : parent[c] # p
        BY <1>1 DEF SinksOK, Collected, Kids
      <3>2. \A q \in Reach(Collected, parent, p, failed_sink) : q = p
        BY <3>1, <1>1, ReachAlone, Apart DEF Collected
      <3>3. written[p] = 0
        BY <1>1 DEF SinksOK
      <3>4. ASSUME NEW q \in Builds, OwnsFile(q)', q \notin failed_sink, NEW r \in Reach(Collected, parent, q, failed_sink),
                   NEW n \in 1 .. written[r]
            PROVE  \E i \in DOMAIN files'[OwnFile(q)'] : files'[OwnFile(q)'][i] = <<r, n>>
        <4>1. q # p
          BY <3>2, <3>3, <3>4
        <4> QED  BY <4>1, <2>9, <3>4 DEF NoneMissing
      <3> QED  BY <2>1, <2>4, <3>4 DEF NoneMissing
    <2> QED  BY <2>5, <2>7, <2>8, <2>10, <2>11, <2>13, <2>14
  <1> QED  BY <1>3, <1>4

LEMMA StartChildStep ==
  ASSUME ReportInv, NEW p \in Builds, NEW c \in Children, StartChild(p, c) PROVE ReportInv'
  <1> USE DEF ReportInv
  <1> DEFINE f == NextSpool(p)
  <1>1. /\ stage[p] = "active" /\ stage[c] = "idle" /\ parent[c] = NoFile
        /\ parent' = [parent EXCEPT ![c] = p] /\ spool' = [spool EXCEPT ![c] = f]
        /\ counter' = [counter EXCEPT ![p] = counter[p] + 1]
        /\ files' = [files EXCEPT ![f] = NoFile]
        /\ UNCHANGED <<stage, suffix, locked, sink, failed_sink, written>>
    BY DEF StartChild
  <1>2. /\ \A q \in Builds : Kids(q)' = IF q = p THEN Kids(p) \cup {c} ELSE Kids(q)
        /\ c \notin Kids(p)
    BY <1>1, BuildsAssumption DEF Kids, ReportTypeOK
  <1>3. /\ f = SpoolFile(p, counter[p] + 1)
        /\ \A d \in Children : Started(d) => spool[d] # f
        /\ \A n : f # Report(n)
    BY NamesDiffer DEF NextSpool, SpoolsOK, ReportTypeOK
  <1>4. /\ counter'[p] = Cardinality(Kids(p) \cup {c})
        /\ counter[p] + 1 \in 1 .. Cardinality(Children)
    <2>1. IsFiniteSet(Children) /\ Kids(p) \cup {c} \subseteq Children /\ Kids(p) \subseteq Children
      BY BuildsAssumption DEF Kids
    <2>2. IsFiniteSet(Kids(p)) /\ Cardinality(Kids(p)) \in Nat /\ Cardinality(Children) \in Nat
          /\ Cardinality(Kids(p) \cup {c}) <= Cardinality(Children)
      BY <2>1, FS_Subset, FS_CardinalityType
    <2>3. Cardinality(Kids(p) \cup {c}) = Cardinality(Kids(p)) + 1
      BY <2>2, <1>2, FS_AddElement
    <2>4. counter[p] = Cardinality(Kids(p)) /\ counter'[p] = counter[p] + 1
      BY <1>1 DEF SpoolsOK, ReportTypeOK
    <2> QED  BY <2>2, <2>3, <2>4
  <1>5. f \in FileNames
    BY <1>3, <1>4 DEF FileNames
  <1>6. Collected' = Collected /\ \A d \in Collected : parent'[d] = parent[d]
    BY <1>1 DEF Collected, ReportTypeOK
  <1>7. \A a, q : Reach(Collected', parent', q, a) = Reach(Collected, parent, q, a)
    BY <1>6, ReachOfSame
  <1> HIDE DEF f
  <1>8. \A g \in FileNames : files'[g] = IF g = f THEN NoFile ELSE files[g]
    BY <1>1, <1>5 DEF ReportTypeOK
  <1>9. ReportTypeOK'
    <2>1. files' \in [FileNames -> Seq(Records) \cup {NoFile}]
      BY <1>1 DEF ReportTypeOK
    <2>2. parent' \in [Children -> Builds \cup {NoFile}] /\ spool' \in [Children -> FileNames \cup {NoFile}]
      BY <1>1, <1>5 DEF ReportTypeOK
    <2>3. counter' \in [Builds -> Nat]
      BY <1>1 DEF ReportTypeOK
    <2> QED  BY <1>1, <2>1, <2>2, <2>3 DEF ReportTypeOK
  <1>10. \A d \in Children : Started(d) =>
           d # c /\ parent'[d] = parent[d] /\ spool'[d] = spool[d] /\ files'[spool[d]] = files[spool[d]]
    BY <1>1, <1>3, <1>8, SpoolOfChild DEF Started, ReportTypeOK
  <1>11. parent'[c] = p /\ spool'[c] = f /\ files'[f] = NoFile /\ p # NoFile
    BY <1>1, <1>5, <1>8, BuildsAssumption DEF ReportTypeOK
  <1>12. SpoolsOK'
    <2>1. \A q \in Builds : counter'[q] = Cardinality(Kids(q)')
      BY <1>1, <1>2, <1>4 DEF SpoolsOK, ReportTypeOK
    <2>2. ASSUME NEW d \in Children, d # c
          PROVE  IF Started(d)' THEN \E k \in 1 .. counter'[parent'[d]] : spool'[d] = SpoolFile(parent'[d], k)
                 ELSE spool'[d] = NoFile /\ stage'[d] = "idle"
      <3>1. CASE Started(d)
        <4>1. PICK k \in 1 .. counter[parent[d]] : spool[d] = SpoolFile(parent[d], k)
          BY <3>1 DEF SpoolsOK
        <4>2. k \in 1 .. counter'[parent[d]]
          <5>1. parent[d] \in Builds
            BY <3>1, SpoolOfChild
          <5> QED  BY <1>1, <5>1 DEF ReportTypeOK
        <4> QED  BY <3>1, <4>1, <4>2, <1>10 DEF Started
      <3>2. CASE ~Started(d)
        BY <1>1, <2>2, <3>2 DEF Started, SpoolsOK, ReportTypeOK
      <3> QED  BY <3>1, <3>2
    <2>3. /\ Started(c)' /\ counter'[p] \in 1 .. counter'[p]
          /\ spool'[c] = SpoolFile(p, counter'[p])
      BY <1>1, <1>3, <1>11 DEF Started, ReportTypeOK
    <2>4. \A d, e \in Children : Started(d)' /\ spool'[d] = spool'[e] => d = e
      BY <1>1, <1>3, <1>10, <1>11, <1>5, BuildsAssumption, SpoolOfChild DEF Started, SpoolsOK, ReportTypeOK
    <2>5. \A d \in Children : Started(d)' /\ stage'[d] \in {"idle", "collected"} => files'[spool'[d]] = NoFile
      BY <1>1, <1>10, <1>11 DEF Started, SpoolsOK, ReportTypeOK
    <2> QED  BY <2>1, <2>2, <2>3, <2>4, <2>5, <1>11 DEF SpoolsOK
  <1>13. \A q \in Builds : stage[q] # "idle" \/ q \in Tops =>
           OwnFile(q)' = OwnFile(q) /\ files'[OwnFile(q)] = files[OwnFile(q)] /\ OwnsFile(q)' = OwnsFile(q)
    <2>1. ASSUME NEW q \in Tops PROVE OwnFile(q)' = OwnFile(q) /\ files'[OwnFile(q)] = files[OwnFile(q)] /\ OwnsFile(q)' = OwnsFile(q)
      BY <1>1, <1>3, <1>8, ReportOfTop DEF OwnFile, OwnsFile
    <2>2. ASSUME NEW q \in Children, stage[q] # "idle"
          PROVE  OwnFile(q)' = OwnFile(q) /\ files'[OwnFile(q)] = files[OwnFile(q)] /\ OwnsFile(q)' = OwnsFile(q)
      BY <1>1, <1>10, <2>2, SpoolOfChild, Apart DEF OwnFile, OwnsFile
    <2> QED  BY <2>1, <2>2, Apart
  <1>14. \A q \in Builds : OwnsFile(q)' => stage[q] # "idle" \/ q \in Tops
    BY <1>1, Apart DEF OwnsFile
  <1>15. SinksOK'
    BY <1>1, <1>2, <1>13, Apart DEF SinksOK
  <1>16. OwnersOK'
    <2>1. \A q \in Tops : OwnsFile(q)' => files'[Report(suffix'[q])] # NoFile
      BY <1>1, <1>13, ReportOfTop, Apart DEF OwnersOK
    <2>2. \A d \in Children : stage[d] # "idle" \/ sink[d] # NoFile => Started(d) /\ spool'[d] = spool[d] /\ files'[spool[d]] = files[spool[d]]
      BY <1>10, SpoolOfChild, Apart DEF SinksOK
    <2> QED  BY <1>1, <1>13, <2>1, <2>2, Apart DEF OwnersOK
  <1>17. RecordsOK'
    BY <1>1, <1>8 DEF RecordsOK, Present
  <1>18. NoneForeign'
    BY <1>1, <1>7, <1>13, <1>14 DEF NoneForeign
  <1>19. NoneMissing'
    <2>1. NoneMissing
      OBVIOUS
    <2> HIDE DEF ReportInv
    <2>2. SUFFICES ASSUME NEW q \in Builds, OwnsFile(q)', q \notin failed_sink',
                          NEW r \in Reach(Collected', parent', q, failed_sink'), NEW n \in 1 .. written'[r]
                   PROVE  \E i \in DOMAIN files'[OwnFile(q)'] : files'[OwnFile(q)'][i] = <<r, n>>
      BY DEF NoneMissing
    <2>3. OwnsFile(q) /\ OwnFile(q)' = OwnFile(q) /\ files'[OwnFile(q)] = files[OwnFile(q)]
      BY <1>13, <1>14, <2>2
    <2>4. r \in Reach(Collected, parent, q, failed_sink) /\ n \in 1 .. written[r] /\ q \notin failed_sink
      BY <1>1, <1>7, <2>2
    <2>5. \E i \in DOMAIN files[OwnFile(q)] : files[OwnFile(q)][i] = <<r, n>>
      BY <2>1, <2>3, <2>4 DEF NoneMissing
    <2> QED  BY <2>3, <2>5
  <1> QED  BY <1>9, <1>12, <1>15, <1>16, <1>17, <1>18, <1>19

LEMMA BeginChildStep ==
  ASSUME ReportInv, NEW c \in Children, BeginChild(c) PROVE ReportInv'
  <1> USE DEF ReportInv
  <1> DEFINE f == spool[c]
  <1>1. /\ stage[c] = "idle" /\ Started(c) /\ c \in Builds /\ c \notin Tops
        /\ sink[c] = NoFile /\ files[f] = NoFile /\ f \in FileNames /\ f # NoFile
        /\ c \notin failed_sink /\ written[c] = 0 /\ Kids(c) = {}
        /\ OwnFile(c) = f
    BY SpoolOfChild, Apart DEF BeginChild, Started, SpoolsOK, SinksOK
  <1>2. /\ stage' = [stage EXCEPT ![c] = "active"]
        /\ UNCHANGED <<suffix, locked, written, counter, parent, spool>>
        /\ \/ failed_sink' = failed_sink \cup {c} /\ UNCHANGED <<files, sink>>
           \/ /\ files' = [files EXCEPT ![f] = << >>] /\ sink' = [sink EXCEPT ![c] = f]
              /\ UNCHANGED failed_sink
    BY <1>1 DEF BeginChild, Enter
  <1>3. << >> # NoFile /\ << >> \in Seq(Records)
    <2>1. << >> \in Seq(Builds \X Nat)
      OBVIOUS
    <2> QED  BY <2>1, BuildsAssumption DEF Records
  <1> HIDE DEF f
  <1>4. Collected' = Collected
    BY <1>1, <1>2, Apart DEF Collected, ReportTypeOK
  <1>5. ReportTypeOK'
    <2>1. files' \in [FileNames -> Seq(Records) \cup {NoFile}]
      BY <1>1, <1>2, <1>3 DEF ReportTypeOK
    <2>2. stage' \in [Builds -> Stages]
      BY <1>1, <1>2 DEF ReportTypeOK, Stages
    <2>3. sink' \in [Builds -> FileNames \cup {NoFile}]
      BY <1>1, <1>2 DEF ReportTypeOK
    <2>4. failed_sink' \subseteq Builds
      BY <1>1, <1>2 DEF ReportTypeOK
    <2> QED  BY <1>2, <2>1, <2>2, <2>3, <2>4 DEF ReportTypeOK
  <1>6. /\ \A g \in FileNames : g # f => files'[g] = files[g]
        /\ files'[f] = NoFile \/ files'[f] = << >>
        /\ files'[f] = NoFile => sink'[c] = NoFile /\ c \in failed_sink'
        /\ sink'[c] # NoFile => sink'[c] = f
        /\ stage'[c] = "active"
        /\ \A q \in Builds : q # c => stage'[q] = stage[q] /\ sink'[q] = sink[q]
        /\ \A q \in Builds : q # c => (q \in failed_sink' <=> q \in failed_sink)
        /\ failed_sink \subseteq failed_sink'
        /\ sink'[c] = NoFile => c \in failed_sink'
    BY <1>1, <1>2, <1>3 DEF ReportTypeOK
  <1>7. \A d \in Children : Started(d) /\ d # c => files'[spool[d]] = files[spool[d]]
    BY <1>1, <1>6, SpoolOfChild DEF f
  <1>8. SpoolsOK'
    BY <1>1, <1>2, <1>6, <1>7, Apart DEF SpoolsOK, Started, Kids
  <1>9. SinksOK'
    BY <1>1, <1>2, <1>6, Apart DEF SinksOK, OwnFile, Kids
  <1>10. ASSUME NEW q \in Builds, q # c
         PROVE  OwnsFile(q)' = OwnsFile(q) /\ OwnFile(q)' = OwnFile(q) /\ (OwnsFile(q) => files'[OwnFile(q)] = files[OwnFile(q)])
    <2>1. CASE q \in Tops
      BY <1>1, <1>2, <1>6, <1>10, <2>1, ReportOfTop, SpoolOfChild DEF f, OwnsFile, OwnFile
    <2>2. CASE q \in Children /\ stage[q] # "idle"
      BY <1>2, <1>6, <1>7, <1>10, <2>2, Apart, SpoolOfChild DEF OwnsFile, OwnFile
    <2>3. CASE q \in Children /\ stage[q] = "idle"
      BY <1>2, <1>6, <1>10, <2>3, Apart DEF OwnsFile, OwnFile
    <2> QED  BY <2>1, <2>2, <2>3, Apart
  <1>11. ASSUME OwnsFile(c)' PROVE files'[f] = << >> /\ OwnFile(c)' = f
    BY <1>1, <1>2, <1>6, <1>11 DEF OwnsFile, OwnFile, f
  <1>12. OwnersOK'
    <2>1. \A q \in Tops : OwnsFile(q)' => files'[Report(suffix'[q])] # NoFile
      BY <1>1, <1>2, <1>10, ReportOfTop, Apart DEF OwnersOK
    <2>2. \A d \in Children : d # c /\ (stage[d] # "idle" \/ sink[d] # NoFile) => Started(d) /\ files'[spool[d]] = files[spool[d]]
      BY <1>7, SpoolOfChild, Apart DEF SinksOK
    <2>3. files'[spool[c]] # NoFile \/ (c \in failed_sink' /\ sink'[c] = NoFile)
      BY <1>6, <1>3 DEF f
    <2>4. \A d \in Children : stage'[d] \in {"active", "ended", "killed"} /\ d \notin failed_sink' => files'[spool[d]] # NoFile
      BY <1>6, <2>2, <2>3, Apart DEF OwnersOK
    <2>5. \A d \in Children : sink'[d] # NoFile => files'[spool[d]] # NoFile
      BY <1>6, <2>2, <2>3, Apart DEF OwnersOK
    <2>6. \A q, r \in Tops : OwnsFile(q)' /\ OwnsFile(r)' /\ suffix'[q] = suffix'[r] => q = r
      BY <1>1, <1>2, <1>10, Apart DEF OwnersOK
    <2> QED  BY <1>2, <2>1, <2>4, <2>5, <2>6 DEF OwnersOK
  <1>13. RecordsOK'
    BY <1>1, <1>2, <1>6 DEF RecordsOK, Present
  <1>14. NoneForeign'
    BY <1>2, <1>4, <1>10, <1>11 DEF NoneForeign
  <1>15. NoneMissing'
    <2>1. \A d \in Collected : parent[d] # c
      BY <1>1 DEF Collected, Kids
    <2>2. \A q \in Reach(Collected, parent, c, failed_sink') : q = c
      BY <1>1, <2>1, ReachAlone, Apart DEF Collected
    <2>3. \A q \in Builds : Reach(Collected, parent, q, failed_sink') \subseteq Reach(Collected, parent, q, failed_sink)
      BY <1>6, ReachGrows
    <2>4. ASSUME NEW q \in Builds, OwnsFile(q)', q \notin failed_sink', NEW r \in Reach(Collected, parent, q, failed_sink'),
                 NEW n \in 1 .. written[r]
          PROVE  \E i \in DOMAIN files'[OwnFile(q)'] : files'[OwnFile(q)'][i] = <<r, n>>
      <3>1. q # c
        BY <2>2, <2>4, <1>1
      <3>2. OwnsFile(q) /\ OwnFile(q)' = OwnFile(q) /\ files'[OwnFile(q)] = files[OwnFile(q)]
        BY <3>1, <1>10, <2>4
      <3>3. q \notin failed_sink /\ r \in Reach(Collected, parent, q, failed_sink)
        BY <1>6, <2>3, <2>4
      <3> QED  BY <3>2, <3>3, <2>4 DEF NoneMissing
    <2> QED  BY <1>2, <1>4, <2>4 DEF NoneMissing
  <1> QED  BY <1>5, <1>8, <1>9, <1>12, <1>13, <1>14, <1>15

LEMMA Appended ==
  ASSUME NEW S, NEW s \in Seq(S), NEW t \in Seq(S)
  PROVE  /\ s \o t \in Seq(S)
         /\ \A i \in DOMAIN s : i \in DOMAIN (s \o t) /\ (s \o t)[i] = s[i]
         /\ \A j \in DOMAIN t : Len(s) + j \in DOMAIN (s \o t) /\ (s \o t)[Len(s) + j] = t[j]
         /\ \A i \in DOMAIN (s \o t) :
              \/ i \in DOMAIN s /\ (s \o t)[i] = s[i]
              \/ i - Len(s) \in DOMAIN t /\ (s \o t)[i] = t[i - Len(s)]
  <1>1. /\ s \o t \in Seq(S) /\ Len(s) \in Nat /\ Len(t) \in Nat
        /\ DOMAIN s = 1 .. Len(s) /\ DOMAIN t = 1 .. Len(t)
        /\ Len(s \o t) = Len(s) + Len(t) /\ DOMAIN (s \o t) = 1 .. Len(s) + Len(t)
        /\ \A i \in 1 .. Len(s) + Len(t) : (s \o t)[i] = IF i <= Len(s) THEN s[i] ELSE t[i - Len(s)]
    OBVIOUS
  <1> QED  BY <1>1

LEMMA ExplainStep ==
  ASSUME ReportInv, NEW p \in Builds, Explain(p) PROVE ReportInv'
  <1> USE DEF ReportInv
  <1> DEFINE f == sink[p]
             r == <<p, written[p] + 1>>
  <1>1. /\ stage[p] = "active" /\ written[p] < MaxRecords
        /\ written' = [written EXCEPT ![p] = written[p] + 1]
        /\ UNCHANGED <<stage, suffix, locked, sink, failed_sink, counter, parent, spool>>
        /\ f # NoFile => OwnsFile(p) /\ OwnFile(p) = f /\ f \in FileNames /\ files[f] # NoFile
        /\ p \notin failed_sink => f # NoFile
    <2>1. sink[p] # NoFile => OwnsFile(p) /\ OwnFile(p) = sink[p] /\ sink[p] \in FileNames /\ files[sink[p]] # NoFile
      BY Apart, ReportOfTop, SpoolOfChild DEF Explain, SinksOK, OwnersOK, OwnsFile, ReportTypeOK
    <2> QED  BY <2>1 DEF Explain, SinksOK
  <1>2. /\ f = NoFile => UNCHANGED files
        /\ f # NoFile => files' = [files EXCEPT ![f] = files[f] \o <<r>>]
    BY <1>1 DEF Explain, WriteReport
  <1>3. r \in Records /\ <<r>> \in Seq(Records) /\ written[p] \in Nat /\ written[p] + 1 \in 0 .. MaxRecords
    BY <1>1, BuildsAssumption DEF Records, ReportTypeOK
  <1>4. r[1] = p /\ r[2] = written[p] + 1
    OBVIOUS
  <1> HIDE DEF f, r
  <1>5. f # NoFile => /\ files[f] \in Seq(Records)
                      /\ files'[f] = files[f] \o <<r>> /\ files'[f] \in Seq(Records) /\ files'[f] # NoFile
                      /\ \A i \in DOMAIN files[f] : i \in DOMAIN files'[f] /\ files'[f][i] = files[f][i]
                      /\ \E i \in DOMAIN files'[f] : files'[f][i] = r
                      /\ \A i \in DOMAIN files'[f] :
                           \/ i \in DOMAIN files[f] /\ files'[f][i] = files[f][i]
                           \/ i = Len(files[f]) + 1 /\ files'[f][i] = r
    <2> SUFFICES ASSUME f # NoFile
                 PROVE  /\ files[f] \in Seq(Records)
                        /\ files'[f] = files[f] \o <<r>> /\ files'[f] \in Seq(Records) /\ files'[f] # NoFile
                        /\ \A i \in DOMAIN files[f] : i \in DOMAIN files'[f] /\ files'[f][i] = files[f][i]
                        /\ \E i \in DOMAIN files'[f] : files'[f][i] = r
                        /\ \A i \in DOMAIN files'[f] :
                             \/ i \in DOMAIN files[f] /\ files'[f][i] = files[f][i]
                             \/ i = Len(files[f]) + 1 /\ files'[f][i] = r
      OBVIOUS
    <2>1. files[f] \in Seq(Records) /\ files'[f] = files[f] \o <<r>>
      BY <1>1, <1>2 DEF ReportTypeOK
    <2>2. DOMAIN <<r>> = {1} /\ <<r>>[1] = r /\ Len(files[f]) \in Nat
      BY <2>1
    <2>3. files'[f] \in Seq(Records)
      BY <1>3, <2>1, Appended
    <2>4. files'[f] # NoFile
      BY <2>3, BuildsAssumption DEF Records
    <2>5. \A i \in DOMAIN files[f] : i \in DOMAIN files'[f] /\ files'[f][i] = files[f][i]
      BY <1>3, <2>1, Appended
    <2>6. \E i \in DOMAIN files'[f] : files'[f][i] = r
      <3>1. 1 \in DOMAIN <<r>>
        BY <2>2
      <3>2. /\ Len(files[f]) + 1 \in DOMAIN (files[f] \o <<r>>)
            /\ (files[f] \o <<r>>)[Len(files[f]) + 1] = <<r>>[1]
        BY <3>1, <1>3, <2>1, Appended
      <3> QED  BY <3>2, <2>1, <2>2
    <2>7. ASSUME NEW i \in DOMAIN files'[f]
          PROVE  \/ i \in DOMAIN files[f] /\ files'[f][i] = files[f][i]
                 \/ i = Len(files[f]) + 1 /\ files'[f][i] = r
      <3>1. \/ i \in DOMAIN files[f] /\ files'[f][i] = files[f][i]
            \/ i - Len(files[f]) \in DOMAIN <<r>> /\ files'[f][i] = <<r>>[i - Len(files[f])]
        BY <1>3, <2>1, Appended
      <3>2. i \in Nat
        BY <2>3
      <3> QED  BY <2>2, <3>1, <3>2
    <2> QED  BY <2>1, <2>3, <2>4, <2>5, <2>6, <2>7
  <1>6. \A g \in FileNames : g # f => files'[g] = files[g]
    BY <1>1, <1>2 DEF ReportTypeOK
  <1>7. Collected' = Collected
    BY <1>1 DEF Collected
  <1>8. ReportTypeOK'
    <2>1. files' \in [FileNames -> Seq(Records) \cup {NoFile}]
      BY <1>1, <1>2, <1>5 DEF ReportTypeOK
    <2>2. written' \in [Builds -> 0 .. MaxRecords]
      BY <1>1, <1>3 DEF ReportTypeOK
    <2> QED  BY <1>1, <2>1, <2>2 DEF ReportTypeOK
  <1>9. \A g \in FileNames : files'[g] = NoFile <=> files[g] = NoFile
    BY <1>1, <1>2, <1>5, <1>6
  <1>10. \A q \in Builds : OwnsFile(q)' = OwnsFile(q) /\ OwnFile(q)' = OwnFile(q)
    <2>1. \A q \in Children : stage[q] # "idle" => spool[q] \in FileNames
      BY SpoolOfChild
    <2> QED  BY <1>1, <1>9, <2>1, Apart DEF OwnsFile, OwnFile
  <1>11. SpoolsOK'
    <2>1. \A c \in Children : Started(c) => spool[c] \in FileNames
      BY SpoolOfChild
    <2> QED  BY <1>1, <1>9, <2>1 DEF SpoolsOK, Started, Kids
  <1>12. SinksOK'
    BY <1>1, <1>10, BuildsAssumption DEF SinksOK, Kids, ReportTypeOK
  <1>13. OwnersOK'
    <2>1. \A c \in Children : stage[c] # "idle" \/ sink[c] # NoFile => spool[c] \in FileNames
      BY SpoolOfChild, Apart DEF SinksOK
    <2> QED  BY <1>1, <1>9, <1>10, <2>1, ReportOfTop, Apart DEF OwnersOK
  <1>14. RecordsOK'
    <2>1. \A q \in Builds : written[q] \in Nat /\ written'[q] \in Nat /\ written'[q] = IF q = p THEN written[q] + 1 ELSE written[q]
      BY <1>1, BuildsAssumption DEF ReportTypeOK
    <2>2. \A g \in Present : g \in FileNames /\ files[g] \in Seq(Records)
                             /\ \A i \in DOMAIN files[g] : /\ files[g][i][1] \in Builds /\ files[g][i][2] \in Nat
                                                           /\ files[g][i] # r
      <3> SUFFICES ASSUME NEW g \in Present
                   PROVE  g \in FileNames /\ files[g] \in Seq(Records)
                             /\ \A i \in DOMAIN files[g] : /\ files[g][i][1] \in Builds /\ files[g][i][2] \in Nat
                                                           /\ files[g][i] # r
        OBVIOUS
      <3>1. g \in FileNames /\ files[g] \in Seq(Records)
        BY DEF Present, ReportTypeOK
      <3>2. \A i \in DOMAIN files[g] : files[g][i][1] \in Builds /\ files[g][i][2] \in Nat
        BY <3>1 DEF Records
      <3>3. \A i \in DOMAIN files[g] : files[g][i][2] <= written[files[g][i][1]]
        BY DEF RecordsOK
      <3> QED  BY <1>3, <1>4, <2>1, <3>1, <3>2, <3>3
    <2>3. Present' = Present
      BY <1>9 DEF Present
    <2>4. ASSUME NEW g \in Present, NEW i \in DOMAIN files'[g]
          PROVE  \/ i \in DOMAIN files[g] /\ files'[g][i] = files[g][i]
                 \/ g = f /\ f # NoFile /\ i = Len(files[f]) + 1 /\ files'[g][i] = r
      BY <1>1, <1>5, <1>6, BuildsAssumption DEF Present
    <2>5. \A g \in Present : \A i \in DOMAIN files'[g] :
            files'[g][i][2] >= 1 /\ files'[g][i][2] <= written'[files'[g][i][1]]
      <3> SUFFICES ASSUME NEW g \in Present, NEW i \in DOMAIN files'[g]
                   PROVE  files'[g][i][2] >= 1 /\ files'[g][i][2] <= written'[files'[g][i][1]]
        OBVIOUS
      <3>1. CASE files'[g][i] = r
        BY <1>4, <2>1, <3>1
      <3>2. CASE i \in DOMAIN files[g] /\ files'[g][i] = files[g][i]
        BY <2>1, <2>2, <3>2 DEF RecordsOK
      <3> QED  BY <2>4, <3>1, <3>2
    <2>6. \A g, h \in Present : \A i \in DOMAIN files'[g], j \in DOMAIN files'[h] :
            files'[g][i] = files'[h][j] => g = h /\ i = j
      BY <2>2, <2>4 DEF RecordsOK
    <2> QED  BY <2>3, <2>5, <2>6 DEF RecordsOK
  <1>15. \A q \in Builds : OwnsFile(q) =>
            \/ q = p /\ OwnFile(q) = f /\ f # NoFile
            \/ files'[OwnFile(q)] = files[OwnFile(q)] /\ (q # p \/ p \in failed_sink)
    BY <1>1, <1>2, <1>6, OwnersDiffer DEF Present
  <1>16. NoneForeign'
    <2>1. p \notin failed_sink => p \in Reach(Collected, parent, p, {})
      BY ReachItself
    <2>2. p \in Reach(Collected, parent, p, {})
      BY ReachItself
    <2> QED  BY <1>1, <1>4, <1>5, <1>7, <1>10, <1>15, <2>2 DEF NoneForeign
  <1>17. NoneMissing'
    <2>1. ASSUME NEW q \in Builds, OwnsFile(q), q \notin failed_sink, NEW b \in Reach(Collected, parent, q, failed_sink),
                 NEW n \in 1 .. written'[b]
          PROVE  \E i \in DOMAIN files'[OwnFile(q)] : files'[OwnFile(q)][i] = <<b, n>>
      <3>1. Collected \in SUBSET Builds /\ p \notin Collected
        BY <1>1, Apart DEF Collected
      <3>2. CASE b = p
        <4>1. q = p
          BY <3>1, <3>2, ReachCollected
        <4>2. f # NoFile /\ OwnFile(q) = f
          BY <4>1, <1>1, <2>1
        <4>3. CASE n = written[p] + 1
          BY <1>5, <3>2, <4>2, <4>3 DEF r
        <4>4. CASE n # written[p] + 1
          <5>1. n \in 1 .. written[b]
            BY <1>1, <1>3, <3>2, <4>4 DEF ReportTypeOK
          <5>2. PICK i \in DOMAIN files[f] : files[f][i] = <<b, n>>
            BY <5>1, <4>2, <2>1 DEF NoneMissing
          <5> QED  BY <5>2, <1>5, <4>2
        <4> QED  BY <4>3, <4>4
      <3>3. CASE b # p
        <4>1. b \in Builds /\ n \in 1 .. written[b]
          BY <1>1, <3>3 DEF ReportTypeOK, Reach
        <4>2. PICK i \in DOMAIN files[OwnFile(q)] : files[OwnFile(q)][i] = <<b, n>>
          BY <4>1, <2>1 DEF NoneMissing
        <4> QED  BY <4>2, <1>5, <1>15, <2>1
      <3> QED  BY <3>2, <3>3
    <2>2. parent' = parent /\ failed_sink' = failed_sink
      BY <1>1
    <2> QED  BY <2>2, <1>7, <1>10, <2>1 DEF NoneMissing
  <1> QED  BY <1>8, <1>11, <1>12, <1>13, <1>14, <1>16, <1>17

LEMMA CollectStep ==
  ASSUME ReportInv, NEW p \in Builds, NEW c \in Children, Collect(p, c) PROVE ReportInv'
  <1> USE DEF ReportInv
  <1> DEFINE s == spool[c]
             t == sink[p]
             forwarded == IF files[s] = NoFile THEN << >> ELSE files[s]
  <1>1. /\ stage[p] = "active" /\ parent[c] = p /\ stage[c] \in {"ended", "killed"} /\ c # p
        /\ stage' = [stage EXCEPT ![c] = "collected"]
        /\ UNCHANGED <<suffix, locked, sink, failed_sink, written, counter, parent, spool>>
        /\ files' = [f \in FileNames |->
                      IF f = s THEN NoFile
                      ELSE IF f = t /\ files[f] # NoFile THEN files[f] \o forwarded ELSE files[f]]
    BY DEF Collect, Enter
  <1>2. /\ Started(c) /\ s \in FileNames /\ s # NoFile /\ OwnFile(c) = s
        /\ c \in Builds /\ c \notin Tops
        /\ \A d \in Children : spool[d] = s => d = c
        /\ \A n : s # Report(n)
        /\ files[s] # NoFile => OwnsFile(c)
        /\ c \notin failed_sink => files[s] # NoFile
    BY <1>1, SpoolOfChild, Apart DEF OwnsFile, OwnersOK
  <1>3. t # NoFile => OwnsFile(p) /\ OwnFile(p) = t /\ t \in FileNames /\ files[t] # NoFile /\ t # s
    <2>1. t # NoFile => OwnsFile(p) /\ OwnFile(p) = t /\ t \in FileNames /\ files[t] # NoFile
      BY <1>1, Apart, ReportOfTop, SpoolOfChild DEF SinksOK, OwnersOK, OwnsFile, ReportTypeOK
    <2>2. OwnFile(p) # s
      BY <1>1, <1>2, Apart, ReportOfTop, SpoolOfChild
    <2> HIDE DEF s, t
    <2> QED  BY <2>1, <2>2
  <1>4. p \notin failed_sink => t # NoFile
    BY <1>1 DEF SinksOK
  <1>5. /\ forwarded \in Seq(Records)
        /\ \A j \in DOMAIN forwarded : files[s] # NoFile /\ j \in DOMAIN files[s] /\ forwarded[j] = files[s][j]
        /\ files[s] # NoFile => forwarded = files[s]
    <2>1. << >> \in Seq(Records) /\ DOMAIN << >> = {}
      OBVIOUS
    <2> QED  BY <1>2, <2>1 DEF ReportTypeOK
  <1> HIDE DEF s, t, forwarded
  <1>6. /\ files'[s] = NoFile
        /\ \A g \in FileNames : g # s /\ g # t => files'[g] = files[g]
        /\ t # NoFile => files'[t] = files[t] \o forwarded
    BY <1>1, <1>2, <1>3
  <1>7. ASSUME t # NoFile
        PROVE  /\ files[t] \in Seq(Records) /\ files'[t] \in Seq(Records) /\ files'[t] # NoFile
               /\ \A i \in DOMAIN files[t] : i \in DOMAIN files'[t] /\ files'[t][i] = files[t][i]
               /\ \A j \in DOMAIN forwarded : \E i \in DOMAIN files'[t] : files'[t][i] = forwarded[j]
               /\ Len(files[t]) \in Nat
               /\ \A i \in DOMAIN files'[t] :
                    \/ i \in DOMAIN files[t] /\ files'[t][i] = files[t][i]
                    \/ i - Len(files[t]) \in DOMAIN forwarded /\ files'[t][i] = forwarded[i - Len(files[t])]
    <2>1. files[t] \in Seq(Records) /\ files'[t] = files[t] \o forwarded
      BY <1>3, <1>6, <1>7, BuildsAssumption DEF ReportTypeOK
    <2>2. files'[t] \in Seq(Records) /\ Len(files[t]) \in Nat
      BY <1>5, <2>1, Appended
    <2>3. files'[t] # NoFile
      BY <2>2, BuildsAssumption DEF Records
    <2>4. \A i \in DOMAIN files[t] : i \in DOMAIN files'[t] /\ files'[t][i] = files[t][i]
      BY <1>5, <2>1, Appended
    <2>5. \A j \in DOMAIN forwarded : \E i \in DOMAIN files'[t] : files'[t][i] = forwarded[j]
      <3> SUFFICES ASSUME NEW j \in DOMAIN forwarded PROVE \E i \in DOMAIN files'[t] : files'[t][i] = forwarded[j]
        OBVIOUS
      <3>1. /\ Len(files[t]) + j \in DOMAIN (files[t] \o forwarded)
            /\ (files[t] \o forwarded)[Len(files[t]) + j] = forwarded[j]
        BY <1>5, <2>1, Appended
      <3> QED  BY <2>1, <3>1
    <2>6. \A i \in DOMAIN files'[t] :
                    \/ i \in DOMAIN files[t] /\ files'[t][i] = files[t][i]
                    \/ i - Len(files[t]) \in DOMAIN forwarded /\ files'[t][i] = forwarded[i - Len(files[t])]
      BY <1>5, <2>1, Appended
    <2> QED  BY <2>1, <2>2, <2>3, <2>4, <2>5, <2>6
  <1>8. Collected' = Collected \cup {c} /\ c \notin Collected /\ p \notin Collected /\ Collected \in SUBSET Builds
    BY <1>1, <1>2, Apart DEF Collected, ReportTypeOK
  <1>9. \A g \in FileNames : g # s => (files'[g] = NoFile <=> files[g] = NoFile)
    BY <1>3, <1>6, <1>7, BuildsAssumption
  <1>10. \A q \in Builds : q # c => stage'[q] = stage[q]
    BY <1>1, <1>2 DEF ReportTypeOK
  <1>11. stage'[c] = "collected"
    BY <1>1, <1>2 DEF ReportTypeOK
  <1>12. ReportTypeOK'
    <2>1. \A g \in FileNames : files'[g] \in Seq(Records) \cup {NoFile}
      BY <1>3, <1>6, <1>7, BuildsAssumption DEF ReportTypeOK
    <2>2. files' \in [FileNames -> Seq(Records) \cup {NoFile}]
      BY <2>1, <1>1
    <2>3. stage' \in [Builds -> Stages]
      BY <1>1, <1>2 DEF ReportTypeOK, Stages
    <2> QED  BY <1>1, <2>2, <2>3 DEF ReportTypeOK
  <1>13. SpoolsOK'
    <2>1. \A d \in Children : Started(d) => spool[d] \in FileNames /\ (d # c => spool[d] # s)
      BY <1>2, SpoolOfChild
    <2> QED  BY <1>1, <1>2, <1>6, <1>9, <1>10, <1>11, <2>1, Apart DEF SpoolsOK, Started, Kids, s
  <1>14. SinksOK'
    <2>1. c \notin Tops /\ sink[c] = NoFile
      BY <1>1, <1>2 DEF SinksOK
    <2>2. \A q \in Builds : OwnFile(q)' = OwnFile(q) /\ Kids(q)' = Kids(q)
      BY <1>1 DEF OwnFile, Kids
    <2> QED  BY <1>1, <1>10, <1>11, <2>1, <2>2 DEF SinksOK
  <1>15. /\ ~OwnsFile(c)'
         /\ \A q \in Builds : OwnFile(q)' = OwnFile(q)
         /\ \A q \in Builds : q # c => OwnsFile(q)' = OwnsFile(q)
    <2>1. \A q \in Children : q # c /\ stage[q] # "idle" => spool[q] \in FileNames /\ spool[q] # s
      BY <1>2, SpoolOfChild
    <2> QED  BY <1>1, <1>2, <1>9, <1>10, <1>11, <2>1, Apart DEF OwnsFile, OwnFile
  <1>16. \A q \in Builds : q # c /\ OwnsFile(q) =>
           \/ q = p /\ OwnFile(q) = t /\ t # NoFile
           \/ files'[OwnFile(q)] = files[OwnFile(q)] /\ (q # p \/ p \in failed_sink)
    <2> SUFFICES ASSUME NEW q \in Builds, q # c, OwnsFile(q)
                 PROVE  \/ q = p /\ OwnFile(q) = t /\ t # NoFile
                        \/ files'[OwnFile(q)] = files[OwnFile(q)] /\ (q # p \/ p \in failed_sink)
      OBVIOUS
    <2>1. OwnFile(q) \in FileNames /\ OwnFile(q) # s
      BY <1>2, Apart, SpoolOfChild, ReportOfTop DEF OwnsFile
    <2>2. t # NoFile /\ q # p => OwnFile(q) # t
      BY <1>3, OwnersDiffer
    <2>3. OwnFile(q) # NoFile
      BY <2>1, BuildsAssumption
    <2> QED  BY <1>3, <1>4, <1>6, <2>1, <2>2, <2>3
  <1>17. OwnersOK'
    <2>1. \A d \in Children : d # c /\ (stage[d] # "idle" \/ sink[d] # NoFile) => spool[d] \in FileNames /\ spool[d] # s
      BY <1>2, SpoolOfChild, Apart DEF SinksOK
    <2>2. sink'[c] = NoFile
      BY <1>1, <1>2 DEF SinksOK
    <2>3. \A q \in Tops : Report(suffix[q]) \in FileNames /\ Report(suffix[q]) # s
      BY <1>2, ReportOfTop
    <2> QED  BY <1>1, <1>2, <1>9, <1>10, <1>11, <1>15, <2>1, <2>2, <2>3, Apart DEF OwnersOK
  <1>18. RecordsOK'
    <2>1. Present' = Present \ {s}
      BY <1>6, <1>9 DEF Present
    <2>2. ASSUME NEW g \in Present', NEW i \in DOMAIN files'[g]
          PROVE  \/ i \in DOMAIN files[g] /\ files'[g][i] = files[g][i]
                 \/ /\ g = t /\ t # NoFile /\ s \in Present /\ i - Len(files[t]) \in DOMAIN files[s]
                    /\ files'[g][i] = files[s][i - Len(files[t])]
      <3>1. g \in FileNames /\ g # s /\ g # NoFile
        BY <2>1, BuildsAssumption DEF Present
      <3>2. CASE g # t
        BY <1>6, <3>1, <3>2, <2>2
      <3>3. CASE g = t
        BY <1>2, <1>5, <1>7, <3>1, <3>3, <2>2 DEF Present
      <3> QED  BY <3>2, <3>3
    <2>3. \A g \in Present' : g \in Present /\ g # s
      BY <2>1
    <2>4. \A g \in Present' : \A i \in DOMAIN files'[g] :
            files'[g][i][2] >= 1 /\ files'[g][i][2] <= written[files'[g][i][1]]
      BY <2>2, <2>3 DEF RecordsOK
    <2>5. ASSUME NEW g \in Present', NEW h \in Present', NEW i \in DOMAIN files'[g], NEW j \in DOMAIN files'[h],
                 files'[g][i] = files'[h][j]
          PROVE  g = h /\ i = j
      <3>1. \A a, b \in Present : \A k \in DOMAIN files[a], l \in DOMAIN files[b] :
              files[a][k] = files[b][l] => a = b /\ k = l
        BY DEF RecordsOK
      <3>2. g \in Present /\ h \in Present /\ g # s /\ h # s
        BY <2>3
      <3>3. CASE i \in DOMAIN files[g] /\ files'[g][i] = files[g][i]
        <4>1. CASE j \in DOMAIN files[h] /\ files'[h][j] = files[h][j]
          <5>1. files[g][i] = files[h][j]
            BY <2>5, <3>3, <4>1
          <5> QED  BY <5>1, <3>1, <3>2, <3>3, <4>1
        <4>2. CASE /\ h = t /\ t # NoFile /\ s \in Present /\ j - Len(files[t]) \in DOMAIN files[s]
                   /\ files'[h][j] = files[s][j - Len(files[t])]
          <5>1. files[g][i] = files[s][j - Len(files[t])]
            BY <2>5, <3>3, <4>2
          <5>2. g = s
            BY <5>1, <3>1, <3>2, <3>3, <4>2
          <5> QED  BY <5>2, <3>2
        <4> QED  BY <2>2, <4>1, <4>2
      <3>4. CASE /\ g = t /\ t # NoFile /\ s \in Present /\ i - Len(files[t]) \in DOMAIN files[s]
                 /\ files'[g][i] = files[s][i - Len(files[t])]
        <4>1. CASE j \in DOMAIN files[h] /\ files'[h][j] = files[h][j]
          BY <2>5, <3>1, <3>2, <3>4, <4>1
        <4>2. CASE /\ h = t /\ t # NoFile /\ s \in Present /\ j - Len(files[t]) \in DOMAIN files[s]
                   /\ files'[h][j] = files[s][j - Len(files[t])]
          <5>1. i - Len(files[t]) = j - Len(files[t])
            BY <2>5, <3>1, <3>4, <4>2
          <5>2. DOMAIN files'[t] = 1 .. Len(files'[t]) /\ Len(files[t]) \in Nat /\ Len(files'[t]) \in Nat
            BY <1>7, <3>4
          <5>3. i \in Int /\ j \in Int
            BY <5>2, <3>4, <4>2
          <5> QED  BY <5>1, <5>2, <5>3, <3>4, <4>2
        <4> QED  BY <2>2, <4>1, <4>2
      <3> QED  BY <2>2, <3>3, <3>4
    <2> QED  BY <1>1, <2>4, <2>5 DEF RecordsOK
  <1>19. NoneForeign'
    <2> SUFFICES ASSUME NEW q \in Builds, q # c, OwnsFile(q), NEW i \in DOMAIN files'[OwnFile(q)]
                 PROVE  files'[OwnFile(q)][i][1] \in Reach(Collected \cup {c}, parent, q, {})
      BY <1>1, <1>8, <1>15 DEF NoneForeign
    <2>1. Reach(Collected, parent, q, {}) \subseteq Reach(Collected \cup {c}, parent, q, {})
      BY ReachGrows
    <2>2. CASE files'[OwnFile(q)] = files[OwnFile(q)]
      BY <2>1, <2>2 DEF NoneForeign
    <2>3. CASE q = p /\ OwnFile(q) = t /\ t # NoFile
      <3>1. Reach(Collected, parent, c, {}) \subseteq Reach(Collected \cup {c}, parent, p, {})
        BY <1>1, <1>2, <1>8, ReachOfParent
      <3>2. CASE i \in DOMAIN files[t] /\ files'[t][i] = files[t][i]
        BY <2>1, <2>3, <3>2 DEF NoneForeign
      <3>3. CASE i - Len(files[t]) \in DOMAIN forwarded /\ files'[t][i] = forwarded[i - Len(files[t])]
        <4>1. files[s] # NoFile /\ i - Len(files[t]) \in DOMAIN files[s] /\ files'[t][i] = files[s][i - Len(files[t])]
          BY <1>5, <3>3
        <4>2. files[s][i - Len(files[t])][1] \in Reach(Collected, parent, c, {})
          BY <1>2, <4>1 DEF NoneForeign
        <4> QED  BY <2>3, <3>1, <4>1, <4>2
      <3> QED  BY <1>7, <2>3, <3>2, <3>3
    <2> QED  BY <1>16, <2>2, <2>3
  <1>20. NoneMissing'
    <2> SUFFICES ASSUME NEW q \in Builds, q # c, OwnsFile(q), q \notin failed_sink,
                        NEW b \in Reach(Collected \cup {c}, parent, q, failed_sink), NEW n \in 1 .. written[b]
                 PROVE  \E i \in DOMAIN files'[OwnFile(q)] : files'[OwnFile(q)][i] = <<b, n>>
      <3>1. parent' = parent /\ failed_sink' = failed_sink /\ written' = written
        BY <1>1
      <3>2. Collected' = Collected \cup {c}
        BY <1>8
      <3>3. \A q \in Builds : OwnsFile(q)' => q # c /\ OwnsFile(q) /\ OwnFile(q)' = OwnFile(q)
        BY <1>15
      <3> QED  BY <3>1, <3>2, <3>3 DEF NoneMissing
    <2>1. CASE q = p /\ OwnFile(q) = t /\ t # NoFile
      <3>1. b \in Reach(Collected, parent, p, failed_sink) \/ b \in Reach(Collected, parent, c, failed_sink)
        BY <1>1, <1>2, <1>8, <2>1, ReachOfCollector
      <3>2. CASE b \in Reach(Collected, parent, p, failed_sink)
        <4>1. PICK i \in DOMAIN files[t] : files[t][i] = <<b, n>>
          BY <2>1, <3>2 DEF NoneMissing
        <4>2. i \in DOMAIN files'[t] /\ files'[t][i] = files[t][i]
          BY <1>7, <2>1
        <4> QED  BY <2>1, <4>1, <4>2
      <3>3. CASE b \in Reach(Collected, parent, c, failed_sink)
        <4>1. c \notin failed_sink
          BY <3>3 DEF Reach
        <4>2. OwnsFile(c) /\ forwarded = files[s]
          BY <1>2, <1>5, <4>1
        <4>3. PICK j \in DOMAIN files[s] : files[s][j] = <<b, n>>
          BY <1>2, <3>3, <4>1, <4>2 DEF NoneMissing
        <4>4. PICK i \in DOMAIN files'[t] : files'[t][i] = files[s][j]
          BY <1>7, <2>1, <4>2
        <4> QED  BY <2>1, <4>3, <4>4
      <3> QED  BY <3>1, <3>2, <3>3
    <2>2. CASE q # p /\ files'[OwnFile(q)] = files[OwnFile(q)]
      <3>1. p \notin Reach(Collected, parent, q, failed_sink)
        BY <1>8, <2>2, ReachCollected
      <3>2. b \in Reach(Collected, parent, q, failed_sink)
        BY <1>1, <1>2, <1>8, <3>1, ReachOfOthers
      <3> QED  BY <2>2, <3>2 DEF NoneMissing
    <2> QED  BY <1>16, <2>1, <2>2
  <1> QED  BY <1>12, <1>13, <1>14, <1>17, <1>18, <1>19, <1>20

LEMMA ReportInvStep == ReportInv /\ [ReportNext]_reportVars => ReportInv'
  <1> SUFFICES ASSUME ReportInv, [ReportNext]_reportVars PROVE ReportInv'
    OBVIOUS
  <1>1. CASE \E p \in Tops : BeginTop(p) \/ LockName(p) \/ CreateReport(p) \/ Unlock(p)
    BY <1>1, BeginTopStep, LockNameStep, CreateReportStep, UnlockStep
  <1>2. CASE \E s \in Starts : StartChild(s[1], s[2]) \/ Collect(s[1], s[2])
    <2>1. PICK s \in Starts : StartChild(s[1], s[2]) \/ Collect(s[1], s[2])
      BY <1>2
    <2>2. s[1] \in Builds /\ s[2] \in Children
      BY BuildsAssumption
    <2> QED  BY <2>1, <2>2, StartChildStep, CollectStep
  <1>3. CASE \E c \in Children : BeginChild(c)
    BY <1>3, BeginChildStep
  <1>4. CASE \E p \in Builds : Explain(p) \/ WriteFails(p) \/ EndSession(p) \/ KillBuild(p)
    BY <1>4, ExplainStep, WriteFailsStep, EndSessionStep, KillBuildStep
  <1>5. CASE UNCHANGED reportVars
    <2>1. UNCHANGED <<stage, suffix, locked, files, sink, failed_sink, written, counter, parent, spool>>
      BY <1>5 DEF reportVars
    <2>2. /\ \A p : OwnsFile(p)' = OwnsFile(p) /\ OwnFile(p)' = OwnFile(p) /\ Kids(p)' = Kids(p)
          /\ \A c : Started(c)' = Started(c)
          /\ Collected' = Collected /\ Present' = Present
      BY <2>1 DEF Started, Kids, OwnFile, OwnsFile, Collected, Present
    <2>3. ReportTypeOK' /\ SpoolsOK' /\ SinksOK'
      BY <2>1, <2>2 DEF ReportInv, ReportTypeOK, SpoolsOK, SinksOK
    <2>4. OwnersOK' /\ RecordsOK' /\ NoneForeign' /\ NoneMissing'
      BY <2>1, <2>2 DEF ReportInv, OwnersOK, RecordsOK, NoneForeign, NoneMissing
    <2> QED  BY <2>3, <2>4 DEF ReportInv
  <1> QED  BY <1>1, <1>2, <1>3, <1>4, <1>5 DEF ReportNext

\* However many builds of one second and children at once there are, and whichever
\* of them are killed or cannot write: no record is in two places, and the report of
\* a build that has ended has every record of the build and of what it has collected,
\* and none of an unrelated build.
THEOREM ReportsAreExact == ReportSpec => []RecordsOnce
  <1>1. ReportInv => RecordsOnce
    <2> SUFFICES ASSUME ReportInv PROVE RecordsOnce
      OBVIOUS
    <2>1. \A p, b : Below(p, b) = Reach(Collected, parent, p, b)
      BY DEF Below, Closed, Reach, Collected
    <2>2. ASSUME NEW f \in FileNames, NEW g \in FileNames, files[f] # NoFile, files[g] # NoFile,
                 NEW i \in DOMAIN files[f], NEW j \in DOMAIN files[g], files[f][i] = files[g][j]
          PROVE  f = g /\ i = j
      BY <2>2 DEF ReportInv, RecordsOK, Present
    <2>3. ASSUME NEW p \in Tops, stage[p] = "ended", p \notin failed_sink
          PROVE  LET report == ToSet(files[Report(suffix[p])]) IN
                 /\ \A q \in Below(p, failed_sink), n \in 1 .. MaxRecords :
                      n <= written[q] => <<q, n>> \in report
                 /\ \A r \in report : r[1] \in Below(p, {})
      <3> DEFINE f == files[Report(suffix[p])]
      <3>1. OwnsFile(p) /\ files[OwnFile(p)] = f /\ p \in Builds
        BY <2>3, ReportOfTop, Apart DEF OwnsFile
      <3> HIDE DEF f
      <3>2. \A i \in DOMAIN f : f[i][1] \in Reach(Collected, parent, p, {})
        BY <3>1 DEF ReportInv, NoneForeign
      <3>3. \A q \in Reach(Collected, parent, p, failed_sink) : \A n \in 1 .. written[q] :
              \E i \in DOMAIN f : f[i] = <<q, n>>
        BY <2>3, <3>1 DEF ReportInv, NoneMissing
      <3>4. ToSet(f) = {f[i] : i \in DOMAIN f}
        BY DEF ToSet
      <3>5. ASSUME NEW q \in Below(p, failed_sink), NEW n \in 1 .. MaxRecords, n <= written[q]
            PROVE  <<q, n>> \in ToSet(f)
        <4>1. q \in Builds /\ written[q] \in Nat
          BY BuildsAssumption DEF Below, ReportInv, ReportTypeOK
        <4>2. n \in 1 .. written[q]
          BY <4>1, <3>5
        <4> QED  BY <2>1, <3>3, <3>4, <3>5, <4>2
      <3>6. \A r \in ToSet(f) : r[1] \in Below(p, {})
        BY <2>1, <3>2, <3>4
      <3> QED  BY <3>5, <3>6 DEF f
    <2> QED  BY <2>2, <2>3 DEF RecordsOnce
  <1> QED  BY ReportInvInit, ReportInvStep, <1>1, PTL DEF ReportSpec

(*****************************************************************************)
(* The backend.  A process renames what it has written in full, and what   *)
(* was stale at first is removed before anything is put in its place.      *)
(*****************************************************************************)

Steps ==
  {"exists", "measure", "remove", "open", "write", "rename", "run", "done", "failed", "killed"}

CobTypeOK ==
  /\ first \in {"none", "stale", "cob"}
  /\ cob \in {"none", "stale", "cob"}
  /\ at \in [Users -> Steps]
  /\ temp \in [Users -> {"none", "partial", "cob"}]
  /\ ran \in [Users -> {"not yet", "none", "cob"}]

\* A temporary file is renamed when it is complete.
Complete == \A p \in Users : at[p] = "rename" => temp[p] = "cob"

\* Who is told that the file is there, or removes the stale one, leaves none that
\* is stale; nothing makes it stale again.
NotStale ==
  /\ cob = "stale" => first = "stale"
  /\ \A p \in Users : at[p] \in {"run", "done"} => cob # "stale"

\* Without a stale file at first nothing is ever removed, so that a file that a
\* process has seen stays.
Stays ==
  first # "stale" =>
    \A p \in Users : /\ at[p] # "remove" /\ ran[p] # "none"
                     /\ at[p] \in {"measure", "run", "done"} => cob = "cob"

\* Whoever removes the file has yet to install it.
Installed == (\A p \in Users : at[p] \in {"run", "done"}) => cob = "cob"

CobInv == CobTypeOK /\ Complete /\ NotStale /\ Stays /\ Installed

LEMMA CobInvInit == CobInit => CobInv
  BY UsersAssumption
  DEF CobInit, FindCob, CobInv, CobTypeOK, Complete, NotStale, Stays, Installed, Steps

LEMMA CobInvStep == CobInv /\ [CobNext]_cobVars => CobInv'
  <1> SUFFICES ASSUME CobInv, [CobNext]_cobVars PROVE CobInv'
    OBVIOUS
  <1> USE DEF CobInv, CobTypeOK, Complete, NotStale, Stays, Installed, Steps, Goto
  <1>1. ASSUME NEW p \in Users, CobExists(p) PROVE CobInv'
    BY <1>1 DEF CobExists
  <1>2. ASSUME NEW p \in Users, CobMeasure(p) PROVE CobInv'
    BY <1>2 DEF CobMeasure, Current
  <1>3. ASSUME NEW p \in Users, CobRemove(p) PROVE CobInv'
    BY <1>3 DEF CobRemove
  <1>4. ASSUME NEW p \in Users, CobOpen(p) PROVE CobInv'
    BY <1>4 DEF CobOpen
  <1>5. ASSUME NEW p \in Users, CobWrite(p) PROVE CobInv'
    BY <1>5 DEF CobWrite
  <1>6. ASSUME NEW p \in Users, CobRename(p) PROVE CobInv'
    BY <1>6 DEF CobRename, Current
  <1>7. ASSUME NEW p \in Users, CobRun(p) PROVE CobInv'
    BY <1>7 DEF CobRun
  <1>8. ASSUME NEW p \in Users, CobKill(p) PROVE CobInv'
    BY <1>8 DEF CobKill
  <1>9. CASE UNCHANGED cobVars
    BY <1>9 DEF cobVars
  <1> QED
    BY <1>1, <1>2, <1>3, <1>4, <1>5, <1>6, <1>7, <1>8, <1>9 DEF CobNext

\* However many processes extract the backend at once, and wherever they are
\* killed, none runs one that is torn or stale; what a process was told of is
\* there unless an older release had left a file, and is there at the end.
THEOREM ExtractionIsSafe == CobSpec => []InstalledCobRuns
  <1>1. CobInv => InstalledCobRuns
    BY DEF CobInv, CobTypeOK, Stays, Installed, InstalledCobRuns
  <1> QED  BY CobInvInit, CobInvStep, <1>1, PTL DEF CobSpec

(***************************************************************************)
(* Stacks.  Nothing is known of what project files contain, so the elements*)
(* of a stack are those of some set.                                       *)
(***************************************************************************)
IsStack(s) == \E S : s \in Seq(S)

LEMMA StackLen ==
  ASSUME NEW s, IsStack(s)
  PROVE  Len(s) \in Nat /\ DOMAIN s = 1 .. Len(s) /\ (s = <<>> <=> Len(s) = 0)
  <1>1. PICK S : s \in Seq(S)
    BY DEF IsStack
  <1> QED  BY <1>1

LEMMA Empty == IsStack(<<>>) /\ Len(<<>>) = 0
  <1>1. <<>> \in Seq({})
    OBVIOUS
  <1> QED  BY <1>1 DEF IsStack

LEMMA Pushed ==
  ASSUME NEW s, NEW e, IsStack(s)
  PROVE  /\ IsStack(Append(s, e)) /\ Append(s, e) # <<>>
         /\ Len(Append(s, e)) = Len(s) + 1
         /\ \A k \in 1 .. Len(s) : Append(s, e)[k] = s[k]
         /\ Append(s, e)[Len(s) + 1] = e
  <1>1. PICK S : s \in Seq(S)
    BY DEF IsStack
  <1> DEFINE T == S \cup {e}
  <1>2. s \in Seq(T)
    BY <1>1, SeqMonotonic
  <1>3. e \in T
    OBVIOUS
  <1> HIDE DEF T
  <1>4. Append(s, e) \in Seq(T)
    BY <1>2, <1>3
  <1> QED  BY <1>2, <1>3, <1>4 DEF IsStack

LEMMA Popped ==
  ASSUME NEW s, IsStack(s), s # <<>>
  PROVE  /\ IsStack(Front(s))
         /\ Len(Front(s)) = Len(s) - 1
         /\ \A k \in 1 .. Len(s) - 1 : Front(s)[k] = s[k]
  <1>1. PICK S : s \in Seq(S)
    BY DEF IsStack
  <1>2. Len(s) \in Nat /\ Len(s) >= 1 /\ \A k \in 1 .. Len(s) - 1 : s[k] \in S
    BY <1>1
  <1> DEFINE m == Len(s) - 1
  <1>3. m \in Int /\ m >= 0 /\ 1 \in Int /\ m - 1 + 1 = m
    BY <1>2
  <1>4. \A k \in 1 .. m : s[k] \in S /\ 1 + k - 1 = k
    BY <1>2
  <1> HIDE DEF m
  <1>5. /\ SubSeq(s, 1, m) \in Seq(S)
        /\ Len(SubSeq(s, 1, m)) = IF 1 <= m THEN m - 1 + 1 ELSE 0
        /\ \A k \in 1 .. m - 1 + 1 : SubSeq(s, 1, m)[k] = s[1 + k - 1]
    BY <1>3, <1>4, SubSeqProperties
  <1>6. Len(SubSeq(s, 1, m)) = m /\ \A k \in 1 .. m : SubSeq(s, 1, m)[k] = s[k]
    BY <1>3, <1>4, <1>5
  <1> QED  BY <1>5, <1>6 DEF m, Front, IsStack

LEMMA Replaced ==
  ASSUME NEW s, NEW e, IsStack(s), s # <<>>
  PROVE  /\ IsStack(Append(Front(s), e)) /\ Append(Front(s), e) # <<>>
         /\ Len(Append(Front(s), e)) = Len(s)
         /\ \A k \in 1 .. Len(s) : Append(Front(s), e)[k] = IF k = Len(s) THEN e ELSE s[k]
  <1>1. Len(s) \in Nat /\ Len(s) >= 1
    BY StackLen
  <1>2. /\ IsStack(Front(s)) /\ Len(Front(s)) = Len(s) - 1
        /\ \A k \in 1 .. Len(s) - 1 : Front(s)[k] = s[k]
    BY Popped
  <1>3. /\ IsStack(Append(Front(s), e)) /\ Append(Front(s), e) # <<>>
        /\ Len(Append(Front(s), e)) = Len(s) - 1 + 1
        /\ \A k \in 1 .. Len(s) - 1 : Append(Front(s), e)[k] = Front(s)[k]
        /\ Append(Front(s), e)[Len(s) - 1 + 1] = e
    BY <1>2, Pushed
  <1>4. \A k \in 1 .. Len(s) - 1 : Append(Front(s), e)[k] = s[k]
    BY <1>2, <1>3
  <1> QED  BY <1>1, <1>3, <1>4

(***************************************************************************)
(* The inductive invariant.                                                *)
(***************************************************************************)
IsFrame(f) ==
  f = [name |-> f.name, features |-> f.features, previous |-> f.previous, owns |-> f.owns,
       events |-> f.events, item |-> f.item, failed |-> f.failed]

\* What a command will put back is what the command around it has set.
FramesOK ==
  /\ IsStack(frames)
  /\ \A k \in 1 .. Len(frames) :
       /\ IsFrame(frames[k])
       /\ frames[k].previous = IF k = 1 THEN {} ELSE frames[k - 1].features

ChainOK ==
  /\ IsStack(chain) /\ Len(chain) = Len(frames) /\ Len(chain) <= MAX_DISPATCH
  /\ \A k \in 1 .. Len(frames) : chain[k] = frames[k].name
  /\ \A j, k \in 1 .. Len(frames) : frames[j].name = frames[k].name => j = k

InnermostOK ==
  /\ enabled = IF frames = <<>> THEN {} ELSE frames[Len(frames)].features
  /\ depth = IF frames = <<>> THEN 0 ELSE Len(frames) - 1

OwnerOK ==
  /\ \A j, k \in 1 .. Len(frames) : frames[j].owns /\ frames[k].owns => j = k
  /\ session = "active" <=> \E k \in 1 .. Len(frames) : frames[k].owns

HookInv == FramesOK /\ ChainOK /\ InnermostOK /\ OwnerOK

LEMMA HookInvInit == HookInit => HookInv
  <1> SUFFICES ASSUME HookInit PROVE HookInv
    OBVIOUS
  <1>1. /\ frames = <<>> /\ chain = <<>> /\ enabled = {} /\ depth = 0 /\ session = "none"
    BY DEF HookInit, StartIn
  <1>2. IsStack(frames) /\ IsStack(chain) /\ Len(frames) = 0 /\ Len(chain) = 0
    BY <1>1, Empty
  <1> QED  BY <1>1, <1>2, DispatchAssumption
           DEF HookInv, FramesOK, ChainOK, InnermostOK, OwnerOK

(***************************************************************************)
(* Every step keeps it.                                                    *)
(***************************************************************************)

\* The ends of items and events change only how far a command has come.
Alike(s, t) ==
  /\ IsStack(t) /\ Len(t) = Len(s)
  /\ \A k \in 1 .. Len(s) :
       /\ IsFrame(t[k])
       /\ t[k].name = s[k].name /\ t[k].features = s[k].features
       /\ t[k].previous = s[k].previous /\ t[k].owns = s[k].owns

LEMMA AlikeKeeps ==
  ASSUME HookInv, Alike(frames, frames'), UNCHANGED <<chain, enabled, depth, session>>
  PROVE  HookInv'
  <1>1. /\ Len(frames) \in Nat /\ (frames = <<>> <=> Len(frames) = 0)
        /\ (frames' = <<>> <=> Len(frames') = 0) /\ Len(frames') = Len(frames)
    BY StackLen DEF HookInv, FramesOK, Alike
  <1>2. FramesOK'
    BY <1>1 DEF HookInv, FramesOK, Alike
  <1>3. ChainOK'
    BY <1>1 DEF HookInv, ChainOK, Alike
  <1>4. InnermostOK'
    BY <1>1 DEF HookInv, InnermostOK, Alike
  <1>5. OwnerOK'
    BY <1>1 DEF HookInv, OwnerOK, Alike
  <1> QED  BY <1>2, <1>3, <1>4, <1>5 DEF HookInv

LEMMA ReplacedAlike ==
  ASSUME NEW s, NEW f, IsStack(s), s # <<>>, \A k \in 1 .. Len(s) : IsFrame(s[k]), IsFrame(f),
         f.name = Last(s).name, f.features = Last(s).features,
         f.previous = Last(s).previous, f.owns = Last(s).owns
  PROVE  Alike(s, Append(Front(s), f))
  BY Replaced DEF Alike, Last

LEMMA AfterItemAlike ==
  ASSUME NEW s, NEW how, IsStack(s), \A k \in 1 .. Len(s) : IsFrame(s[k])
  PROVE  Alike(s, AfterItem(s, how))
  <1>1. CASE s = <<>>
    BY <1>1 DEF AfterItem, Alike
  <1>2. CASE s # <<>>
    <2> DEFINE top == Last(s)
    <2>1. IsFrame(top)
      BY <1>2, StackLen DEF Last
    <2>2. PICK f : /\ AfterItem(s, how) = Append(Front(s), f)
                   /\ \/ f = [top EXCEPT !.item = top.item + 1]
                      \/ f = [top EXCEPT !.failed = TRUE, !.events = <<"on-build-failure">>, !.item = 1]
                      \/ f = [top EXCEPT !.failed = TRUE, !.events = <<>>]
      BY <1>2 DEF AfterItem
    <2>3. /\ IsFrame(f) /\ f.name = top.name /\ f.features = top.features
          /\ f.previous = top.previous /\ f.owns = top.owns
      <3> HIDE DEF top
      <3> QED  BY <2>1, <2>2 DEF IsFrame
    <2> QED  BY <1>2, <2>2, <2>3, ReplacedAlike
  <1> QED  BY <1>1, <1>2

LEMMA EmptyKeeps ==
  ASSUME frames' = <<>>, chain' = <<>>, enabled' = {}, depth' = 0, session' # "active"
  PROVE  HookInv'
  <1>1. IsStack(frames') /\ IsStack(chain') /\ Len(frames') = 0 /\ Len(chain') = 0
    BY Empty
  <1> QED  BY <1>1, DispatchAssumption DEF HookInv, FramesOK, ChainOK, InnermostOK, OwnerOK

LEMMA EndItemKeeps ==
  ASSUME HookInv, NEW how, EndItem(how)
  PROVE  HookInv'
  <1>1. CASE Terminate
    BY <1>1, EmptyKeeps DEF Terminate
  <1>2. CASE ~Terminate
    <2>1. frames' = AfterItem(frames, how) /\ UNCHANGED <<chain, enabled, depth, session>>
      BY <1>2 DEF EndItem, context
    <2> QED  BY <2>1, AfterItemAlike, AlikeKeeps DEF HookInv, FramesOK
  <1> QED  BY <1>1, <1>2

\* A command that starts puts back what its predecessor has set, is not among the
\* commands that run, and owns a session only when none is open.
LEMMA PushKeeps ==
  ASSUME HookInv, NEW f, IsFrame(f),
         f.name \notin ToSet(chain), Len(chain) < MAX_DISPATCH, f.previous = enabled,
         f.owns => session # "active",
         frames' = Append(frames, f), chain' = Append(chain, f.name), enabled' = f.features,
         depth' = IF frames = <<>> THEN 0 ELSE depth + 1,
         session' = "active" <=> f.owns \/ session = "active"
  PROVE  HookInv'
  <1> DEFINE n == Len(frames)
  <1>1. n \in Nat /\ (frames = <<>> <=> n = 0) /\ IsStack(frames) /\ IsStack(chain) /\ Len(chain) = n
    BY StackLen DEF HookInv, FramesOK, ChainOK
  <1>2. /\ IsStack(frames') /\ frames' # <<>> /\ Len(frames') = n + 1
        /\ \A k \in 1 .. n : frames'[k] = frames[k]
        /\ frames'[n + 1] = f
    BY <1>1, Pushed
  <1>3. /\ IsStack(chain') /\ Len(chain') = n + 1
        /\ \A k \in 1 .. n : chain'[k] = chain[k]
        /\ chain'[n + 1] = f.name
    BY <1>1, Pushed
  <1>4. 1 .. n + 1 = (1 .. n) \cup {n + 1} /\ n + 1 \notin 1 .. n
    BY <1>1
  <1>5. \A k \in 1 .. n : chain[k] # f.name /\ chain[k] = frames[k].name
    <2>1. DOMAIN chain = 1 .. n
      BY <1>1, StackLen
    <2> QED  BY <2>1 DEF ToSet, HookInv, ChainOK
  <1>6. FramesOK'
    <2>1. \A k \in 1 .. n : /\ IsFrame(frames'[k])
                            /\ frames'[k].previous = IF k = 1 THEN {} ELSE frames'[k - 1].features
      <3>1. \A k \in 1 .. n : k # 1 => k - 1 \in 1 .. n
        BY <1>1
      <3> QED  BY <1>2, <3>1 DEF HookInv, FramesOK
    <2>2. f.previous = IF n + 1 = 1 THEN {} ELSE frames'[n + 1 - 1].features
      BY <1>1, <1>2 DEF HookInv, InnermostOK
    <2> QED  BY <1>2, <1>4, <2>1, <2>2 DEF FramesOK
  <1>7. ChainOK'
    <2>1. Len(chain') <= MAX_DISPATCH
      BY <1>1, <1>3, DispatchAssumption
    <2>2. \A k \in 1 .. n + 1 : chain'[k] = frames'[k].name
      BY <1>2, <1>3, <1>4, <1>5
    <2>3. \A j, k \in 1 .. n + 1 : frames'[j].name = frames'[k].name => j = k
      BY <1>2, <1>4, <1>5 DEF HookInv, ChainOK
    <2> QED  BY <1>2, <1>3, <2>1, <2>2, <2>3 DEF ChainOK
  <1>8. InnermostOK'
    BY <1>1, <1>2 DEF HookInv, InnermostOK
  <1>9. OwnerOK'
    <2>1. \A j, k \in 1 .. n + 1 : frames'[j].owns /\ frames'[k].owns => j = k
      BY <1>2, <1>4 DEF HookInv, OwnerOK
    <2>2. session' = "active" <=> \E k \in 1 .. n + 1 : frames'[k].owns
      BY <1>2, <1>4 DEF HookInv, OwnerOK
    <2> QED  BY <1>2, <2>1, <2>2 DEF OwnerOK
  <1> QED  BY <1>6, <1>7, <1>8, <1>9 DEF HookInv

LEMMA InvokeKeeps ==
  ASSUME HookInv, NEW request, Invoke(request)
  PROVE  HookInv'
  <1>1. PICK events :
          frames' = << [Frame(request, events) EXCEPT !.previous = {}, !.owns = Explains(request)] >>
    BY DEF Invoke
  <1> DEFINE f == [Frame(request, events) EXCEPT !.previous = {}, !.owns = Explains(request)]
  <1>2. /\ IsFrame(f) /\ f.name = request.name /\ f.features = request.features
        /\ f.previous = {} /\ (f.owns <=> Explains(request))
    <2>1. /\ IsFrame(Frame(request, events))
          /\ Frame(request, events).name = request.name
          /\ Frame(request, events).features = request.features
      BY DEF Frame, IsFrame
    <2>2. /\ IsFrame(f) /\ f.name = Frame(request, events).name
          /\ f.features = Frame(request, events).features
          /\ f.previous = {} /\ f.owns = Explains(request)
      <3> DEFINE g == Frame(request, events)
                 owner == Explains(request)
      <3>1. f = [g EXCEPT !.previous = {}, !.owns = owner] /\ IsFrame(g)
        BY <2>1
      <3>2. /\ IsFrame(f) /\ f.name = g.name /\ f.features = g.features
            /\ f.previous = {} /\ f.owns = owner
        <4> HIDE DEF f, g, owner
        <4> QED  BY <3>1 DEF IsFrame
      <3> QED  BY <3>2
    <2> HIDE DEF f
    <2> QED  BY <2>1, <2>2
  <1>3. /\ frames = <<>> /\ Len(frames) = 0 /\ enabled = {} /\ depth = 0
        /\ session # "active"
    BY StackLen DEF Invoke, HookInv, InnermostOK, OwnerOK, FramesOK
  <1>4. chain = <<>> /\ Len(chain) = 0
    BY <1>3, StackLen DEF HookInv, ChainOK
  <1>5. f.name \notin ToSet(chain) /\ Len(chain) < MAX_DISPATCH
    BY <1>4, DispatchAssumption DEF ToSet
  <1>6. frames' = Append(frames, f) /\ chain' = Append(chain, f.name)
    <2>1. \A x : <<x>> = Append(<<>>, x)
      OBVIOUS
    <2> QED  BY <1>1, <1>2, <1>3, <1>4, <2>1 DEF Invoke
  <1>7. /\ enabled' = f.features /\ depth' = 0
        /\ session' = "active" <=> f.owns \/ session = "active"
    BY <1>2, <1>3 DEF Invoke
  <1> HIDE DEF f
  <1> QED  BY <1>2, <1>3, <1>5, <1>6, <1>7, PushKeeps

LEMMA DispatchKeeps ==
  ASSUME HookInv, NEW request, frames # <<>>, Dispatch(request)
  PROVE  HookInv'
  <1>1. CASE /\ frames' = AfterItem(frames, "error")
             /\ session' = IF Owns(request) /\ ~request.watch THEN "ended" ELSE session
             /\ UNCHANGED <<chain, enabled, depth>>
    <2>1. Alike(frames, frames')
      BY <1>1, AfterItemAlike DEF HookInv, FramesOK
    <2>2. CASE session' = session
      BY <1>1, <2>1, <2>2, AlikeKeeps
    <2>3. CASE session' # session
      <3>1. session = "none" /\ session' = "ended"
        BY <1>1, <2>3 DEF Owns
      <3>2. FramesOK' /\ ChainOK' /\ InnermostOK' /\ OwnerOK'
        <4>1. /\ Len(frames) \in Nat /\ (frames = <<>> <=> Len(frames) = 0)
              /\ (frames' = <<>> <=> Len(frames') = 0) /\ Len(frames') = Len(frames)
          BY <2>1, StackLen DEF HookInv, FramesOK, Alike
        <4>2. FramesOK' /\ ChainOK'
          BY <1>1, <2>1, <4>1 DEF HookInv, FramesOK, ChainOK, Alike
        <4>3. InnermostOK' /\ OwnerOK'
          BY <1>1, <2>1, <3>1, <4>1 DEF HookInv, InnermostOK, OwnerOK, Alike
        <4> QED  BY <4>2, <4>3
      <3> QED  BY <3>2 DEF HookInv
    <2> QED  BY <2>2, <2>3
  <1>2. CASE /\ ~Refused(request)
             /\ \E events \in Events(request.name) : frames' = Append(frames, Frame(request, events))
             /\ chain' = Append(chain, request.name)
             /\ enabled' = request.features
             /\ session' = IF Owns(request) THEN "active" ELSE session
             /\ depth' = depth + 1
    <2>1. PICK events : frames' = Append(frames, Frame(request, events))
      BY <1>2
    <2> DEFINE f == Frame(request, events)
    <2>2. /\ IsFrame(f) /\ f.name = request.name /\ f.features = request.features
          /\ f.previous = enabled /\ (f.owns <=> Owns(request))
      BY DEF Frame, IsFrame, Previous
    <2>3. Len(chain) \in Nat /\ Len(chain) < MAX_DISPATCH /\ f.name \notin ToSet(chain)
      BY <1>2, <2>2, StackLen, DispatchAssumption DEF Refused, HookInv, ChainOK
    <2>4. f.owns => session # "active"
      BY <2>2 DEF Owns
    <2>5. frames' = Append(frames, f) /\ chain' = Append(chain, f.name)
      BY <1>2, <2>1, <2>2
    <2>6. /\ enabled' = f.features /\ depth' = IF frames = <<>> THEN 0 ELSE depth + 1
          /\ session' = "active" <=> f.owns \/ session = "active"
      BY <1>2, <2>2
    <2> HIDE DEF f
    <2> QED  BY <2>2, <2>3, <2>4, <2>5, <2>6, PushKeeps
  <1> QED  BY <1>1, <1>2, Zenon DEF Dispatch

\* The command that ends is taken off, and what it found is put back.
LEMMA PopKeeps ==
  ASSUME HookInv, frames # <<>>,
         Alike(Front(frames), frames'), chain' = Front(chain), enabled' = Last(frames).previous,
         depth' = IF Len(frames) > 1 THEN depth - 1 ELSE 0,
         session' = IF Last(frames).owns THEN "ended" ELSE session
  PROVE  HookInv'
  <1> DEFINE n == Len(frames)
  <1>1. /\ n \in Nat /\ n >= 1 /\ IsStack(frames) /\ IsStack(chain) /\ Len(chain) = n
        /\ chain # <<>>
    BY StackLen DEF HookInv, FramesOK, ChainOK
  <1>2. /\ IsStack(frames') /\ Len(frames') = n - 1 /\ (frames' = <<>> <=> n - 1 = 0)
        /\ \A k \in 1 .. n - 1 :
             /\ IsFrame(frames'[k])
             /\ frames'[k].name = frames[k].name /\ frames'[k].features = frames[k].features
             /\ frames'[k].previous = frames[k].previous /\ frames'[k].owns = frames[k].owns
    BY <1>1, Popped, StackLen DEF Alike
  <1>3. /\ IsStack(chain') /\ Len(chain') = n - 1
        /\ \A k \in 1 .. n - 1 : chain'[k] = chain[k]
    BY <1>1, Popped
  <1>4. 1 .. n = (1 .. n - 1) \cup {n} /\ n \notin 1 .. n - 1 /\ n \in 1 .. n
    BY <1>1
  <1>5. FramesOK'
    <2>1. \A k \in 1 .. n - 1 : k # 1 => k - 1 \in 1 .. n - 1
      BY <1>1
    <2>2. \A k \in 1 .. n - 1 :
            IsFrame(frames'[k]) /\ frames'[k].previous = IF k = 1 THEN {} ELSE frames'[k - 1].features
      <3>1. \A k \in 1 .. n - 1 : frames[k].previous = IF k = 1 THEN {} ELSE frames[k - 1].features
        BY <1>4 DEF HookInv, FramesOK
      <3>2. \A k \in 1 .. n - 1 : k # 1 => frames'[k - 1].features = frames[k - 1].features
        <4> HIDE DEF n
        <4> QED  BY <1>2, <2>1
      <3> HIDE DEF n
      <3> QED  BY <1>2, <3>1, <3>2
    <2> QED  BY <1>2, <2>2 DEF FramesOK
  <1>6. ChainOK'
    <2>1. Len(chain') <= MAX_DISPATCH
      BY <1>1, <1>3, DispatchAssumption DEF HookInv, ChainOK
    <2>2. \A k \in 1 .. n - 1 : chain'[k] = frames'[k].name
      BY <1>2, <1>3, <1>4 DEF HookInv, ChainOK
    <2>3. \A j, k \in 1 .. n - 1 : frames'[j].name = frames'[k].name => j = k
      BY <1>2, <1>4 DEF HookInv, ChainOK
    <2> QED  BY <1>2, <1>3, <2>1, <2>2, <2>3 DEF ChainOK
  <1>7. InnermostOK'
    <2>1. enabled' = IF n = 1 THEN {} ELSE frames[n - 1].features
      BY <1>1, <1>4 DEF HookInv, FramesOK, Last
    <2>2. n # 1 => n - 1 \in 1 .. n - 1
      BY <1>1
    <2>3. depth' = IF n = 1 THEN 0 ELSE n - 1 - 1
      BY <1>1 DEF HookInv, InnermostOK
    <2> QED  BY <1>1, <1>2, <2>1, <2>2, <2>3 DEF InnermostOK
  <1>8. OwnerOK'
    <2>1. \A j, k \in 1 .. n - 1 : frames'[j].owns /\ frames'[k].owns => j = k
      BY <1>2, <1>4 DEF HookInv, OwnerOK
    <2>2. CASE frames[n].owns
      <3>1. \A k \in 1 .. n - 1 : ~frames'[k].owns
        BY <1>2, <1>4, <2>2 DEF HookInv, OwnerOK
      <3>2. session' = "ended"
        BY <2>2 DEF Last
      <3> QED  BY <1>2, <2>1, <3>1, <3>2 DEF OwnerOK
    <2>3. CASE ~frames[n].owns
      <3>1. session' = session
        BY <2>3 DEF Last
      <3>2. session = "active" <=> \E k \in 1 .. n - 1 : frames'[k].owns
        BY <1>2, <1>4, <2>3 DEF HookInv, OwnerOK
      <3> QED  BY <1>2, <2>1, <3>1, <3>2 DEF OwnerOK
    <2> QED  BY <2>2, <2>3
  <1> QED  BY <1>5, <1>6, <1>7, <1>8 DEF HookInv

LEMMA ReturnKeeps ==
  ASSUME HookInv, Return
  PROVE  HookInv'
  <1>1. frames # <<>>
    BY DEF Return
  <1>2. /\ IsStack(Front(frames))
        /\ \A k \in 1 .. Len(Front(frames)) : IsFrame(Front(frames)[k])
    <2>1. /\ IsStack(Front(frames)) /\ Len(Front(frames)) = Len(frames) - 1
          /\ \A k \in 1 .. Len(frames) - 1 : Front(frames)[k] = frames[k]
      BY <1>1, Popped DEF HookInv, FramesOK
    <2>2. \A k \in 1 .. Len(frames) - 1 : k \in 1 .. Len(frames)
      BY StackLen DEF HookInv, FramesOK
    <2> QED  BY <2>1, <2>2 DEF HookInv, FramesOK
  <1>3. Alike(Front(frames), frames')
    BY <1>2, AfterItemAlike DEF Return
  <1> QED  BY <1>1, <1>3, PopKeeps DEF Return, Innermost

LEMMA NextEventKeeps ==
  ASSUME HookInv, NextEvent
  PROVE  HookInv'
  <1> DEFINE top == Last(frames)
             rest == Tail(top.events)
             f == [top EXCEPT !.events = rest, !.item = 1]
  <1>1. /\ frames # <<>> /\ frames' = Append(Front(frames), f)
        /\ UNCHANGED <<chain, enabled, depth, session>>
    BY DEF NextEvent, Running, Innermost, context
  <1>2. IsFrame(top)
    BY <1>1, StackLen DEF HookInv, FramesOK, Last
  <1>3. /\ IsFrame(f) /\ f.name = top.name /\ f.features = top.features
        /\ f.previous = top.previous /\ f.owns = top.owns
    <2>1. f = [top EXCEPT !.events = rest, !.item = 1]
      OBVIOUS
    <2> HIDE DEF top, rest, f
    <2> QED  BY <1>2, <2>1 DEF IsFrame
  <1> HIDE DEF f
  <1>4. Alike(frames, frames')
    BY <1>1, <1>3, ReplacedAlike DEF HookInv, FramesOK
  <1> QED  BY <1>1, <1>4, AlikeKeeps

LEMMA RunCatalystKeeps ==
  ASSUME HookInv, RunCatalyst
  PROVE  HookInv'
  <1>1. frames # <<>>
    BY DEF RunCatalyst, AtItem, Running
  <1>2. (\E how : EndItem(how)) \/ \E request : Dispatch(request)
    BY DEF RunCatalyst
  <1> QED  BY <1>1, <1>2, EndItemKeeps, DispatchKeeps

LEMMA HookInvNext == HookInv /\ [HookNext]_hookVars => HookInv'
  <1> SUFFICES ASSUME HookInv, [HookNext]_hookVars PROVE HookInv'
    OBVIOUS
  <1>1. CASE \E request \in project.requests : Invoke(request)
    BY <1>1, InvokeKeeps
  <1>2. CASE RunExternal \/ Malformed \/ RejectCodegen \/ SkipCodegen \/ EndCodegen \/ BodyFails
    <2>1. \E how : EndItem(how)
      BY <1>2 DEF RunExternal, Malformed, RejectCodegen, SkipCodegen, EndCodegen, BodyFails
    <2> QED  BY <2>1, EndItemKeeps
  <1>3. CASE RunCatalyst
    BY <1>3, RunCatalystKeeps
  <1>4. CASE NextEvent
    BY <1>4, NextEventKeeps
  <1>5. CASE Return
    BY <1>5, ReturnKeeps
  <1>6. CASE StartCodegen \/ EditFile \/ UNCHANGED hookVars
    <2>1. UNCHANGED <<frames, chain, enabled, depth, session>>
      BY <1>6 DEF StartCodegen, EditFile, hookVars, context
    <2> QED  BY <2>1 DEF HookInv, FramesOK, ChainOK, InnermostOK, OwnerOK
  <1> QED  BY <1>1, <1>2, <1>3, <1>4, <1>5, <1>6 DEF HookNext

\* In each state the call chain, the enabled features, the depth and the owner of
\* the explanation session are those of the innermost command that runs: what
\* dispatch and executeCatalystHook push they take back on each way out, for any
\* hooks, requests and limits.
THEOREM ContextRestored == HookSpec => []ContextOfInnermost
  <1>1. HookInv => ContextOfInnermost
    <2> SUFFICES ASSUME HookInv PROVE ContextOfInnermost
      OBVIOUS
    <2>1. /\ Len(frames) \in Nat /\ DOMAIN frames = 1 .. Len(frames) /\ DOMAIN chain = 1 .. Len(frames)
          /\ IsStack(chain)
      BY StackLen DEF HookInv, FramesOK, ChainOK
    <2>2. chain = [k \in DOMAIN frames |-> frames[k].name]
      <3>1. PICK S : chain \in Seq(S)
        BY <2>1 DEF IsStack
      <3>2. chain = [k \in DOMAIN chain |-> chain[k]]
        BY <3>1
      <3> QED  BY <2>1, <3>2 DEF HookInv, ChainOK
    <2>3. IsInjective(chain) /\ Len(chain) <= MAX_DISPATCH
      BY <2>1 DEF IsInjective, HookInv, ChainOK
    <2>4. /\ enabled = IF frames = <<>> THEN {} ELSE Innermost.features
          /\ depth = IF frames = <<>> THEN 0 ELSE Len(frames) - 1
      BY DEF HookInv, InnermostOK, Innermost, Last
    <2>5. /\ \A j, k \in DOMAIN frames : frames[j].owns /\ frames[k].owns => j = k
          /\ (session = "active") = (\E k \in DOMAIN frames : frames[k].owns)
      BY <2>1 DEF HookInv, OwnerOK
    <2> QED  BY <2>2, <2>3, <2>4, <2>5 DEF ContextOfInnermost
  <1> QED  BY HookInvInit, HookInvNext, <1>1, PTL DEF HookSpec

(***************************************************************************)
(* Codegen hooks.                                                          *)
(***************************************************************************)

\* How far each command has come in its hook.
ItemsStarted(stack) == \A k \in 1 .. Len(stack) : stack[k].item \in Nat \ {0}

TimesOK ==
  /\ project \in HookedProjects
  /\ mtime \in [CodegenFiles -> 0 .. MaxTime]

FilesInv == HookInv /\ ItemsStarted(frames) /\ TimesOK

\* Times are never beyond the clock, which a write sets to the next one.
LEMMA Clock ==
  ASSUME TimesOK
  PROVE  /\ Now \in 1 .. MaxTime + 1
         /\ \A f \in CodegenFiles : mtime[f] < Now
  <1> DEFINE After == {t \in 1 .. MaxTime + 1 : \A f \in CodegenFiles : mtime[f] < t}
  <1>1. /\ MaxTime \in Nat /\ DOMAIN mtime = CodegenFiles
        /\ \A f \in CodegenFiles : mtime[f] \in 0 .. MaxTime
    BY HookedProjectsAssumption DEF TimesOK
  <1>2. PICK t \in After : \A s \in After : s >= t
    <2>1. MaxTime + 1 \in After /\ After \subseteq Nat
      BY <1>1
    <2> HIDE DEF After
    <2>2. PICK t \in After : \A s \in After : ~(<<s, t>> \in OpToRel(<, Nat))
      BY <2>1, NatLessThanWellFounded, WFMin
    <2>3. \A s \in After : s >= t
      <3>1. SUFFICES ASSUME NEW s \in After, s < t
                     PROVE  FALSE
        BY <2>1
      <3>2. <<s, t>> \in OpToRel(<, Nat)
        BY <2>1, <3>1 DEF OpToRel
      <3> QED  BY <2>2, <3>2
    <2> QED  BY <2>3
  <1>3. t = 1 \/ \E f \in CodegenFiles : mtime[f] = t - 1
    <2>1. SUFFICES ASSUME t # 1
                   PROVE  \E f \in CodegenFiles : mtime[f] = t - 1
      OBVIOUS
    <2>2. t - 1 \in 1 .. MaxTime + 1 /\ t - 1 \notin After
      BY <1>1, <1>2, <2>1
    <2>3. PICK f \in CodegenFiles : ~(mtime[f] < t - 1)
      BY <2>2
    <2> QED  BY <1>1, <1>2, <2>2, <2>3
  <1> DEFINE IsNow(s) == /\ \A f \in DOMAIN mtime : mtime[f] < s
                         /\ s = 1 \/ \E f \in DOMAIN mtime : mtime[f] = s - 1
  <1>4. t \in 1 .. MaxTime + 1 /\ IsNow(t)
    BY <1>1, <1>2, <1>3
  <1>5. Now \in 1 .. MaxTime + 1 /\ IsNow(Now)
    BY <1>4 DEF Now
  <1> QED  BY <1>1, <1>5

LEMMA TimesWritten ==
  ASSUME TimesOK, Now <= MaxTime, NEW paths, Write(paths)
  PROVE  /\ mtime' \in [CodegenFiles -> 0 .. MaxTime]
         /\ \A f \in CodegenFiles : mtime'[f] <= Now
         /\ \A f \in paths \cap CodegenFiles : mtime'[f] = Now
  <1>1. MaxTime \in Nat /\ Now \in 0 .. MaxTime /\ Now \in Nat
    BY Clock, HookedProjectsAssumption
  <1>2. mtime' = [f \in CodegenFiles |-> IF f \in paths THEN Now ELSE mtime[f]]
    BY DEF Write, TimesOK
  <1>3. \A f \in CodegenFiles : mtime[f] \in 0 .. MaxTime /\ mtime[f] < Now
    BY Clock DEF TimesOK
  <1> HIDE DEF TimesOK
  <1>4. \A f \in CodegenFiles : mtime'[f] = IF f \in paths THEN Now ELSE mtime[f]
    BY <1>2
  <1> QED  BY <1>1, <1>2, <1>3, <1>4

LEMMA ReplacedStarted ==
  ASSUME NEW s, NEW f, IsStack(s), s # <<>>, ItemsStarted(s), f.item \in Nat \ {0}
  PROVE  ItemsStarted(Append(Front(s), f))
  <1>1. /\ Len(Append(Front(s), f)) = Len(s)
        /\ \A k \in 1 .. Len(s) : Append(Front(s), f)[k] = IF k = Len(s) THEN f ELSE s[k]
    BY Replaced
  <1> QED  BY <1>1 DEF ItemsStarted

LEMMA AfterItemStarted ==
  ASSUME NEW s, NEW how, IsStack(s), \A k \in 1 .. Len(s) : IsFrame(s[k]), ItemsStarted(s)
  PROVE  ItemsStarted(AfterItem(s, how))
  <1>1. CASE s = <<>>
    BY <1>1 DEF AfterItem
  <1>2. CASE s # <<>>
    <2> DEFINE top == Last(s)
    <2>1. IsFrame(top) /\ top.item \in Nat \ {0}
      BY <1>2, StackLen DEF Last, ItemsStarted
    <2>2. PICK f : /\ AfterItem(s, how) = Append(Front(s), f)
                   /\ \/ f = [top EXCEPT !.item = top.item + 1]
                      \/ f = [top EXCEPT !.failed = TRUE, !.events = <<"on-build-failure">>, !.item = 1]
                      \/ f = [top EXCEPT !.failed = TRUE, !.events = <<>>]
      BY <1>2 DEF AfterItem
    <2>3. f.item \in Nat \ {0}
      <3> HIDE DEF top
      <3>1. f.item \in {top.item, top.item + 1, 1}
        BY <2>1, <2>2 DEF IsFrame
      <3> QED  BY <2>1, <3>1
    <2> QED  BY <1>2, <2>2, <2>3, ReplacedStarted
  <1> QED  BY <1>1, <1>2

LEMMA PushStarted ==
  ASSUME NEW s, NEW f, IsStack(s), ItemsStarted(s), f.item \in Nat \ {0}
  PROVE  ItemsStarted(Append(s, f))
  <1>1. /\ Len(s) \in Nat /\ Len(Append(s, f)) = Len(s) + 1
        /\ \A k \in 1 .. Len(s) : Append(s, f)[k] = s[k]
        /\ Append(s, f)[Len(s) + 1] = f
    BY Pushed, StackLen
  <1> QED  BY <1>1 DEF ItemsStarted

LEMMA EmptyStarted == ItemsStarted(<<>>)
  BY Empty DEF ItemsStarted

LEMMA FilesInit == HookInit => FilesInv
  <1> SUFFICES ASSUME HookInit
               PROVE  FilesInv
    OBVIOUS
  <1>1. TimesOK
    BY HookedProjectsAssumption DEF HookInit, StartIn, TimesOK
  <1> QED  BY <1>1, HookInvInit, EmptyStarted DEF HookInit, StartIn, FilesInv

LEMMA EndItemStarted ==
  ASSUME FilesInv, NEW how, EndItem(how)
  PROVE  ItemsStarted(frames')
  <1>1. frames' = <<>> \/ frames' = AfterItem(frames, how)
    BY DEF EndItem, Terminate
  <1> QED  BY <1>1, EmptyStarted, AfterItemStarted DEF FilesInv, HookInv, FramesOK

LEMMA StartedStep == FilesInv /\ [HookNext]_hookVars => ItemsStarted(frames')
  <1> SUFFICES ASSUME FilesInv, [HookNext]_hookVars
               PROVE  ItemsStarted(frames')
    OBVIOUS
  <1>a. IsStack(frames) /\ ItemsStarted(frames) /\ \A k \in 1 .. Len(frames) : IsFrame(frames[k])
    BY DEF FilesInv, HookInv, FramesOK
  <1>b. \A request, events : Frame(request, events).item \in Nat \ {0}
    BY DEF Frame
  <1>1. CASE \E request \in project.requests : Invoke(request)
    <2>1. PICK request, events :
            frames' = << [Frame(request, events) EXCEPT !.previous = {}, !.owns = Explains(request)] >>
      BY <1>1 DEF Invoke
    <2> DEFINE g == Frame(request, events)
               owner == Explains(request)
               f == [g EXCEPT !.previous = {}, !.owns = owner]
    <2>2. IsFrame(g) /\ g.item = 1 /\ frames' = <<f>>
      BY <2>1 DEF Frame, IsFrame
    <2>3. f.item = 1
      <3> HIDE DEF g, owner
      <3> QED  BY <2>2 DEF IsFrame
    <2> HIDE DEF f
    <2>4. frames' = Append(<<>>, f)
      BY <2>2
    <2>5. ItemsStarted(Append(<<>>, f))
      <3>1. \A x : x.item = 1 => ItemsStarted(Append(<<>>, x))
        <4>1. SUFFICES ASSUME NEW x, x.item = 1
                       PROVE  ItemsStarted(Append(<<>>, x))
          OBVIOUS
        <4>2. IsStack(<<>>) /\ ItemsStarted(<<>>) /\ x.item \in Nat \ {0}
          BY <4>1, Empty, EmptyStarted
        <4> QED  BY <4>2, PushStarted
      <3> QED  BY <2>3, <3>1
    <2> QED  BY <2>4, <2>5
  <1>2. CASE \E how : EndItem(how)
    BY <1>2, EndItemStarted
  <1>3. CASE RunCatalyst
    <2>1. \/ \E how : EndItem(how)
          \/ \E how : frames' = AfterItem(frames, how)
          \/ \E request, events : frames' = Append(frames, Frame(request, events))
      BY <1>3 DEF RunCatalyst, Dispatch
    <2>2. CASE \E request, events : frames' = Append(frames, Frame(request, events))
      BY <1>a, <1>b, <2>2, PushStarted
    <2> QED  BY <1>a, <2>1, <2>2, EndItemStarted, AfterItemStarted
  <1>4. CASE NextEvent
    <2> DEFINE top == Last(frames)
               rest == Tail(top.events)
               f == [top EXCEPT !.events = rest, !.item = 1]
    <2>1. frames # <<>> /\ frames' = Append(Front(frames), f)
      BY <1>4 DEF NextEvent, Running, Innermost
    <2>2. IsFrame(top)
      BY <1>a, <2>1, StackLen DEF Last
    <2>3. f.item = 1
      <3> HIDE DEF top, rest
      <3> QED  BY <2>2 DEF IsFrame
    <2> HIDE DEF f
    <2>4. ItemsStarted(Append(Front(frames), f))
      BY <1>a, <2>1, <2>3, ReplacedStarted
    <2> QED  BY <2>1, <2>4
  <1>5. CASE Return
    <2>1. frames # <<>> /\ \E how : frames' = AfterItem(Front(frames), how)
      BY <1>5 DEF Return
    <2>2. /\ IsStack(Front(frames)) /\ ItemsStarted(Front(frames))
          /\ \A k \in 1 .. Len(Front(frames)) : IsFrame(Front(frames)[k])
      <3>1. /\ IsStack(Front(frames)) /\ Len(Front(frames)) = Len(frames) - 1 /\ Len(frames) \in Nat
            /\ \A k \in 1 .. Len(frames) - 1 : Front(frames)[k] = frames[k]
        BY <1>a, <2>1, Popped, StackLen
      <3>2. \A k \in 1 .. Len(frames) - 1 : k \in 1 .. Len(frames)
        BY <3>1
      <3> QED  BY <1>a, <3>1, <3>2 DEF ItemsStarted
    <2> QED  BY <2>1, <2>2, AfterItemStarted
  <1>6. CASE UNCHANGED frames
    BY <1>a, <1>6
  <1> QED
    BY <1>1, <1>2, <1>3, <1>4, <1>5, <1>6
       DEF HookNext, hookVars, RunExternal, Malformed, RejectCodegen, SkipCodegen, StartCodegen,
           EndCodegen, BodyFails, EditFile

\* The item of a codegen hook names files that have times.
LEMMA ItemFiles ==
  ASSUME FilesInv, AtItem("codegen")
  PROVE  IsCodegen(Item) /\ ToSet(Item.input) \cup ToSet(Item.output) \subseteq CodegenFiles
  <1>1. frames # <<>> /\ Innermost.item <= Len(Items) /\ Item.type = "codegen"
    BY DEF AtItem, Running
  <1>2. Innermost.item \in Nat \ {0}
    BY <1>1, StackLen DEF FilesInv, HookInv, FramesOK, ItemsStarted, Innermost, Last
  <1> DEFINE event == Head(Innermost.events)
  <1>3. event \in DOMAIN project.hooks /\ Items = project.hooks[event]
    <2>1. Items # <<>>
      BY <1>1, <1>2
    <2> QED  BY <2>1 DEF Items, ItemsOf
  <1>4. /\ Items \in Seq(ToSet(Items))
        /\ \A item \in ToSet(Items) : item.type = "codegen" => IsCodegen(item)
    BY <1>3, HookedProjectsAssumption DEF FilesInv, TimesOK
  <1>5. Item \in ToSet(Items)
    <2>1. Innermost.item \in DOMAIN Items
      BY <1>1, <1>2, <1>4
    <2> QED  BY <2>1 DEF Item, ToSet
  <1>6. IsCodegen(Item)
    BY <1>1, <1>4, <1>5
  <1>7. \A list \in Seq(CodegenFiles) : ToSet(list) \subseteq CodegenFiles
    BY DEF ToSet
  <1>8. Item.input \in Seq(CodegenFiles) /\ Item.output \in Seq(CodegenFiles)
    BY <1>6 DEF IsCodegen
  <1> QED  BY <1>6, <1>7, <1>8

LEMMA TimesStep == FilesInv /\ [HookNext]_hookVars => TimesOK'
  <1> SUFFICES ASSUME FilesInv, [HookNext]_hookVars
               PROVE  TimesOK'
    OBVIOUS
  <1>a. TimesOK
    BY DEF FilesInv
  <1>1. CASE UNCHANGED <<project, mtime>>
    BY <1>a, <1>1 DEF TimesOK
  <1>2. CASE EndCodegen
    <2>1. project' = project /\ Now <= MaxTime /\ \E paths : Write(paths)
      BY <1>2 DEF EndCodegen, outside
    <2> QED  BY <1>a, <2>1, TimesWritten DEF TimesOK
  <1>3. CASE EditFile
    <2>1. project' = project /\ Now <= MaxTime
      BY <1>3 DEF EditFile, outside
    <2>2. CASE \E paths : Write(paths)
      BY <1>a, <2>1, <2>2, TimesWritten DEF TimesOK
    <2>3. CASE \E f \in DOMAIN mtime : mtime' = [mtime EXCEPT ![f] = 0]
      <3>1. 0 \in 0 .. MaxTime
        BY HookedProjectsAssumption
      <3> QED  BY <1>a, <2>1, <2>3, <3>1 DEF TimesOK
    <2> QED  BY <1>3, <2>2, <2>3 DEF EditFile
  <1> QED
    BY <1>1, <1>2, <1>3
       DEF HookNext, hookVars, fileVars, outside, Invoke, RunExternal, RunCatalyst, Malformed,
           RejectCodegen, SkipCodegen, StartCodegen, NextEvent, BodyFails, Return

\* What is behind a change that was made before a command wrote it is older.
BehindInv ==
  \A i, o \in CodegenFiles :
    <<i, o>> \in behind /\ <<i, o>> \notin raced => mtime[i] = 0 \/ mtime[o] = 0 \/ mtime[i] > mtime[o]

LEMMA BehindInit == HookInit => BehindInv
  BY DEF HookInit, StartIn, BehindInv

LEMMA BehindChanged ==
  ASSUME FilesInv, BehindInv, NEW paths \in SUBSET CodegenFiles, NEW unseen, Changed(paths, unseen),
         mtime' \in [CodegenFiles -> Nat],
         \A f \in CodegenFiles \ paths : mtime'[f] = mtime[f],
         \A f \in paths : mtime'[f] = 0 \/ \A g \in CodegenFiles : mtime[g] < mtime'[f]
  PROVE  BehindInv'
  <1>1. SUFFICES ASSUME NEW i \in CodegenFiles, NEW o \in CodegenFiles,
                        <<i, o>> \in behind', <<i, o>> \notin raced'
                 PROVE  mtime'[i] = 0 \/ mtime'[o] = 0 \/ mtime'[i] > mtime'[o]
    BY DEF BehindInv
  <1>2. <<i, o>> \notin unseen \X paths
    BY <1>1 DEF Changed
  <1>3. o \notin paths
    BY <1>1, <1>2 DEF Changed
  <1>4. CASE i \in paths
    BY <1>3, <1>4
  <1>5. CASE i \notin paths
    <2>1. <<i, o>> \in behind
      BY <1>1, <1>2, <1>5 DEF Changed
    <2>2. <<i, o>> \notin raced
      <3>1. {<<i, o>>[1], <<i, o>>[2]} \cap paths = {}
        BY <1>3, <1>5
      <3> QED  BY <1>1, <3>1 DEF Changed
    <2> QED  BY <1>3, <1>5, <2>1, <2>2 DEF BehindInv
  <1> QED  BY <1>4, <1>5

LEMMA BehindStep == FilesInv /\ BehindInv /\ [HookNext]_hookVars => BehindInv'
  <1> SUFFICES ASSUME FilesInv, BehindInv, [HookNext]_hookVars
               PROVE  BehindInv'
    OBVIOUS
  <1>a. TimesOK /\ MaxTime \in Nat
    BY HookedProjectsAssumption DEF FilesInv
  <1>b. ASSUME NEW paths \in SUBSET CodegenFiles, Write(paths), Now <= MaxTime
        PROVE  /\ mtime' \in [CodegenFiles -> Nat]
               /\ \A f \in CodegenFiles \ paths : mtime'[f] = mtime[f]
               /\ \A f \in paths, g \in CodegenFiles : mtime[g] < mtime'[f]
    <2>1. mtime' \in [CodegenFiles -> 0 .. MaxTime] /\ \A f \in paths : mtime'[f] = Now
      BY <1>a, <1>b, TimesWritten
    <2>2. \A f \in CodegenFiles \ paths : mtime'[f] = mtime[f]
      BY <1>a, <1>b DEF Write, TimesOK
    <2> QED  BY <1>a, <2>1, <2>2, Clock DEF TimesOK
  <1>1. CASE EndCodegen
    <2>1. PICK paths \in SUBSET ToSet(Item.output) : Write(paths) /\ Changed(paths, edited)
      BY <1>1 DEF EndCodegen
    <2>2. paths \in SUBSET CodegenFiles /\ Now <= MaxTime
      BY <1>1, <2>1, ItemFiles DEF EndCodegen, AcceptedCodegen
    <2> QED  BY <1>b, <2>1, <2>2, BehindChanged
  <1>2. CASE EditFile
    <2>1. PICK f \in DOMAIN mtime : /\ Write({f}) \/ mtime' = [mtime EXCEPT ![f] = 0]
                                   /\ Changed({f}, {})
      BY <1>2 DEF EditFile
    <2>2. {f} \in SUBSET CodegenFiles /\ Now <= MaxTime
      BY <1>a, <1>2, <2>1 DEF TimesOK, EditFile
    <2>3. CASE Write({f})
      BY <1>b, <2>1, <2>2, <2>3, BehindChanged
    <2>4. CASE mtime' = [mtime EXCEPT ![f] = 0]
      <3>1. /\ mtime' \in [CodegenFiles -> Nat] /\ mtime'[f] = 0
            /\ \A g \in CodegenFiles \ {f} : mtime'[g] = mtime[g]
        BY <1>a, <2>2, <2>4 DEF TimesOK
      <3> QED  BY <2>1, <2>2, <3>1, BehindChanged
    <2> QED  BY <2>1, <2>3, <2>4
  <1>3. CASE UNCHANGED <<mtime, behind, raced>>
    BY <1>3 DEF BehindInv
  <1> QED
    BY <1>1, <1>2, <1>3
       DEF HookNext, hookVars, fileVars, history, Invoke, RunExternal, RunCatalyst, Malformed,
           RejectCodegen, SkipCodegen, StartCodegen, NextEvent, BodyFails, Return

LEMMA SkipStep ==
  ASSUME FilesInv, BehindInv, [HookNext]_hookVars, codegen' # codegen, codegen'.outcome = "skipped"
  PROVE  \A i \in ToSet(codegen'.item.input), o \in ToSet(codegen'.item.output) :
           <<i, o>> \in behind => <<i, o>> \in raced
  <1>1. SkipCodegen
    <2>1. ~RejectCodegen /\ ~StartCodegen /\ ~EndCodegen
      BY DEF RejectCodegen, StartCodegen, EndCodegen, Codegen
    <2>2. ~\E request \in project.requests : Invoke(request)
      <3>1. NoCodegen.outcome = "none"
        BY DEF NoCodegen
      <3> QED  BY <3>1 DEF Invoke
    <2> QED
      BY <2>1, <2>2
         DEF HookNext, hookVars, RunExternal, RunCatalyst, Malformed, NextEvent, BodyFails, Return,
             EditFile
  <1>2. codegen'.item = Item /\ ~Stale(Item) /\ AtItem("codegen")
    BY <1>1 DEF SkipCodegen, AcceptedCodegen, Codegen
  <1>3. /\ ToSet(Item.input) \cup ToSet(Item.output) \subseteq CodegenFiles
        /\ mtime \in [CodegenFiles -> Nat]
    BY <1>2, ItemFiles, HookedProjectsAssumption DEF FilesInv, TimesOK
  <1>4. \A i \in ToSet(Item.input), o \in ToSet(Item.output) :
          mtime[i] > 0 /\ mtime[o] > 0 /\ ~(mtime[i] > mtime[o])
    BY <1>2 DEF Stale, Exists
  <1> QED  BY <1>2, <1>3, <1>4 DEF BehindInv

\* Whatever hooks, commands, edits, removals, failures and partial successes came
\* before it: a codegen command is skipped only when each of its outputs was written
\* after the last change of each of its inputs, or during it.
THEOREM SkippedCodeIsCurrent == HookSpec => SkippedIsCurrent
  <1> DEFINE SkipStepOK == codegen' # codegen /\ codegen'.outcome = "skipped" =>
        \A i \in ToSet(codegen'.item.input), o \in ToSet(codegen'.item.output) :
          <<i, o>> \in behind => <<i, o>> \in raced
  <1>1. FilesInv /\ [HookNext]_hookVars => FilesInv'
    BY HookInvNext, StartedStep, TimesStep DEF FilesInv
  <1>2. FilesInv /\ BehindInv /\ [HookNext]_hookVars => SkipStepOK
    BY SkipStep
  <1> QED  BY <1>1, <1>2, FilesInit, BehindInit, BehindStep, PTL DEF HookSpec, SkippedIsCurrent

(***************************************************************************)
(* Slices.                                                                 *)
(***************************************************************************)

\* Numbers below a number that a set of numbers has no gaps below.
LEMMA Prefix ==
  ASSUME NEW n \in Nat, NEW S \in SUBSET (0 .. n),
         \A i \in S : \A j \in 0 .. n : j < i => j \in S
  PROVE  Cardinality(S) \in Nat /\ S = 0 .. Cardinality(S) - 1
  <1> DEFINE Outside == {i \in 0 .. n + 1 : i \notin S}
  <1>1. PICK m \in Outside : \A i \in Outside : i >= m
    <2>1. n + 1 \in Outside /\ Outside \subseteq Nat
      OBVIOUS
    <2> HIDE DEF Outside
    <2>2. PICK m \in Outside : \A i \in Outside : ~(<<i, m>> \in OpToRel(<, Nat))
      BY <2>1, NatLessThanWellFounded, WFMin
    <2>3. \A i \in Outside : i >= m
      <3>1. SUFFICES ASSUME NEW i \in Outside, i < m
                     PROVE  FALSE
        BY <2>1
      <3>2. <<i, m>> \in OpToRel(<, Nat)
        BY <2>1, <3>1 DEF OpToRel
      <3> QED  BY <2>2, <3>2
    <2> QED  BY <2>3
  <1>2. S = 0 .. m - 1
    <2>1. \A i \in 0 .. m - 1 : i \in S
      BY <1>1
    <2>2. \A i \in S : i < m
      BY <1>1
    <2>3. \A i \in S : i \in 0 .. m - 1
      BY <2>2
    <2> HIDE DEF Outside
    <2> QED  BY <2>1, <2>3
  <1>3. Cardinality(0 .. m - 1) = m
    BY FS_Interval
  <1> QED  BY <1>2, <1>3

LEMMA Multiples ==
  ASSUME NEW i \in Int, NEW j \in Int, NEW s \in Nat \ {0}
  PROVE  /\ i * s \in Int
         /\ i < j <=> i * s < j * s
         /\ i < j => i * s + s <= j * s
         /\ i = j <=> i * s = j * s
         /\ i >= 0 => i * s >= i
  OBVIOUS

LEMMA Remainder ==
  ASSUME NEW d \in Nat, NEW s \in Nat \ {0}
  PROVE  d % s = 0 <=> \E q \in Nat : d = q * s
  <1> DEFINE p == d \div s
             r == d % s
  <1>1. p \in Nat /\ r \in 0 .. s - 1 /\ d = s * p + r
    OBVIOUS
  <1> HIDE DEF p, r
  <1>2. d = p * s + r
    BY <1>1
  <1>3. ASSUME NEW q \in Nat, d = q * s
        PROVE  r = 0
    <2>1. CASE p < q
      <3>1. p * s + s <= q * s
        BY <1>1, <2>1, Multiples
      <3> QED  BY <1>1, <1>2, <1>3, <3>1
    <2>2. CASE q < p
      <3>1. q * s + s <= p * s
        BY <1>1, <2>2, Multiples
      <3> QED  BY <1>1, <1>2, <1>3, <3>1
    <2>3. CASE p = q
      BY <1>1, <1>2, <1>3, <2>3
    <2> QED  BY <1>1, <2>1, <2>2, <2>3
  <1>4. r = 0 => \E q \in Nat : d = q * s
    BY <1>1, <1>2
  <1>5. r = d % s
    BY DEF r
  <1> QED  BY <1>3, <1>4, <1>5

\* Distances from the first element: what is walked over in steps of s, the width w of
\* the slice being at most the length n of the list.
Stride(n, s) == IF s > n + 1 THEN n + 1 ELSE s
Walked(n, w, s) == {k \in 0 .. n : k * Stride(n, s) < w}

LEMMA Walk ==
  ASSUME NEW n \in Nat, NEW w \in Int, w <= n, NEW s \in Nat \ {0}
  PROVE  /\ Cardinality(Walked(n, w, s)) \in Nat
         /\ Walked(n, w, s) = 0 .. Cardinality(Walked(n, w, s)) - 1
         /\ {d \in Nat : d < w /\ d % s = 0} = {k * Stride(n, s) : k \in Walked(n, w, s)}
  <1> DEFINE c == IF s > n + 1 THEN n + 1 ELSE s
             P == {k \in 0 .. n : k * c < w}
  <1>a. c = Stride(n, s) /\ P = Walked(n, w, s)
    BY DEF Stride, Walked
  <1>1. c \in Nat \ {0} /\ P \in SUBSET (0 .. n)
    OBVIOUS
  <1>2. \A i \in P : \A j \in 0 .. n : j < i => j \in P
    BY <1>1, Multiples
  <1>3. Cardinality(P) \in Nat /\ P = 0 .. Cardinality(P) - 1
    BY <1>1, <1>2, Prefix
  <1>4. ASSUME NEW k \in P
        PROVE  k * c \in Nat /\ k * c < w /\ (k * c) % s = 0
    <2>1. k \in Nat /\ k * c \in Nat /\ k * c < w
      BY <1>1, Multiples
    <2>2. CASE s > n + 1
      <3>1. k = 0
        <4>1. SUFFICES ASSUME k > 0
                       PROVE  FALSE
          BY <2>1
        <4>2. 0 * c + c <= k * c
          BY <1>1, <2>1, <4>1, Multiples
        <4> QED  BY <1>1, <2>1, <2>2, <4>2
      <3> QED  BY <1>1, <2>1, <3>1
    <2>3. CASE ~(s > n + 1)
      BY <2>1, <2>3, Remainder
    <2> QED  BY <2>1, <2>2, <2>3
  <1>5. ASSUME NEW d \in Nat, d < w, d % s = 0
        PROVE  \E k \in P : d = k * c
    <2>1. PICK q \in Nat : d = q * s
      BY <1>5, Remainder
    <2>2. CASE s > n + 1
      <3>1. q = 0
        <4>1. SUFFICES ASSUME q > 0
                       PROVE  FALSE
          BY <2>1
        <4>2. 0 * s + s <= q * s
          BY <4>1, Multiples
        <4> QED  BY <1>5, <2>1, <2>2, <4>2
      <3>2. d = 0 /\ 0 * c = 0 /\ 0 \in P
        BY <1>1, <1>5, <2>1, <3>1
      <3> QED  BY <3>2
    <2>3. CASE ~(s > n + 1)
      <3>1. q <= d
        BY <2>1, Multiples
      <3> QED  BY <1>5, <2>1, <2>3, <3>1
    <2> QED  BY <2>2, <2>3
  <1>6. {d \in Nat : d < w /\ d % s = 0} = {k * c : k \in P}
    <2> DEFINE D == {d \in Nat : d < w /\ d % s = 0}
               K == {k * c : k \in P}
    <2>1. \A d \in D : d \in K
      BY <1>5
    <2>2. \A d \in K : d \in D
      BY <1>4
    <2> QED  BY <2>1, <2>2
  <1> HIDE DEF c, P
  <1> QED  BY <1>a, <1>3, <1>6

ValuesOf(g, m) == {g[i] : i \in 0 .. m - 1}

InOrder(g, m, step) ==
  \A i, j \in 0 .. m - 1 : i < j <=> IF step > 0 THEN g[i] < g[j] ELSE g[i] > g[j]

LEMMA Ranked ==
  ASSUME NEW step \in Int, NEW m \in Nat, NEW g \in [0 .. m - 1 -> Int], InOrder(g, m, step)
  PROVE  /\ Cardinality(ValuesOf(g, m)) = m
         /\ \A k \in 1 .. m : AtRank(ValuesOf(g, m), step, k) = g[k - 1]
  <1> DEFINE S == {g[i] : i \in 0 .. m - 1}
  <1> DEFINE Before(x) == {y \in S : IF step > 0 THEN y < x ELSE y > x}
  <1>1. \A i, j \in 0 .. m - 1 : g[i] = g[j] => i = j
    BY DEF InOrder
  <1>2. ASSUME NEW j \in 0 .. m, NEW T, T = {g[i] : i \in 0 .. j - 1}
        PROVE  Cardinality(T) = j
    <2>1. IsFiniteSet(0 .. j - 1) /\ Cardinality(0 .. j - 1) = j
      <3>1. 0 \in Int /\ j - 1 \in Int /\ j >= 0
        OBVIOUS
      <3> QED
        <4>1. /\ IsFiniteSet(0 .. j - 1)
              /\ Cardinality(0 .. j - 1) = IF 0 > j - 1 THEN 0 ELSE j - 1 - 0 + 1
          BY <3>1, FS_Interval, Zenon
        <4> QED  BY <3>1, <4>1
    <2> DEFINE h == [i \in 0 .. j - 1 |-> g[i]]
    <2>2. h \in Bijection(0 .. j - 1, T)
      <3>1. h \in Injection(0 .. j - 1, T)
        BY <1>1, <1>2 DEF Injection, IsInjective
      <3>2. h \in Surjection(0 .. j - 1, T)
        BY <1>2 DEF Surjection
      <3> QED  BY <3>1, <3>2 DEF Bijection
    <2> HIDE DEF h
    <2> QED  BY <2>1, <2>2, FS_Bijection DEF ExistsBijection
  <1>3. Cardinality(S) = m
    BY <1>2
  <1>4. ASSUME NEW j \in 0 .. m - 1
        PROVE  Cardinality(Before(g[j])) = j
    <2>1. Before(g[j]) = {g[i] : i \in 0 .. j - 1}
      <3>1. \A x \in Before(g[j]) : \E i \in 0 .. j - 1 : x = g[i]
        BY DEF InOrder
      <3>2. \A i \in 0 .. j - 1 : g[i] \in Before(g[j])
        BY DEF InOrder
      <3> QED  BY <3>1, <3>2
    <2>2. j \in 0 .. m
      OBVIOUS
    <2> HIDE DEF Before
    <2>3. \A T : T = {g[i] : i \in 0 .. j - 1} => Cardinality(T) = j
      BY <1>2, <2>2
    <2> QED  BY <2>1, <2>3
  <1>5. ASSUME NEW k \in 1 .. m
        PROVE  (CHOOSE x \in S : Cardinality(Before(x)) = k - 1) = g[k - 1]
    <2>1. g[k - 1] \in S /\ Cardinality(Before(g[k - 1])) = k - 1
      BY <1>4
    <2>2. \A x \in S : Cardinality(Before(x)) = k - 1 => x = g[k - 1]
      <3> HIDE DEF Before
      <3> QED  BY <1>4
    <2> HIDE DEF Before
    <2> QED  BY <2>1, <2>2
  <1> QED  BY <1>3, <1>5 DEF AtRank, Preceding, ValuesOf

\* A bound that is written is moved into the list, and the elements of the list are on
\* the same side of it as before.
LEMMA Bounds ==
  ASSUME NEW X, NEW list \in Seq(X), NEW given \in Int \cup {Absent}, NEW missing \in Int,
         NEW step \in Int \ {0}, missing \in Lowest(step) .. Highest(list, step)
  PROVE  LET b == Bound(list, given, missing, step) IN
         /\ b \in Lowest(step) .. Highest(list, step)
         /\ given = Absent => b = missing
         /\ given # Absent =>
              /\ FromEnd(list, given) \in Int
              /\ \A x \in 0 .. Len(list) - 1 :
                   /\ step > 0 => (x >= FromEnd(list, given) <=> x >= b)
                   /\ step < 0 => (x <= FromEnd(list, given) <=> x <= b)
                   /\ step > 0 => (x < FromEnd(list, given) <=> x < b)
                   /\ step < 0 => (x > FromEnd(list, given) <=> x > b)
  <1> DEFINE b == Bound(list, given, missing, step)
             i == FromEnd(list, given)
             n == Len(list)
  <1>1. n \in Nat
    OBVIOUS
  <1>2. /\ step > 0 => Lowest(step) = 0 /\ Highest(list, step) = n
        /\ step < 0 => Lowest(step) = -1 /\ Highest(list, step) = n - 1
    BY DEF Lowest, Highest
  <1>3. CASE given = Absent
    BY <1>3 DEF Bound
  <1>4. CASE given # Absent
    <2>1. i \in Int
      BY <1>1, <1>4 DEF FromEnd
    <2>2. b = IF i < Lowest(step) THEN Lowest(step)
              ELSE IF i > Highest(list, step) THEN Highest(list, step) ELSE i
      BY <1>4 DEF Bound
    <2> HIDE DEF b, i, n
    <2>5. /\ b \in Lowest(step) .. Highest(list, step)
          /\ \A x \in 0 .. Len(list) - 1 :
                   /\ step > 0 => (x >= i <=> x >= b)
                   /\ step < 0 => (x <= i <=> x <= b)
                   /\ step > 0 => (x < i <=> x < b)
                   /\ step < 0 => (x > i <=> x > b)
      <3>1. CASE step > 0
        BY <1>1, <1>2, <2>1, <2>2, <3>1 DEF n
      <3>2. CASE step < 0
        BY <1>1, <1>2, <2>1, <2>2, <3>2 DEF n
      <3> QED  BY <3>1, <3>2
    <2> QED  BY <1>4, <2>1, <2>5 DEF b, i
  <1> QED  BY <1>3, <1>4

LEMMA BoundInside ==
  ASSUME NEW X, NEW list \in Seq(X), NEW given \in Int \cup {Absent}, NEW missing \in Int,
         NEW step \in Int \ {0}, missing \in Lowest(step) .. Highest(list, step)
  PROVE  Bound(list, given, missing, step) \in Lowest(step) .. Highest(list, step)
  BY Bounds

IsSlice(ref) == ref.step \in Int \ {0} /\ ref.start \in Int \cup {Absent} /\ ref.stop \in Int \cup {Absent}

\* The code walks from one bound to the other with a step that is capped; the
\* documentation selects elements.
LEMMA SliceSelects ==
  ASSUME NEW X, NEW list \in Seq(X), NEW ref, IsSlice(ref), Absent \notin Int
  PROVE  Slice(list, ref) = Selected(list, ref)
  <1> DEFINE n == Len(list)
             step == ref.step
             s == IF step > 0 THEN step ELSE -step
             c == Stride(n, s)
             a == Bound(list, ref.start, Whole(list, step)[1], step)
             z == Bound(list, ref.stop, Whole(list, step)[2], step)
             w == IF step > 0 THEN z - a ELSE a - z
             cap == Capped(list, step)
             P == Walked(n, w, s)
             m == Cardinality(P)
             place(k) == a + k * cap
             from == {x \in 0 .. n - 1 : \/ ref.start = Absent
                                         \/ IF step > 0 THEN x >= FromEnd(list, ref.start)
                                                        ELSE x <= FromEnd(list, ref.start)}
             origin == CHOOSE x \in from : \A y \in from : IF step > 0 THEN x <= y ELSE x >= y
             chosen == {x \in from : /\ \/ ref.stop = Absent
                                        \/ IF step > 0 THEN x < FromEnd(list, ref.stop)
                                                       ELSE x > FromEnd(list, ref.stop)
                                     /\ (IF x > origin THEN x - origin ELSE origin - x) % s = 0}
             g == [k \in 0 .. m - 1 |-> place(k)]
  <1>1. n \in Nat /\ step \in Int \ {0} /\ s \in Nat \ {0} /\ c \in Nat \ {0}
    BY DEF IsSlice, Stride
  <1>2. cap = IF step > 0 THEN c ELSE -c
    BY <1>1 DEF Capped, Stride
  <1>3. /\ Whole(list, step)[1] \in Int /\ Whole(list, step)[2] \in Int
        /\ Whole(list, step)[1] \in Lowest(step) .. Highest(list, step)
        /\ Whole(list, step)[2] \in Lowest(step) .. Highest(list, step)
        /\ step > 0 => /\ Lowest(step) = 0 /\ Highest(list, step) = n
                       /\ Whole(list, step)[1] = 0 /\ Whole(list, step)[2] = n
        /\ step < 0 => /\ Lowest(step) = -1 /\ Highest(list, step) = n - 1
                       /\ Whole(list, step)[1] = n - 1 /\ Whole(list, step)[2] = -1
    BY <1>1 DEF Whole, Lowest, Highest
  <1> HIDE DEF s, c, cap
  <1>4. /\ a \in Lowest(step) .. Highest(list, step)
        /\ z \in Lowest(step) .. Highest(list, step)
    <2>1. ref.start \in Int \cup {Absent} /\ ref.stop \in Int \cup {Absent}
      BY DEF IsSlice
    <2>2. /\ Whole(list, step)[1] \in Int /\ Whole(list, step)[2] \in Int
          /\ Whole(list, step)[1] \in Lowest(step) .. Highest(list, step)
          /\ Whole(list, step)[2] \in Lowest(step) .. Highest(list, step)
      BY <1>3
    <2>3. ASSUME NEW given \in Int \cup {Absent},
                 NEW missing \in Int, missing \in Lowest(step) .. Highest(list, step)
          PROVE  Bound(list, given, missing, step) \in Lowest(step) .. Highest(list, step)
      <3> HIDE DEF step
      <3> QED  BY <1>1, <2>3, BoundInside
    <2> QED  BY <2>1, <2>2, <2>3
  <1>5. from = {x \in 0 .. n - 1 : IF step > 0 THEN x >= a ELSE x <= a}
    <2>1. CASE ref.start = Absent
      <3>1. a = Whole(list, step)[1]
        BY <2>1 DEF Bound
      <3> HIDE DEF a
      <3> QED  BY <1>1, <1>3, <2>1, <3>1
    <2>2. CASE ref.start # Absent
      <3>1. \A x \in 0 .. n - 1 :
              /\ step > 0 => (x >= FromEnd(list, ref.start) <=> x >= a)
              /\ step < 0 => (x <= FromEnd(list, ref.start) <=> x <= a)
        BY <1>1, <1>3, <2>2, Bounds DEF IsSlice
      <3> HIDE DEF a, n
      <3> QED  BY <1>1, <2>2, <3>1
    <2> QED  BY <2>1, <2>2
  <1>6. \A x \in 0 .. n - 1 :
          (\/ ref.stop = Absent
           \/ IF step > 0 THEN x < FromEnd(list, ref.stop) ELSE x > FromEnd(list, ref.stop))
          <=> IF step > 0 THEN x < z ELSE x > z
    <2>1. CASE ref.stop = Absent
      <3>1. z = Whole(list, step)[2]
        BY <2>1 DEF Bound
      <3> HIDE DEF z
      <3> QED  BY <1>1, <1>3, <2>1, <3>1
    <2>2. CASE ref.stop # Absent
      <3>1. \A x \in 0 .. n - 1 :
              /\ step > 0 => (x < FromEnd(list, ref.stop) <=> x < z)
              /\ step < 0 => (x > FromEnd(list, ref.stop) <=> x > z)
        BY <1>1, <1>3, <2>2, Bounds DEF IsSlice
      <3> HIDE DEF z, n
      <3> QED  BY <1>1, <2>2, <3>1
    <2> QED  BY <2>1, <2>2
  <1>7. /\ a \in Int /\ z \in Int /\ w \in Int /\ w <= n
        /\ step > 0 => a \in 0 .. n /\ z \in 0 .. n
        /\ step < 0 => a \in -1 .. n - 1 /\ z \in -1 .. n - 1
    BY <1>1, <1>3, <1>4
  <1>8. Slice(list, ref) =
          [k \in 1 .. Cardinality({k \in 0 .. n : IF cap > 0 THEN place(k) < z ELSE place(k) > z}) |->
             list[place(k - 1) + 1]]
    BY DEF Slice, cap
  <1>9. Selected(list, ref) =
          [k \in 1 .. Cardinality(chosen) |-> list[AtRank(chosen, step, k) + 1]]
    <2>1. chosen = Taken(list, ref)
      BY DEF Taken, s
    <2> HIDE DEF chosen
    <2> QED  BY <2>1 DEF Selected
  <1> HIDE DEF a, z
  <1>10. {k \in 0 .. n : IF cap > 0 THEN place(k) < z ELSE place(k) > z} = P
    <2>1. \A k \in 0 .. n : (IF cap > 0 THEN place(k) < z ELSE place(k) > z) <=> k * c < w
      <3>1. SUFFICES ASSUME NEW k \in 0 .. n
                     PROVE  (IF cap > 0 THEN place(k) < z ELSE place(k) > z) <=> k * c < w
        OBVIOUS
      <3>2. k * c \in Int /\ k * (-c) = -(k * c)
        BY <1>1
      <3> QED  BY <1>1, <1>2, <1>7, <3>2
    <2>2. P = {k \in 0 .. n : k * c < w}
      BY DEF Walked, c
    <2> HIDE DEF place, w, P
    <2> QED  BY <2>1, <2>2
  <1>11. /\ m \in Nat /\ P = 0 .. m - 1
         /\ {d \in Nat : d < w /\ d % s = 0} = {k * c : k \in P}
    <2>1. n \in Nat /\ w \in Int /\ w <= n /\ s \in Nat \ {0}
      BY <1>1, <1>7
    <2> HIDE DEF n, w
    <2> QED  BY <2>1, Walk DEF c
  <1>12. from # {} => origin = a /\ a \in from
    <2>1. SUFFICES ASSUME from # {}
                   PROVE  origin = a /\ a \in from
      OBVIOUS
    <2>2. a \in from
      BY <1>1, <1>5, <1>7, <2>1
    <2>3. \A x \in from : (\A y \in from : IF step > 0 THEN x <= y ELSE x >= y) <=> x = a
      <3>1. \A x \in from : x \in Int /\ IF step > 0 THEN x >= a ELSE x <= a
        BY <1>1, <1>5
      <3> HIDE DEF from
      <3>2. CASE step > 0
        BY <1>7, <2>2, <3>1, <3>2
      <3>3. CASE ~(step > 0)
        BY <1>7, <2>2, <3>1, <3>3
      <3> QED  BY <3>2, <3>3
    <2> HIDE DEF from
    <2> QED  BY <2>2, <2>3
  <1>13. \A k \in 0 .. m - 1 : place(k) \in chosen
    <2>1. SUFFICES ASSUME NEW k \in 0 .. m - 1
                   PROVE  place(k) \in chosen
      OBVIOUS
    <2> DEFINE d == k * c
    <2>2. d \in Nat /\ d < w /\ d % s = 0
      BY <1>11, <2>1
    <2>3. place(k) = IF step > 0 THEN a + d ELSE a - d
      <3>1. k * c \in Int /\ k * (-c) = -(k * c)
        BY <1>1, <1>11
      <3> QED  BY <1>1, <1>2, <1>7, <3>1
    <2> HIDE DEF d, place
    <2>4. /\ place(k) \in from /\ IF step > 0 THEN place(k) < z ELSE place(k) > z
      BY <1>1, <1>5, <1>7, <2>2, <2>3
    <2>5. origin = a
      BY <1>12, <2>4
    <2>6. (IF place(k) > origin THEN place(k) - origin ELSE origin - place(k)) = d
      <3> HIDE DEF origin
      <3> QED  BY <1>1, <1>7, <2>2, <2>3, <2>5
    <2>7. place(k) \in 0 .. n - 1
      BY <2>4
    <2> HIDE DEF from, origin
    <2> QED  BY <1>6, <2>2, <2>4, <2>6, <2>7
  <1>14. \A x \in chosen : \E k \in 0 .. m - 1 : x = place(k)
    <2>1. SUFFICES ASSUME NEW x \in chosen
                   PROVE  \E k \in 0 .. m - 1 : x = place(k)
      OBVIOUS
    <2> DEFINE d == IF x > a THEN x - a ELSE a - x
    <2>2. x \in from /\ x \in 0 .. n - 1 /\ origin = a
      BY <1>12, <2>1
    <2>3. (IF step > 0 THEN x < z ELSE x > z) /\ d % s = 0
      <3> HIDE DEF from, origin
      <3> QED  BY <1>6, <2>1, <2>2
    <2>4. d \in Nat /\ d < w /\ x = IF step > 0 THEN a + d ELSE a - d
      <3>1. IF step > 0 THEN x >= a ELSE x <= a
        BY <1>5, <2>2
      <3> HIDE DEF from, origin
      <3> QED  BY <1>1, <1>7, <2>2, <2>3, <3>1
    <2> HIDE DEF d
    <2>5. PICK k \in P : d = k * c
      BY <1>11, <2>3, <2>4
    <2>6. place(k) = IF step > 0 THEN a + k * c ELSE a - k * c
      <3>1. k * c \in Int /\ k * (-c) = -(k * c)
        BY <1>1, <1>11
      <3> QED  BY <1>1, <1>2, <1>7, <3>1
    <2> QED  BY <1>11, <2>4, <2>5, <2>6
  <1>15. chosen = {g[k] : k \in 0 .. m - 1}
    <2> HIDE DEF chosen, place, m
    <2> QED  BY <1>13, <1>14
  <1>16. /\ g \in [0 .. m - 1 -> Int]
         /\ \A i, j \in 0 .. m - 1 : i < j <=> IF step > 0 THEN g[i] < g[j] ELSE g[i] > g[j]
    <2>1. \A k \in 0 .. m - 1 : place(k) = IF step > 0 THEN a + k * c ELSE a - k * c
      <3>1. \A k \in 0 .. m - 1 : k * c \in Int /\ k * (-c) = -(k * c)
        BY <1>1, <1>11
      <3> QED  BY <1>1, <1>2, <1>7, <3>1
    <2>2. \A k \in 0 .. m - 1 : k * c \in Int /\ place(k) \in Int
      BY <1>1, <1>7, <1>11, <2>1
    <2>3. \A i, j \in 0 .. m - 1 : i < j <=> i * c < j * c
      <3>1. m \in Nat
        BY <1>11
      <3> HIDE DEF m
      <3> QED  BY <1>1, <3>1, Multiples
    <2> HIDE DEF place, m
    <2> QED  BY <1>7, <2>1, <2>2, <2>3
  <1>17. /\ Cardinality(chosen) = m
         /\ \A k \in 1 .. m : AtRank(chosen, step, k) = g[k - 1]
    <2>1. step \in Int
      BY <1>1
    <2>2. InOrder(g, m, step)
      BY <1>16 DEF InOrder
    <2>3. m \in Nat /\ g \in [0 .. m - 1 -> Int] /\ chosen = ValuesOf(g, m)
      BY <1>11, <1>15, <1>16 DEF ValuesOf
    <2> HIDE DEF chosen, g, m, step
    <2> QED  BY <2>1, <2>2, <2>3, Ranked
  <1>18. Slice(list, ref) = [k \in 1 .. m |-> list[g[k - 1] + 1]]
    <2>1. \A k \in 1 .. m : g[k - 1] = place(k - 1)
      BY <1>11
    <2> HIDE DEF place, g, m
    <2>2. Slice(list, ref) = [k \in 1 .. Cardinality(P) |-> list[place(k - 1) + 1]]
      BY <1>8, <1>10
    <2> QED  BY <2>1, <2>2 DEF m
  <1>19. Selected(list, ref) = [k \in 1 .. m |-> list[g[k - 1] + 1]]
    <2> HIDE DEF chosen, g, m, step
    <2> QED  BY <1>9, <1>17
  <1> QED  BY <1>18, <1>19

\* What is remembered of the last codegen item is what its command line was made from.
CommandOK ==
  codegen.outcome # "none" =>
    /\ IsCodegen(codegen.item)
    /\ IF codegen.outcome = "rejected"
       THEN \E ref \in ToSet(codegen.item.refs) : Rejected(codegen.item, ref)
       ELSE /\ \A ref \in ToSet(codegen.item.refs) : ~Rejected(codegen.item, ref)
            /\ codegen.words = [k \in DOMAIN codegen.item.refs |->
                                  Words(codegen.item, codegen.item.refs[k])]

LEMMA CommandInit == HookInit => CommandOK
  BY DEF HookInit, StartIn, NoCodegen, CommandOK

LEMMA CodegenSets ==
  ASSUME NEW outcome, Codegen(outcome), outcome # "none", IsCodegen(Item),
         IF outcome = "rejected" THEN \E ref \in ToSet(Item.refs) : Rejected(Item, ref)
                                 ELSE \A ref \in ToSet(Item.refs) : ~Rejected(Item, ref)
  PROVE  CommandOK'
  <1> DEFINE words == IF outcome = "rejected" THEN <<>>
                      ELSE [k \in DOMAIN Item.refs |-> Words(Item, Item.refs[k])]
  <1>1. codegen' = [outcome |-> outcome, item |-> Item, words |-> words]
    BY DEF Codegen
  <1>2. codegen'.outcome = outcome /\ codegen'.item = Item /\ codegen'.words = words
    <2> HIDE DEF words
    <2> QED  BY <1>1
  <1>3. outcome # "rejected" => words = [k \in DOMAIN Item.refs |-> Words(Item, Item.refs[k])]
    OBVIOUS
  <1> HIDE DEF words
  <1>4. CASE outcome = "rejected"
    BY <1>2, <1>4 DEF CommandOK, IsCodegen, Rejected, ListOf
  <1>5. CASE outcome # "rejected"
    BY <1>2, <1>3, <1>5 DEF CommandOK, IsCodegen, Rejected, Words, ListOf
  <1> QED  BY <1>4, <1>5

LEMMA CommandStep == FilesInv /\ CommandOK /\ [HookNext]_hookVars => CommandOK'
  <1> SUFFICES ASSUME FilesInv, CommandOK, [HookNext]_hookVars
               PROVE  CommandOK'
    OBVIOUS
  <1>1. CASE RejectCodegen
    <2>1. /\ Codegen("rejected") /\ \E ref \in ToSet(Item.refs) : Rejected(Item, ref)
          /\ AtItem("codegen")
      BY <1>1 DEF RejectCodegen
    <2> QED  BY <2>1, ItemFiles, CodegenSets
  <1>2. CASE SkipCodegen \/ StartCodegen \/ EndCodegen
    <2>1. /\ \E outcome \in {"skipped", "running", "ran", "failed"} : Codegen(outcome)
          /\ \A ref \in ToSet(Item.refs) : ~Rejected(Item, ref)
          /\ AtItem("codegen")
      BY <1>2 DEF SkipCodegen, StartCodegen, EndCodegen, AcceptedCodegen
    <2> QED  BY <2>1, ItemFiles, CodegenSets
  <1>3. CASE \E request \in project.requests : Invoke(request)
    <2>1. codegen'.outcome = "none"
      BY <1>3 DEF Invoke, NoCodegen
    <2> QED  BY <2>1 DEF CommandOK
  <1>4. CASE UNCHANGED codegen
    BY <1>4 DEF CommandOK, Rejected, Words, IsCodegen
  <1> QED
    BY <1>1, <1>2, <1>3, <1>4
       DEF HookNext, hookVars, RunExternal, RunCatalyst, Malformed, NextEvent, BodyFails, Return,
           EditFile

\* For every list, all bounds and every step but zero, a slice of the inputs or
\* outputs has the elements that Python's has, in its order.
THEOREM SlicesArePythons == HookSpec => []SliceLikePython
  <1>1. FilesInv /\ [HookNext]_hookVars => FilesInv'
    BY HookInvNext, StartedStep, TimesStep DEF FilesInv
  <1>2. CommandOK => SliceLikePython
    <2>1. SUFFICES ASSUME CommandOK, codegen.outcome # "none"
                   PROVE  LET refs == codegen.item.refs IN
                          /\ \A k \in DOMAIN refs :
                               ~IsIndex(refs[k]) /\ codegen.outcome # "rejected" =>
                                 /\ refs[k].step # 0
                                 /\ codegen.words[k] = Selected(ListOf(codegen.item, refs[k]), refs[k])
                          /\ codegen.outcome = "rejected" =>
                               \E k \in DOMAIN refs : IsIndex(refs[k]) \/ refs[k].step = 0
      BY DEF SliceLikePython
    <2> DEFINE item == codegen.item
               refs == item.refs
    <2>2. IsCodegen(item)
      BY <2>1 DEF CommandOK
    <2>3. ASSUME codegen.outcome = "rejected"
          PROVE  \E k \in DOMAIN refs : IsIndex(refs[k]) \/ refs[k].step = 0
      <3>1. PICK ref \in ToSet(refs) : Rejected(item, ref)
        BY <2>1, <2>3 DEF CommandOK
      <3>2. IsIndex(ref) \/ ref.step = 0
        BY <3>1 DEF Rejected
      <3> QED  BY <3>1, <3>2 DEF ToSet
    <2>4. ASSUME NEW k \in DOMAIN refs, ~IsIndex(refs[k]), codegen.outcome # "rejected"
          PROVE  refs[k].step # 0 /\ codegen.words[k] = Selected(ListOf(item, refs[k]), refs[k])
      <3> DEFINE ref == refs[k]
      <3>1. ref \in ToSet(refs)
        BY DEF ToSet
      <3>2. ~Rejected(item, ref) /\ codegen.words[k] = Words(item, ref)
        BY <2>1, <2>4, <3>1 DEF CommandOK
      <3>3. IsSlice(ref)
        <4>1. ref.step # 0
          BY <2>4, <3>2 DEF Rejected
        <4>2. ref.step \in Int /\ {ref.start, ref.stop} \subseteq Int \cup {Absent}
          BY <2>2, <2>4, <3>1 DEF IsCodegen
        <4> QED  BY <4>1, <4>2 DEF IsSlice
      <3>4. ListOf(item, ref) \in Seq(CodegenFiles)
        BY <2>2 DEF IsCodegen, ListOf
      <3>5. Words(item, ref) = Slice(ListOf(item, ref), ref)
        BY <2>4 DEF Words
      <3>6. Slice(ListOf(item, ref), ref) = Selected(ListOf(item, ref), ref)
        <4> HIDE DEF item, ref
        <4> QED  BY <3>3, <3>4, SliceSelects, HookedProjectsAssumption
      <3> QED  BY <3>2, <3>3, <3>5, <3>6 DEF IsSlice
    <2> QED  BY <2>3, <2>4
  <1> QED  BY <1>1, <1>2, FilesInit, CommandInit, CommandStep, PTL DEF HookSpec
=============================================================================
