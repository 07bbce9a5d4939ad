---------------------------- MODULE FetchProofs ----------------------------
(***************************************************************************)
(* That a fetch leaves no thread behind, and that a build which goes on to *)
(* generate, or that writes the sentinel, has what its manifest lists: for *)
(* any manifests, lockfiles and traces of earlier invocations.             *)
(***************************************************************************)
EXTENDS Fetch, WellFoundedInduction, TLAPS

(***************************************************************************)
(* The inductive invariant.                                                *)
(***************************************************************************)

\* The steps during which threads may run, and those after all have succeeded.
Fetching == {"launching", "collecting", "unwinding"}
Fetched == {"serial", "conan", "finishing", "stamping", "ready"}

Steps == Fetching \cup Fetched \cup {"idle", "clearing", "unstamping", "starting", "sorting", "vcpkg"}
Statuses == {"none", "started", "cloning", "checkout", "fetched", "failed", "threw"}
States == Revisions \cup {Absent, Incomplete, Link}

FetchTypeOK ==
  /\ manifest \in Manifests
  /\ libs \in [Names -> States]
  /\ full \in BOOLEAN /\ failed \in BOOLEAN /\ sentinel \in BOOLEAN
  /\ pc \in Steps
  /\ left \subseteq Slots
  /\ thread \in [Slots -> Statuses]

Clearing == pc \in {"clearing", "unstamping"} => full

\* A thread fetches a remote dependency, while the loops over threads last; the
\* loop that starts them has started those that are not left, and the one that
\* collects them has still to collect those that are.
ThreadsOK ==
  /\ \A i \in Slots : thread[i] # "none" => i \in Parallel /\ pc \in Fetching
  /\ pc = "launching" => left \subseteq Parallel /\ \A i \in Parallel : i \in left \/ thread[i] # "none"
  /\ pc = "collecting" => left \subseteq Parallel /\ \A i \in Parallel : i \in left <=> thread[i] # "none"

Got(i) == ClonePath(i) => libs[Name(i)] # Absent

\* What a thread reports, and what has been collected from it, is on disk.
ResultsOK ==
  /\ \A i \in Slots : thread[i] \in {"fetched", "checkout"} => Got(i)
  /\ pc = "collecting" /\ ~failed => \A i \in Parallel \ left : Got(i)
  /\ pc \in Fetched => \A i \in Parallel : Got(i)

Handled(i) == IF Name(i) \in Members THEN libs[Name(i)] = Link ELSE Name(i) \in built

SerialOK ==
  /\ pc = "serial" => left \subseteq Serial /\ \A i \in Serial \ left : Handled(i)
  /\ pc \in Fetched \ {"serial"} => \A i \in Serial : Handled(i)

InstalledOK ==
  /\ pc \in Fetching \cup Fetched => Packages("vcpkg", Vcpkg) \subseteq installed
  /\ pc \in {"finishing", "stamping", "ready"} => Packages("conan", Conan) \subseteq installed

\* A build that does not fetch has found every git dependency.
GitThere ==
  pc # "idle" /\ ~full => \A i \in DOMAIN manifest : Source(i) = "git" => libs[Name(i)] # Absent

FetchInv ==
  /\ FetchTypeOK /\ Clearing
  /\ ThreadsOK /\ ResultsOK /\ SerialOK /\ InstalledOK /\ GitThere

(***************************************************************************)
(* Entries and their classes.                                              *)
(***************************************************************************)

LEMMA MaxEntriesNat == MaxEntries \in Nat
  BY ConstantsAssumption DEF ConstantsAssumption

LEMMA MinOfSlots ==
  ASSUME NEW S \in SUBSET Slots, S # {}
  PROVE  Min(S) \in S
  <1> DEFINE Less == {ij \in Nat \X Nat : ij[1] < ij[2]}
  <1>1. S \subseteq Nat
    BY MaxEntriesNat DEF Slots
  <1>2. IsWellFoundedOn(Less, Nat)
    BY NatLessThanWellFounded, Zenon DEF OpToRel
  <1>3. PICK n \in S : \A k \in S : ~(<<k, n>> \in Less)
    <2> HIDE DEF Less
    <2> QED  BY <1>1, <1>2, WFMin
  <1>4. \A k \in S : n <= k
    <2>1. \A k \in S : k \in Nat
      BY <1>1
    <2>2. \A k \in S : ~(k < n)
      BY <1>3, <2>1
    <2> QED  BY <2>1, <2>2
  <1> QED  BY <1>4 DEF Min

LEMMA Entries ==
  ASSUME manifest \in Manifests
  PROVE  /\ DOMAIN manifest \subseteq Slots
         /\ \A i \in DOMAIN manifest : i \in Nat /\ Name(i) \in Names /\ Source(i) \in Sources
         /\ \A i, j \in DOMAIN manifest : i # j => Name(i) # Name(j)
  <1>1. /\ manifest \in Seq([name : Names, source : Sources]) /\ Len(manifest) <= MaxEntries
        /\ \A i, j \in DOMAIN manifest : i # j => manifest[i].name # manifest[j].name
    BY ConstantsAssumption, Zenon
  <1>2. DOMAIN manifest = 1 .. Len(manifest) /\ Len(manifest) \in Nat
    BY <1>1
  <1>3. DOMAIN manifest \subseteq Slots
    BY <1>1, <1>2, MaxEntriesNat DEF Slots
  <1>4. \A i \in DOMAIN manifest : manifest[i] \in [name : Names, source : Sources]
    <2> DEFINE Entry == [name : Names, source : Sources]
    <2>1. manifest \in Seq(Entry)
      BY <1>1
    <2>2. \A i \in DOMAIN manifest : manifest[i] \in Entry
      <3> HIDE DEF Entry
      <3> QED  BY <2>1
    <2> QED  BY <2>2
  <1>5. \A i \in DOMAIN manifest : i \in Nat /\ Name(i) \in Names /\ Source(i) \in Sources
    BY <1>2, <1>4 DEF Name, Source
  <1>6. \A i, j \in DOMAIN manifest : i # j => Name(i) # Name(j)
    BY <1>1, Zenon DEF Name
  <1> QED  BY <1>3, <1>5, <1>6

\* Names do not repeat, so that a full fetch selects all entries, and the other
\* one all local ones.
LEMMA Classes ==
  ASSUME manifest \in Manifests
  PROVE  /\ All \subseteq DOMAIN manifest
         /\ full => All = DOMAIN manifest
         /\ ~full => Parallel = {}
         /\ \A i \in DOMAIN manifest : Source(i) = "local" => i \in Serial
         /\ Parallel \subseteq DOMAIN manifest /\ Serial \subseteq DOMAIN manifest
         /\ Parallel \subseteq Slots /\ Serial \subseteq Slots
         /\ \A i \in All : \/ i \in Parallel /\ Source(i) \notin {"vcpkg", "conan", "local"}
                           \/ i \in Serial /\ Source(i) \notin {"vcpkg", "conan"}
                           \/ i \in Vcpkg /\ Source(i) = "vcpkg"
                           \/ i \in Conan /\ Source(i) = "conan"
  <1>1. \A i \in DOMAIN manifest : \A j \in 1 .. (i - 1) : j \in DOMAIN manifest /\ j # i
    <2>1. manifest \in Seq([name : Names, source : Sources])
      BY ConstantsAssumption, Zenon
    <2>2. DOMAIN manifest = 1 .. Len(manifest) /\ Len(manifest) \in Nat
      BY <2>1
    <2> QED  BY <2>2
  <1>2. \A i \in DOMAIN manifest : full \/ Source(i) = "local" => Selected(i)
    BY <1>1, Entries DEF Selected
  <1>3. \A i \in All : full \/ Source(i) = "local"
    BY DEF All, Selected
  <1>4. All \subseteq DOMAIN manifest
    BY DEF All
  <1>5. Parallel \subseteq All /\ Serial \subseteq All
    BY DEF Parallel, Serial
  <1>6. ~full => Parallel = {}
    BY <1>3, <1>5 DEF Parallel, Serial, IsSerial
  <1>7. \A i \in DOMAIN manifest : Source(i) = "local" => i \in Serial
    BY <1>2 DEF All, Serial, IsSerial
  <1>8. \A i \in All : \/ i \in Parallel /\ Source(i) \notin {"vcpkg", "conan", "local"}
                       \/ i \in Serial /\ Source(i) \notin {"vcpkg", "conan"}
                       \/ i \in Vcpkg /\ Source(i) = "vcpkg"
                       \/ i \in Conan /\ Source(i) = "conan"
    BY DEF Parallel, Serial, Vcpkg, Conan, IsSerial
  <1>9. full => All = DOMAIN manifest
    BY <1>2 DEF All
  <1> QED  BY <1>4, <1>5, <1>6, <1>7, <1>8, <1>9, Entries

\* The classes stay what they are while the manifest and the mode do.
LEMMA ClassesStay ==
  ASSUME UNCHANGED <<manifest, full>>
  PROVE  /\ UNCHANGED <<Parallel, Serial, Vcpkg, Conan>>
         /\ \A i : Name(i)' = Name(i) /\ Source(i)' = Source(i) /\ ClonePath(i)' = ClonePath(i)
  BY DEF Parallel, Serial, Vcpkg, Conan, All, Selected, IsSerial, Name, Source, ClonePath

LEMMA FetchInvInit == Init => FetchInv
  BY DEF Init, FetchInv, FetchTypeOK, Clearing, ThreadsOK, ResultsOK, SerialOK, InstalledOK, GitThere,
         NoThreads, Steps, Statuses, States, Fetching, Fetched, Slots

(***************************************************************************)
(* Every step keeps the invariant.                                         *)
(***************************************************************************)

\* Outside the loops over threads there are none.
LEMMA Quiet ==
  ASSUME FetchInv, pc \notin Fetching
  PROVE  thread = NoThreads
  BY DEF FetchInv, FetchTypeOK, ThreadsOK, NoThreads

\* An invocation that ends with no thread left behind promises nothing more.
LEMMA EndKeeps ==
  ASSUME manifest' \in Manifests, libs' \in [Names -> States], sentinel' \in BOOLEAN,
         thread' = NoThreads, End
  PROVE  FetchInv'
  BY DEF End, FetchInv, FetchTypeOK, Clearing, ThreadsOK, ResultsOK, SerialOK, InstalledOK, GitThere,
         NoThreads, Steps, Statuses, Fetching, Fetched, Slots

\* As long as an invocation has not come to its loops, only its mode matters.
LEMMA EarlyKeeps ==
  ASSUME manifest' \in Manifests, libs' \in [Names -> States], sentinel' \in BOOLEAN,
         full' \in BOOLEAN, failed' \in BOOLEAN, left' \subseteq Slots, thread' = NoThreads,
         pc' \in {"idle", "clearing", "unstamping", "starting", "sorting", "vcpkg"},
         Clearing', GitThere'
  PROVE  FetchInv'
  BY DEF FetchInv, FetchTypeOK, ThreadsOK, ResultsOK, SerialOK, InstalledOK,
         NoThreads, Steps, Statuses, Fetching, Fetched, Slots

\* A command that starts.
LEMMA InvokeKeeps ==
  ASSUME FetchInv, Build \/ ForcedBuild \/ FetchCommand
  PROVE  FetchInv'
  <1>1. thread = NoThreads
    BY Quiet DEF Build, ForcedBuild, FetchCommand, Invoke, Fetching
  <1>2. /\ pc' \in {"clearing", "starting"} /\ full' \in BOOLEAN
        /\ pc' = "clearing" => full'
        /\ UNCHANGED <<project, disk, locals, thread>>
    BY DEF Build, ForcedBuild, FetchCommand, Invoke
  <1>3. ~full' => \A i \in DOMAIN manifest : Source(i) = "git" => libs[Name(i)] # Absent
    BY DEF Build, ForcedBuild, FetchCommand, Invoke, DepMissing
  <1>4. Clearing' /\ GitThere'
    BY <1>2, <1>3 DEF Clearing, GitThere, project, disk, Name, Source
  <1> QED  BY <1>1, <1>2, <1>4, EarlyKeeps DEF FetchInv, FetchTypeOK, project, disk, locals

\* What happens between two commands.
LEMMA IdleKeeps ==
  ASSUME FetchInv, Edit \/ Relock \/ Delete
  PROVE  FetchInv'
  <1>1. thread = NoThreads
    BY Quiet DEF Edit, Relock, Delete, Fetching
  <1>2. /\ pc' = "idle" /\ UNCHANGED <<sentinel, full, failed, left, thread>>
        /\ manifest' \in Manifests
    BY DEF Edit, Relock, Delete, FetchInv, FetchTypeOK, project, disk, mode
  <1>3. libs' \in [Names -> States]
    <2>1. CASE Delete
      BY <2>1 DEF Delete, FetchInv, FetchTypeOK, States
    <2>2. CASE Edit \/ Relock
      BY <2>2 DEF Edit, Relock, FetchInv, FetchTypeOK, disk
    <2> QED  BY <2>1, <2>2
  <1>4. Clearing' /\ GitThere'
    BY <1>2 DEF Clearing, GitThere
  <1> QED  BY <1>1, <1>2, <1>3, <1>4, EarlyKeeps DEF FetchInv, FetchTypeOK

\* The forced refetch clears, and the fetch is prepared.
LEMMA EarlyStepKeeps ==
  ASSUME FetchInv, RemoveLibs \/ RemoveSentinel \/ PreFetch \/ Sort
  PROVE  FetchInv'
  <1> USE DEF project, disk, mode, locals
  <1>1. thread = NoThreads /\ thread' = NoThreads /\ manifest' = manifest
    BY Quiet DEF RemoveLibs, RemoveSentinel, PreFetch, Sort, Fetching
  <1>2. libs' \in [Names -> States] /\ sentinel' \in BOOLEAN /\ manifest' \in Manifests
    BY DEF RemoveLibs, RemoveSentinel, PreFetch, Sort, FetchInv, FetchTypeOK, States
  <1>3. CASE End
    BY <1>1, <1>2, <1>3, EndKeeps
  <1>4. CASE ~End
    <2>1. /\ pc' \in {"unstamping", "starting", "sorting", "vcpkg"}
          /\ UNCHANGED <<full, failed, left>>
      BY <1>4 DEF RemoveLibs, RemoveSentinel, PreFetch, Sort, Goto
    <2>2. Clearing'
      BY <1>4 DEF RemoveLibs, RemoveSentinel, PreFetch, Sort, Goto, Clearing, FetchInv
    <2>3. GitThere'
      <3>1. CASE RemoveLibs
        BY <2>1, <3>1 DEF RemoveLibs, Clearing, FetchInv, GitThere
      <3>2. CASE ~RemoveLibs
        BY <1>1, <2>1, <3>2 DEF RemoveLibs, RemoveSentinel, PreFetch, Sort, FetchInv, GitThere, Name, Source
      <3> QED  BY <3>1, <3>2
    <2> QED  BY <1>1, <1>2, <2>1, <2>2, <2>3, EarlyKeeps DEF FetchInv, FetchTypeOK
  <1> QED  BY <1>3, <1>4

\* An invocation that gives up outside the loops over threads.
LEMMA FailureKeeps ==
  ASSUME FetchInv, End, pc \notin Fetching, UNCHANGED <<manifest, sentinel, thread>>,
         libs' \in [Names -> States]
  PROVE  FetchInv'
  BY Quiet, EndKeeps DEF FetchInv, FetchTypeOK

LEMMA InstallVcpkgKeeps ==
  ASSUME FetchInv, InstallVcpkg
  PROVE  FetchInv'
  <1> USE DEF project, mode
  <1>1. /\ pc = "vcpkg" /\ UNCHANGED <<manifest, libs, sentinel, thread>>
        /\ thread = NoThreads /\ libs \in [Names -> States]
    BY Quiet DEF InstallVcpkg, Fetching, FetchInv, FetchTypeOK
  <1>2. CASE End
    BY <1>1, <1>2, FailureKeeps DEF Fetching
  <1>3. CASE ~End
    <2>1. /\ pc' = "launching" /\ left' = Parallel /\ UNCHANGED <<full, failed>>
          /\ Packages("vcpkg", Vcpkg) \subseteq installed'
      BY <1>3 DEF InstallVcpkg, Packages
    <2>2. /\ UNCHANGED <<Parallel, Serial, Vcpkg, Conan, Packages("vcpkg", Vcpkg)>>
          /\ Parallel \subseteq Slots
      BY <1>1, <2>1, ClassesStay, Classes DEF FetchInv, FetchTypeOK, Packages, Name
    <2>3. FetchTypeOK' /\ Clearing'
      BY <1>1, <2>1, <2>2 DEF FetchInv, FetchTypeOK, Clearing, Steps, Fetching
    <2>4. ThreadsOK' /\ ResultsOK' /\ SerialOK'
      BY <1>1, <2>1, <2>2 DEF ThreadsOK, ResultsOK, SerialOK, NoThreads, Fetching, Fetched
    <2>5. InstalledOK'
      BY <2>1, <2>2 DEF InstalledOK
    <2>6. GitThere'
      BY <1>1, <2>1 DEF FetchInv, GitThere, Name, Source
    <2> QED  BY <2>3, <2>4, <2>5, <2>6 DEF FetchInv
  <1> QED  BY <1>2, <1>3

\* The loop that starts the threads.
LEMMA LaunchKeeps ==
  ASSUME FetchInv, Launch \/ LaunchThrows \/ LaunchDone
  PROVE  FetchInv'
  <1> USE DEF project, disk, mode, locals
  <1>1. /\ pc = "launching" /\ pc' \in Fetching
        /\ UNCHANGED <<manifest, full, failed, libs, installed, sentinel>>
    BY DEF Launch, LaunchThrows, LaunchDone, Goto, Fetching
  <1>2. /\ UNCHANGED <<Parallel, Serial, Vcpkg, Conan, Packages("vcpkg", Vcpkg)>>
        /\ Parallel \subseteq Slots
        /\ \A i : Got(i)' = Got(i)
    BY <1>1, ClassesStay, Classes DEF FetchInv, FetchTypeOK, Packages, Name, Source, ClonePath, Got
  <1>3. SerialOK' /\ InstalledOK' /\ GitThere' /\ Clearing'
    BY <1>1, <1>2 DEF FetchInv, SerialOK, InstalledOK, GitThere, Clearing, Fetching, Fetched, Name, Source
  <1>4. ASSUME Launch PROVE FetchTypeOK' /\ ThreadsOK' /\ ResultsOK'
    <2>1. Min(left) \in left /\ left \subseteq Slots /\ left \subseteq Parallel
      BY <1>4, MinOfSlots DEF Launch, FetchInv, FetchTypeOK, ThreadsOK
    <2> DEFINE i == Min(left)
    <2>2. /\ i \in left /\ i \in Slots /\ i \in Parallel
          /\ left # {} /\ thread' = [thread EXCEPT ![i] = "started"] /\ left' = left \ {i}
          /\ pc' = "launching"
      BY <1>4, <2>1 DEF Launch
    <2> HIDE DEF i
    <2>3. FetchTypeOK'
      BY <1>1, <2>1, <2>2 DEF FetchInv, FetchTypeOK, Statuses, Steps, Fetching
    <2>4. ThreadsOK'
      BY <1>1, <1>2, <2>1, <2>2 DEF FetchInv, FetchTypeOK, ThreadsOK, Fetching
    <2>5. ResultsOK'
      BY <1>1, <1>2, <2>1, <2>2 DEF FetchInv, FetchTypeOK, ResultsOK, Fetched
    <2> QED  BY <2>3, <2>4, <2>5
  <1>5. ASSUME LaunchThrows PROVE FetchTypeOK' /\ ThreadsOK' /\ ResultsOK'
    BY <1>1, <1>2, <1>5
    DEF LaunchThrows, Goto, FetchInv, FetchTypeOK, ThreadsOK, ResultsOK, Steps, Fetching, Fetched
  <1>6. ASSUME LaunchDone PROVE FetchTypeOK' /\ ThreadsOK' /\ ResultsOK'
    BY <1>1, <1>2, <1>6
    DEF LaunchDone, FetchInv, FetchTypeOK, ThreadsOK, ResultsOK, Steps, Fetching, Fetched
  <1> QED  BY <1>3, <1>4, <1>5, <1>6 DEF FetchInv

\* The threads are waited for, one after the other or when unwinding.
LEMMA CollectKeeps ==
  ASSUME FetchInv, Collect
  PROVE  FetchInv'
  <1> USE DEF project, disk, mode
  <1>1. /\ pc = "collecting" /\ pc' \in {"collecting", "unwinding"}
        /\ UNCHANGED <<manifest, full, libs, installed, sentinel>>
    BY DEF Collect
  <1>2. /\ UNCHANGED <<Parallel, Serial, Vcpkg, Conan, Packages("vcpkg", Vcpkg)>>
        /\ \A i : Got(i)' = Got(i)
    BY <1>1, ClassesStay DEF Packages, Name, Source, ClonePath, Got
  <1>3. SerialOK' /\ InstalledOK' /\ GitThere' /\ Clearing'
    BY <1>1, <1>2 DEF FetchInv, SerialOK, InstalledOK, GitThere, Clearing, Fetching, Fetched, Name, Source
  <1>4. Min(left) \in left /\ left \subseteq Slots /\ left \subseteq Parallel
    BY <1>1, MinOfSlots DEF Collect, FetchInv, FetchTypeOK, ThreadsOK
  <1> DEFINE i == Min(left)
  <1>5. /\ i \in left /\ i \in Slots /\ i \in Parallel
        /\ Ended(i) /\ thread' = [thread EXCEPT ![i] = "none"] /\ left' = left \ {i}
        /\ failed' = (failed \/ thread[i] = "failed")
        /\ pc' = IF thread[i] = "threw" THEN "unwinding" ELSE pc
    BY <1>4 DEF Collect
  <1> HIDE DEF i
  <1>6. thread[i] \in {"fetched", "failed", "threw"}
    BY <1>1, <1>5 DEF FetchInv, ThreadsOK, Ended
  <1>7. FetchTypeOK'
    BY <1>1, <1>4, <1>5 DEF FetchInv, FetchTypeOK, Statuses, Steps, Fetching
  <1>8. ThreadsOK'
    BY <1>1, <1>2, <1>4, <1>5 DEF FetchInv, FetchTypeOK, ThreadsOK, Fetching
  <1>9. ResultsOK'
    <2>1. \A j \in Slots : thread'[j] \in {"fetched", "checkout"} => Got(j)'
      BY <1>2, <1>5 DEF FetchInv, FetchTypeOK, ResultsOK
    <2>2. pc' = "collecting" /\ ~failed' => \A j \in Parallel \ left' : Got(j)
      BY <1>1, <1>5, <1>6 DEF FetchInv, ResultsOK
    <2> QED  BY <1>1, <1>2, <2>1, <2>2 DEF ResultsOK, Fetched
  <1> QED  BY <1>3, <1>7, <1>8, <1>9 DEF FetchInv

LEMMA UnwindKeeps ==
  ASSUME FetchInv, Unwind
  PROVE  FetchInv'
  BY EndKeeps DEF Unwind, project, disk, FetchInv, FetchTypeOK

LEMMA CollectDoneKeeps ==
  ASSUME FetchInv, CollectDone
  PROVE  FetchInv'
  <1> USE DEF project, disk, mode
  <1>1. /\ pc = "collecting" /\ left = {} /\ UNCHANGED <<manifest, libs, installed, sentinel, thread>>
        /\ \A i \in Slots : thread[i] = "none"
    BY DEF CollectDone, FetchInv, ThreadsOK
  <1>2. thread = NoThreads
    BY <1>1 DEF NoThreads, FetchInv, FetchTypeOK
  <1>3. CASE End
    BY <1>1, <1>2, <1>3, EndKeeps DEF FetchInv, FetchTypeOK
  <1>4. CASE ~End
    <2>1. pc' = "serial" /\ left' = Serial /\ ~failed /\ UNCHANGED <<full, failed, built>>
      BY <1>4 DEF CollectDone
    <2>2. /\ UNCHANGED <<Parallel, Serial, Vcpkg, Conan, Packages("vcpkg", Vcpkg)>>
          /\ Serial \subseteq Slots
          /\ \A i : Got(i)' = Got(i)
      BY <1>1, <2>1, ClassesStay, Classes DEF FetchInv, FetchTypeOK, Packages, Name, Source, ClonePath, Got
    <2>3. FetchTypeOK' /\ Clearing' /\ GitThere'
      BY <1>1, <2>1, <2>2 DEF FetchInv, FetchTypeOK, Clearing, GitThere, Steps, Fetched, Name, Source
    <2>4. ThreadsOK' /\ ResultsOK'
      BY <1>1, <2>1, <2>2 DEF FetchInv, ThreadsOK, ResultsOK, Fetching, Fetched
    <2>5. SerialOK' /\ InstalledOK'
      BY <1>1, <2>1, <2>2 DEF FetchInv, SerialOK, InstalledOK, Fetching, Fetched
    <2> QED  BY <2>3, <2>4, <2>5 DEF FetchInv
  <1> QED  BY <1>3, <1>4

\* The loop over links and local dependencies.
LEMMA SerialKeeps ==
  ASSUME FetchInv, LinkMember \/ BuildLocal
  PROVE  FetchInv'
  <1> USE DEF project, disk, mode
  <1>1. /\ pc = "serial" /\ pc' = "serial"
        /\ UNCHANGED <<manifest, full, failed, installed, sentinel, thread>>
    BY DEF LinkMember, BuildLocal
  <1>2. /\ UNCHANGED <<Parallel, Serial, Vcpkg, Conan, Packages("vcpkg", Vcpkg)>>
        /\ \A i : Name(i)' = Name(i) /\ Source(i)' = Source(i) /\ ClonePath(i)' = ClonePath(i)
    BY <1>1, ClassesStay DEF Packages, Name
  <1>3. Min(left) \in left /\ left \subseteq Slots /\ left \subseteq Serial /\ Serial \subseteq DOMAIN manifest
    BY <1>1, MinOfSlots, Classes DEF LinkMember, BuildLocal, FetchInv, FetchTypeOK, SerialOK
  <1> DEFINE i == Min(left)
  <1>4. /\ i \in left /\ i \in DOMAIN manifest /\ left' = left \ {i}
        /\ \/ Name(i) \in Members /\ libs' = [libs EXCEPT ![Name(i)] = Link] /\ built' = built
           \/ Name(i) \notin Members /\ libs' = libs /\ built' = built \cup {Name(i)}
    BY <1>3 DEF LinkMember, BuildLocal
  <1> HIDE DEF i
  <1>5. Name(i) \in Names
    BY <1>4, Entries DEF FetchInv, FetchTypeOK
  <1>6. libs \in [Names -> States] /\ libs' \in [Names -> States] /\ Link # Absent
    BY <1>4, <1>5, ConstantsAssumption DEF FetchInv, FetchTypeOK, States
  <1>7. /\ \A n \in Names : libs[n] # Absent => libs'[n] # Absent
        /\ \A n \in Names : libs[n] = Link => libs'[n] = Link
        /\ built \subseteq built'
        /\ IF Name(i) \in Members THEN libs'[Name(i)] = Link ELSE Name(i) \in built'
    BY <1>4, <1>5, <1>6
  <1>8. \A j \in DOMAIN manifest : Name(j) \in Names
    BY Entries DEF FetchInv, FetchTypeOK
  <1>9. /\ \A j \in DOMAIN manifest : Got(j) => Got(j)'
        /\ \A j \in DOMAIN manifest : Handled(j) => Handled(j)'
    BY <1>2, <1>7, <1>8 DEF Got, Handled
  <1>10. Parallel \subseteq DOMAIN manifest
    BY Classes DEF FetchInv, FetchTypeOK
  <1>11. FetchTypeOK' /\ Clearing' /\ InstalledOK'
    BY <1>1, <1>2, <1>4, <1>6 DEF FetchInv, FetchTypeOK, Clearing, InstalledOK, Fetched, Steps
  <1>12. ThreadsOK' /\ ResultsOK'
    BY <1>1, <1>2, <1>9, <1>10 DEF FetchInv, ThreadsOK, ResultsOK, Fetching, Fetched
  <1>13. SerialOK'
    BY <1>1, <1>2, <1>3, <1>4, <1>7, <1>9 DEF FetchInv, SerialOK, Handled
  <1>14. GitThere'
    BY <1>1, <1>2, <1>7, <1>8 DEF FetchInv, GitThere
  <1> QED  BY <1>11, <1>12, <1>13, <1>14 DEF FetchInv

LEMMA SerialFailsKeeps ==
  ASSUME FetchInv, SerialFails
  PROVE  FetchInv'
  <1>1. libs' \in [Names -> States]
    BY DEF SerialFails, FetchInv, FetchTypeOK, States
  <1> QED  BY <1>1, FailureKeeps DEF SerialFails, project, Fetching

\* What follows the loops.
LEMMA LateStepKeeps ==
  ASSUME FetchInv, SerialDone \/ InstallConan \/ PostFetch \/ Stamp \/ Finish
  PROVE  FetchInv'
  <1> USE DEF project, disk, mode, locals
  <1>1. /\ pc \in Fetched /\ UNCHANGED <<manifest, libs, thread>>
        /\ pc \notin Fetching
    BY DEF SerialDone, InstallConan, PostFetch, Stamp, Finish, Fetched, Fetching
  <1>2. CASE End
    <2>1. sentinel' = sentinel
      BY <1>2 DEF SerialDone, InstallConan, PostFetch, Stamp, Finish, End, Goto
    <2> QED  BY <1>1, <1>2, <2>1, FailureKeeps DEF FetchInv, FetchTypeOK
  <1>3. CASE ~End
    <2>1. /\ UNCHANGED <<full, failed, left, built>> /\ sentinel' \in BOOLEAN
          /\ pc' \in {"conan", "finishing", "stamping", "ready"}
          /\ pc = "serial" => left = {}
          /\ installed \subseteq installed'
          /\ IF pc = "conan" THEN Packages("conan", Conan) \subseteq installed'
                             ELSE pc' = "conan" \/ pc \in {"finishing", "stamping"}
      BY <1>3 DEF SerialDone, InstallConan, PostFetch, Stamp, Finish, Goto, FetchInv, FetchTypeOK
    <2>2. /\ UNCHANGED <<Parallel, Serial, Packages("vcpkg", Vcpkg), Packages("conan", Conan)>>
          /\ \A i : Got(i)' = Got(i) /\ Handled(i)' = Handled(i)
      BY <1>1, <2>1, ClassesStay DEF Packages, Name, Source, ClonePath, Got, Handled
    <2>3. FetchTypeOK' /\ Clearing' /\ GitThere'
      BY <1>1, <2>1 DEF FetchInv, FetchTypeOK, Clearing, GitThere, Steps, Fetched, Name, Source
    <2>4. ThreadsOK' /\ ResultsOK'
      BY <1>1, <2>1, <2>2 DEF FetchInv, ThreadsOK, ResultsOK, Fetching, Fetched
    <2>5. SerialOK' /\ InstalledOK'
      BY <1>1, <2>1, <2>2 DEF FetchInv, SerialOK, InstalledOK, Fetching, Fetched
    <2> QED  BY <2>3, <2>4, <2>5 DEF FetchInv
  <1> QED  BY <1>2, <1>3

\* A thread makes a clone, or reports what it found.
LEMMA ThreadKeeps ==
  ASSUME FetchInv, NEW i \in Slots, Thread(i)
  PROVE  FetchInv'
  <1> USE DEF project, mode
  <1>1. /\ thread[i] \in {"started", "cloning", "checkout"}
        /\ UNCHANGED <<manifest, full, failed, installed, sentinel, pc, left, built>>
        /\ \E to \in Statuses \ {"none"} : thread' = [thread EXCEPT ![i] = to]
    BY DEF Thread, Skip, BeginClone, ThreadThrows, Clone, CloneFails, Checkout, CheckoutFails,
           ThreadStep, Statuses
  <1>2. /\ UNCHANGED <<Parallel, Serial, Vcpkg, Conan, Packages("vcpkg", Vcpkg)>>
        /\ \A j : Name(j)' = Name(j) /\ Source(j)' = Source(j) /\ ClonePath(j)' = ClonePath(j)
    BY <1>1, ClassesStay DEF Packages, Name
  <1>3. i \in Parallel /\ pc \in Fetching /\ Parallel \subseteq DOMAIN manifest
    BY <1>1, Classes DEF FetchInv, FetchTypeOK, ThreadsOK
  <1>4. Name(i) \in Names
    BY <1>3, Entries DEF FetchInv, FetchTypeOK
  <1>5. libs \in [Names -> States] /\ "head" \in States \ {Absent} /\ "locked" \in States \ {Absent}
    BY ConstantsAssumption DEF FetchInv, FetchTypeOK, States, Revisions
  <1>6. libs' = libs \/ \E r \in States \ {Absent} : libs' = [libs EXCEPT ![Name(i)] = r]
    BY <1>5 DEF Thread, Skip, BeginClone, ThreadThrows, Clone, CloneFails, Checkout, CheckoutFails
  <1>7. /\ libs' \in [Names -> States]
        /\ \A n \in Names : libs[n] # Absent => libs'[n] # Absent
    BY <1>4, <1>5, <1>6
  <1>8. \A j \in DOMAIN manifest : Name(j) \in Names
    BY Entries DEF FetchInv, FetchTypeOK
  <1>9. \A j \in DOMAIN manifest : Got(j) => Got(j)'
    BY <1>2, <1>7, <1>8 DEF Got
  <1>10. thread'[i] \in {"fetched", "checkout"} => Got(i)'
    <2>1. CASE Skip(i)
      BY <1>2, <2>1 DEF Skip, ThreadStep, Got
    <2>2. CASE Clone(i)
      BY <1>2, <1>4, <1>5, <2>2 DEF Clone, Got
    <2>3. CASE Checkout(i)
      BY <1>2, <1>4, <1>5, <2>3 DEF Checkout, Got
    <2>4. CASE BeginClone(i) \/ ThreadThrows(i) \/ CloneFails(i) \/ CheckoutFails(i)
      BY <2>4 DEF BeginClone, ThreadThrows, CloneFails, CheckoutFails, ThreadStep, FetchInv, FetchTypeOK
    <2> QED  BY <2>1, <2>2, <2>3, <2>4 DEF Thread
  <1>11. FetchTypeOK' /\ Clearing' /\ InstalledOK'
    BY <1>1, <1>2, <1>3, <1>7 DEF FetchInv, FetchTypeOK, Clearing, InstalledOK, Fetching
  <1>12. ThreadsOK'
    BY <1>1, <1>2, <1>3 DEF FetchInv, FetchTypeOK, ThreadsOK
  <1>13. ResultsOK'
    <2>1. \A j \in Slots : thread'[j] \in {"fetched", "checkout"} => Got(j)'
      <3>1. \A j \in Slots : thread[j] \in {"fetched", "checkout"} => j \in DOMAIN manifest /\ Got(j)
        BY <1>3 DEF FetchInv, ThreadsOK, ResultsOK
      <3>2. \A j \in Slots : j # i => thread'[j] = thread[j]
        BY <1>1 DEF FetchInv, FetchTypeOK
      <3> QED  BY <1>9, <1>10, <3>1, <3>2
    <2> QED  BY <1>1, <1>2, <1>3, <1>9, <2>1 DEF FetchInv, ResultsOK, Fetching, Fetched
  <1>14. SerialOK'
    BY <1>1, <1>3 DEF SerialOK, Fetching, Fetched
  <1>15. GitThere'
    BY <1>1, <1>2, <1>7, <1>8 DEF FetchInv, GitThere
  <1> QED  BY <1>11, <1>12, <1>13, <1>14, <1>15 DEF FetchInv

LEMMA KillKeeps ==
  ASSUME FetchInv, Kill
  PROVE  FetchInv'
  BY EndKeeps DEF Kill, project, FetchInv, FetchTypeOK, States

LEMMA FetchInvNext == FetchInv /\ [Next]_vars => FetchInv'
  <1> SUFFICES ASSUME FetchInv, [Next]_vars PROVE FetchInv'
    OBVIOUS
  <1>1. CASE Build \/ ForcedBuild \/ FetchCommand
    BY <1>1, InvokeKeeps
  <1>2. CASE Step
    BY <1>2, EarlyStepKeeps, InstallVcpkgKeeps, LaunchKeeps, UnwindKeeps, CollectKeeps, CollectDoneKeeps,
       SerialKeeps, SerialFailsKeeps, LateStepKeeps
    DEF Step
  <1>3. CASE Finish
    BY <1>3, LateStepKeeps
  <1>4. CASE \E i \in Slots : Thread(i)
    BY <1>4, ThreadKeeps
  <1>5. CASE Kill
    BY <1>5, KillKeeps
  <1>6. CASE Edit \/ Relock \/ Delete
    BY <1>6, IdleKeeps
  <1>7. CASE UNCHANGED vars
    <2>1. UNCHANGED <<manifest, libs, installed, sentinel, full, pc, left, failed, built, thread>>
      BY <1>7 DEF vars, project, disk, mode
    <2>2. /\ UNCHANGED <<Parallel, Serial, Packages("vcpkg", Vcpkg), Packages("conan", Conan)>>
          /\ \A i : Got(i)' = Got(i) /\ Handled(i)' = Handled(i)
      BY <2>1, ClassesStay DEF Packages, Name, Source, ClonePath, Got, Handled
    <2> QED  BY <2>1, <2>2 DEF FetchInv, FetchTypeOK, Clearing, ThreadsOK, ResultsOK, SerialOK, InstalledOK,
                   GitThere, Name, Source
  <1> QED  BY <1>1, <1>2, <1>3, <1>4, <1>5, <1>6, <1>7 DEF Next

(***************************************************************************)
(* What fetching promises.                                                 *)
(***************************************************************************)

\* The inductive invariant holds in every behaviour of fetch::action and of the
\* build around it.
THEOREM FetchInvariant == Spec => []FetchInv
  BY FetchInvInit, FetchInvNext, PTL DEF Spec

\* No thread of fetch::action outlives the loops over the futures, on whatever
\* path it returns, throws or is killed.
THEOREM NoThreadLeft == Spec => []NothingLeftRunning
  <1>1. FetchInv => NothingLeftRunning
    BY DEF FetchInv, ThreadsOK, NothingLeftRunning, Running, Fetching
  <1> QED  BY <1>1, FetchInvariant, PTL

LEMMA ReadyHasEverything ==
  ASSUME FetchInv, pc = "ready"
  PROVE  /\ \A i \in DOMAIN manifest : Source(i) = "git" => libs[Name(i)] # Absent
         /\ \A i \in DOMAIN manifest :
              Source(i) = "local" => Name(i) \in built \/ libs[Name(i)] = Link
  <1>1. Link # Absent
    BY ConstantsAssumption
  <1>2. \A i \in Serial : Handled(i)
    BY DEF FetchInv, SerialOK, Fetched
  <1>3. \A i \in Parallel : Got(i)
    BY DEF FetchInv, ResultsOK, Fetched
  <1>4. ASSUME full, NEW i \in DOMAIN manifest, Source(i) = "git" PROVE libs[Name(i)] # Absent
    <2>1. i \in All
      BY <1>4, Classes DEF FetchInv, FetchTypeOK
    <2>2. CASE i \in Parallel
      BY <1>3, <1>4, <2>2 DEF Got, ClonePath
    <2>3. CASE i \notin Parallel
      <3>1. i \in Serial /\ Name(i) \in Members
        BY <1>4, <2>1, <2>3, Classes DEF FetchInv, FetchTypeOK, Serial, IsSerial
      <3> QED  BY <1>1, <1>2, <3>1 DEF Handled
    <2> QED  BY <2>2, <2>3
  <1>5. ~full => \A i \in DOMAIN manifest : Source(i) = "git" => libs[Name(i)] # Absent
    BY DEF FetchInv, GitThere
  <1>6. \A i \in DOMAIN manifest :
          Source(i) = "local" => Name(i) \in built \/ libs[Name(i)] = Link
    BY <1>2, Classes DEF FetchInv, FetchTypeOK, Handled
  <1> QED  BY <1>4, <1>5, <1>6

\* A build that goes on to generate has every git dependency of its manifest,
\* whatever earlier invocations, kills, edits and deletions left in its build
\* directory (action.cpp of build, depMissing, and fetch::action).
THEOREM GitPresent == Spec => []GitPresentWhenReady
  <1>1. FetchInv => GitPresentWhenReady
    BY ReadyHasEverything DEF GitPresentWhenReady
  <1> QED  BY <1>1, FetchInvariant, PTL

\* Each local dependency has been built or linked by the very invocation, or is
\* linked to its member, also when the sentinel says that nothing is to be fetched.
THEOREM LocalsChecked == Spec => []LocalsAlwaysChecked
  <1>1. FetchInv => LocalsAlwaysChecked
    BY ReadyHasEverything DEF LocalsAlwaysChecked
  <1> QED  BY <1>1, FetchInvariant, PTL

\* Nothing but a kill leaves a clone incomplete, and what removes or replaces the
\* remains completes it.
CutInv == \A n \in Names : libs[n] = Incomplete => n \in cut

LEMMA CutStep ==
  ASSUME FetchInv, CutInv, [Next]_vars
  PROVE  CutInv'
  <1>1. libs \in [Names -> States] /\ Incomplete \notin {Absent, Link, "head", "locked"}
    BY ConstantsAssumption DEF FetchInv, FetchTypeOK, Revisions
  <1>2. CASE UNCHANGED <<libs, cut>>
    BY <1>2 DEF CutInv
  <1>3. CASE RemoveLibs
    BY <1>1, <1>3 DEF RemoveLibs, CutInv
  <1>4. CASE LinkMember
    BY <1>1, <1>4 DEF LinkMember, CutInv
  <1>5. CASE SerialFails
    BY <1>1, <1>5 DEF SerialFails, CutInv
  <1>6. ASSUME NEW i \in Slots, Clone(i) \/ Checkout(i) PROVE CutInv'
    BY <1>1, <1>6 DEF Clone, Checkout, CutInv
  <1>7. CASE Kill
    BY <1>1, <1>7 DEF Kill, CutInv
  <1>8. CASE Delete
    BY <1>1, <1>8 DEF Delete, CutInv
  <1> QED
    BY <1>2, <1>3, <1>4, <1>5, <1>6, <1>7, <1>8
    DEF Next, vars, disk, Build, ForcedBuild, FetchCommand, Invoke, Step, RemoveSentinel, PreFetch,
        Sort, InstallVcpkg, Launch, LaunchThrows, LaunchDone, Unwind, Collect, CollectDone, BuildLocal,
        SerialDone, InstallConan, PostFetch, Stamp, Finish, Thread, ThreadStep, Skip, BeginClone,
        ThreadThrows, CloneFails, CheckoutFails, Edit, Relock

LEMMA CutInvariant == Spec => []CutInv
  <1>1. Init => CutInv
    BY ConstantsAssumption DEF Init, CutInv
  <1> QED  BY <1>1, CutStep, FetchInvariant, PTL DEF Spec

\* What StampedWhenFetched says of one entry.
Obtained(i) ==
  CASE Source(i) \in {"vcpkg", "conan"} -> <<Source(i), Name(i)>> \in installed
    [] Source(i) = "local" -> Name(i) \in built \/ libs[Name(i)] = Link
    [] Source(i) \in {"git", "url"} ->
         libs[Name(i)] # Absent /\ (libs[Name(i)] = Incomplete => Name(i) \in cut)
    [] OTHER -> TRUE

LEMMA FullFetchObtains ==
  ASSUME FetchInv, CutInv, pc = "stamping", full, NEW i \in DOMAIN manifest
  PROVE  Obtained(i)
  <1>1. Link # Absent /\ Link # Incomplete
    BY ConstantsAssumption
  <1>8. libs[Name(i)] = Incomplete => Name(i) \in cut
    BY Entries DEF CutInv, FetchInv, FetchTypeOK
  <1>2. /\ \A j \in Serial : Handled(j)
        /\ \A j \in Parallel : Got(j)
        /\ \A j \in Vcpkg : <<"vcpkg", Name(j)>> \in installed
        /\ \A j \in Conan : <<"conan", Name(j)>> \in installed
    BY DEF FetchInv, SerialOK, ResultsOK, InstalledOK, Packages, Fetched
  <1>3. \/ i \in Parallel /\ Source(i) \notin {"vcpkg", "conan", "local"}
        \/ i \in Serial /\ Source(i) \notin {"vcpkg", "conan"}
        \/ i \in Vcpkg /\ Source(i) = "vcpkg"
        \/ i \in Conan /\ Source(i) = "conan"
    BY Classes DEF FetchInv, FetchTypeOK
  <1>4. ASSUME i \in Parallel, Source(i) \notin {"vcpkg", "conan", "local"} PROVE Obtained(i)
    BY <1>2, <1>4, <1>8 DEF Obtained, Got, ClonePath
  <1>5. ASSUME i \in Serial, Source(i) \notin {"vcpkg", "conan"} PROVE Obtained(i)
    BY <1>1, <1>2, <1>5 DEF Obtained, Handled, Serial, IsSerial
  <1>6. ASSUME i \in Vcpkg, Source(i) = "vcpkg" PROVE Obtained(i)
    BY <1>2, <1>6 DEF Obtained
  <1>7. ASSUME i \in Conan, Source(i) = "conan" PROVE Obtained(i)
    BY <1>2, <1>7 DEF Obtained
  <1> QED  BY <1>3, <1>4, <1>5, <1>6, <1>7

\* .catalyst_fetched is written only by a build that has every dependency, and
\* has it completely, but for the remains of a clone that a kill has cut off.
THEOREM StampIsTrue == Spec => StampedWhenFetched
  <1>1. ASSUME FetchInv, CutInv, [Next]_vars, ~sentinel, sentinel'
        PROVE  \A i \in DOMAIN manifest : Obtained(i)
    <2>1. Stamp
      BY <1>1
      DEF Next, vars, project, disk, mode, Build, ForcedBuild, FetchCommand, Invoke, Step, RemoveLibs,
          RemoveSentinel, PreFetch, Sort, InstallVcpkg, Launch, LaunchThrows, LaunchDone, Unwind, Collect,
          CollectDone, LinkMember, BuildLocal, SerialFails, SerialDone, InstallConan, PostFetch, Finish,
          Thread, ThreadStep, Skip, BeginClone, ThreadThrows, Clone, CloneFails, Checkout, CheckoutFails,
          Kill, Edit, Relock, Delete
    <2>2. pc = "stamping" /\ full
      BY <1>1, <2>1 DEF Stamp
    <2> QED  BY <1>1, <2>2, FullFetchObtains
  <1>2. FetchInv /\ CutInv /\ [Next]_vars =>
          [~sentinel /\ sentinel' => \A i \in DOMAIN manifest : Obtained(i)]_vars
    BY <1>1
  <1> QED  BY <1>2, FetchInvariant, CutInvariant, PTL DEF Spec, StampedWhenFetched, Obtained
=============================================================================
