---------------------------- MODULE ExplainReport ----------------------------
(***************************************************************************)
(* The reports of `catalyst build --explain`.                              *)
(*                                                                         *)
(* Top-level builds of one second and one directory look for a free name of*)
(* a report.  A child build writes its records to a spool file that its    *)
(* parent names, and the parent copies them into its own stream when the   *)
(* child has ended.  Writing may fail, and any process may be killed.      *)
(* A record is <<process, number>>.  A file that is not there is NoFile.   *)
(***************************************************************************)
EXTENDS Integers, Sequences, SequencesExt, FiniteSets

CONSTANTS
  Tops,        \* builds that a user starts
  Children,    \* builds that other builds start
  Starts,      \* pairs of a build and a child that it starts
  NoFile,
  MAX_SUFFIX,  \* number of names that are tried for a report
  MaxRecords,  \* bound on the records of one process
  MaxFaults    \* bound on failed streams and killed builds

Builds == Tops \cup Children
Report(n) == <<"report", n>>
SpoolFile(p, n) == <<"spool", p, n>>

FileNames == {Report(n) : n \in 0 .. MAX_SUFFIX - 1}
             \cup {SpoolFile(p, n) : p \in Builds, n \in 1 .. Cardinality(Children)}

\* A build that a user starts has no explanation session of another to report to.
ASSUME BuildsAssumption ==
  /\ Tops \cap Children = {} /\ IsFiniteSet(Children)
  /\ Starts \subseteq Builds \X Children
  /\ MAX_SUFFIX \in Nat \ {0} /\ MaxRecords \in Nat
  /\ NoFile \notin Builds \cup FileNames \cup Seq(Builds \X Nat)

VARIABLES
  stage,    \* what a process is doing
  suffix,   \* the name that a top-level build tries
  locked,   \* suffixes whose lock file exists
  files,    \* contents of the reports and spool files
  sink,     \* the file that a process writes to, NoFile when none or no longer
  failed_sink, \* builds whose stream could not be opened or written
  written,  \* number of records of a process
  counter,  \* children that a process has started
  parent,   \* who started a child, and
  spool     \* where its records go

reportVars == <<stage, suffix, locked, files, sink, failed_sink, written, counter, parent, spool>>

\* Mutant of NextSpool: the counter of children does not advance.
FirstSpool(p) == SpoolFile(p, 1)

\* The base of the name is the stream of the parent, and its pid is in it too.
NextSpool(p) == SpoolFile(p, counter[p] + 1)

KilledBuilds == {p \in Builds : stage[p] = "killed"}
MayFault == Cardinality(failed_sink) + Cardinality(KilledBuilds) < MaxFaults

Kids(p) == {c \in Children : parent[c] = p}
Uncollected(p) == {c \in Kids(p) : stage[c] # "collected"}

ReportInit ==
  /\ stage = [p \in Builds |-> "idle"]
  /\ suffix = [p \in Tops |-> 0]
  /\ locked = {}
  /\ files = [f \in FileNames |-> NoFile]
  /\ sink = [p \in Builds |-> NoFile]
  /\ failed_sink = {}
  /\ written = [p \in Builds |-> 0]
  /\ counter = [p \in Builds |-> 0]
  /\ parent = [c \in Children |-> NoFile]
  /\ spool = [c \in Children |-> NoFile]

Enter(p, to) == stage' = [stage EXCEPT ![p] = to]

(***************************************************************************)
(* beginExplainSession of a top-level build: a lock file around the look at*)
(* a name and its creation.  A lock that a killed build has left makes the *)
(* others pass that name over.                                             *)
(***************************************************************************)

TryNext(p) ==
  IF suffix[p] + 1 < MAX_SUFFIX
  THEN suffix' = [suffix EXCEPT ![p] = @ + 1] /\ Enter(p, "locking") /\ UNCHANGED failed_sink
  ELSE Enter(p, "active") /\ failed_sink' = failed_sink \cup {p} /\ UNCHANGED suffix

BeginTop(p) ==
  /\ stage[p] = "idle" /\ Enter(p, "locking")
  /\ UNCHANGED <<suffix, locked, files, sink, failed_sink, written, counter, parent, spool>>

LockName(p) ==
  /\ stage[p] = "locking"
  /\ IF suffix[p] \in locked
     THEN TryNext(p) /\ UNCHANGED locked
     ELSE Enter(p, "creating") /\ locked' = locked \cup {suffix[p]} /\ UNCHANGED <<suffix, failed_sink>>
  /\ UNCHANGED <<files, sink, written, counter, parent, spool>>

CreateReport(p) ==
  /\ stage[p] = "creating" /\ Enter(p, "unlocking")
  /\ IF files[Report(suffix[p])] = NoFile
     THEN /\ files' = [files EXCEPT ![Report(suffix[p])] = <<>>]
          /\ sink' = [sink EXCEPT ![p] = Report(suffix[p])]
     ELSE UNCHANGED <<files, sink>>
  /\ UNCHANGED <<suffix, locked, failed_sink, written, counter, parent, spool>>

Unlock(p) ==
  /\ stage[p] = "unlocking"
  /\ locked' = locked \ {suffix[p]}
  /\ IF sink[p] = NoFile THEN TryNext(p) ELSE Enter(p, "active") /\ UNCHANGED <<suffix, failed_sink>>
  /\ UNCHANGED <<files, sink, written, counter, parent, spool>>

(***************************************************************************)
(* Children.  A workspace build has many at once, other builds one after   *)
(* the other.                                                              *)
(***************************************************************************)

StartChild(p, c) ==
  /\ stage[p] = "active" /\ stage[c] = "idle" /\ parent[c] = NoFile
  /\ p \in Children => Uncollected(p) = {}
  /\ parent' = [parent EXCEPT ![c] = p]
  /\ spool' = [spool EXCEPT ![c] = NextSpool(p)]
  /\ counter' = [counter EXCEPT ![p] = @ + 1]
  /\ files' = [files EXCEPT ![NextSpool(p)] = NoFile]
  /\ UNCHANGED <<stage, suffix, locked, sink, failed_sink, written>>

\* The spool is opened for appending, which may fail.
BeginChild(c) ==
  /\ stage[c] = "idle" /\ parent[c] # NoFile /\ Enter(c, "active")
  /\ \/ MayFault /\ failed_sink' = failed_sink \cup {c} /\ UNCHANGED <<files, sink>>
     \/ /\ files' = [files EXCEPT ![spool[c]] = IF @ = NoFile THEN <<>> ELSE @]
        /\ sink' = [sink EXCEPT ![c] = spool[c]]
        /\ UNCHANGED failed_sink
  /\ UNCHANGED <<suffix, locked, written, counter, parent, spool>>

(***************************************************************************)
(* Records, and the end of a session.                                      *)
(***************************************************************************)

\* What a stream whose file has been removed gets is lost.
WriteReport(p, records) ==
  files' = IF sink[p] = NoFile \/ files[sink[p]] = NoFile THEN files
           ELSE [files EXCEPT ![sink[p]] = @ \o records]

Explain(p) ==
  /\ stage[p] = "active" /\ written[p] < MaxRecords
  /\ written' = [written EXCEPT ![p] = @ + 1]
  /\ WriteReport(p, << <<p, written[p] + 1>> >>)
  /\ UNCHANGED <<stage, suffix, locked, sink, failed_sink, counter, parent, spool>>

\* The stream is closed for good when a write fails.
WriteFails(p) ==
  /\ stage[p] = "active" /\ sink[p] # NoFile /\ MayFault
  /\ sink' = [sink EXCEPT ![p] = NoFile]
  /\ failed_sink' = failed_sink \cup {p}
  /\ UNCHANGED <<stage, suffix, locked, files, written, counter, parent, spool>>

\* A child that has ended or was killed.  A child that did not start has no spool.
Collect(p, c) ==
  /\ stage[p] = "active" /\ parent[c] = p /\ stage[c] \in {"ended", "killed"}
  /\ Enter(c, "collected")
  /\ LET forwarded == IF files[spool[c]] = NoFile THEN <<>> ELSE files[spool[c]] IN
       files' = [f \in FileNames |->
                  IF f = spool[c] THEN NoFile
                  ELSE IF f = sink[p] /\ files[f] # NoFile THEN files[f] \o forwarded ELSE files[f]]
  /\ UNCHANGED <<suffix, locked, sink, failed_sink, written, counter, parent, spool>>

\* A build returns when all its children have.
EndSession(p) ==
  /\ stage[p] = "active" /\ Uncollected(p) = {}
  /\ Enter(p, "ended") /\ sink' = [sink EXCEPT ![p] = NoFile]
  /\ UNCHANGED <<suffix, locked, files, failed_sink, written, counter, parent, spool>>

KillBuild(p) ==
  /\ stage[p] \notin {"idle", "ended", "killed", "collected"} /\ MayFault
  /\ Enter(p, "killed") /\ sink' = [sink EXCEPT ![p] = NoFile]
  /\ UNCHANGED <<suffix, locked, files, failed_sink, written, counter, parent, spool>>

ReportNext ==
  \/ \E p \in Tops : BeginTop(p) \/ LockName(p) \/ CreateReport(p) \/ Unlock(p)
  \/ \E s \in Starts : StartChild(s[1], s[2]) \/ Collect(s[1], s[2])
  \/ \E c \in Children : BeginChild(c)
  \/ \E p \in Builds : Explain(p) \/ WriteFails(p) \/ EndSession(p) \/ KillBuild(p)

ReportSpec == ReportInit /\ [][ReportNext]_reportVars

(***************************************************************************)
(* Properties.                                                             *)
(***************************************************************************)

\* What is collected from a build of S is in S.
Closed(S, broken) ==
  \A c \in Children \ broken : stage[c] = "collected" /\ parent[c] \in S => c \in S

\* The build, the children that it has collected, theirs, and so on, leaving out
\* those in broken and what is only below them.
Below(p, broken) ==
  {q \in Builds \ broken : p \notin broken /\ \A S \in SUBSET Builds : p \in S /\ Closed(S, broken) => q \in S}

\* No record is in two places, however many builds of one second, children at
\* once and killed processes there are; the report of a build that has ended has
\* every record of the build, of its children and of theirs, and no record of
\* an unrelated build.  (tryCreateReport, explainChildEnvironment,
\* collectExplainChild.)
RecordsOnce ==
  /\ \A f, g \in {h \in FileNames : files[h] # NoFile} :
       \A i \in DOMAIN files[f], j \in DOMAIN files[g] :
         files[f][i] = files[g][j] => f = g /\ i = j
  /\ \A p \in Tops :
       stage[p] = "ended" /\ p \notin failed_sink =>
         LET report == ToSet(files[Report(suffix[p])]) IN
         /\ \A q \in Below(p, failed_sink), n \in 1 .. MaxRecords :
              n <= written[q] => <<q, n>> \in report
         /\ \A r \in report : r[1] \in Below(p, {})
=============================================================================
