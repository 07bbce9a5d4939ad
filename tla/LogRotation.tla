---------------------------- MODULE LogRotation ----------------------------
(***************************************************************************)
(* The invocation logs of one directory: how concurrent catalyst processes *)
(* choose the file that they append to, publish it as .catalyst.log and    *)
(* prune the files of older invocations (invocationLogPath and what it     *)
(* calls, before main).                                                    *)
(*                                                                         *)
(* A file is known by its generation, the number in its name; 0 is the     *)
(* unbounded .catalyst.log of older versions, before and after it is       *)
(* renamed.  .catalyst.log is a hard link: `latest` is the generation of   *)
(* the file that it names.  The operating system drops the locks of a      *)
(* process that exits or crashes.                                          *)
(***************************************************************************)
EXTENDS Naturals, FiniteSets, FiniteSetsExt

CONSTANTS
  Processes,             \* slots for processes in the directory
  RETAINED_INVOCATIONS,  \* completed generations that are kept
  MaxGeneration,         \* bound: no process is started that would go beyond
  Latest,                \* .catalyst.log as the file that a process appends to
  NoLog,                 \* no file
  Nobody                 \* nobody holds a rotation lock

ASSUME ConstantsAssumption ==
  /\ RETAINED_INVOCATIONS \in Nat \ {0}
  /\ MaxGeneration \in Nat
  /\ Latest \notin Nat /\ NoLog \notin Nat /\ Latest # NoLog
  /\ Nobody \notin Processes

\* The directories in which a process can take rotation.lock: .catalyst.logs, and
\* the one with .catalyst.log when that is the inherited path.
Directories == {"logs", "project"}

\* A top-level process, one with CATALYST_MACHINE and no inherited log, and one
\* that inherits its parent's.
Kinds == {"top", "machine", "child"}

VARIABLES
  generations,  \* .catalyst.logs/<generation>.log
  latest,       \* the file named .catalyst.log
  rotation,     \* who holds rotation.lock in each directory
  pc,           \* the next step of each process
  kind,         \* how it was started
  selected,     \* the path that it appends to
  locked,       \* it holds <selected>.lock, shared
  todo,         \* the generations that it has still to look at for pruning
  completed,    \* the generations that it has counted as completed
  file          \* the file that it has opened

files == <<generations, latest>>
pruning == <<todo, completed>>

vars == <<files, rotation, pc, kind, selected, locked, pruning, file>>

Init ==
  /\ generations = {}
  /\ latest \in {NoLog, 0}
  /\ rotation = [d \in Directories |-> Nobody]
  /\ pc = [p \in Processes |-> "idle"]
  /\ kind = [p \in Processes |-> "top"]
  /\ selected = [p \in Processes |-> NoLog]
  /\ locked = [p \in Processes |-> FALSE]
  /\ todo = [p \in Processes |-> {}]
  /\ completed = [p \in Processes |-> 0]
  /\ file = [p \in Processes |-> NoLog]

\* The directory of the log that p uses.
DirectoryOf(p) == IF kind[p] = "child" /\ selected[p] = Latest THEN "project" ELSE "logs"

Released(p) == [rotation EXCEPT ![DirectoryOf(p)] = IF @ = p THEN Nobody ELSE @]

Goto(p, step) == pc' = [pc EXCEPT ![p] = step]

\* Some process has the log open, as far as its lock tells.
Held(n) == \E p \in Processes : locked[p] /\ selected[p] = n

(***************************************************************************)
(* Start of a process.                                                     *)
(***************************************************************************)
StartAs(p, k, log) ==
  /\ pc[p] = "idle"
  /\ Goto(p, "starting")
  /\ kind' = [kind EXCEPT ![p] = k]
  /\ selected' = [selected EXCEPT ![p] = log]
  /\ UNCHANGED <<files, rotation, locked, pruning, file>>

\* Generations that the top-level processes on their way may still create.
Expected == {q \in Processes : kind[q] = "top" /\ pc[q] \in {"starting", "selecting", "creating"}}

Start(p) ==
  \/ /\ Cardinality(Expected) + Max(generations \cup {0}) < MaxGeneration
     /\ StartAs(p, "top", NoLog)
  \/ StartAs(p, "machine", NoLog)

\* A process that logs hands its path to the children it starts.
StartChild(p) ==
  \E parent \in Processes \ {p} : pc[parent] = "running" /\ StartAs(p, "child", selected[parent])

\* Mutant of AcquireRotation: nothing serializes the rotation.
AcquireNothing(p) ==
  /\ pc[p] = "starting"
  /\ rotation' = [rotation EXCEPT ![DirectoryOf(p)] = p]
  /\ Goto(p, "selecting")
  /\ UNCHANGED <<files, kind, selected, locked, pruning, file>>

\* Waits for rotation.lock.
AcquireRotation(p) ==
  /\ pc[p] = "starting" /\ rotation[DirectoryOf(p)] = Nobody
  /\ rotation' = [rotation EXCEPT ![DirectoryOf(p)] = p]
  /\ Goto(p, "selecting")
  /\ UNCHANGED <<files, kind, selected, locked, pruning, file>>

SelectInherited(p) ==
  /\ pc[p] = "selecting" /\ kind[p] = "child"
  /\ Goto(p, "locking")
  /\ UNCHANGED <<files, rotation, kind, selected, locked, pruning, file>>

\* "A standalone machine call never advances the ring."
SelectNewest(p) ==
  /\ pc[p] = "selecting" /\ kind[p] = "machine"
  /\ selected' = [selected EXCEPT ![p] = IF generations = {} THEN Latest ELSE Max(generations)]
  /\ Goto(p, "locking")
  /\ UNCHANGED <<files, rotation, kind, locked, pruning, file>>

\* A top-level process takes the next number.  Without generations, an old
\* unbounded log becomes the oldest one.
SelectNext(p) ==
  /\ pc[p] = "selecting" /\ kind[p] = "top"
  /\ IF generations = {} /\ latest # NoLog
       THEN generations' = {0} /\ latest' = NoLog
       ELSE UNCHANGED files
  /\ selected' = [selected EXCEPT ![p] = IF generations = {} THEN 1 ELSE Max(generations) + 1]
  /\ todo' = [todo EXCEPT ![p] = generations']
  /\ Goto(p, "creating")
  /\ UNCHANGED <<rotation, kind, locked, completed, file>>

Create(p) ==
  /\ pc[p] = "creating"
  /\ generations' = generations \cup {selected[p]}
  /\ Goto(p, "publishing")
  /\ UNCHANGED <<latest, rotation, kind, selected, locked, pruning, file>>

\* Mutant of Publish: .catalyst.log is left alone when it exists.
PublishOnce(p) ==
  /\ pc[p] = "publishing"
  /\ latest' = IF latest = NoLog THEN selected[p] ELSE latest
  /\ Goto(p, "pruning")
  /\ UNCHANGED <<generations, rotation, kind, selected, locked, pruning, file>>

\* A temporary hard link is renamed over .catalyst.log.
Publish(p) ==
  /\ pc[p] = "publishing"
  /\ latest' = selected[p]
  /\ Goto(p, "pruning")
  /\ UNCHANGED <<generations, rotation, kind, selected, locked, pruning, file>>

\* Mutant of Prune: the oldest generations are counted first.
PruneOldestFirst(p) ==
  /\ pc[p] = "pruning" /\ todo[p] # {}
  /\ LET n == Min(todo[p]) IN
     /\ todo' = [todo EXCEPT ![p] = @ \ {n}]
     /\ completed' = [completed EXCEPT ![p] = IF Held(n) THEN @ ELSE @ + 1]
     /\ generations' = IF completed'[p] > RETAINED_INVOCATIONS THEN generations \ {n}
                                                                ELSE generations
  /\ UNCHANGED <<latest, rotation, pc, kind, selected, locked, file>>

\* Mutant of Prune: it waits for the exclusive lock of a generation.
PruneWaiting(p) ==
  /\ pc[p] = "pruning" /\ todo[p] # {}
  /\ LET n == Max(todo[p]) IN
     /\ ~Held(n)
     /\ todo' = [todo EXCEPT ![p] = @ \ {n}]
     /\ completed' = [completed EXCEPT ![p] = @ + 1]
     /\ generations' = IF completed'[p] > RETAINED_INVOCATIONS THEN generations \ {n}
                                                                ELSE generations
  /\ UNCHANGED <<latest, rotation, pc, kind, selected, locked, file>>

\* The newest generation not yet looked at is completed when its lock can be
\* taken at once, and removed when enough newer ones are.
Prune(p) ==
  /\ pc[p] = "pruning" /\ todo[p] # {}
  /\ LET n == Max(todo[p]) IN
     /\ todo' = [todo EXCEPT ![p] = @ \ {n}]
     /\ completed' = [completed EXCEPT ![p] = IF Held(n) THEN @ ELSE @ + 1]
     /\ generations' = IF ~Held(n) /\ completed'[p] > RETAINED_INVOCATIONS
                         THEN generations \ {n} ELSE generations
  /\ UNCHANGED <<latest, rotation, pc, kind, selected, locked, file>>

PruneDone(p) ==
  /\ pc[p] = "pruning" /\ todo[p] = {}
  /\ completed' = [completed EXCEPT ![p] = 0]
  /\ Goto(p, "locking")
  /\ UNCHANGED <<files, rotation, kind, selected, locked, todo, file>>

\* Mutant of LockLog: the log is not locked.
LockNothing(p) ==
  /\ pc[p] = "locking"
  /\ rotation' = Released(p)
  /\ Goto(p, "opening")
  /\ UNCHANGED <<files, kind, selected, locked, pruning, file>>

\* The process locks its log; then rotation.lock is released.
LockLog(p) ==
  /\ pc[p] = "locking"
  /\ locked' = [locked EXCEPT ![p] = TRUE]
  /\ rotation' = Released(p)
  /\ Goto(p, "opening")
  /\ UNCHANGED <<files, kind, selected, pruning, file>>

\* LogT opens the path for appending, which creates a file that is missing.
OpenGeneration(p) ==
  /\ pc[p] = "opening" /\ selected[p] # Latest
  /\ generations' = generations \cup {selected[p]}
  /\ file' = [file EXCEPT ![p] = selected[p]]
  /\ Goto(p, "running")
  /\ UNCHANGED <<latest, rotation, kind, selected, locked, pruning>>

OpenLatest(p) ==
  /\ pc[p] = "opening" /\ selected[p] = Latest
  /\ latest' = IF latest = NoLog THEN 0 ELSE latest
  /\ file' = [file EXCEPT ![p] = latest']
  /\ Goto(p, "running")
  /\ UNCHANGED <<generations, rotation, kind, selected, locked, pruning>>

Setup == {"selecting", "creating", "publishing", "pruning", "locking"}

\* The locals of p are gone, and with them the rotation lock.
Unwind(p) ==
  /\ rotation' = Released(p)
  /\ selected' = [selected EXCEPT ![p] = NoLog]
  /\ todo' = [todo EXCEPT ![p] = {}]
  /\ completed' = [completed EXCEPT ![p] = 0]

\* "Logging setup must not prevent commands from running."
SetupFails(p) ==
  /\ pc[p] \in Setup \cup {"starting"}
  /\ Unwind(p)
  /\ Goto(p, "unlogged")
  /\ UNCHANGED <<files, kind, locked, file>>

\* The process exits or is killed.
End(p) ==
  /\ pc[p] # "idle"
  /\ Unwind(p)
  /\ kind' = [kind EXCEPT ![p] = "top"]
  /\ locked' = [locked EXCEPT ![p] = FALSE]
  /\ file' = [file EXCEPT ![p] = NoLog]
  /\ Goto(p, "idle")
  /\ UNCHANGED files

SetUp(p) ==
  \/ AcquireRotation(p) \/ SelectInherited(p) \/ SelectNewest(p) \/ SelectNext(p)
  \/ Create(p) \/ Publish(p) \/ Prune(p) \/ PruneDone(p) \/ LockLog(p)
  \/ OpenGeneration(p) \/ OpenLatest(p)

Next == \E p \in Processes : Start(p) \/ StartChild(p) \/ SetUp(p) \/ SetupFails(p) \/ End(p)

Spec == Init /\ [][Next]_vars

\* A process that is not waiting goes on; one that waits for rotation.lock gets
\* it if the lock is released again and again.  A process that runs need not
\* end, and nothing has to fail.
RotationFairness ==
  \A p \in Processes : WF_vars(SetUp(p)) /\ SF_vars(AcquireRotation(p))

(***************************************************************************)
(* Properties.                                                             *)
(***************************************************************************)
Steps == Setup \cup {"idle", "starting", "opening", "running", "unlogged"}

\* Every variable has its type.
TypeOK ==
  /\ generations \subseteq Nat
  /\ latest \in Nat \cup {NoLog}
  /\ rotation \in [Directories -> Processes \cup {Nobody}]
  /\ pc \in [Processes -> Steps]
  /\ kind \in [Processes -> Kinds]
  /\ selected \in [Processes -> Nat \cup {Latest, NoLog}]
  /\ locked \in [Processes -> BOOLEAN]
  /\ todo \in [Processes -> SUBSET Nat]
  /\ completed \in [Processes -> Nat]
  /\ file \in [Processes -> Nat \cup {NoLog}]

\* No process loses the generation it appends to, whoever rotates meanwhile
\* and whether or not its parent lives.
ActiveGenerationKept ==
  \A p \in Processes : pc[p] = "running" /\ selected[p] \in Nat => selected[p] \in generations

\* Two top-level processes never share a generation, although each of them
\* derives its number from the files that it finds.
OwnGeneration ==
  \A p, q \in Processes :
    /\ p # q /\ kind[p] = "top" /\ kind[q] = "top"
    /\ pc[p] \in {"opening", "running"} /\ pc[q] \in {"opening", "running"}
    => selected[p] # selected[q]

\* .catalyst.log always names a log that is kept.
LatestIsKept == latest \in Nat \ {0} => latest \in generations

\* A generation is removed only when enough newer ones have completed, also
\* when invocations end while the pruning goes on.
PrunedWhenOld ==
  [][\A n \in generations \ generations' : \E p \in Processes :
       /\ pc[p] = "pruning"
       /\ RETAINED_INVOCATIONS <=
            Cardinality({m \in generations' : n < m /\ m < selected[p] /\ ~Held(m)})]_vars

\* Setting up the log ends, however long the other invocations run.
SetupReturns ==
  \A p \in Processes : pc[p] = "starting" ~> pc[p] \in {"running", "unlogged", "idle"}

\* "At startup, Catalyst retains the 50 most recent completed generations plus
\* all active invocations" (docs/concepts/log.md).
ActiveLogRetained ==
  \A p \in Processes : pc[p] = "running" => file[p] \in generations \cup {latest}
=============================================================================
