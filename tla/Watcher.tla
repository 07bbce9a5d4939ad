------------------------------ MODULE Watcher ------------------------------
(***************************************************************************)
(* `catalyst build --watch`: a first build, and then a rebuild for each    *)
(* burst of changes.  The operating system tells a listener thread of the  *)
(* changes it was asked to watch; the thread hands them to the loop.       *)
(*                                                                         *)
(* The sources are a version that each relevant change raises.  A build    *)
(* reads them at some moment between its start and its end.                *)
(***************************************************************************)
EXTENDS Integers, Sequences

CONSTANT MaxEdits  \* bound on the changes

VARIABLES
  loop,     \* what the loop does: "first", "wait", "settle", "build" or "ended"
  version,  \* the sources
  seen,     \* the last version that an event has announced
  events,   \* changes that the listener has not heard of yet
  pending,  \* number of changes that the loop has not taken
  settled,  \* the number of them when it last looked
  reading,  \* the sources that the running build has read, 0 when none yet
  current   \* the sources that the last finished build has read

watchVars == <<loop, version, seen, events, pending, settled, reading, current>>

WatchInit ==
  /\ loop = "first"
  /\ version = 1 /\ seen = 0 /\ current = 0 /\ reading = 0
  /\ events = <<>>
  /\ pending = 0 /\ settled = 0

Building == loop \in {"first", "build"}
Watching == loop \in {"wait", "settle", "build"}

\* A change that is made before the watches exist is announced to nobody.
Change ==
  /\ version <= MaxEdits /\ loop # "ended"
  /\ version' = version + 1
  /\ IF Watching THEN /\ events' = Append(events, "watched")
                      /\ seen' = version + 1
     ELSE UNCHANGED <<events, seen>>
  /\ UNCHANGED <<loop, pending, settled, reading, current>>

\* A change of a directory, or of another file beside the manifest.
ChangeOther ==
  /\ Watching /\ events = <<>>
  /\ events' = <<"other">>
  /\ UNCHANGED <<loop, version, seen, pending, settled, reading, current>>

\* handleFileAction.
HandleFileAction ==
  /\ events # <<>> /\ loop # "ended"
  /\ events' = Tail(events)
  /\ pending' = IF Head(events) = "watched" THEN pending + 1 ELSE pending
  /\ UNCHANGED <<loop, version, seen, settled, reading, current>>

(***************************************************************************)
(* The loop.                                                               *)
(***************************************************************************)

Wake ==
  /\ loop = "wait" /\ pending > 0
  /\ loop' = "settle" /\ settled' = pending
  /\ UNCHANGED <<version, seen, events, pending, reading, current>>

\* More events within the settle time start it anew.
SettleAgain ==
  /\ loop = "settle" /\ pending # settled
  /\ settled' = pending
  /\ UNCHANGED <<loop, version, seen, events, pending, reading, current>>

StartRebuild ==
  /\ loop = "settle" /\ pending = settled
  /\ loop' = "build" /\ reading' = 0
  /\ pending' = 0
  /\ UNCHANGED <<version, seen, events, settled, current>>

ReadSources ==
  /\ Building /\ reading = 0
  /\ reading' = version
  /\ UNCHANGED <<loop, version, seen, events, pending, settled, current>>

\* Mutant of PendingAfter: the changes are forgotten after the rebuild.
PendingForgotten == 0

\* What has come during a rebuild is kept.
PendingAfter == pending

\* Also a build that fails with an error goes on to wait.
BuildReturned ==
  /\ Building /\ reading > 0
  /\ loop' = "wait" /\ current' = reading /\ pending' = PendingAfter
  /\ UNCHANGED <<version, seen, events, settled, reading>>

\* An exception, such as that of a manifest that does not parse, ends watch mode.
BuildThrew ==
  /\ Building /\ loop' = "ended"
  /\ UNCHANGED <<version, seen, events, pending, settled, reading, current>>

WatchNext ==
  \/ Change \/ ChangeOther \/ HandleFileAction
  \/ Wake \/ SettleAgain \/ StartRebuild
  \/ ReadSources \/ BuildReturned \/ BuildThrew

\* The two threads run and builds end; nobody has to change anything.
WatchFairness ==
  /\ WF_watchVars(HandleFileAction)
  /\ WF_watchVars(Wake \/ SettleAgain \/ StartRebuild)
  /\ WF_watchVars(ReadSources) /\ WF_watchVars(BuildReturned)

(***************************************************************************)
(* Properties.                                                             *)
(***************************************************************************)

\* Sources that are changed while Catalyst watches are read by a build that
\* ends after the change, also when the change comes
\* during a rebuild or while an earlier burst settles, unless an exception ends
\* watch mode.  (Watcher::watch, handleFileAction.)
EditsRebuilt ==
  seen > current ~> (seen <= current \/ loop = "ended")
===========================================================================
