---------------------------- MODULE EmbeddedCob ----------------------------
(***************************************************************************)
(* Extraction of the bundled backend by processes of one user, each of     *)
(* which then runs it.  The file is "none", "stale" (of another length than*)
(* the bundled one, what an older release has left), "partial" or "cob".   *)
(***************************************************************************)
EXTENDS FiniteSets

CONSTANT Users  \* processes that run the backend

ASSUME UsersAssumption == Users # {}

VARIABLES
  at,     \* where a process is in ensureEmbeddedCobExtracted
  cob,    \* the file
  temp,   \* the temporary file of each process
  ran,    \* what a process found when it ran the backend
  first   \* the file at the start

cobVars == <<at, cob, temp, ran, first>>

FindCob(file) ==
  /\ first = file /\ cob = file
  /\ at = [p \in Users |-> "exists"]
  /\ temp = [p \in Users |-> "none"]
  /\ ran = [p \in Users |-> "not yet"]

CobInit == \E file \in {"none", "stale", "cob"} : FindCob(file)

Goto(p, to) == at' = [at EXCEPT ![p] = to]

CobExists(p) ==
  /\ at[p] = "exists"
  /\ Goto(p, IF cob = "none" THEN "open" ELSE "measure")
  /\ UNCHANGED <<cob, temp, ran, first>>

\* Mutant of Current: the length is not looked at.
CurrentIfThere == cob # "none"

Current == cob = "cob"

\* A file that has vanished since has no length and counts as stale.
CobMeasure(p) ==
  /\ at[p] = "measure"
  /\ Goto(p, IF Current THEN "run" ELSE "remove")
  /\ UNCHANGED <<cob, temp, ran, first>>

\* Whatever is there now is removed.
CobRemove(p) ==
  /\ at[p] = "remove"
  /\ \/ Goto(p, "open") /\ cob' = "none"
     \/ Goto(p, "failed") /\ UNCHANGED cob
  /\ UNCHANGED <<temp, ran, first>>

CobOpen(p) ==
  /\ at[p] = "open"
  /\ \/ Goto(p, "write") /\ temp' = [temp EXCEPT ![p] = "partial"]
     \/ Goto(p, "failed") /\ UNCHANGED temp
  /\ UNCHANGED <<cob, ran, first>>

CobWrite(p) ==
  /\ at[p] = "write"
  /\ \/ Goto(p, "rename") /\ temp' = [temp EXCEPT ![p] = "cob"]
     \/ Goto(p, "failed") /\ temp' = [temp EXCEPT ![p] = "none"]
  /\ UNCHANGED <<cob, ran, first>>

\* A failed rename is forgiven when another process has completed its own.
CobRename(p) ==
  /\ at[p] = "rename"
  /\ temp' = [temp EXCEPT ![p] = "none"]
  /\ \/ Goto(p, "run") /\ cob' = temp[p]
     \/ Goto(p, IF Current THEN "run" ELSE "failed") /\ UNCHANGED cob
  /\ UNCHANGED <<ran, first>>

CobRun(p) ==
  /\ at[p] = "run" /\ Goto(p, "done")
  /\ ran' = [ran EXCEPT ![p] = cob]
  /\ UNCHANGED <<cob, temp, first>>

CobKill(p) ==
  /\ at[p] \notin {"done", "failed", "killed"} /\ Goto(p, "killed")
  /\ UNCHANGED <<cob, temp, ran, first>>

CobNext ==
  \E p \in Users :
    \/ CobExists(p) \/ CobMeasure(p) \/ CobRemove(p) \/ CobOpen(p)
    \/ CobWrite(p) \/ CobRename(p) \/ CobRun(p) \/ CobKill(p)

CobSpec == CobInit /\ [][CobNext]_cobVars

(***************************************************************************)
(* Properties.                                                             *)
(***************************************************************************)

\* No process ever runs a torn or stale executable, whatever the others do and
\* wherever they are killed.  Unless a stale file was there at first, the one that
\* a process was told of is there when it runs it; if one was, it may be missing,
\* because another process that saw the stale file removes what has replaced it,
\* but it is there again once all have returned without an error.
\* (ensureEmbeddedCobExtracted looks, measures, removes and renames in separate
\* steps, without a lock.)
InstalledCobRuns ==
  /\ \A p \in Users : ran[p] \in {"not yet", "cob"} \cup IF first = "stale" THEN {"none"} ELSE {}
  /\ (\A p \in Users : at[p] = "done") => cob = "cob"
=============================================================================
