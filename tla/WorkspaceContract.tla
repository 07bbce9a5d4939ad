-------------------------- MODULE WorkspaceContract --------------------------
(***************************************************************************)
(* What `catalyst build` promises of a workspace build, without threads,   *)
(* futures or a dispatch loop: a member is built when the members it       *)
(* depends on have been built, it is passed over when one of them has not, *)
(* and the build reports success exactly when every target was built, with *)
(* nothing left running.                                                   *)
(***************************************************************************)
CONSTANT
  Packages     \* packages of the workspace

VARIABLES
  deps,        \* the target packages that each package depends on
  targets,     \* the packages to build
  progress,    \* "idle", "running", "ok", "failed" or "skipped"
  result       \* what the command returns: "none" until then

contractVars == <<deps, targets, progress, result>>

Init ==
  /\ targets \in SUBSET Packages
  /\ deps \in [targets -> SUBSET targets]
  /\ progress = [p \in Packages |-> "idle"]
  /\ result = "none"

Becomes(p, outcome) ==
  /\ result = "none"
  /\ progress' = [progress EXCEPT ![p] = outcome]
  /\ UNCHANGED <<deps, targets, result>>

Ready(p) == \A d \in deps[p] : progress[d] = "ok"

Run(p) == progress[p] = "idle" /\ Ready(p) /\ Becomes(p, "running")

CannotRun(p) == progress[p] = "idle" /\ Ready(p) /\ Becomes(p, "failed")

Finish(p) == progress[p] = "running" /\ (Becomes(p, "ok") \/ Becomes(p, "failed"))

PassOver(p) ==
  /\ progress[p] = "idle"
  /\ \E d \in deps[p] : progress[d] \in {"failed", "skipped"}
  /\ Becomes(p, "skipped")

Report ==
  /\ result = "none"
  /\ \A p \in targets : progress[p] # "running"
  /\ result' = IF \A p \in targets : progress[p] = "ok" THEN "ok" ELSE "failed"
  /\ UNCHANGED <<deps, targets, progress>>

Next ==
  \/ \E p \in targets : Run(p) \/ CannotRun(p) \/ Finish(p) \/ PassOver(p)
  \/ Report

Spec == Init /\ [][Next]_contractVars
=============================================================================
