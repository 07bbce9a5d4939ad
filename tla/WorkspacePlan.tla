---------------------------- MODULE WorkspacePlan ----------------------------
(***************************************************************************)
(* What the planning of a workspace build (WorkspaceGraph) promises to its *)
(* execution (WorkspaceBuild).  A plan is a record of the packages, their  *)
(* dependencies, the build order and the packages to build.                *)
(***************************************************************************)
EXTENDS Naturals, Sequences, Functions

\* build_order enumerates the packages, a dependency ahead of its dependents.
IsBuildOrder(order, packages, deps) ==
  /\ order \in Seq(packages)
  /\ \A p \in packages : \E i \in DOMAIN order : order[i] = p
  /\ \A i, j \in DOMAIN order : order[i] = order[j] => i = j
  /\ \A i \in DOMAIN order : \A d \in deps[order[i]] \cap packages :
       \E j \in 1 .. i - 1 : order[j] = d

\* The targets include what the targets depend on.
IsClosedSelection(targets, packages, deps) ==
  /\ targets \subseteq packages
  /\ \A p \in targets : deps[p] \cap packages \subseteq targets

IsPlan(packages, deps, order, targets) ==
  /\ IsBuildOrder(order, packages, deps)
  /\ IsClosedSelection(targets, packages, deps)
=============================================================================
