----------------------------- MODULE MCPlanning -----------------------------
(***************************************************************************)
(* Instances of Manifests and of WorkspaceGraph for TLC.  The two do not   *)
(* interact: a behaviour is one of one subject, and the variables of the   *)
(* other stay as they are.                                                 *)
(***************************************************************************)
EXTENDS MCManifests, WorkspaceGraph

CONSTANTS m1, m2, m3, m4, ext

VARIABLE subject

Nameless == [name |-> Unnamed, deps |-> {}, loads |-> TRUE]

\* Every graph over the members, which load and are named after their keys; of
\* graphs that differ by a renaming, one whose members are sorted by the number
\* of their dependencies is enough.
MemberGraphs ==
  LET Fewer(g, m, n) == Cardinality(g[m]) <= Cardinality(g[n])
  IN {[m \in Members |-> [name |-> m, deps |-> g[m], loads |-> TRUE]] :
        g \in {f \in [Members -> SUBSET Members] :
                 /\ \A m \in Members : m \notin f[m]
                 /\ Fewer(f, m1, m2) /\ Fewer(f, m2, m3) /\ Fewer(f, m3, m4)}}

\* Two members with every manifest: a missing or shared name, a dependency on
\* itself, on the other or on a package outside the workspace, and a manifest
\* that cannot be loaded.  The other members have no name.
OddManifests ==
  LET Each == [name : {m1, m2, Unnamed}, deps : SUBSET {m1, m2, ext}, loads : BOOLEAN]
  IN {[m \in Members |-> CASE m = m1 -> e1 [] m = m2 -> e2 [] OTHER -> Nameless] :
        e1, e2 \in Each}

AllManifests == MemberGraphs \cup OddManifests

PlanningInit ==
  /\ \/ subject = "graph" /\ combined = Missing /\ split = <<>>
     \/ subject = "manifests" /\ manifest = [m \in Members |-> Nameless] /\ requested = AllPackages
  /\ Init /\ GraphInit

PlanningNext ==
  /\ \/ subject = "graph" /\ GraphNext /\ UNCHANGED vars
     \/ subject = "manifests" /\ Next /\ UNCHANGED graphVars
  /\ UNCHANGED subject

PlanningSpec == PlanningInit /\ [][PlanningNext]_<<subject, vars, graphVars>>
=============================================================================
