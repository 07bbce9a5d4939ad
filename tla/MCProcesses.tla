---------------------------- MODULE MCProcesses ----------------------------
(***************************************************************************)
(* Instances of WorkspaceBuild, the threads of a workspace build, and of   *)
(* LogRotation, the processes that share a directory of logs.  The two do  *)
(* not interact: a behaviour is one of one subject, and the variables of   *)
(* the other stay as they are.                                             *)
(***************************************************************************)
EXTENDS MCLogRotation, WorkspaceBuild, SequencesExt

CONSTANTS m1, m2, m3, m4, ext

VARIABLE subject

\* The dependencies that the k-th package of the order may list: none or some
\* earlier packages in any order, together with a package from outside.
Lists(order, k) ==
  UNION {SetToSeqs(S) : S \in SUBSET {order[j] : j \in 1 .. k - 1}}

BuildOrder == <<m1, m2, m3, m4>>

\* Every plan over four packages, up to their names; the first one may list a
\* package from outside the workspace.
AllPlans ==
  {w \in
     {[dependencies |-> m1 :> l1 @@ m2 :> l2 @@ m3 :> l3 @@ m4 :> l4,
       build_order |-> BuildOrder, targets |-> t] :
        l1 \in {<<>>, <<ext>>}, l2 \in Lists(BuildOrder, 2), l3 \in Lists(BuildOrder, 3),
        l4 \in Lists(BuildOrder, 4), t \in SUBSET Packages} :
   IsClosedSelection(w.targets, Packages,
                     [p \in Packages |-> Range(w.dependencies[p])])}

NoTargets == [dependencies |-> [p \in Packages |-> <<>>],
              build_order |-> BuildOrder, targets |-> {}]

ProcessesInit ==
  /\ Init
  /\ \/ subject = "build" /\ latest = NoLog /\ StartBuild
     \/ subject = "log" /\ plan = NoTargets /\ Untouched("none")

ProcessesNext ==
  /\ \/ subject = "build" /\ BuildNext /\ UNCHANGED vars
     \/ subject = "log" /\ Next /\ UNCHANGED buildVars
  /\ UNCHANGED subject

ProcessesSpec ==
  /\ ProcessesInit /\ [][ProcessesNext]_<<subject, vars, buildVars>>
  /\ BuildFairness /\ RotationFairness
=============================================================================
