-------------------------- MODULE MCBuildPipeline --------------------------
(***************************************************************************)
(* Instances of BuildPipeline for TLC.                                     *)
(***************************************************************************)
EXTENDS BuildPipeline, TLC

CONSTANTS c1, c2, f1, f2, l1, l2, t1, t2

\* Two manifests that name different generators.
GeneratorNamed == [c \in Configs |-> IF c = c1 THEN "cob" ELSE "ninja"]

\* Nothing tells feature lists, local dependencies or toolchains apart but their
\* identity.
Symmetry == Permutations({f1, f2}) \cup Permutations({l1, l2}) \cup Permutations({t1, t2})
=============================================================================
