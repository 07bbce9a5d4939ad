---------------------------- MODULE MCManifests ----------------------------
(***************************************************************************)
(* Instances of Manifests for TLC.                                         *)
(***************************************************************************)
EXTENDS Manifests, TLC

CONSTANTS common, debug, asan, a, b

With(keys) == keys @@ EmptyProfile

Dep(n, from) == [name |-> n, from |-> from]

Full(from, version, generator) ==
  With([min_ver |-> version, generator |-> generator, name |-> from, engine |-> from,
        source |-> <<from>>, feature |-> from, hook |-> <<from>>,
        dependencies |-> <<Dep(a, from), Dep(b, from)>>])

\* Each key with two values, null, and nulled by each of its sections; an unknown
\* generator, dependencies that repeat a name or have none, and an unknown key.
Contents ==
  { Full("x", <<1, 2, 0>>, "ninja"),
    With([min_ver |-> <<1, 1, 9>>, generator |-> "other", name |-> "y", source |-> <<"y", "x">>,
          dependencies |-> <<Dep(b, "y"), Dep(NoName, "y"), Dep(b, "z")>>]),
    With([k \in Leaves |-> Null]),
    With([meta |-> Null, doc |-> Null, dirs |-> Null, features |-> Null, hooks |-> Null,
          name |-> "z", dependencies |-> <<Dep(a, "z")>>]),
    With([manifest |-> Null, min_ver |-> <<0, 0, 2>>, generator |-> "make", hook |-> <<"z">>]),
    With([unknown |-> "x"]) }

\* Every assignment of contents to some of the profiles.
Some(contents) == UNION {[defined -> contents] : defined \in SUBSET Profiles}

Plain == With([dependencies |-> <<Dep(b, "x")>>])

\* The profiles in CATALYST.yaml, or in files of their own.
SeparateLayouts ==
  {[combined |-> f, split |-> <<>>] : f \in [Profiles -> Contents] \cup Some({Plain, EmptyProfile})}
    \cup {[combined |-> Missing, split |-> f] : f \in Some({Plain, EmptyProfile})}

\* common in CATALYST.yaml and the other profiles in files of their own.
MixedLayouts ==
  {[combined |-> common :> Plain, split |-> [n \in {debug, asan} |-> With([name |-> "x"])]]}

AllRequests == {<<common>>, <<common, debug>>, <<common, debug, asan>>,
                <<common, debug, debug, common>>}

AllAdditions == {[name |-> a, profiles |-> <<common>>], [name |-> b, profiles |-> <<debug, common>>]}

NoRequests == {}

\* Two additions to a profile that has a file of its own.
NewAdditions == {[name |-> n, profiles |-> <<debug>>] : n \in {a, b}}
=============================================================================
