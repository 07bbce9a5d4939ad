---------------------------- MODULE FeatureFlags ----------------------------
(***************************************************************************)
(* Features of a project: how the flags that its manifest declares are     *)
(* resolved against --features or the `using` of a dependency              *)
(* (resolveFeatureFlags), the preprocessor definitions that follow         *)
(* (featureDefinitions), and their union over dependencies                 *)
(* (mergeFeatureDefinitions).                                              *)
(*                                                                         *)
(* An override is a record of the form in which it was written (name=value,*)
(* no-name, name), a name and a value.  The text of a macro is the tuple of*)
(* the names it is put together from.                                      *)
(***************************************************************************)
EXTENDS Naturals, Sequences, SequencesExt

CONSTANTS
  Numbers,  \* values that are read as an integer to their end
  NoValue   \* a flag has no default, or is of a type without one

Written(override) ==
  CASE override.form = "bare" -> "true"
    [] override.form = "no" -> "false"
    [] override.form = "value" -> override.value

Mentions(overrides, name) == {i \in DOMAIN overrides : overrides[i].name = name}

\* Of several overrides of a flag the last one counts.
Overriding(overrides, name) ==
  Written(overrides[CHOOSE i \in Mentions(overrides, name) :
                      \A j \in Mentions(overrides, name) : j <= i])

\* Whether a manifest may declare such a flag.  A flag that is written as a bare
\* value, or as a map without a type, is boolean.
Declarable(flag) ==
  CASE flag.type = "bool" -> TRUE
    [] flag.type = "enum" -> flag.default \in ToSet(flag.values)
    [] flag.type = "int" -> flag.default \in Numbers
    [] flag.type = "string" -> flag.default # NoValue
    [] OTHER -> FALSE

\* Whether a flag takes the value of an override.  "true" and "false" are taken
\* for the bare and the no- form, so that no other flag takes them.
Takes(flag, value) ==
  IF flag.type = "bool" THEN value \in {"true", "1", "false", "0"}
  ELSE /\ value \notin {"true", "false"}
       /\ flag.type = "enum" => value \in ToSet(flag.values)
       /\ flag.type = "int" => value \in Numbers

Resolvable(flags, overrides) ==
  /\ \A i \in DOMAIN overrides : overrides[i].name # ""
  /\ \A flag \in flags :
       /\ Declarable(flag)
       /\ Mentions(overrides, flag.name) # {} => Takes(flag, Overriding(overrides, flag.name))

ValueOf(flag, overrides) ==
  IF Mentions(overrides, flag.name) = {} THEN flag.default
  ELSE LET value == Overriding(overrides, flag.name) IN
       IF flag.type # "bool" THEN value
       ELSE IF value \in {"true", "1"} THEN "true" ELSE "false"

IsEnabled(flag, overrides) ==
  IF flag.type = "bool" THEN ValueOf(flag, overrides) = "true"
  ELSE ValueOf(flag, overrides) \notin {"off", "false", "0", "none", ""}

\* Position in an enumeration, from 0.
Index(values, value) == (CHOOSE i \in DOMAIN values : values[i] = value) - 1

\* A value that is listed twice has the last of its positions in its macro.
LastPositions(values) ==
  {i \in DOMAIN values : \A j \in DOMAIN values : values[j] = values[i] => j <= i}

DefinitionsOf(project, flag, overrides) ==
  LET value == ValueOf(flag, overrides) IN
  CASE flag.type = "bool" ->
         {<<project, flag.name>>} \X {IF value = "true" THEN 1 ELSE 0}
    [] flag.type = "enum" ->
         {<< <<project, flag.name>>, Index(flag.values, value)>>}
           \cup {<< <<project, flag.name, flag.values[i]>>, i - 1>> : i \in LastPositions(flag.values)}
    [] OTHER -> {<< <<project, flag.name>>, value>>}

\* The definitions of a project, as pairs of a macro and its value.
Definitions(project, flags, overrides) ==
  UNION {DefinitionsOf(project, flag, overrides) : flag \in flags}

\* Mutant of Conflict: nothing is rejected.
ConflictIgnored(left, right) == FALSE

\* mergeFeatureDefinitions fails when a macro has two values; else it is a union.
Conflict(left, right) == \E l \in left, r \in right : l[1] = r[1] /\ l[2] # r[2]
=============================================================================
