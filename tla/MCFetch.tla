------------------------------ MODULE MCFetch ------------------------------
(***************************************************************************)
(* Instances of Fetch for TLC.                                             *)
(***************************************************************************)
EXTENDS Fetch

CONSTANTS a, b, c

Entry(n, s) == [name |-> n, source |-> s]

\* c is a member of the workspace.
TheMembers == {c}

\* Each source, members and other names, and an entry without a source.
Lists ==
  { <<Entry(a, "git"), Entry(b, "url"), Entry(c, "local")>>,
    <<Entry(a, "local"), Entry(b, "git"), Entry(c, "git")>>,
    <<Entry(b, "local"), Entry(a, "url"), Entry(c, "custom")>>,
    <<Entry(a, "vcpkg"), Entry(b, "conan"), Entry(c, "system")>>,
    <<Entry(a, "custom"), Entry(b, "git"), Entry(c, "vcpkg")>>,
    <<Entry(a, "git"), Entry(b, "missing")>> }

\* catalyst.lock in each revision.
AnyLockfile == SUBSET {a, b}

OneDependency == { <<Entry(a, "git")>> }

OneLockfile == {{a}}
=============================================================================
