SPECIFICATION Spec
CONSTANTS
  a = a
  b = b
  c = c
  Names = {a}
  Members = {}
  Manifests <- OneDependency
  MaxEntries = 1
  Lockfiles <- OneLockfile
  Kills = FALSE
  Absent = Absent
  Incomplete = Incomplete
  Link = Link
INVARIANT
  LockedRevisionUsed
