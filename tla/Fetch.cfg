SPECIFICATION FairSpec
CONSTANTS
  a = a
  b = b
  c = c
  Names = {a, b, c}
  Members <- TheMembers
  Manifests <- Lists
  MaxEntries = 3
  Lockfiles <- AnyLockfile
  Kills = TRUE
  Absent = Absent
  Incomplete = Incomplete
  Link = Link
INVARIANTS
  NothingLeftRunning
  GitPresentWhenReady
  LocalsAlwaysChecked
PROPERTIES
  StampedWhenFetched
  FetchReturns
