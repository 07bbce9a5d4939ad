SPECIFICATION PlanningSpec
CONSTANTS
  common = common
  debug = debug
  asan = asan
  a = a
  b = b
  Profiles = {common, debug, asan}
  Names = {a, b}
  NoName = NoName
  Origins = {"add", "x", "y", "z"}
  Unset = Unset
  Null = Null
  Missing = Missing
  Torn = Torn
  Layouts <- SeparateLayouts
  Requests <- AllRequests
  Additions <- AllAdditions
  m1 = m1
  m2 = m2
  m3 = m3
  m4 = m4
  ext = ext
  Members = {m1, m2, m3, m4}
  PackageNames = {m1, m2, m3, m4, ext}
  Unnamed = Unnamed
  NoMember = NoMember
  AllPackages = AllPackages
  Manifests <- AllManifests
INVARIANTS
  LastProfileDecides
  SequencesAccumulate
  DependencyNamesUnique
  LastDeclarationsKept
  AddedStays
  BuildOrderTopological
  BuildOrderComplete
  EveryMemberPlanned
  CycleVerdict
  TargetsAreClosure
