SPECIFICATION Spec
CONSTANTS
  common = common
  debug = debug
  asan = asan
  a = a
  b = b
  Profiles = {common, debug, asan}
  Names = {a, b}
  NoName = NoName
  Origins = {"add", "x", "y", "z"}
  Unset = Unset
  Null = Null
  Missing = Missing
  Torn = Torn
  Layouts <- MixedLayouts
  Requests <- NoRequests
  Additions <- NewAdditions
INVARIANT
  AddedStays
