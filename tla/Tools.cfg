SPECIFICATION ToolsSpec
CONSTANTS
  Numbers <- MCNumbers
  NoValue = NoValue
  Worlds <- MCWorlds
  MaxTouches = 2
  HookedProjects <- MCHookedProjects
  Absent = Absent
  MAX_DISPATCH = 3
  MAX_DEPTH = 4
  MaxCommands = 2
  MaxTime = 4
  Tops = {"t1", "t2"}
  Children = {"c1", "c2"}
  Starts <- MCStarts
  NoFile = NoFile
  MAX_SUFFIX = 3
  MaxRecords = 1
  MaxFaults = 2
  Users = {"u1", "u2", "u3"}
  MaxEdits = 3
INVARIANTS
  DefinitionsExact
  LinksInOrder
  ScanVerdict
  ModulesBuild
  UpToDate
  ContextOfInnermost
  SliceLikePython
  RecordsOnce
  InstalledCobRuns
PROPERTIES
  SkippedIsCurrent
  EditsRebuilt
CHECK_DEADLOCK FALSE
