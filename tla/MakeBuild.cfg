SPECIFICATION Spec
CONSTANTS
  Numbers <- MCNumbers
  NoValue = NoValue
  Worlds <- MakeWorlds
  MaxTouches = 2
INVARIANT
  StalenessPropagates
CHECK_DEADLOCK FALSE
