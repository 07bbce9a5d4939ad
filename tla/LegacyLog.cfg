SPECIFICATION Spec
CONSTANTS
  p1 = p1
  p2 = p2
  Processes = {p1, p2}
  RETAINED_INVOCATIONS = 1
  MaxGeneration = 3
  Latest = Latest
  NoLog = NoLog
  Nobody = Nobody
INVARIANT
  ActiveLogRetained
