SPECIFICATION ProcessesSpec
CONSTANTS
  p1 = p1
  p2 = p2
  Processes = {p1, p2}
  RETAINED_INVOCATIONS = 2
  MaxGeneration = 6
  Latest = Latest
  NoLog = NoLog
  Nobody = Nobody
  m1 = m1
  m2 = m2
  m3 = m3
  m4 = m4
  ext = ext
  Packages = {m1, m2, m3, m4}
  Names = {m1, m2, m3, m4, ext}
  Plans <- AllPlans
INVARIANTS
  StartsAfterDependencies
  NothingLeftRunning
  FailureIsContained
  ErrorIsComplete
  ActiveGenerationKept
  OwnGeneration
  LatestIsKept
PROPERTIES
  BuildReturns
  ImplementsContract
  PrunedWhenOld
  SetupReturns
