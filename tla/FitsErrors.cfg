CONSTANTS
  Amps = 2
  MaxSeq = 3
  MaxFiles = 6
  MaxWriters = 2
  Scenarios <- SomeScenarios
SPECIFICATION FairSpec
INVARIANT CompleteFiles
INVARIANT SavedOrReported
INVARIANT ClosedAtRest
INVARIANT NoSpuriousError
PROPERTY ModeKept
PROPERTY ExposeReturns
CHECK_DEADLOCK FALSE
