CONSTANTS
  MaxDev = 2
  MaxFrames = 3
  MaxExposes = 2
  Scenarios <- SomeScenarios
SPECIFICATION FairSpec
INVARIANT TypeOK
INVARIANT ThreadsCounted
INVARIANT FramesInOrder
INVARIANT QuietAtRest
 
PROPERTY ExposeReturns
CHECK_DEADLOCK FALSE
