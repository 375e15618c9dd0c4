CONSTANTS
  NumDev = 2
  Requests <- MCRequests
  BadRequests <- MCBad
  Selections <- MCSelections
  Defaults = {1}
  Times = {1}
  Sizes = {1, 2}
  Buffers = {2}
  MaxList = 1
SPECIFICATION Spec
INVARIANT AllOrNothing
INVARIANT TimesAgree
INVARIANT FramesFit
INVARIANT LoadedRuns
INVARIANT LoadReported
