CONSTANTS
  NBufs = 3
  Active = 3
  NumberFirst = TRUE
  Watched = TRUE
  MayFail = TRUE
  Lead = 3
  MaxPre = 1
  MaxSeq = 3
  MaxFrames = 7
SPECIFICATION Spec
INVARIANT WholeFrames
INVARIANT InOrder
CHECK_DEADLOCK FALSE
