CONSTANTS
  NBufs = 3
  Active = 2
  NumberFirst = FALSE
  Watched = FALSE
  MayFail = FALSE
  Lead = 1
  MaxPre = 1
  MaxSeq = 3
  MaxFrames = 7
SPECIFICATION FairSpec
PROPERTY DeliversSequence
PROPERTY SequenceCompletes
CHECK_DEADLOCK FALSE
