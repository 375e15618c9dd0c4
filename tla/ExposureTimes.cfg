CONSTANTS
  Setters = {"c1"}
  Exposer = "c2"
  Acf <- AcfFiles
  LongSupported = {TRUE, FALSE}
  Times = {1, 3}
  MAX_EXPTIME = 3
  Second = 2
  MSEC_TO_TICK = 2
  Word = 12
  MaxClock = 15
  MaxDelay = 1
  MaxCommands = 2
SPECIFICATION FairSpec
INVARIANT TimesAgree
INVARIANT WaitCovers
PROPERTY WaitEnds
CHECK_DEADLOCK FALSE
