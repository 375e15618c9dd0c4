CONSTANTS
  c1 = c1
  Clients = {c1}
  Commands <- MCCommands
  Acf <- MCAcf
  Scope <- MCScope
  Values = {"0", "1"}
  Required = {"Gain"}
  ShutParam = "Shut"
  MayRefuse = TRUE
  MayLose = FALSE
  FastStored = FALSE
SPECIFICATION Spec
INVARIANT MirrorExact
INVARIANT WholeFirmware
INVARIANT SuccessApplied
INVARIANT LoadReported
