SPECIFICATION FairSpec
CONSTANTS
  NWorkers = 2
  Callers = {c1}
  NoOne = NoOne
  Ops <- AllOps
  HasSetup = TRUE
  ClockSteps = FALSE
  Limit = 5
INVARIANTS EndIsTold PausedIsQuiet NothingIsLeft
PROPERTY ShutdownEnds
CHECK_DEADLOCK FALSE
