SPECIFICATION FairSpec
CONSTANTS
  NWorkers = 2
  Callers = {c1}
  NoOne = NoOne
  Ops <- PauseOps
  HasSetup = TRUE
  ClockSteps = FALSE
  Limit = 5
PROPERTY PauseIsReached
CHECK_DEADLOCK FALSE
