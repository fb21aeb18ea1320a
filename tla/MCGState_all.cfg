\* Every operation, the reset of the unit tests included; everybody who waits
\* follows the state.
SPECIFICATION FairSpec
CONSTANTS
  Threads = {t1, t2}
  NoThread = NoThread
  NoCall = NoCall
  NoResult = NoResult
  Levels = {gracefully}
  NoLevel = NoLevel
  Ops <- AllOps
  Targets <- AllTargets
PROPERTY WaitersFollow
