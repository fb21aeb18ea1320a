SPECIFICATION FairSpec
CONSTANTS
  Callers = {c1, c2}
  NoOne = NoOne
  Ops <- AllOps
  Cancelable = TRUE
  TakeTurns = TRUE
  MaxStarts = 2
  Limit = 5
INVARIANTS WaitSeesTheEnd EndIsReported FreedIsLeftAlone NobodyOversleeps
PROPERTY WaitersReturn
CHECK_DEADLOCK FALSE
