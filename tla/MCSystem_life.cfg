SPECIFICATION FairSpec
CONSTANTS
  MAX_MODULES = 2
  Names = {"dummy"}
  WaitLimit = TRUE
  Signums = {"SIGTERM"}
  SIGUSR2 = "SIGUSR2"
  Handlers <- TermHandlers
  NULL = NULL
  NSends = 1
  NChanges = 1
INVARIANTS SystemTypeOK TheEndIsTold
PROPERTIES ChangesAreSeen TheProgramEnds
CHECK_DEADLOCK FALSE
