\* Several shutdown requests, acceptors and observers, some of them canceled.
SPECIFICATION Spec
CONSTANTS
  Threads = {t1, t2, t3}
  NoThread = NoThread
  NoCall = NoCall
  NoResult = NoResult
  Levels = {right_now, gracefully}
  NoLevel = NoLevel
  Ops <- LivingOps
  Targets <- SomeTargets
INVARIANTS ReportsStayTrue LevelIsAgreed NobodyMissesAState JanitorOwnsLock
SYMMETRY ThreadSymmetry
