SPECIFICATION Spec
CONSTANTS
  Threads = {t1, t2, t3}
  NoOne = NoOne
  Nestings <- SafeNestings
SYMMETRY Symmetry
INVARIANTS EveryHoldCanBeClosed ProtectedInRegions HeldByTheLiving
