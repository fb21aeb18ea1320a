\* Two threads use every operation of a buffer whose slots divide the range of the index.
SPECIFICATION Spec
CONSTANTS
  Threads = {t1, t2}
  NoThread = NoThread
  Values = {v1, v2}
  NoValue = NoValue
  QMuxers = {qmx}
  NoQMuxer = NoQMuxer
  NoCall = NoCall
  NoResult = NoResult
  MaxElements = 2
  IndexLimit = 6
  Ops <- LifeOps
INVARIANTS IndicesAgree ReadinessIsNotified
PROPERTY IsBoundedQueue
SYMMETRY Symmetry
