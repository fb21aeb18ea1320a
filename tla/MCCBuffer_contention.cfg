\* Three threads on two elements, with timeouts, a shutdown and cancellation; three slots do not
\* divide the range of the index.
SPECIFICATION FairSpec
CONSTANTS
  Threads = {t1, t2, t3}
  NoThread = NoThread
  Values = {v1}
  NoValue = NoValue
  QMuxers = {qmx}
  NoQMuxer = NoQMuxer
  NoCall = NoCall
  NoResult = NoResult
  MaxElements = 2
  IndexLimit = 4
  Ops <- ContentionOps
INVARIANTS NoLostWakeup JanitorOwnsLock
PROPERTIES NobodyIsIgnored ShutdownReleases
