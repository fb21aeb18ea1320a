\* One poller, two queues, every operation and every event type.
SPECIFICATION FairSpec
CONSTANTS
  p1 = p1
  q1 = q1
  q2 = q2
  Pollers = {p1}
  NoPoller = NoPoller
  Queues = {q1, q2}
  NoQueue = NoQueue
  MaxElements = 1
  NPolls = 2
  Consumer <- P1TakesQ1
  Types <- AllTypes
  Ops <- AllOps
INVARIANTS DropsOnlyInWindow ReportedSizeIsThere

PROPERTIES EventIsServed
