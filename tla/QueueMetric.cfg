SPECIFICATION FairSpec
CONSTANTS
  N = 2
  QueueSize = 3
INVARIANTS
  TypeOK
  MetricWithinQueueSize
PROPERTIES
  MetricCatchesUp
