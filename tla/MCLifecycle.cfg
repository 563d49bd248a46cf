SPECIFICATION LifecycleFairSpec
CONSTANT ThreadsCount = 4
INVARIANTS
  LifecycleTypeOK
  LifetimesHold
PROPERTY
  SignalEndsProcess
