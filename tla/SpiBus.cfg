SPECIFICATION Spec
CONSTANTS
  N = 2
  Multiplexed = {1}
  QueueDepth = 3
INVARIANTS
  TypeOK
  SemaphoreNotLost
  ReplyIsFresh
PROPERTY
  PollingGoesOn
