CONSTANTS
  MaxRetries = 2
  MaxConnections = 3
SPECIFICATION FairSpec
INVARIANT
  LoopFollowsConnection
PROPERTIES
  ImplementsLink
  LostConnectionIsRedialled
  CancelEndsRun
CHECK_DEADLOCK FALSE
