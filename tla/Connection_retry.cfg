CONSTANTS
  MaxRetries = 2
  MaxConnections = 2
SPECIFICATION FairSpec
PROPERTY
  FailedAttemptIsRetried
CHECK_DEADLOCK FALSE
