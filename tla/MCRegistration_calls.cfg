SPECIFICATION Spec
CONSTANTS
  JobConfigs <- MCJobConfigs
  SharedConfigs <- MCSharedConfigs
  RetryGroup <- MCRetryGroup
  MaxMessages = 2
  MaxLives = 2
INVARIANTS TypeOK RegisteredJobsRun SharedConsumerExclusive OwnMessagesAccepted 
CHECK_DEADLOCK FALSE
