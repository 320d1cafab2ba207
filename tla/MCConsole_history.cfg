SPECIFICATION Spec
CONSTANTS
  MaxJobs = 3
  MaxTasks = 2
  Names = {"report"}
  Refs = {"r1", "r2", "r3"}
  Registered = {"report"}
  FaultBudget <- MCErrors
  TaskPartitions = {"p"}
  RetryPartitions = {}
  TaskConsumers = {c1}
  RetryConsumers = {}
  Finalizers = {"cron", "user"}
  BatchSize = 1
  Callers = {"cron", "user"}
  CallName <- MCName
  CallRefs <- MCCallRefs
  AsynqMaxRetry <- MCMaxRetry
  CancelPrevious = {}
  Splits <- MCSplits
  Retriers = {"user"}
  MaxCalls = 1
  FullRetry <- MCFull
  RetryRef <- MCRetryRef
  RetryBatchSize = 1
  Users = {"user"}
  TaskPageSize = 1
INVARIANTS TypeOK ListingIsComplete FailedTriggersAreNotCloned TaskPagesComplete
CHECK_DEADLOCK FALSE
