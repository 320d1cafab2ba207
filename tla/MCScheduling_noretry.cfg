SPECIFICATION FairSpec
CONSTANTS
  MaxJobs = 1
  MaxTasks = 1
  Names = {"report"}
  Refs = {"r1"}
  Registered = {"report"}
  FaultBudget <- MCNoFaults
  TaskPartitions = {"p"}
  RetryPartitions = {}
  TaskConsumers = {c1}
  RetryConsumers = {}
  MaxRetries = 2
  DLQConfigured = FALSE
  Finalizers = {"cron", f1}
  BatchSize = 1
  Callers = {"cron"}
  CallName <- MCName
  CallRefs <- MCOneRef
  AsynqMaxRetry <- MCMaxRetry
  CancelPrevious = {}
  Splits <- MCSplits
PROPERTY RetriedTasksRunAgain
CHECK_DEADLOCK FALSE
