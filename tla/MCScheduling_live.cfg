SPECIFICATION FairSpec
CONSTANTS
  MaxJobs = 1
  MaxTasks = 1
  Names = {"report"}
  Refs = {"r1"}
  Registered = {"report"}
  FaultBudget <- MCCrash
  TaskPartitions = {"p"}
  RetryPartitions = {"q"}
  TaskConsumers = {c1}
  RetryConsumers = {r1}
  MaxRetries = 2
  DLQConfigured = FALSE
  Finalizers = {"cron", f1}
  BatchSize = 1
  Callers = {"cron"}
  CallName <- MCName
  CallRefs <- MCOneRef
  AsynqMaxRetry <- MCMaxRetry
  CancelPrevious = {}
  Splits <- MCSplits
INVARIANTS TypeOK StartedTasksAttended CompletedMeansExecuted
PROPERTIES RunsEnd EndedRunsDrain
CHECK_DEADLOCK FALSE
