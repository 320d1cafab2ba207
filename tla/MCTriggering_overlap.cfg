SPECIFICATION Spec
CONSTANTS
  MaxJobs = 2
  MaxTasks = 2
  Names = {"report"}
  Refs = {"r1", "r2"}
  Registered = {"report"}
  FaultBudget <- MCNoFaults
  TaskPartitions = {"p"}
  RetryPartitions = {}
  TaskConsumers = {c1}
  RetryConsumers = {}
  Finalizers = {"cron", "client", f1}
  BatchSize = 1
  Callers = {"cron", "client"}
  CallName <- MCName
  CallRefs <- MCOwnRef
  AsynqMaxRetry <- MCMaxRetry
  CancelPrevious = {"report"}
  Splits <- MCSplits
INVARIANT AtMostOneRunning
CHECK_DEADLOCK FALSE
