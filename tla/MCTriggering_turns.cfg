SPECIFICATION Spec
CONSTANTS
  MaxJobs = 3
  MaxTasks = 2
  Names = {"report"}
  Refs = {"r1", "r2"}
  Registered = {"report"}
  FaultBudget <- MCFaults
  TaskPartitions = {"p"}
  RetryPartitions = {}
  TaskConsumers = {c1}
  RetryConsumers = {}
  Finalizers = {"cron", f1}
  BatchSize = 1
  Callers = {"cron"}
  CallName <- MCName
  CallRefs <- MCSuccessive
  AsynqMaxRetry <- MCMaxRetry
  CancelPrevious = {"report"}
  Splits <- MCSplits
INVARIANTS TypeOK StartedAfterPublish OneRunPerRef TriggerFailureIsLast OneRunningRun FinalizedOnce
CHECK_DEADLOCK FALSE
