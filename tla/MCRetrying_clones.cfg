SPECIFICATION Spec
CONSTANTS
  MaxJobs = 3
  MaxTasks = 3
  Names = {"report"}
  Refs = {"r1", "r2"}
  Registered = {"report"}
  FaultBudget <- MCFaults
  TaskPartitions = {"p"}
  RetryPartitions = {}
  TaskConsumers = {c1}
  RetryConsumers = {}
  Finalizers = {"client", f1}
  BatchSize = 1
  Retriers = {"client"}
  MaxCalls = 3
  FullRetry <- MCPartial
  RetryRef <- MCRef
  RetryBatchSize = 2
INVARIANTS TypeOK EveryPageCloned ClonedOnce CloneStartedAfterPublish OneLiveClone
CHECK_DEADLOCK FALSE
