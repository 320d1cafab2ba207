SPECIFICATION Spec
CONSTANTS
  MaxJobs = 1
  MaxTasks = 2
  Names = {"report"}
  Refs = {"r1"}
  Registered = {"report"}
  FaultBudget <- MCNoFaults
  TaskPartitions = {"p"}
  RetryPartitions = {"q"}
  TaskConsumers = {c1}
  RetryConsumers = {r1}
  MaxRetries = 2
  DLQConfigured = TRUE
  Finalizers = {f1}
  BatchSize = 1
  JobName <- MCOneName
  Published <- MCTwoTasks
INVARIANT OutcomeMatchesTasks
CHECK_DEADLOCK FALSE
