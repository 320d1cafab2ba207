SPECIFICATION Spec
CONSTANTS
  MaxJobs = 2
  MaxTasks = 2
  Names = {"report", "other"}
  Refs = {"r1"}
  Registered = {"report"}
  FaultBudget <- MCErrors
  TaskPartitions = {"p"}
  RetryPartitions = {"q"}
  TaskConsumers = {c1}
  RetryConsumers = {r1}
  MaxRetries = 2
  DLQConfigured = TRUE
  Finalizers = {f1, f2}
  BatchSize = 1
  JobName <- MCTwoNames
  Published <- MCTwoJobs
INVARIANTS TypeOK ExhaustedReachesDLQ ExclusiveExecution OneExecutionPerAttempt CompletedMeansAllCompleted FinalizedOnce
PROPERTY ImplementsLifecycle
CHECK_DEADLOCK FALSE
