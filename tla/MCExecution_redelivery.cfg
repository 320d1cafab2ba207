SPECIFICATION Spec
CONSTANTS
  MaxJobs = 1
  MaxTasks = 2
  Names = {"report"}
  Refs = {"r1"}
  Registered = {"report"}
  FaultBudget <- MCRedeliver
  TaskPartitions = {"p"}
  RetryPartitions = {"q"}
  TaskConsumers = {c1, c2}
  RetryConsumers = {r1}
  MaxRetries = 2
  DLQConfigured = TRUE
  Finalizers = {}
  BatchSize = 1
  JobName <- MCOneName
  Published <- MCTwoTasks
INVARIANTS NoTaskForgotten RetryBudget
SYMMETRY MCSymmetry
CHECK_DEADLOCK FALSE
