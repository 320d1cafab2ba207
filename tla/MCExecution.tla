---------------------------- MODULE MCExecution -----------------------------
(* Instances of Execution for TLC. *)
EXTENDS Execution, TLC

MCTwoTasks  == [p \in TaskPartitions |-> <<<<1, 0>>, <<1, 1>>>>]
MCTwoJobs   == [p \in TaskPartitions |-> <<<<1, 0>>, <<2, 0>>, <<1, 1>>>>]

MCOneName   == [j \in JobID |-> CHOOSE n \in Registered : TRUE]
\* Job 2 belongs to a service that registers another name on the same topic.
MCTwoNames  == [j \in JobID |-> IF j = 1 THEN "report" ELSE "other"]

MCNoFaults  == [error |-> 0, crash |-> 0, rebalance |-> 0]
MCErrors    == [error |-> 1, crash |-> 0, rebalance |-> 0]
MCCrash     == [error |-> 0, crash |-> 1, rebalance |-> 0]
MCRedeliver == [error |-> 0, crash |-> 1, rebalance |-> 1]

\* The consumers of a group are interchangeable.
MCSymmetry  == Permutations(TaskConsumers)
=============================================================================
