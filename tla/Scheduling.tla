----------------------------- MODULE Scheduling -----------------------------
(***************************************************************************)
(* A whole run, from the trigger to its end: callers of executeJob         *)
(* (JobExecutor), the task and retry consumers (TaskExecutor), the         *)
(* completion checks (JobFinalizer) and TerminateJob, from an empty        *)
(* database and on the same rows.  A consumer may execute a task while its *)
(* run is still being published; a caller that crashed publishes the run   *)
(* again; a trigger may be fired again with the reference of a run that    *)
(* has ended.                                                              *)
(***************************************************************************)
EXTENDS TaskExecutor, JobExecutor

vars == <<repositoryVars, spent, brokerVars, workerVars, finalizerVars, caller>>

TypeOK ==
  /\ RepositoryTypeOK /\ FaultsTypeOK /\ BrokerTypeOK(TaskID)
  /\ TaskExecutorTypeOK /\ JobFinalizerTypeOK /\ JobExecutorTypeOK

NoJobRow == [status |-> Absent, name |-> CHOOSE n \in Names : TRUE,
             ref |-> CHOOSE r \in Refs : TRUE, parent |-> NoParent, triggerFailure |-> FALSE]

Init ==
  /\ job = [j \in JobID |-> NoJobRow]
  /\ task = [t \in TaskID |-> [status |-> Absent, attempt |-> 0]]
  /\ log = [p \in Partitions |-> <<>>]
  /\ committed = [p \in Partitions |-> 0]
  /\ position = [p \in Partitions |-> 0]
  /\ owner \in {o \in [Partitions -> Consumers] : \A p \in Partitions : o[p] \in GroupOf(p)}
  /\ FaultsInit /\ TaskExecutorInit /\ JobFinalizerInit /\ JobExecutorInit

\* Service.TerminateJob.
Terminate(j) ==
  TerminateJob(j) /\ UNCHANGED <<spent, brokerVars, workerVars, finalizerVars, caller>>

\* What asynq and the clients do: fire, or fire again.
Fire(c) == (Trigger(c) \/ \E j \in JobID : RetryTriggerJob(c, j)) /\ UNCHANGED workerVars
Refire(c) == Redeliver(c) /\ UNCHANGED workerVars

CallerNext(c) == CallerStep(c) /\ UNCHANGED workerVars

ConsumerNext(c) == ConsumerStep(c) /\ UNCHANGED <<finalizerVars, caller>>

\* A tick of the completion cron, in a goroutine of its own.
Tick(f, n) ==
  /\ f \notin Callers
  /\ CheckJobCompletions(f, n)
  /\ UNCHANGED <<brokerVars, workerVars, caller>>

FinalizerNext(f) == FinalizerStep(f) /\ UNCHANGED <<brokerVars, workerVars, caller>>

\* What the environment may do to any of them.
Fault ==
  \/ \E c \in Callers : CrashCaller(c) /\ UNCHANGED workerVars
  \/ /\ RebalanceGroup \/ \E c \in Consumers : CrashConsumer(c)
     /\ UNCHANGED <<finalizerVars, caller>>
  \/ \E f \in Finalizers \ Callers : CrashFinalizer(f) /\ UNCHANGED <<brokerVars, workerVars, caller>>

Next ==
  \/ \E c \in Callers : Fire(c) \/ Refire(c) \/ CallerNext(c)
  \/ \E c \in Consumers : ConsumerNext(c)
  \/ \E f \in Finalizers : FinalizerNext(f) \/ \E n \in Registered : Tick(f, n)
  \/ \E j \in JobID : Terminate(j)
  \/ Fault

Spec == Init /\ [][Next]_vars

-----------------------------------------------------------------------------
\* A message for t that its partition's owner has still to fetch.
Queued(t) == \E p \in Partitions : \E i \in Unfetched(p) : log[p][i] = t

\* Every task of a RUNNING run is settled, queued in Kafka or in a consumer's
\* hands, whichever call started the run and whoever crashed on the way: the
\* state that Execution assumes of a started run, and keeps.
StartedTasksAttended ==
  Never("error") /\ (Never("crash") \/ Never("rebalance")) =>
    \A j \in JobID : job[j].status = "RUNNING" =>
      \A t \in TasksOf(j) :
        \/ isTaskTerminal(task[t].status)
        \/ Queued(t)
        \/ \E c \in Consumers : worker[c].task = t

\* A COMPLETED run was executed: the user's code ran for every one of its
\* tasks, even if its messages were consumed before the run was started, or the
\* run was cancelled while it was published and started none the less.
CompletedMeansExecuted ==
  \A j \in JobID : job[j].status = "COMPLETED" => \A t \in TasksOf(j) : executed[t] > 0

-----------------------------------------------------------------------------
(* Liveness *)

\* Goroutines run, the user's code returns, the completion cron keeps firing,
\* asynq retries a call that failed or whose worker died.
Fairness ==
  /\ \A c \in Callers : WF_vars(CallerNext(c)) /\ WF_vars(Refire(c))
  /\ \A c \in Consumers : WF_vars(ConsumerNext(c))
  /\ \A f \in Finalizers :
       WF_vars(FinalizerNext(f)) /\ \A n \in Registered : WF_vars(Tick(f, n))

FairSpec == Spec /\ Fairness

\* The last call for the run's reference failed or crashed, and asynq has no
\* retry left for it (a call that does not come from asynq never has one).
Abandoned(j) ==
  \E c \in Callers :
    /\ caller[c].turn > 0 /\ RefID(c) = job[j].ref
    /\ CallAt(c, "idle") /\ caller[c].again /\ caller[c].retry >= caller[c].maxRetry

\* Every run that was created ends, and stays ended, whichever one of caller,
\* consumer and finalizer crashes and at whatever point, unless a call fails or
\* its trigger is given up.
RunsEnd ==
  \A j \in JobID :
    Exists(job[j]) ~> (~Never("error") \/ Abandoned(j) \/ [](job[j].status \in TerminalJobStates))

\* After a run has ended, by completion or by TerminateJob, its tasks settle
\* too: none is left PENDING or RUNNING.
EndedRunsDrain ==
  \A j \in JobID :
    job[j].status \in TerminalJobStates
      ~> (~Never("error") \/ [](\A t \in TasksOf(j) : task[t].status \notin {"PENDING", "RUNNING"}))

\* What README.md says of a failed task with retries left: it is PENDING, and
\* then RUNNING again (or cancelled with its run).
RetriedTasksRunAgain ==
  \A t \in TaskID : (task[t].status = "PENDING" /\ task[t].attempt > 1) ~> task[t].status # "PENDING"

=============================================================================
