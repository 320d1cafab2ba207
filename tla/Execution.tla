----------------------------- MODULE Execution ------------------------------
(***************************************************************************)
(* Started runs being executed: the consumers of the task and the retry    *)
(* topic (TaskExecutor), the completion checks (JobFinalizer) and          *)
(* Service.TerminateJob, all at once on the same rows.                     *)
(*                                                                         *)
(* Initially every job is in the state in which executeJobFlow leaves it:  *)
(* RUNNING, its tasks PENDING at attempt 1 and published.                  *)
(***************************************************************************)
EXTENDS TaskExecutor, JobFinalizer

CONSTANTS
  JobName,       \* job id -> name
  Published      \* task partition -> messages executeJobFlow wrote to it

ASSUME ExecutionAssumption ==
  /\ JobName \in [JobID -> Names]
  /\ Published \in [TaskPartitions -> Seq(TaskID)]

vars == <<repositoryVars, spent, brokerVars, workerVars, finalizerVars>>

PublishedTasks ==
  {t \in TaskID : \E p \in TaskPartitions : \E i \in 1..Len(Published[p]) : Published[p][i] = t}

TypeOK ==
  /\ RepositoryTypeOK /\ FaultsTypeOK /\ BrokerTypeOK(TaskID)
  /\ TaskExecutorTypeOK /\ JobFinalizerTypeOK

Init ==
  /\ job = [j \in JobID |-> [status |-> "RUNNING", name |-> JobName[j],
                             ref |-> CHOOSE r \in Refs : TRUE, parent |-> NoParent,
                             triggerFailure |-> FALSE]]
  /\ task = [t \in TaskID |-> IF t \in PublishedTasks THEN [status |-> "PENDING", attempt |-> 1]
                                                      ELSE [status |-> Absent, attempt |-> 0]]
  /\ log = [p \in Partitions |-> IF p \in TaskPartitions THEN Published[p] ELSE <<>>]
  /\ committed = [p \in Partitions |-> 0]
  /\ position = [p \in Partitions |-> 0]
  /\ owner \in {o \in [Partitions -> Consumers] : \A p \in Partitions : o[p] \in GroupOf(p)}
  /\ FaultsInit /\ TaskExecutorInit /\ JobFinalizerInit

\* A call of Service.TerminateJob that does not return ErrJobAlreadyTerminal.
Terminate(j) ==
  TerminateJob(j) /\ UNCHANGED <<spent, brokerVars, workerVars, finalizerVars>>

ConsumerNext ==
  /\ \/ \E c \in Consumers : ConsumerStep(c) \/ CrashConsumer(c)
     \/ RebalanceGroup
  /\ UNCHANGED finalizerVars

FinalizerNext ==
  /\ \E f \in Finalizers :
       \/ \E n \in Registered : CheckJobCompletions(f, n)
       \/ FinalizerStep(f)
       \/ CrashFinalizer(f)
  /\ UNCHANGED <<brokerVars, workerVars>>

Next == ConsumerNext \/ FinalizerNext \/ \E j \in JobID : Terminate(j)

Spec == Init /\ [][Next]_vars

-----------------------------------------------------------------------------
Holds(c, t) == worker[c].task = t
JobOf(t) == t[1]

(* Delivery assumptions a property may need. *)

\* executeJobFlow wrote one message for each task; a trigger that is repeated
\* after a crash would write the run a second time.
PublishedOnce ==
  \A p, q \in TaskPartitions : \A i \in 1..Len(Published[p]), k \in 1..Len(Published[q]) :
    Published[p][i] = Published[q][k] => p = q /\ i = k

DeliveredOnce == PublishedOnce /\ Never("crash") /\ Never("rebalance")

\* A message for t that its partition's owner has still to fetch.
Queued(t) == \E p \in Partitions : \E i \in Unfetched(p) : log[p][i] = t

\* Someone will come back to t.
Attended(t) == Queued(t) \/ \E c \in Consumers : Holds(c, t)

\* No task is forgotten: with a retry topic, and while no call fails, a
\* PENDING or RUNNING task of a live run is queued in Kafka or in a consumer's
\* hands, through crashes or through rebalances (a crash of a consumer that
\* has lost its partition may strand one); and without crashes the same holds
\* of the FAILED that handleTaskFailure writes before it retries.
NoTaskForgotten ==
  RetryPartitions # {} /\ Never("error") /\ (Never("crash") \/ Never("rebalance")) =>
    \A t \in TaskID :
      /\ IsExecutionPending(job[JobOf(t)].status)
      /\ job[JobOf(t)].name \in Registered
      /\ task[t].status \in {"PENDING", "RUNNING"} \cup (IF Never("crash") THEN {"FAILED"} ELSE {})
      => Attended(t)

\* A task that used up its retries is in the dead letter topic, unless its
\* consumer is just about to put it there.
ExhaustedReachesDLQ ==
  Never("error") /\ Never("crash") /\ DLQConfigured =>
    \A t \in TaskID : task[t].status = "MAX_RETRIES_EXHAUSTED" =>
      t \in dlq \/ \E c \in Consumers : Holds(c, t) /\ At(c, "publishDLQ")

\* The handler between loading the task and its last write to it.
Working(c, t) ==
  Holds(c, t) /\ worker[c].pc \in {"loadJob", "dispatch", "execute", "complete",
                                   "fail", "retry", "exhaust"}

\* If Kafka delivers each message once, no two consumers ever work on one
\* task: the retry message is published only after the row was handed over.
ExclusiveExecution ==
  DeliveredOnce =>
    \A t \in TaskID : \A c1, c2 \in Consumers :
      Working(c1, t) /\ Working(c2, t) => c1 = c2

\* The attempt column never exceeds the retry budget, whatever is delivered
\* twice, lost or repeated after a crash.
RetryBudget == \A t \in TaskID : task[t].attempt <= MaxRetries

\* If nothing is delivered twice and no write fails, the user's code runs at
\* most once per attempt, so at most MaxRetries times.
OneExecutionPerAttempt ==
  DeliveredOnce /\ Never("error") => \A t \in TaskID : executed[t] <= task[t].attempt

\* A run is COMPLETED only if every task is, as long as no task message is
\* delivered twice.
CompletedMeansAllCompleted ==
  DeliveredOnce =>
    \A j \in JobID : job[j].status = "COMPLETED" =>
      \A t \in TasksOf(j) : task[t].status = "COMPLETED"

\* OnJobFinished is called at most once per run by the finalizers, with the
\* status the row then keeps.
FinalizedOnce ==
  \A j \in JobID :
    /\ Len(finished[j]) <= 1
    /\ Len(finished[j]) = 1 => job[j].status = finished[j][1]

\* Execution implements RunLifecycle: the status column of a job only moves
\* along the job state machine (a slow completion check or a consumer never
\* revives an ended run), and what finalizers announce was decided by the one
\* whose compare-and-set hit the row.
RunStatus == [j \in JobID |-> job[j].status]
Due == {j \in JobID : \E f \in Finalizers : FinAt(f, "hook") /\ fin[f].job = j}

Lifecycle ==
  INSTANCE RunLifecycle WITH
    Runs <- JobID, status <- RunStatus, due <- Due, announced <- finished

ImplementsLifecycle == Lifecycle!Spec

\* What README.md says of a finished run: COMPLETED, all tasks succeeded;
\* PARTIAL_FAILED, a mix; FAILED, all tasks failed.
OutcomeMatchesTasks ==
  \A j \in JobID :
    LET done == {t \in TasksOf(j) : task[t].status = "COMPLETED"} IN
    /\ job[j].status = "COMPLETED"      => done = TasksOf(j)
    /\ job[j].status = "PARTIAL_FAILED" => done # {} /\ done # TasksOf(j)
    /\ job[j].status = "FAILED"         => done = {}

\* What executeTask says of a redelivered message: an already-terminal task is
\* an idempotent no-op, so the outcome a consumer recorded stays recorded.
RecordedOutcomesStay ==
  [][\A t \in TaskID : task[t].status \in {"COMPLETED", "MAX_RETRIES_EXHAUSTED"}
       => task'[t].status = task[t].status]_vars

=============================================================================
