---------------------------- MODULE TaskExecutor ----------------------------
(***************************************************************************)
(* The task consumers: the loop of transport.taskConsumer.run around       *)
(* executor.executeTask.  A consumer is one goroutine; between two of its  *)
(* database or Kafka calls anything may happen elsewhere, so each call is  *)
(* an action, and what the handler remembers from earlier calls is the     *)
(* consumer's record.                                                      *)
(*                                                                         *)
(* A call that fails is the same action with Spend("error").  Where the    *)
(* code only logs the error the handler goes on; where it returns it, the  *)
(* message is left uncommitted and the loop fetches the next one.          *)
(***************************************************************************)
EXTENDS Repository, Broker

CONSTANTS
  MaxRetries,     \* Retry.MaxRetries of the jobs, as stored in their tasks
  DLQConfigured   \* TaskDLQTopic is not empty

ASSUME TaskExecutorAssumption ==
  /\ MaxRetries \in Nat \ {0}
  /\ DLQConfigured \in BOOLEAN

VARIABLES
  worker,         \* consumer -> where its handler is and what it has read
  executed,       \* task -> times TaskExecutor.Execute was called for it
  dlq             \* tasks published to the DLQ topic

workerVars == <<worker, executed, dlq>>

WorkerPC == {"fetch", "loadTask", "loadJob", "dispatch", "execute", "complete",
             "fail", "retry", "publishRetry", "exhaust", "publishDLQ", "commit"}

NoTask == <<>>

\* part/offset: the message held; status/attempt: the handler's Task struct;
\* jobStatus: the Job struct it was loaded with.
WorkerState ==
  [pc : WorkerPC, part : Partitions \cup {"none"}, offset : Nat,
   task : TaskID \cup {NoTask}, status : Status \cup {Absent}, attempt : Nat,
   jobStatus : Status \cup {Absent}]

Waiting ==
  [pc |-> "fetch", part |-> "none", offset |-> 0, task |-> NoTask,
   status |-> Absent, attempt |-> 0, jobStatus |-> Absent]

TaskExecutorTypeOK ==
  /\ worker \in [Consumers -> WorkerState]
  /\ executed \in [TaskID -> Nat]
  /\ dlq \subseteq TaskID

TaskExecutorInit ==
  /\ worker = [c \in Consumers |-> Waiting]
  /\ executed = [t \in TaskID |-> 0]
  /\ dlq = {}

-----------------------------------------------------------------------------
At(c, pc) == worker[c].pc = pc
Become(c, w) == worker' = [worker EXCEPT ![c] = w]
Goto(c, pc) == Become(c, [worker[c] EXCEPT !.pc = pc])

\* The handler returns an error: no commit, the loop goes on.
ReturnError(c) == Become(c, Waiting)

\* A row update whose error is only logged: the row is written, or it is not
\* and the handler does not notice.
LoggedUpdate(t, row) ==
  \/ UpdateTask(t, row) /\ UNCHANGED spent
  \/ UNCHANGED task /\ Spend("error")

\* A row update whose error is returned; the statement may have been applied
\* before the connection was lost.
FailedUpdate(t, row) ==
  /\ Spend("error")
  /\ UpdateTask(t, row) \/ UNCHANGED task

-----------------------------------------------------------------------------
Fetch(c) ==
  /\ At(c, "fetch")
  /\ \E p \in Partitions :
       /\ FetchMessage(c, p)
       /\ Become(c, [Waiting EXCEPT !.pc = "loadTask", !.part = p, !.offset = position[p] + 1,
                                    !.task = log[p][position[p] + 1]])
  /\ UNCHANGED <<repositoryVars, spent, executed, dlq>>

\* FindTaskWithJob: First(&task) and then the Preload of its job.
LoadTask(c) ==
  /\ At(c, "loadTask")
  /\ \/ /\ LET row == task[worker[c].task] IN
           Become(c, [worker[c] EXCEPT !.pc = "loadJob", !.status = row.status,
                                       !.attempt = row.attempt])
        /\ UNCHANGED spent
     \/ ReturnError(c) /\ Spend("error")
  /\ UNCHANGED <<repositoryVars, brokerVars, executed, dlq>>

LoadJob(c) ==
  /\ At(c, "loadJob")
  /\ \/ /\ Become(c, [worker[c] EXCEPT !.pc = "dispatch",
                                       !.jobStatus = job[worker[c].task[1]].status])
        /\ UNCHANGED spent
     \/ ReturnError(c) /\ Spend("error")
  /\ UNCHANGED <<repositoryVars, brokerVars, executed, dlq>>

IsRegistered(c) == job[worker[c].task[1]].name \in Registered

\* No job config registered for the job's name.
Unregistered(c) ==
  /\ At(c, "dispatch") /\ ~IsRegistered(c)
  /\ ReturnError(c)
  /\ UNCHANGED <<repositoryVars, brokerVars, spent, executed, dlq>>

\* Seeded fault: the hook's "skipped" is written to the row.
SkipWritesHookStatus(c) ==
  /\ At(c, "dispatch") /\ IsRegistered(c)
  /\ ~IsExecutionPending(worker[c].jobStatus)
  /\ UpdateTasksStatus({worker[c].task}, "skipped")
  /\ Goto(c, "commit")
  /\ UNCHANGED <<job, spent, brokerVars, executed, dlq>>

\* Seeded fault: the task of an ended run is skipped without a write.
SkipWithoutWrite(c) ==
  /\ At(c, "dispatch") /\ IsRegistered(c)
  /\ ~IsExecutionPending(worker[c].jobStatus)
  /\ Goto(c, "commit")
  /\ UNCHANGED <<repositoryVars, spent, brokerVars, executed, dlq>>

\* The job was not PENDING or RUNNING when loaded: its status is written over
\* the task's, whatever the task's status is.
SkipForJob(c) ==
  /\ At(c, "dispatch") /\ IsRegistered(c)
  /\ ~IsExecutionPending(worker[c].jobStatus)
  /\ \/ UpdateTasksStatus({worker[c].task}, worker[c].jobStatus) /\ UNCHANGED spent
     \/ UNCHANGED task /\ Spend("error")
  /\ Goto(c, "commit")
  /\ UNCHANGED <<job, brokerVars, executed, dlq>>

\* The task was settled when loaded: an idempotent no-op.
SkipSettled(c) ==
  /\ At(c, "dispatch") /\ IsRegistered(c)
  /\ IsExecutionPending(worker[c].jobStatus)
  /\ IsTerminal(worker[c].status)
  /\ Goto(c, "commit")
  /\ UNCHANGED <<repositoryVars, brokerVars, spent, executed, dlq>>

\* startTaskExecution: the FSM checks the loaded status, the UPDATE does not
\* check the row.
StartTask(c) ==
  LET t   == worker[c].task
      row == [task[t] EXCEPT !.status = taskTransitions.start.dst]
  IN /\ At(c, "dispatch") /\ IsRegistered(c)
     /\ IsExecutionPending(worker[c].jobStatus)
     /\ ~IsTerminal(worker[c].status)
     /\ CanFire(taskTransitions.start, worker[c].status)
     /\ \/ /\ UpdateTask(t, row) /\ UNCHANGED spent
           /\ Become(c, [worker[c] EXCEPT !.pc = "execute", !.status = row.status])
        \/ FailedUpdate(t, row) /\ ReturnError(c)
     /\ UNCHANGED <<job, brokerVars, executed, dlq>>

\* A loaded status that neither settles nor starts (FAILED, or a job status):
\* task.Start fails and the message with it.
RefuseStart(c) ==
  /\ At(c, "dispatch") /\ IsRegistered(c)
  /\ IsExecutionPending(worker[c].jobStatus)
  /\ ~IsTerminal(worker[c].status)
  /\ ~CanFire(taskTransitions.start, worker[c].status)
  /\ ReturnError(c)
  /\ UNCHANGED <<repositoryVars, brokerVars, spent, executed, dlq>>

\* TaskExecutor.Execute, the user's code: it succeeds or fails.
Execute(c) ==
  /\ At(c, "execute")
  /\ executed' = [executed EXCEPT ![worker[c].task] = @ + 1]
  /\ \E outcome \in {"complete", "fail"} : Goto(c, outcome)
  /\ UNCHANGED <<repositoryVars, brokerVars, spent, dlq>>

\* GetParams cannot decode the params: failTaskWithResult, and the handler
\* returns the error.  The write itself may fail too, which is only logged.
ParamsError(c) ==
  LET t == worker[c].task IN
  /\ At(c, "execute")
  /\ FailedUpdate(t, [task[t] EXCEPT !.status = "FAILED"])
  /\ ReturnError(c)
  /\ UNCHANGED <<job, brokerVars, executed, dlq>>

CompleteTask(c) ==
  LET t   == worker[c].task
      row == [task[t] EXCEPT !.status = taskTransitions.complete.dst]
  IN /\ At(c, "complete")
     /\ CanFire(taskTransitions.complete, worker[c].status)
     /\ \/ UpdateTask(t, row) /\ UNCHANGED spent /\ Goto(c, "commit")
        \/ FailedUpdate(t, row) /\ ReturnError(c)
     /\ UNCHANGED <<job, brokerVars, executed, dlq>>

\* Seeded fault: the retry message is published before the row is handed over.
FailTaskPublishesFirst(c) ==
  LET t == worker[c].task IN
  /\ At(c, "fail")
  /\ UpdateTask(t, [task[t] EXCEPT !.status = "FAILED"])
  /\ IF worker[c].attempt < MaxRetries THEN Publish(t, RetryPartitions) ELSE UNCHANGED brokerVars
  /\ Become(c, [worker[c] EXCEPT
                   !.pc = IF worker[c].attempt < MaxRetries THEN "retry" ELSE "exhaust",
                   !.status = "FAILED"])
  /\ UNCHANGED <<job, spent, executed, dlq>>

\* handleTaskFailure: FAILED is written first, then the retry budget decides.
FailTask(c) ==
  LET t == worker[c].task IN
  /\ At(c, "fail")
  /\ LoggedUpdate(t, [task[t] EXCEPT !.status = "FAILED"])
  /\ Become(c, [worker[c] EXCEPT
                   !.pc = IF worker[c].attempt < MaxRetries THEN "retry" ELSE "exhaust",
                   !.status = "FAILED"])
  /\ UNCHANGED <<job, brokerVars, executed, dlq>>

\* Seeded fault: attempt = attempt + 1 in the UPDATE.
RetryTaskIncrementsRow(c) ==
  LET t == worker[c].task
      w == [worker[c] EXCEPT !.pc = IF RetryPartitions = {} THEN "commit" ELSE "publishRetry",
                             !.status = taskTransitions.retry.dst, !.attempt = @ + 1]
  IN /\ At(c, "retry")
     /\ UpdateTask(t, [status |-> w.status, attempt |-> task[t].attempt + 1])
     /\ Become(c, w)
     /\ UNCHANGED <<job, spent, brokerVars, executed, dlq>>

\* Seeded fault: task.Attempt++ is missing.
RetryTaskKeepsAttempt(c) ==
  LET t == worker[c].task
      w == [worker[c] EXCEPT !.pc = IF RetryPartitions = {} THEN "commit" ELSE "publishRetry",
                             !.status = taskTransitions.retry.dst]
  IN /\ At(c, "retry")
     /\ UpdateTask(t, [status |-> w.status, attempt |-> w.attempt])
     /\ Become(c, w)
     /\ UNCHANGED <<job, spent, brokerVars, executed, dlq>>

\* retryTask: back to PENDING with the next attempt of the loaded Task.
RetryTask(c) ==
  LET t == worker[c].task
      w == [worker[c] EXCEPT !.pc = IF RetryPartitions = {} THEN "commit" ELSE "publishRetry",
                             !.status = taskTransitions.retry.dst, !.attempt = @ + 1]
  IN /\ At(c, "retry")
     /\ CanFire(taskTransitions.retry, worker[c].status)
     /\ LoggedUpdate(t, [status |-> w.status, attempt |-> w.attempt])
     /\ Become(c, w)
     /\ UNCHANGED <<job, brokerVars, executed, dlq>>

\* Seeded fault: the handler returns before it publishes.
NoPublishRetry(c) ==
  /\ At(c, "publishRetry")
  /\ Goto(c, "commit")
  /\ UNCHANGED <<repositoryVars, spent, brokerVars, executed, dlq>>

\* The error of a write is only logged.
PublishRetry(c) ==
  /\ At(c, "publishRetry")
  /\ \/ Publish(worker[c].task, RetryPartitions) /\ UNCHANGED spent
     \/ UNCHANGED brokerVars /\ Spend("error")
  /\ Goto(c, "commit")
  /\ UNCHANGED <<repositoryVars, executed, dlq>>

\* Seeded fault: nothing is sent to the dead letter topic.
ExhaustWithoutDLQ(c) ==
  LET t == worker[c].task IN
  /\ At(c, "exhaust")
  /\ LoggedUpdate(t, [task[t] EXCEPT !.status = taskTransitions.exhaust_retries.dst])
  /\ Goto(c, "commit")
  /\ UNCHANGED <<job, brokerVars, executed, dlq>>

\* sendTaskToDLQ.
ExhaustTask(c) ==
  LET t == worker[c].task
      w == [worker[c] EXCEPT !.pc = IF DLQConfigured THEN "publishDLQ" ELSE "commit",
                             !.status = taskTransitions.exhaust_retries.dst]
  IN /\ At(c, "exhaust")
     /\ LoggedUpdate(t, [task[t] EXCEPT !.status = w.status])
     /\ Become(c, w)
     /\ UNCHANGED <<job, brokerVars, executed, dlq>>

PublishDLQ(c) ==
  /\ At(c, "publishDLQ")
  /\ \/ dlq' = dlq \cup {worker[c].task} /\ UNCHANGED spent
     \/ UNCHANGED dlq /\ Spend("error")
  /\ Goto(c, "commit")
  /\ UNCHANGED <<repositoryVars, brokerVars, executed>>

\* The handler returned nil.  A consumer that lost the partition may have its
\* commit refused at no further fault; the error is only logged.
Commit(c) ==
  LET p == worker[c].part IN
  /\ At(c, "commit")
  /\ \/ CommitMessages(p, worker[c].offset) /\ UNCHANGED spent
     \/ owner[p] # c /\ UNCHANGED <<brokerVars, spent>>
     \/ Spend("error") /\ UNCHANGED brokerVars
  /\ Become(c, Waiting)
  /\ UNCHANGED <<repositoryVars, executed, dlq>>

\* The process dies, inside a handler or with messages behind it that were not
\* committed, and comes back.
CrashConsumer(c) ==
  /\ ~At(c, "fetch") \/ \E p \in Partitions : owner[p] = c /\ position[p] # committed[p]
  /\ Spend("crash")
  /\ Rejoin(c)
  /\ Become(c, Waiting)
  /\ UNCHANGED <<repositoryVars, executed, dlq>>

RebalanceGroup ==
  /\ \E p \in Partitions : \E c \in GroupOf(p) : Rebalance(p, c)
  /\ UNCHANGED <<repositoryVars, workerVars>>

\* One step of a consumer's loop.
ConsumerStep(c) ==
  \/ Fetch(c) \/ LoadTask(c) \/ LoadJob(c)
  \/ Unregistered(c) \/ SkipForJob(c) \/ SkipSettled(c) \/ StartTask(c) \/ RefuseStart(c)
  \/ Execute(c) \/ ParamsError(c) \/ CompleteTask(c)
  \/ FailTask(c) \/ RetryTask(c) \/ PublishRetry(c) \/ ExhaustTask(c) \/ PublishDLQ(c)
  \/ Commit(c)

=============================================================================
