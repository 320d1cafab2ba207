----------------------------- MODULE JobExecutor ----------------------------
(***************************************************************************)
(* executor.executeJob: how a trigger becomes a run.  A caller stands for  *)
(* one asynq task or one client of Service.Trigger / RetryTriggerJob: it   *)
(* calls executeJob for one name, one call after the other, and asynq      *)
(* repeats a call of its own with the same reference after an error or a   *)
(* crash.  Callers run concurrently.                                       *)
(*                                                                         *)
(* Tasks are published one message at a time, in any order: WriteMessages  *)
(* is not atomic, it writes the partitions of a batch concurrently, and an *)
(* error leaves any part of the batch in the log.                          *)
(*                                                                         *)
(* executeJob ends with a call of OnJobFinished too, with what it returns  *)
(* to the trigger; finished records the finalizers' calls only.            *)
(***************************************************************************)
EXTENDS JobFinalizer, Broker

CONSTANTS
  Callers,          \* a subset of Finalizers: an empty run is finalized inline
  CallName,         \* caller -> job name
  CallRefs,         \* caller -> the unique reference ids of its successive triggers
  AsynqMaxRetry,    \* caller -> asynq_max_retry of its triggers, or NoAsynq
  CancelPrevious,   \* names registered with CancelPrevious
  Splits            \* results of JobExecutor.Execute: task counts, or -1: an error

\* The metadata of a call that does not come from asynq has no asynq_max_retry.
NoAsynq == -1

ASSUME JobExecutorAssumption ==
  /\ Callers \subseteq Finalizers
  /\ CallName \in [Callers -> Registered]
  /\ CallRefs \in [Callers -> Seq(Refs)]
  /\ AsynqMaxRetry \in [Callers -> Nat \cup {NoAsynq}]
  /\ CancelPrevious \subseteq Names
  /\ Splits \subseteq -1..MaxTasks

VARIABLE caller     \* caller -> where its call is and what it has read

CallerPC == {"idle", "find", "findTasks", "split", "recheck", "persist", "create",
             "flow", "publish", "markFailed", "cancel", "start", "finalize"}

\* turn: calls so far; retry and maxRetry: asynq_retry_count and asynq_max_retry
\* of the current one; again: it returned an error or crashed; job/status: the
\* Job struct; tasks: those still to publish; size: len(tasks).
CallerState ==
  [pc : CallerPC, turn : Nat, retry : Nat, maxRetry : Nat \cup {NoAsynq}, again : BOOLEAN,
   job : JobID \cup {NoJob},
   status : Status \cup {Absent}, tasks : SUBSET TaskID, size : 0..MaxTasks]

JobExecutorTypeOK == caller \in [Callers -> CallerState]

JobExecutorInit ==
  caller = [c \in Callers |->
    [pc |-> "idle", turn |-> 0, retry |-> 0, maxRetry |-> NoAsynq, again |-> FALSE,
     job |-> NoJob, status |-> Absent, tasks |-> {}, size |-> 0]]

-----------------------------------------------------------------------------
CallAt(c, pc) == caller[c].pc = pc
CallGoto(c, pc) == caller' = [caller EXCEPT ![c].pc = pc]

\* The call ends; again says whether it ended badly.
Return(c, again) ==
  caller' = [caller EXCEPT ![c] =
    [@ EXCEPT !.pc = "idle", !.again = again, !.job = NoJob, !.status = Absent,
              !.tasks = {}, !.size = 0]]

\* A call or a read whose error the handler returns.
ReadError(c) == Spend("error") /\ Return(c, TRUE)

\* The reference of the call in progress.
RefID(c) == CallRefs[c][caller[c].turn]

frame == <<brokerVars, finalizerVars>>

NextCall(c, maxRetry) ==
  /\ CallAt(c, "idle")
  /\ caller[c].turn < Len(CallRefs[c])
  /\ caller' = [caller EXCEPT ![c].pc = "find", ![c].turn = @ + 1, ![c].retry = 0,
                              ![c].maxRetry = maxRetry]
  /\ UNCHANGED <<repositoryVars, spent, frame>>

\* A cron fire or Service.Trigger.
Trigger(c) == NextCall(c, AsynqMaxRetry[c])

\* RetryTriggerJob: of a job that is the record of a failed trigger, a new call
\* with a reference of its own.  (What it reads afterwards is for its caller.)
RetryTriggerJob(c, j) ==
  /\ job[j].triggerFailure /\ ~IsExecutionPending(job[j].status)
  /\ job[j].name = CallName[c]
  /\ NextCall(c, NoAsynq)

\* asynq runs a task again that failed or whose worker died.
Redeliver(c) ==
  /\ CallAt(c, "idle") /\ caller[c].again
  /\ caller[c].retry < caller[c].maxRetry
  /\ caller' = [caller EXCEPT ![c].pc = "find", ![c].retry = @ + 1]
  /\ UNCHANGED <<repositoryVars, spent, frame>>

\* Seeded fault: the existing run is not looked up.
AlwaysSplit(c) ==
  /\ CallAt(c, "find")
  /\ CallGoto(c, "split")
  /\ UNCHANGED <<repositoryVars, spent, frame>>

\* prepareJobAndTasks: the job row with this reference, if any...
FindExisting(c) ==
  LET j == FindJobByRef(RefID(c)) IN
  /\ CallAt(c, "find")
  /\ \/ /\ j = 0 /\ CallGoto(c, "split") /\ UNCHANGED spent
     \/ /\ j # 0 /\ UNCHANGED spent
        /\ caller' = [caller EXCEPT ![c].pc = "findTasks", ![c].job = j,
                                    ![c].status = job[j].status]
     \/ ReadError(c)
  /\ UNCHANGED <<repositoryVars, frame>>

\* Seeded fault: a run that was found is taken to have been published.
FoundIsPublished(c) ==
  LET ts == TasksOf(caller[c].job) IN
  /\ CallAt(c, "findTasks")
  /\ caller' = [caller EXCEPT ![c].pc = IF caller[c].status = "PENDING" THEN "start" ELSE "flow",
                              ![c].size = Cardinality(ts)]
  /\ UNCHANGED <<repositoryVars, spent, frame>>

\* ... and then, in a second query, its tasks.
FindExistingTasks(c) ==
  LET ts == TasksOf(caller[c].job) IN
  /\ CallAt(c, "findTasks")
  /\ \/ /\ caller' = [caller EXCEPT ![c].pc = "flow", ![c].tasks = ts, ![c].size = Cardinality(ts)]
        /\ UNCHANGED spent
     \/ ReadError(c)
  /\ UNCHANGED <<repositoryVars, frame>>

\* Seeded fault: every failed attempt is persisted.
AlwaysPersist(c) == TRUE

\* shouldPersistTriggerFailure: always without asynq, else on the last attempt.
shouldPersistTriggerFailure(c) ==
  caller[c].maxRetry = NoAsynq \/ caller[c].retry >= caller[c].maxRetry

\* Enabled decides whether the run is REJECTED; SetMetadata may fail; then
\* JobExecutor.Execute and buildTasks, the user's split, fail or yield tasks.
Split(c) ==
  /\ CallAt(c, "split")
  /\ \/ /\ -1 \in Splits /\ UNCHANGED spent
        /\ IF shouldPersistTriggerFailure(c) THEN CallGoto(c, "recheck") ELSE Return(c, TRUE)
     \/ \E n \in Splits \ {-1}, initial \in {"PENDING", "REJECTED"} :
          /\ caller' = [caller EXCEPT ![c].pc = "create", ![c].status = initial, ![c].size = n]
          /\ UNCHANGED spent
     \/ ReadError(c)
  /\ UNCHANGED <<repositoryVars, frame>>

\* persistTriggerFailure looks the reference up again ...
RecheckRef(c) ==
  /\ CallAt(c, "recheck")
  /\ \/ /\ UNCHANGED spent
        /\ IF FindJobByRef(RefID(c)) = 0 THEN CallGoto(c, "persist") ELSE Return(c, TRUE)
     \/ ReadError(c)
  /\ UNCHANGED <<repositoryVars, frame>>

NewJob(c, status, failure) ==
  [status |-> status, name |-> CallName[c], ref |-> RefID(c), parent |-> NoParent,
   triggerFailure |-> failure]

\* ... and inserts a FAILED job without tasks.  The call fails either way.
PersistTriggerFailure(c) ==
  /\ CallAt(c, "persist") /\ FreeIDs # {}
  /\ \/ CreateJobAndTasks(NextID, NewJob(c, "FAILED", TRUE), 0, Absent) /\ UNCHANGED spent
     \/ UNCHANGED repositoryVars /\ Spend("error")
  /\ Return(c, TRUE)
  /\ UNCHANGED frame

\* Seeded fault: no case for a rejected job, the status stays "".
PendingOrEmpty(status) == IF IsExecutionPending(status) THEN "PENDING" ELSE ""

\* setInitialTaskStatus
setInitialTaskStatus(status) == IF IsExecutionPending(status) THEN "PENDING" ELSE status

CreateRun(c) ==
  LET n == caller[c].size
      s == caller[c].status
      create == CreateJobAndTasks(NextID, NewJob(c, s, FALSE), n, setInitialTaskStatus(s))
  IN /\ CallAt(c, "create") /\ FreeIDs # {}
     /\ \/ /\ create /\ UNCHANGED spent
           /\ caller' = [caller EXCEPT ![c].pc = "flow", ![c].job = NextID,
                           ![c].tasks = {t \in TaskID : t[1] = NextID /\ t[2] < n}]
        \/ /\ create \/ UNCHANGED repositoryVars
           /\ ReadError(c)
     /\ UNCHANGED frame

-----------------------------------------------------------------------------
(* executeJobFlow *)

\* The run had ended when it was read: every task gets the job's status.
SyncTasks(c) ==
  LET j == caller[c].job IN
  /\ CallAt(c, "flow") /\ ~IsExecutionPending(caller[c].status)
  /\ \/ UpdateTasksStatus(TasksOf(j), caller[c].status) /\ UNCHANGED spent
     \/ UNCHANGED task /\ Spend("error")
  /\ Return(c, FALSE)
  /\ UNCHANGED <<job, frame>>

AlreadyRunning(c) ==
  /\ CallAt(c, "flow") /\ caller[c].status = "RUNNING"
  /\ Return(c, FALSE)
  /\ UNCHANGED <<repositoryVars, spent, frame>>

AfterPublish(c) == IF CallName[c] \in CancelPrevious THEN "cancel" ELSE "start"

\* publishTasks: nothing to write for an empty run.
BeginPublish(c) ==
  /\ CallAt(c, "flow") /\ caller[c].status = "PENDING"
  /\ CallGoto(c, IF caller[c].size = 0 THEN AfterPublish(c) ELSE "publish")
  /\ UNCHANGED <<repositoryVars, spent, frame>>

\* Seeded fault: the error of PublishTasks is only logged.
PublishErrorIgnored(c) ==
  /\ CallAt(c, "publish")
  /\ \E t \in caller[c].tasks :
       LET rest == caller[c].tasks \ {t} IN
       /\ \/ Publish(t, TaskPartitions) /\ UNCHANGED spent
          \/ Spend("error") /\ UNCHANGED brokerVars
       /\ caller' = [caller EXCEPT ![c].tasks = rest,
                       ![c].pc = IF rest = {} THEN AfterPublish(c) ELSE "publish"]
  /\ UNCHANGED <<repositoryVars, finalizerVars>>

\* An error may be reported of a message that the broker has.
PublishTask(c) ==
  /\ CallAt(c, "publish")
  /\ \E t \in caller[c].tasks :
       LET rest == caller[c].tasks \ {t} IN
       \/ /\ Publish(t, TaskPartitions) /\ UNCHANGED spent
          /\ caller' = [caller EXCEPT ![c].tasks = rest,
                          ![c].pc = IF rest = {} THEN AfterPublish(c) ELSE "publish"]
       \/ /\ Publish(t, TaskPartitions) \/ UNCHANGED brokerVars
          /\ Spend("error") /\ CallGoto(c, "markFailed")
  /\ UNCHANGED <<repositoryVars, finalizerVars>>

\* transitionJob(fail): the FSM checks the Job struct, the UPDATE nothing.
MarkFailed(c) ==
  /\ CallAt(c, "markFailed")
  /\ CanFire(jobTransitions.fail, caller[c].status)
  /\ \/ UpdateJob(caller[c].job, jobTransitions.fail.dst) /\ UNCHANGED spent
     \/ UNCHANGED job /\ Spend("error")
  /\ Return(c, TRUE)
  /\ UNCHANGED <<task, frame>>

CancelOthers(c) ==
  /\ CallAt(c, "cancel")
  /\ \/ CancelPreviousJobs(CallName[c], caller[c].job) /\ UNCHANGED spent
     \/ UNCHANGED repositoryVars /\ Spend("error")
  /\ CallGoto(c, "start")
  /\ UNCHANGED frame

\* transitionJob(start), then maybeFinalizeJob for a run without tasks.
StartJob(c) ==
  LET j == caller[c].job IN
  /\ CallAt(c, "start")
  /\ CanFire(jobTransitions.start, caller[c].status)
  /\ \/ /\ UpdateJob(j, jobTransitions.start.dst) /\ UNCHANGED spent
        /\ IF caller[c].size = 0
           THEN /\ CallGoto(c, "finalize")
                /\ fin' = [fin EXCEPT ![c] = [Resting EXCEPT !.pc = "next", !.todo = {j}]]
           ELSE Return(c, FALSE) /\ UNCHANGED fin
     \/ /\ UpdateJob(j, jobTransitions.start.dst) \/ UNCHANGED job
        /\ ReadError(c) /\ UNCHANGED fin
  /\ UNCHANGED <<task, brokerVars, finished>>

EndFinalize(c) ==
  /\ CallAt(c, "finalize") /\ FinAt(c, "idle")
  /\ Return(c, FALSE)
  /\ UNCHANGED <<repositoryVars, spent, frame>>

CrashCaller(c) ==
  /\ ~CallAt(c, "idle")
  /\ Spend("crash")
  /\ Return(c, TRUE)
  /\ fin' = [fin EXCEPT ![c] = Resting]
  /\ UNCHANGED <<repositoryVars, brokerVars, finished>>

CallerStep(c) ==
  \/ FindExisting(c) \/ FindExistingTasks(c) \/ Split(c)
  \/ RecheckRef(c) \/ PersistTriggerFailure(c) \/ CreateRun(c)
  \/ SyncTasks(c) \/ AlreadyRunning(c) \/ BeginPublish(c) \/ PublishTask(c) \/ MarkFailed(c)
  \/ CancelOthers(c) \/ StartJob(c) \/ EndFinalize(c)

=============================================================================
