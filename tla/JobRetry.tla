------------------------------ MODULE JobRetry ------------------------------
(***************************************************************************)
(* executor.RetryJob: a job that has ended is cloned and its tasks, all or *)
(* only the exhausted ones, are inserted and published page by page, or a  *)
(* live clone that an earlier call left is published again.  A retrier is  *)
(* a client of Service.RetryJob or an asynq task of RegisterRetryHandler,  *)
(* which asynq repeats after an error or a crash.                          *)
(***************************************************************************)
EXTENDS JobFinalizer, Broker

CONSTANTS
  Retriers,         \* a subset of Finalizers: an empty clone is finalized inline
  MaxCalls,         \* bound: calls of one retrier
  FullRetry,        \* retrier -> its fullRetry argument
  RetryRef,         \* retrier -> its refID argument
  RetryBatchSize    \* retryBatchSize

ASSUME JobRetryAssumption ==
  /\ Retriers \subseteq Finalizers
  /\ MaxCalls \in Nat
  /\ FullRetry \in [Retriers -> BOOLEAN]
  /\ RetryRef \in [Retriers -> Refs]
  /\ RetryBatchSize \in Nat \ {0}

VARIABLE retrier    \* retrier -> where its call is and what it has read

RetrierPC == {"idle", "findClone", "create", "read", "insert", "publish", "reread",
              "summary", "start", "finalize"}

\* source: the original; clone/status: the clone's Job struct; reuse: it was
\* there already; afterSeq, last: the page cursor, no page follows; batch: the
\* page's tasks still to write; total: the task count.
RetrierState ==
  [pc : RetrierPC, calls : Nat, source : JobID \cup {NoJob}, clone : JobID \cup {NoJob},
   status : Status \cup {Absent}, reuse : BOOLEAN, afterSeq : Nat \cup {-1}, last : BOOLEAN,
   batch : SUBSET TaskID, total : Nat]

NotRetrying ==
  [pc |-> "idle", calls |-> 0, source |-> NoJob, clone |-> NoJob, status |-> Absent,
   reuse |-> FALSE, afterSeq |-> -1, last |-> FALSE, batch |-> {}, total |-> 0]

JobRetryTypeOK == retrier \in [Retriers -> RetrierState]

JobRetryInit == retrier = [r \in Retriers |-> NotRetrying]

-----------------------------------------------------------------------------
RetryAt(r, pc) == retrier[r].pc = pc
RetryBecome(r, state) == retrier' = [retrier EXCEPT ![r] = state]
RetryGoto(r, pc) == RetryBecome(r, [retrier[r] EXCEPT !.pc = pc])
RetryReturn(r) == RetryBecome(r, [NotRetrying EXCEPT !.calls = retrier[r].calls])
RetryError(r) == Spend("error") /\ RetryReturn(r)

retryFrame == <<brokerVars, finalizerVars>>

retryStatuses(full) == IF full THEN Status ELSE {"MAX_RETRIES_EXHAUSTED"}

\* FindJobByID.  A job that has not ended, or of an unknown name, is refused
\* before anything changes.
RetryJob(r, j) ==
  /\ RetryAt(r, "idle") /\ retrier[r].calls < MaxCalls
  /\ Exists(job[j]) /\ ~IsExecutionPending(job[j].status) /\ job[j].name \in Registered
  /\ RetryBecome(r, [NotRetrying EXCEPT !.pc = "findClone", !.source = j,
                                        !.calls = retrier[r].calls + 1])
  /\ UNCHANGED <<repositoryVars, spent, retryFrame>>

\* Seeded fault: a clone that is found is started without being published.
FindCloneSkipsPublish(r) ==
  LET j == FindPendingJobByParentID(retrier[r].source) IN
  /\ RetryAt(r, "findClone")
  /\ IF j = 0 THEN RetryGoto(r, "create")
     ELSE RetryBecome(r, [retrier[r] EXCEPT !.pc = "summary", !.clone = j, !.reuse = TRUE,
                                            !.status = job[j].status])
  /\ UNCHANGED <<repositoryVars, spent, retryFrame>>

FindClone(r) ==
  LET j == FindPendingJobByParentID(retrier[r].source) IN
  /\ RetryAt(r, "findClone")
  /\ \/ j = 0 /\ RetryGoto(r, "create") /\ UNCHANGED spent
     \/ /\ j # 0 /\ UNCHANGED spent
        /\ RetryBecome(r, [retrier[r] EXCEPT !.pc = "reread", !.clone = j, !.reuse = TRUE,
                                             !.status = job[j].status])
     \/ RetryError(r)
  /\ UNCHANGED <<repositoryVars, retryFrame>>

\* Seeded fault: the Status field of the new Job is not set.
CreateCloneWithoutStatus(r) ==
  LET j == retrier[r].source IN
  /\ RetryAt(r, "create") /\ FreeIDs # {}
  /\ CreateJobAndTasks(NextID, [status |-> "", name |-> job[j].name, ref |-> RetryRef[r],
                                parent |-> j, triggerFailure |-> FALSE], 0, Absent)
  /\ RetryBecome(r, [retrier[r] EXCEPT !.pc = "read", !.clone = NextID, !.status = ""])
  /\ UNCHANGED <<spent, retryFrame>>

\* The clone's row goes in first, without tasks; the metadata is copied.
CreateClone(r) ==
  LET j == retrier[r].source
      create == CreateJobAndTasks(NextID,
                  [status |-> "PENDING", name |-> job[j].name, ref |-> RetryRef[r], parent |-> j,
                   triggerFailure |-> job[j].triggerFailure], 0, Absent)
  IN /\ RetryAt(r, "create") /\ FreeIDs # {}
     /\ \/ /\ create /\ UNCHANGED spent
           /\ RetryBecome(r, [retrier[r] EXCEPT !.pc = "read", !.clone = NextID,
                                                !.status = "PENDING"])
        \/ /\ create \/ UNCHANGED repositoryVars
           /\ RetryError(r)
     /\ UNCHANGED retryFrame

-----------------------------------------------------------------------------
(* The two streams: clone and publish, and publish what is there. *)

\* Seeded fault: a full page ends the stream.
TurnedOnce(r, page) ==
  [retrier[r] EXCEPT !.afterSeq = CHOOSE n \in {t[2] : t \in page} : \A t \in page : t[2] <= n,
                     !.last = Cardinality(page) <= RetryBatchSize,
                     !.total = @ + Cardinality(page)]

\* Seeded fault: the last task of a page is read again with the next one.
TurnedBack(r, page) ==
  [retrier[r] EXCEPT !.afterSeq = (CHOOSE n \in {t[2] : t \in page} : \A t \in page : t[2] <= n) - 1,
                     !.last = Cardinality(page) < RetryBatchSize,
                     !.total = @ + Cardinality(page)]

\* The cursor after a page.
Turned(r, page) ==
  [retrier[r] EXCEPT !.afterSeq = CHOOSE n \in {t[2] : t \in page} : \A t \in page : t[2] <= n,
                     !.last = Cardinality(page) < RetryBatchSize,
                     !.total = @ + Cardinality(page)]

\* streamCloneAndPublish: a page of the source's tasks.
ReadSource(r) ==
  LET page == FindTasksBatch(retrier[r].source, retryStatuses(FullRetry[r]),
                             retrier[r].afterSeq, RetryBatchSize)
  IN /\ RetryAt(r, "read")
     /\ \/ page = {} /\ RetryGoto(r, "start") /\ UNCHANGED spent
        \/ /\ page # {} /\ UNCHANGED spent
           /\ RetryBecome(r, [Turned(r, page) EXCEPT !.pc = "insert",
                                !.batch = {<<retrier[r].clone, t[2]>> : t \in page}])
        \/ RetryError(r)
     /\ UNCHANGED <<repositoryVars, retryFrame>>

\* The clones of a page, told apart by their sequence numbers.  Each is a new
\* row: to clone a task twice would make two (Retrying's ClonedOnce).
InsertClones(r) ==
  /\ RetryAt(r, "insert")
  /\ \/ CreateTasks(retrier[r].batch) /\ UNCHANGED spent /\ RetryGoto(r, "publish")
     \/ /\ CreateTasks(retrier[r].batch) \/ UNCHANGED task
        /\ RetryError(r)
  /\ UNCHANGED <<job, retryFrame>>

\* streamPublishTasks: a page of the clone's own tasks, whatever their status.
ReadClone(r) ==
  LET page == FindTasksBatch(retrier[r].clone, Status, retrier[r].afterSeq, RetryBatchSize)
  IN /\ RetryAt(r, "reread")
     /\ \/ page = {} /\ RetryGoto(r, "summary") /\ UNCHANGED spent
        \/ /\ page # {} /\ UNCHANGED spent
           /\ RetryBecome(r, [Turned(r, page) EXCEPT !.pc = "publish", !.batch = page])
        \/ RetryError(r)
     /\ UNCHANGED <<repositoryVars, retryFrame>>

\* After the last message of a page.
AfterPage(r) ==
  CASE retrier[r].reuse /\ retrier[r].last    -> "summary"
    [] retrier[r].reuse /\ ~retrier[r].last   -> "reread"
    [] ~retrier[r].reuse /\ retrier[r].last   -> "start"
    [] ~retrier[r].reuse /\ ~retrier[r].last  -> "read"

\* One message of PublishTasks; an error may be reported of one that was written.
PublishClone(r) ==
  /\ RetryAt(r, "publish")
  /\ \E t \in retrier[r].batch :
       LET rest == retrier[r].batch \ {t} IN
       \/ /\ Publish(t, TaskPartitions) /\ UNCHANGED spent
          /\ RetryBecome(r, [retrier[r] EXCEPT !.batch = rest,
                               !.pc = IF rest = {} THEN AfterPage(r) ELSE "publish"])
       \/ /\ Publish(t, TaskPartitions) \/ UNCHANGED brokerVars
          /\ RetryError(r)
  /\ UNCHANGED <<repositoryVars, finalizerVars>>

\* The task count of a clone that was found.
CountClone(r) ==
  /\ RetryAt(r, "summary")
  /\ \/ /\ UNCHANGED spent
        /\ RetryBecome(r, [retrier[r] EXCEPT !.pc = "start",
                             !.total = GetTaskStatusSummary(retrier[r].clone).total])
     \/ RetryError(r)
  /\ UNCHANGED <<repositoryVars, retryFrame>>

CloneAlreadyRunning(r) ==
  /\ RetryAt(r, "start") /\ retrier[r].status = "RUNNING"
  /\ RetryReturn(r)
  /\ UNCHANGED <<repositoryVars, spent, retryFrame>>

\* startClonedJob: the UPDATE is not guarded and its error only logged; then
\* maybeFinalizeJob for a clone without tasks.
StartClonedJob(r) ==
  LET j == retrier[r].clone IN
  /\ RetryAt(r, "start") /\ CanFire(jobTransitions.start, retrier[r].status)
  /\ \/ UpdateJob(j, jobTransitions.start.dst) /\ UNCHANGED spent
     \/ UNCHANGED job /\ Spend("error")
  /\ IF retrier[r].total = 0
     THEN /\ RetryGoto(r, "finalize")
          /\ fin' = [fin EXCEPT ![r] = [Resting EXCEPT !.pc = "next", !.todo = {j}]]
     ELSE RetryReturn(r) /\ UNCHANGED fin
  /\ UNCHANGED <<task, brokerVars, finished>>

EndRetry(r) ==
  /\ RetryAt(r, "finalize") /\ FinAt(r, "idle")
  /\ RetryReturn(r)
  /\ UNCHANGED <<repositoryVars, spent, retryFrame>>

CrashRetrier(r) ==
  /\ ~RetryAt(r, "idle")
  /\ Spend("crash")
  /\ RetryReturn(r)
  /\ fin' = [fin EXCEPT ![r] = Resting]
  /\ UNCHANGED <<repositoryVars, brokerVars, finished>>

RetrierStep(r) ==
  \/ FindClone(r) \/ CreateClone(r) \/ ReadSource(r) \/ InsertClones(r)
  \/ ReadClone(r) \/ PublishClone(r) \/ CountClone(r)
  \/ CloneAlreadyRunning(r) \/ StartClonedJob(r) \/ EndRetry(r)

=============================================================================
