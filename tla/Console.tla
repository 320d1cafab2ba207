------------------------------- MODULE Console ------------------------------
(***************************************************************************)
(* The handlers of internal/console and what they act on: the list of runs *)
(* put together from asynq and from scherry_jobs, the pages of a run's     *)
(* tasks, and the buttons of both.  Each handler is a goroutine that makes *)
(* several queries while triggers (JobExecutor) and retries (JobRetry) go  *)
(* on.  A user looks at one answer at a time and may click on what it      *)
(* shows long after it has changed.                                        *)
(*                                                                         *)
(* Requests carry no filter and ask for a first page of runs that is not   *)
(* full: neither the limit of the query for rows nor the cut of            *)
(* mergeJobSummaries takes anything away.                                  *)
(***************************************************************************)
EXTENDS JobExecutor, JobRetry

CONSTANTS
  Users,            \* the console's users: they trigger and retry through its handlers
  TaskPageSize      \* the limit a user asks for in the list of tasks

ASSUME ConsoleAssumption ==
  /\ Users \subseteq Callers /\ Users \subseteq Retriers
  /\ TaskPageSize \in Nat \ {0}
  /\ \A c \in Callers \ Users : Len(CallRefs[c]) = 1 /\ AsynqMaxRetry[c] # NoAsynq

VARIABLE web        \* user -> where the request is and what it has read

WebPC == {"idle", "retrying", "refs", "rows", "listed", "countForRetry", "retryTrigger", "retryJob",
          "countTasks", "pageTasks", "walked"}

\* begin: the rows and the failing asynq tasks, with their attempts, when the
\* request began; still: those failing at its second query; found: asynq tasks
\* collected; cand: those still in the answer; rows: runs in the
\* answer; job: the run acted on; offset, total: the page of its tasks; due:
\* its tasks when the walk began; walk: the tasks shown so far.
WebState ==
  [pc : WebPC, begin : [rows : SUBSET JobID, failing : SUBSET (Refs \X Nat)],
   still : SUBSET (Refs \X Nat), found : SUBSET Refs, cand : SUBSET Refs, rows : SUBSET JobID, job : JobID \cup {NoJob},
   offset : Nat, total : Nat, due : SUBSET TaskID, walk : Seq(TaskID)]

NoRequest ==
  [pc |-> "idle", begin |-> [rows |-> {}, failing |-> {}], still |-> {}, found |-> {}, cand |-> {},
   rows |-> {}, job |-> NoJob, offset |-> 0, total |-> 0, due |-> {}, walk |-> <<>>]

vars == <<repositoryVars, spent, brokerVars, finalizerVars, caller, retrier, web>>

\* What a query or a click leaves alone.
schedulerVars == <<repositoryVars, brokerVars, finalizerVars, caller, retrier>>

TypeOK ==
  /\ RepositoryTypeOK /\ FaultsTypeOK /\ BrokerTypeOK(TaskID)
  /\ JobFinalizerTypeOK /\ JobExecutorTypeOK /\ JobRetryTypeOK
  /\ web \in [Users -> WebState]

NoJobRow == [status |-> Absent, name |-> CHOOSE n \in Names : TRUE,
             ref |-> CHOOSE r \in Refs : TRUE, parent |-> NoParent, triggerFailure |-> FALSE]

Init ==
  /\ job = [j \in JobID |-> NoJobRow]
  /\ task = [t \in TaskID |-> [status |-> Absent, attempt |-> 0]]
  /\ log = [p \in Partitions |-> <<>>]
  /\ committed = [p \in Partitions |-> 0]
  /\ position = [p \in Partitions |-> 0]
  /\ owner \in {o \in [Partitions -> Consumers] : \A p \in Partitions : o[p] \in GroupOf(p)}
  /\ FaultsInit /\ JobFinalizerInit /\ JobExecutorInit /\ JobRetryInit
  /\ web = [u \in Users |-> NoRequest]

-----------------------------------------------------------------------------
WebAt(u, pc) == web[u].pc = pc
WebBecome(u, state) == web' = [web EXCEPT ![u] = state]
WebGoto(u, pc) == WebBecome(u, [web[u] EXCEPT !.pc = pc])

\* A query whose error is the answer.
WebError(u) == WebBecome(u, NoRequest) /\ Spend("error")

Rows == {j \in JobID : Exists(job[j])}
RefsOf(rows) == {job[j].ref : j \in rows}

\* asynq tasks that failed and were not completed since: waiting for a retry,
\* or archived after the last one.
FailedCalls == {c \in Callers \ Users : CallAt(c, "idle") /\ caller[c].again}
RetryTasks    == {c \in FailedCalls : caller[c].retry < caller[c].maxRetry}
ArchivedTasks == FailedCalls \ RetryTasks
Failing == {<<RefID(c), caller[c].retry>> : c \in FailedCalls}

-----------------------------------------------------------------------------
(* handleListJobs *)

ListArchivedTasks(u) ==
  LET refs == {RefID(c) : c \in ArchivedTasks} IN
  /\ WebAt(u, "idle")
  /\ \/ /\ WebBecome(u, [NoRequest EXCEPT !.pc = "retrying", !.found = refs,
                                    !.begin = [rows |-> Rows, failing |-> Failing]])
        /\ UNCHANGED spent
     \/ WebError(u)
  /\ UNCHANGED schedulerVars

ListRetryTasks(u) ==
  LET refs == web[u].found \cup {RefID(c) : c \in RetryTasks} IN
  /\ WebAt(u, "retrying")
  /\ \/ /\ WebBecome(u, [web[u] EXCEPT !.pc = "refs", !.found = refs, !.still = Failing])
        /\ UNCHANGED spent
     \/ WebError(u)
  /\ UNCHANGED schedulerVars

\* A task that has a row is left to the row.
ListExistingRefIDs(u) ==
  /\ WebAt(u, "refs")
  /\ \/ /\ WebBecome(u, [web[u] EXCEPT !.pc = "rows", !.cand = web[u].found \ RefsOf(Rows)])
        /\ UNCHANGED spent
     \/ WebError(u)
  /\ UNCHANGED schedulerVars

\* Seeded fault: the rows are those of the request's beginning.
ListJobsFirst(u) ==
  /\ WebAt(u, "rows")
  /\ WebBecome(u, [web[u] EXCEPT !.pc = "listed", !.rows = web[u].begin.rows])
  /\ UNCHANGED <<spent, schedulerVars>>

\* ListJobs, and mergeJobSummaries with the asynq tasks that are left.
ListJobs(u) ==
  /\ WebAt(u, "rows")
  /\ \/ WebBecome(u, [web[u] EXCEPT !.pc = "listed", !.rows = Rows]) /\ UNCHANGED spent
     \/ WebError(u)
  /\ UNCHANGED schedulerVars

\* The user looks elsewhere.
Close(u) ==
  /\ web[u].pc \in {"listed", "walked"}
  /\ WebBecome(u, NoRequest)
  /\ UNCHANGED <<spent, schedulerVars>>

-----------------------------------------------------------------------------
(* handleRetry *)

\* RetryAsynqTask on a task the list showed: Inspector.RunTask takes it if it
\* is still waiting or archived.
RetryAsynqTask(u) ==
  /\ WebAt(u, "listed")
  /\ \E c \in FailedCalls :
       /\ RefID(c) \in web[u].cand
       /\ caller' = [caller EXCEPT ![c].pc = "find",
                                   ![c].retry = IF c \in RetryTasks THEN @ + 1 ELSE @]
  /\ WebBecome(u, NoRequest)
  /\ UNCHANGED <<repositoryVars, spent, brokerVars, finalizerVars, retrier>>

\* Seeded fault: every run is retried as a job.
FindForRetryIgnoresKind(u, j) ==
  /\ WebAt(u, "listed") /\ j \in web[u].rows
  /\ retrier[u].calls < MaxCalls
  /\ WebBecome(u, [NoRequest EXCEPT !.pc = "retryJob", !.job = j])
  /\ UNCHANGED <<spent, schedulerVars>>

\* FindJobByID and IsTriggerFailureJob.
FindForRetry(u, j) ==
  /\ WebAt(u, "listed") /\ j \in web[u].rows
  /\ caller[u].turn < Len(CallRefs[u]) /\ retrier[u].calls < MaxCalls
  /\ \/ /\ WebBecome(u, [NoRequest EXCEPT !.job = j,
                           !.pc = IF job[j].triggerFailure THEN "countForRetry" ELSE "retryJob"])
        /\ UNCHANGED spent
     \/ WebError(u)
  /\ UNCHANGED schedulerVars

CountTasksForJob(u) ==
  /\ WebAt(u, "countForRetry")
  /\ \/ /\ WebGoto(u, IF TasksOf(web[u].job) = {} THEN "retryTrigger" ELSE "retryJob")
        /\ UNCHANGED spent
     \/ WebError(u)
  /\ UNCHANGED schedulerVars

\* The call goes on in RetryTriggerJob ...
HandleRetryTrigger(u) ==
  /\ WebAt(u, "retryTrigger")
  /\ RetryTriggerJob(u, web[u].job)
  /\ WebBecome(u, NoRequest)
  /\ UNCHANGED retrier

\* ... or in RetryJob, which refuses a run that has not ended.
HandleRetryJob(u) ==
  /\ WebAt(u, "retryJob")
  /\ \/ RetryJob(u, web[u].job)
     \/ /\ IsExecutionPending(job[web[u].job].status)
        /\ UNCHANGED <<repositoryVars, spent, brokerVars, finalizerVars, retrier>>
  /\ WebBecome(u, NoRequest)
  /\ UNCHANGED caller

\* handleTerminate, of a run the list showed; a run that has ended is refused.
HandleTerminate(u, j) ==
  /\ WebAt(u, "listed") /\ j \in web[u].rows
  /\ TerminateJob(j)
  /\ WebBecome(u, NoRequest)
  /\ UNCHANGED <<spent, brokerVars, finalizerVars, caller, retrier>>

-----------------------------------------------------------------------------
(* handleListJobTasks and GetJobTasks, page after page *)

OpenJob(u, j) ==
  /\ WebAt(u, "listed") /\ j \in web[u].rows
  /\ WebBecome(u, [NoRequest EXCEPT !.pc = "countTasks", !.job = j, !.due = TasksOf(j)])
  /\ UNCHANGED <<spent, schedulerVars>>

CountTasks(u) ==
  /\ WebAt(u, "countTasks")
  /\ \/ /\ WebBecome(u, [web[u] EXCEPT !.pc = "pageTasks", !.total = Cardinality(TasksOf(web[u].job))])
        /\ UNCHANGED spent
     \/ WebError(u)
  /\ UNCHANGED schedulerVars

\* The rows of a page in the order of sequence_number.
TaskPage(j, offset, limit) ==
  LET before(t) == Cardinality({u \in TasksOf(j) : u[2] < t[2]})
      page == {t \in TasksOf(j) : before(t) >= offset /\ before(t) < offset + limit}
  IN [i \in 1..Cardinality(page) |-> CHOOSE t \in page : before(t) = offset + i - 1]

\* Seeded fault: the offset of the query counts from 1.
PageTasksFromOne(u) ==
  /\ WebAt(u, "pageTasks")
  /\ LET w == [web[u] EXCEPT !.walk = @ \o TaskPage(web[u].job, web[u].offset + 1, TaskPageSize),
                             !.offset = @ + TaskPageSize]
     IN WebBecome(u, [w EXCEPT !.pc = IF w.offset < w.total THEN "countTasks" ELSE "walked"])
  /\ UNCHANGED <<spent, schedulerVars>>

PageTasks(u) ==
  /\ WebAt(u, "pageTasks")
  /\ \/ /\ LET w == [web[u] EXCEPT !.walk = @ \o TaskPage(web[u].job, web[u].offset, TaskPageSize),
                                   !.offset = @ + TaskPageSize]
           IN WebBecome(u, [w EXCEPT !.pc = IF w.offset < w.total THEN "countTasks" ELSE "walked"])
        /\ UNCHANGED spent
     \/ WebError(u)
  /\ UNCHANGED schedulerVars

-----------------------------------------------------------------------------
WebStep(u) ==
  \/ ListArchivedTasks(u) \/ ListRetryTasks(u) \/ ListExistingRefIDs(u) \/ ListJobs(u) \/ Close(u)
  \/ RetryAsynqTask(u) \/ CountTasksForJob(u) \/ HandleRetryTrigger(u) \/ HandleRetryJob(u)
  \/ CountTasks(u) \/ PageTasks(u)
  \/ \E j \in JobID : FindForRetry(u, j) \/ HandleTerminate(u, j) \/ OpenJob(u, j)

Next ==
  \/ \E u \in Users : WebStep(u)
  \/ /\ \E c \in Callers : (c \notin Users /\ Trigger(c)) \/ Redeliver(c) \/ CallerStep(c) \/ CrashCaller(c)
     /\ UNCHANGED <<retrier, web>>
  \/ /\ \E r \in Retriers : RetrierStep(r) \/ CrashRetrier(r)
     /\ UNCHANGED <<caller, web>>
  \/ /\ \E f \in Finalizers : FinalizerStep(f)
     /\ UNCHANGED <<brokerVars, caller, retrier, web>>

Spec == Init /\ [][Next]_vars

-----------------------------------------------------------------------------
ShownRefs(u) == web[u].cand \cup RefsOf(web[u].rows)

\* What trigger_failure.go counts on: a trigger that fails stays visible, in
\* asynq until its last attempt and in its row afterwards.  The answer shows
\* every run there was when the request began, every asynq task it found, and
\* every trigger that had failed the same attempt at both queries of asynq,
\* though runs are created and triggers move between asynq and the table from
\* one query to the next.  A trigger whose last attempt fails between the two
\* queries, and leaves no row, is in neither.
ListingIsComplete ==
  \A u \in Users : WebAt(u, "listed") =>
    /\ web[u].begin.rows \subseteq web[u].rows
    /\ web[u].found \subseteq ShownRefs(u)
    /\ \A f \in web[u].begin.failing \cap web[u].still : f[1] \in ShownRefs(u)

\* A retry from the console never clones the empty record of a trigger that
\* failed: the clone would be COMPLETED with nothing done.
FailedTriggersAreNotCloned ==
  \A j \in Rows : job[j].parent # NoParent => ~job[job[j].parent].triggerFailure

\* Page by page a user sees every task the run had when it was opened, each one
\* once and in the order of generation, also of a clone that RetryJob is still
\* filling.
TaskPagesComplete ==
  \A u \in Users : WebAt(u, "walked") =>
    /\ \A i, k \in DOMAIN web[u].walk : i < k => web[u].walk[i][2] < web[u].walk[k][2]
    /\ web[u].due \subseteq {web[u].walk[i] : i \in DOMAIN web[u].walk}

=============================================================================
