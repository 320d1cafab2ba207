----------------------------- MODULE Repository -----------------------------
(***************************************************************************)
(* The Postgres rows behind internal/repository, one operator per          *)
(* statement or transaction.  Each is atomic, as its SQL is; what runs     *)
(* between two of them is up to the modules that use them.                 *)
(*                                                                         *)
(* A job is identified by its insertion rank, so the order of JobID is the *)
(* order of created_at.  A task is identified by its job and its           *)
(* sequence_number.                                                        *)
(***************************************************************************)
EXTENDS Domain

CONSTANTS
  MaxJobs,      \* bound: rows ever inserted into scherry_jobs
  MaxTasks,     \* bound: tasks of one job
  Names,        \* job names
  Registered,   \* names with an entry in the jobs map of this process
  Refs          \* unique_reference_id values

ASSUME RepositoryAssumption ==
  /\ MaxJobs \in Nat /\ MaxTasks \in Nat
  /\ Names # {} /\ Refs # {}
  /\ Registered \subseteq Names

VARIABLES
  job,          \* scherry_jobs: job id -> row
  task          \* scherry_tasks: task id -> row

repositoryVars == <<job, task>>

JobID  == 1..MaxJobs
TaskID == JobID \X (0..(MaxTasks - 1))

NoParent == 0

\* triggerFailure is the flag of that name in the metadata column.
JobRow == [status : Status \cup {Absent}, name : Names, ref : Refs,
           parent : JobID \cup {NoParent}, triggerFailure : BOOLEAN]

TaskRow == [status : Status \cup {Absent}, attempt : Nat]

RepositoryTypeOK ==
  /\ job \in [JobID -> JobRow]
  /\ task \in [TaskID -> TaskRow]

-----------------------------------------------------------------------------
(* Queries *)

Exists(row) == row.status # Absent

TasksOf(j) == {t \in TaskID : t[1] = j /\ Exists(task[t])}

\* The job row of FindJobWithTasksByUniqueReferenceID, or 0: the reference has
\* no unique constraint, the most recent row wins.
FindJobByRef(ref) ==
  LET rows == {j \in JobID : Exists(job[j]) /\ job[j].ref = ref}
  IN IF rows = {} THEN 0 ELSE CHOOSE j \in rows : \A k \in rows : k <= j

\* Seeded fault: only PENDING clones are looked for.
FindOnlyPending(parent) ==
  LET rows == {j \in JobID : job[j].status = "PENDING" /\ job[j].parent = parent}
  IN IF rows = {} THEN 0 ELSE CHOOSE j \in rows : \A k \in rows : k <= j

\* The most recent live clone of a job, or 0.
FindPendingJobByParentID(parent) ==
  LET rows == {j \in JobID : job[j].status \in NonTerminalJobStates /\ job[j].parent = parent}
  IN IF rows = {} THEN 0 ELSE CHOOSE j \in rows : \A k \in rows : k <= j

\* The next page of a job's tasks in one of the statuses, by sequence_number.
FindTasksBatch(j, statuses, afterSeq, limit) ==
  LET rows == {t \in TasksOf(j) : t[2] > afterSeq /\ task[t].status \in statuses}
  IN {t \in rows : Cardinality({u \in rows : u[2] < t[2]}) < limit}

\* Seeded fault: finished tasks counted as completed ones.
SummaryCountsFinished(j) ==
  [total       |-> Cardinality(TasksOf(j)),
   completed   |-> Cardinality({t \in TasksOf(j) : isTaskTerminal(task[t].status)}),
   nonTerminal |-> Cardinality({t \in TasksOf(j) : ~isTaskTerminal(task[t].status)})]

\* TaskStatusSummary of one aggregate SELECT.
GetTaskStatusSummary(j) ==
  [total       |-> Cardinality(TasksOf(j)),
   completed   |-> Cardinality({t \in TasksOf(j) : task[t].status = "COMPLETED"}),
   nonTerminal |-> Cardinality({t \in TasksOf(j) : ~isTaskTerminal(task[t].status)})]

\* Every RUNNING job of the name none of whose tasks is unfinished.  The
\* caller takes at most LIMIT of these.
CompletableJobs(name) ==
  {j \in JobID : /\ job[j].status = "RUNNING"
                 /\ job[j].name = name
                 /\ \A t \in TasksOf(j) : isTaskTerminal(task[t].status)}

\* The possible results of FindCompletableJobIDs: the query orders by
\* updated_at, which is not modelled, so any batch of the right size may come.
FindCompletableJobIDs(name, limit) ==
  {batch \in SUBSET CompletableJobs(name) :
     \/ Cardinality(batch) = limit
     \/ batch = CompletableJobs(name) /\ Cardinality(batch) < limit}

-----------------------------------------------------------------------------
(* Statements *)

\* WHERE id = taskID: row is the task's row with the updated columns.
UpdateTask(t, row) == task' = [task EXCEPT ![t] = row]

\* WHERE id IN taskIDs: no condition on the row's current status.
UpdateTasksStatus(ts, status) ==
  task' = [t \in TaskID |-> IF t \in ts THEN [task[t] EXCEPT !.status = status]
                                        ELSE task[t]]

\* An unconditional UPDATE of the job row.
UpdateJob(j, status) == job' = [job EXCEPT ![j].status = status]

\* Seeded fault: the guard is dropped from the UPDATE.
UnguardedUpdate(j, expected, status) == job' = [job EXCEPT ![j].status = status]

\* The compare-and-set: the guard is in the UPDATE itself.
UpdateJobIfStatus(j, expected, status) ==
  job' = IF job[j].status = expected THEN [job EXCEPT ![j].status = status] ELSE job

\* The id the next INSERT gets.
FreeIDs == {j \in JobID : ~Exists(job[j])}
NextID == CHOOSE j \in FreeIDs : \A k \in FreeIDs : j <= k

\* One transaction: the job row and its first n tasks, all in one status.
CreateJobAndTasks(j, row, n, status) ==
  /\ job' = [job EXCEPT ![j] = row]
  /\ task' = [t \in TaskID |-> IF t[1] = j /\ t[2] < n
                               THEN [status |-> status, attempt |-> 1] ELSE task[t]]

\* Rows for the tasks of a job that exists.
CreateTasks(ts) ==
  task' = [t \in TaskID |-> IF t \in ts THEN [status |-> "PENDING", attempt |-> 1] ELSE task[t]]

\* Seeded fault: only PENDING runs are cancelled.
CancelPendingOnly(name, current) ==
  /\ job' = [j \in JobID |->
               IF j # current /\ job[j].name = name /\ job[j].status = "PENDING"
               THEN [job[j] EXCEPT !.status = "CANCELLED"] ELSE job[j]]
  /\ UNCHANGED task

\* One transaction: every other live run of the name becomes CANCELLED, with
\* its PENDING, RUNNING and FAILED tasks.
CancelPreviousJobs(name, current) ==
  LET live == {j \in JobID \ {current} : job[j].name = name /\ job[j].status \in {"PENDING", "RUNNING"}}
  IN /\ job' = [j \in JobID |-> IF j \in live THEN [job[j] EXCEPT !.status = "CANCELLED"]
                                             ELSE job[j]]
     /\ task' = [t \in TaskID |->
                   IF t[1] \in live /\ task[t].status \in {"PENDING", "RUNNING", "FAILED"}
                   THEN [task[t] EXCEPT !.status = "CANCELLED"] ELSE task[t]]

\* One transaction: a live job and its PENDING tasks become CANCELLED.
TerminateJob(j) ==
  /\ job[j].status \in {"PENDING", "RUNNING"}
  /\ job' = [job EXCEPT ![j].status = "CANCELLED"]
  /\ task' = [t \in TaskID |->
                IF t[1] = j /\ task[t].status = "PENDING"
                THEN [task[t] EXCEPT !.status = "CANCELLED"] ELSE task[t]]

=============================================================================
