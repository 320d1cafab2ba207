------------------------------ MODULE Retrying ------------------------------
(***************************************************************************)
(* Retries of an ended run (JobRetry), with completion checks and          *)
(* TerminateJob on the clones.  Initially the database holds one run that  *)
(* was finalized; the consumers are left out.                              *)
(***************************************************************************)
EXTENDS JobRetry

\* The run that is retried is one of a job this process knows.
ASSUME RetryingAssumption == Registered # {}

vars == <<repositoryVars, spent, brokerVars, finalizerVars, retrier>>

TypeOK ==
  /\ RepositoryTypeOK /\ FaultsTypeOK /\ BrokerTypeOK(TaskID)
  /\ JobFinalizerTypeOK /\ JobRetryTypeOK

Original == 1

\* The ways the tasks of a run end when all its attempts were used.
Outcomes == [0..(MaxTasks - 1) -> {"COMPLETED", "MAX_RETRIES_EXHAUSTED"}]

OutcomeCounts(outcome) ==
  [total |-> MaxTasks, nonTerminal |-> 0,
   completed |-> Cardinality({n \in 0..(MaxTasks - 1) : outcome[n] = "COMPLETED"})]

Init ==
  /\ \E outcome \in Outcomes :
       /\ job = [j \in JobID |->
                   [status |-> IF j = Original
                               THEN resolveJobTerminalStatusFromSummary(OutcomeCounts(outcome))
                               ELSE Absent,
                    name |-> CHOOSE n \in Registered : TRUE, ref |-> CHOOSE r \in Refs : TRUE,
                    parent |-> NoParent, triggerFailure |-> FALSE]]
       /\ task = [t \in TaskID |-> IF t[1] = Original THEN [status |-> outcome[t[2]], attempt |-> 1]
                                                      ELSE [status |-> Absent, attempt |-> 0]]
  /\ log = [p \in Partitions |-> <<>>]
  /\ committed = [p \in Partitions |-> 0]
  /\ position = [p \in Partitions |-> 0]
  /\ owner \in {o \in [Partitions -> Consumers] : \A p \in Partitions : o[p] \in GroupOf(p)}
  /\ FaultsInit /\ JobFinalizerInit /\ JobRetryInit

Terminate(j) == TerminateJob(j) /\ UNCHANGED <<spent, brokerVars, finalizerVars, retrier>>

Tick(f, n) ==
  /\ f \notin Retriers
  /\ CheckJobCompletions(f, n)
  /\ UNCHANGED <<brokerVars, retrier>>

FinalizerNext(f) ==
  /\ FinalizerStep(f) \/ (f \notin Retriers /\ CrashFinalizer(f))
  /\ UNCHANGED <<brokerVars, retrier>>

Next ==
  \/ \E r \in Retriers : (\E j \in JobID : RetryJob(r, j)) \/ RetrierStep(r) \/ CrashRetrier(r)
  \/ \E f \in Finalizers : FinalizerNext(f) \/ \E n \in Registered : Tick(f, n)
  \/ \E j \in JobID : Terminate(j)

Spec == Init /\ [][Next]_vars

-----------------------------------------------------------------------------
Clones(j) == {k \in JobID : Exists(job[k]) /\ job[k].parent = j}

\* Calls that do not overlap: a client that waits for the answer, or an asynq
\* task and its retries.
OneByOne == \A q, r \in Retriers : q = r

\* The sequence numbers of the tasks a call selects.
Selected(r, j) == {t[2] : t \in {u \in TasksOf(j) : task[u].status \in retryStatuses(FullRetry[r])}}

\* A clone that runs has a task for every task of the original that the retry
\* selected.
CloneIsComplete ==
  \A j \in JobID : \A k \in Clones(j) : job[k].status = "RUNNING" =>
    \E r \in Retriers : Selected(r, j) \subseteq {t[2] : t \in TasksOf(k)}

\* While no call fails or crashes, calls one by one stream every page: no task
\* is skipped at a page boundary.
EveryPageCloned == OneByOne /\ Never("error") /\ Never("crash") => CloneIsComplete

\* No task is cloned twice: a page that is about to be inserted holds no task
\* that its clone has already, at a page boundary, after crashes and errors, and
\* however many retries run.
ClonedOnce ==
  \A r \in Retriers : RetryAt(r, "insert") => \A t \in retrier[r].batch : ~Exists(task[t])

\* A clone runs only when all its tasks have been written to Kafka, even if it
\* was found half published after a crash or an error.
CloneStartedAfterPublish ==
  OneByOne => \A j \in JobID : \A k \in Clones(j) : job[k].status = "RUNNING" =>
                \A t \in TasksOf(k) : Written(t)

\* Calls one by one never have two live clones of one job, after crashes and
\* after inserts that reported an error.
OneLiveClone ==
  OneByOne => \A j \in JobID : \A k, l \in Clones(j) :
    IsExecutionPending(job[k].status) /\ IsExecutionPending(job[l].status) => k = l

=============================================================================
