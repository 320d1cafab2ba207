----------------------------- MODULE Triggering -----------------------------
(***************************************************************************)
(* From triggers to started runs: concurrent calls of executeJob           *)
(* (JobExecutor), completion checks (JobFinalizer) and TerminateJob, from  *)
(* an empty database.  The consumers are left out: a published task stays  *)
(* as it was created, and only empty runs complete.                        *)
(***************************************************************************)
EXTENDS JobExecutor

vars == <<repositoryVars, spent, brokerVars, finalizerVars, caller>>

TypeOK ==
  /\ RepositoryTypeOK /\ FaultsTypeOK /\ BrokerTypeOK(TaskID)
  /\ JobFinalizerTypeOK /\ JobExecutorTypeOK

NoJobRow == [status |-> Absent, name |-> CHOOSE n \in Names : TRUE,
             ref |-> CHOOSE r \in Refs : TRUE, parent |-> NoParent, triggerFailure |-> FALSE]

Init ==
  /\ job = [j \in JobID |-> NoJobRow]
  /\ task = [t \in TaskID |-> [status |-> Absent, attempt |-> 0]]
  /\ log = [p \in Partitions |-> <<>>]
  /\ committed = [p \in Partitions |-> 0]
  /\ position = [p \in Partitions |-> 0]
  /\ owner \in {o \in [Partitions -> Consumers] : \A p \in Partitions : o[p] \in GroupOf(p)}
  /\ FaultsInit /\ JobFinalizerInit /\ JobExecutorInit

Terminate(j) == TerminateJob(j) /\ UNCHANGED <<spent, brokerVars, finalizerVars, caller>>

\* A tick of the completion cron, in a goroutine of its own.
Tick(f, n) ==
  /\ f \notin Callers
  /\ CheckJobCompletions(f, n)
  /\ UNCHANGED <<brokerVars, caller>>

FinalizerNext(f) ==
  /\ FinalizerStep(f) \/ (f \notin Callers /\ CrashFinalizer(f))
  /\ UNCHANGED <<brokerVars, caller>>

Next ==
  \/ \E c \in Callers : \/ Trigger(c) \/ (\E j \in JobID : RetryTriggerJob(c, j)) \/ Redeliver(c)
                        \/ CallerStep(c) \/ CrashCaller(c)
  \/ \E f \in Finalizers : FinalizerNext(f) \/ \E n \in Registered : Tick(f, n)
  \/ \E j \in JobID : Terminate(j)

Spec == Init /\ [][Next]_vars

-----------------------------------------------------------------------------
\* A run is RUNNING only when every one of its tasks has been written to
\* Kafka: no completion depends on a message that was never sent.
StartedAfterPublish ==
  \A j \in JobID : job[j].status = "RUNNING" => \A t \in TasksOf(j) : Written(t)

\* Each reference and each name is used by one caller only, so calls that
\* share one never overlap (an asynq task and its retries, a client that waits
\* for the answer before it calls again).
Uses(c, ref) == \E n \in 1..Len(CallRefs[c]) : CallRefs[c][n] = ref
TakingTurns ==
  \A c, d \in Callers :
    CallName[c] = CallName[d] \/ (\E r \in Refs : Uses(c, r) /\ Uses(d, r)) => c = d

\* Among calls that take turns a reference names at most one run: the lookup,
\* and the second lookup of a failed trigger, find what an earlier call left,
\* even one that crashed or whose insert reported an error.
OneRunPerRef ==
  TakingTurns =>
    \A j, k \in JobID : Exists(job[j]) /\ Exists(job[k]) /\ job[j].ref = job[k].ref => j = k

\* The successive triggers of a caller have references of their own, as asynq's
\* task ids are.
OwnReferences ==
  \A c \in Callers : \A m, n \in 1..Len(CallRefs[c]) : CallRefs[c][m] = CallRefs[c][n] => m = n

\* The row of a failed trigger stays FAILED and empty, and for an asynq task it
\* is written only when no retry is left that could still create the run.
TriggerFailureIsLast ==
  \A j \in JobID : job[j].triggerFailure =>
    /\ job[j].status = "FAILED" /\ TasksOf(j) = {}
    /\ TakingTurns /\ OwnReferences => \A c \in Callers :
         caller[c].turn > 0 /\ RefID(c) = job[j].ref => caller[c].retry >= caller[c].maxRetry

\* CancelPrevious: two runs of the name are never RUNNING together, if the
\* calls take turns and none of their statements fails.
AtMostOneRunning ==
  \A n \in CancelPrevious : \A j, k \in JobID :
    /\ job[j].name = n /\ job[j].status = "RUNNING"
    /\ job[k].name = n /\ job[k].status = "RUNNING"
    => j = k
OneRunningRun == TakingTurns /\ Never("error") => AtMostOneRunning

\* The finalizers, the inline one of executeJob among them, announce a run at
\* most once, if the calls take turns: none then starts a run that another call
\* has started and a finalizer has ended.  (executeJob's own calls
\* of OnJobFinished, with the status it returns, are not in `finished`.)  Two
\* calls that overlap on one reference can revive a run and announce it twice.
FinalizedOnce == TakingTurns => \A j \in JobID : Len(finished[j]) <= 1

=============================================================================
