-------------------------- MODULE Execution_proofs --------------------------
(***************************************************************************)
(* Proofs about Execution, for any number of jobs, tasks, partitions,      *)
(* consumers, finalizers, retries and faults:                              *)
(*   - TypeOK, RetryBudget and FinalizedOnce as invariants, and Execution  *)
(*     as an implementation of RunLifecycle;                               *)
(*   - which consumer may work on a task: ExclusiveExecution;              *)
(*   - what becomes of a task: OneExecutionPerAttempt,                     *)
(*     CompletedMeansAllCompleted and ExhaustedReachesDLQ, which rest on   *)
(*     the one token per task or on the origin of the messages and rows;   *)
(*   - who will come back to a task: NoTaskForgotten.                      *)
(* What the actions of a consumer do is stated in Consumers_proofs.        *)
(***************************************************************************)
EXTENDS Execution, Consumers_proofs, FiniteSetTheorems

Outcomes == {"COMPLETED", "FAILED", "PARTIAL_FAILED"}

\* A finalizer past its first read visits a job, past its second it has an
\* outcome for it.
VisitsJob ==
  \A f \in Finalizers :
    /\ fin[f].pc \in {"summary", "cas", "hook"} => fin[f].job \in JobID
    /\ fin[f].pc \in {"cas", "hook"} => fin[f].outcome \in Outcomes

TypeInv == TypeOK /\ HoldsMessage /\ VisitsJob

LEMMA TypeWork == TypeInv => WorkInv
BY DEF TypeInv, TypeOK, WorkInv

\* What Consumers_proofs says of a consumer may be used wherever TypeInv holds.
USE TypeWork

-----------------------------------------------------------------------------
(* Lemmas about the operators of Domain and Repository. *)

\* resolveJobTerminalStatusFromSummary yields one of four results, and the
\* event that jobStatusToAction picks leads to the status resolved.
LEMMA ResolvedOutcome ==
  ASSUME NEW s, resolveJobTerminalStatusFromSummary(s) # NotReady
  PROVE  /\ resolveJobTerminalStatusFromSummary(s) \in Outcomes
         /\ jobStatusToAction(resolveJobTerminalStatusFromSummary(s)).dst
              = resolveJobTerminalStatusFromSummary(s)
<1>1. resolveJobTerminalStatusFromSummary(s) \in Outcomes \cup {NotReady}
  BY DEF resolveJobTerminalStatusFromSummary, Outcomes
<1>2. ASSUME NEW o \in Outcomes PROVE jobStatusToAction(o).dst = o
  BY <1>2 DEF Outcomes, jobStatusToAction, jobTransitions
<1>. QED BY <1>1, <1>2

-----------------------------------------------------------------------------
LEMMA InitType == Init => TypeInv
<1>. SUFFICES ASSUME Init PROVE TypeInv
  OBVIOUS
<1>. USE RepositoryAssumption, BrokerAssumption, ExecutionAssumption DEF Init
<1>1. RepositoryTypeOK
  <2>1. (CHOOSE r \in Refs : TRUE) \in Refs
    OBVIOUS
  <2>2. job \in [JobID -> JobRow]
    BY <2>1 DEF JobRow, Status, JobStatus, NoParent
  <2>3. task \in [TaskID -> TaskRow]
    BY DEF TaskRow, Status, TaskStatus
  <2>. QED BY <2>2, <2>3 DEF RepositoryTypeOK
<1>2. FaultsTypeOK
  BY DEF FaultsInit, FaultsTypeOK
<1>3. BrokerTypeOK(TaskID)
  <2>1. log \in [Partitions -> Seq(TaskID)]
    <3>1. <<>> \in Seq(TaskID)
      OBVIOUS
    <3>. QED BY <3>1
  <2>. QED BY <2>1 DEF BrokerTypeOK
<1>4. TaskExecutorTypeOK /\ HoldsMessage
  BY DEF TaskExecutorInit, TaskExecutorTypeOK, HoldsMessage, Waiting, WorkerState, WorkerPC, Status
<1>5. JobFinalizerTypeOK /\ VisitsJob
  BY DEF JobFinalizerInit, JobFinalizerTypeOK, VisitsJob, Resting, FinalizerState, FinalizerPC
<1>. QED BY <1>1, <1>2, <1>3, <1>4, <1>5 DEF TypeInv, TypeOK

LEMMA ConsumersType == ASSUME TypeInv, ConsumerNext PROVE TypeInv'
<1>1. WorkInv' /\ UNCHANGED finalizerVars
  BY ConsumerType DEF ConsumerNext
<1>. QED BY <1>1 DEF TypeInv, TypeOK, WorkInv, finalizerVars, JobFinalizerTypeOK, VisitsJob

-----------------------------------------------------------------------------
\* A finalizer's record replaced by a well-formed one.
LEMMA FinType ==
  ASSUME TypeInv, NEW f \in Finalizers, NEW w \in FinalizerState, fin' = [fin EXCEPT ![f] = w],
         w.pc \in {"summary", "cas", "hook"} => w.job \in JobID,
         w.pc \in {"cas", "hook"} => w.outcome \in Outcomes
  PROVE  fin' \in [Finalizers -> FinalizerState] /\ VisitsJob'
BY DEF TypeInv, TypeOK, JobFinalizerTypeOK, VisitsJob

\* Moving on to the next id of the batch.
LEMMA VisitedType ==
  ASSUME TypeInv, NEW f \in Finalizers, Visited(f)
  PROVE  fin' \in [Finalizers -> FinalizerState] /\ VisitsJob'
<1>. DEFINE w == IF fin[f].todo = {} THEN Resting
                 ELSE [Resting EXCEPT !.pc = "next", !.todo = fin[f].todo]
<1>1. fin[f].todo \in SUBSET JobID
  BY DEF TypeInv, TypeOK, JobFinalizerTypeOK, FinalizerState
<1>2. w \in FinalizerState /\ w.pc \in {"idle", "next"}
  BY <1>1 DEF Resting, FinalizerState, FinalizerPC
<1>3. fin' = [fin EXCEPT ![f] = w]
  BY DEF Visited
<1>. HIDE DEF w
<1>. QED BY <1>2, <1>3, FinType

\* Every action of a finalizer keeps rows, faults, hooks and finalizer typed.
LEMMA FinalizerType == ASSUME TypeInv, FinalizerNext PROVE TypeInv'
<1>. DEFINE Rows == job' \in [JobID -> JobRow] /\ task' = task
            Budget == FaultsTypeOK'
            Handler == fin' \in [Finalizers -> FinalizerState] /\ VisitsJob'
            Hooks == finished' \in [JobID -> Seq(Status)]
            Goal == Rows /\ Budget /\ Handler /\ Hooks
<1>. SUFFICES Goal
  BY DEF FinalizerNext, brokerVars, workerVars, TypeInv, TypeOK, RepositoryTypeOK, BrokerTypeOK,
         TaskExecutorTypeOK, HoldsMessage, JobFinalizerTypeOK
<1>a. UNCHANGED spent \/ Spend("error") \/ Spend("crash") => Budget
  BY SpendType DEF TypeInv, TypeOK, FaultsTypeOK, FaultKind
<1>b. UNCHANGED repositoryVars => Rows
  BY DEF TypeInv, TypeOK, RepositoryTypeOK, repositoryVars
<1>c. UNCHANGED finished => Hooks
  BY DEF TypeInv, TypeOK, JobFinalizerTypeOK
<1>d. Resting \in FinalizerState /\ Resting.pc = "idle"
  BY DEF Resting, FinalizerState, FinalizerPC
<1>e. \A f \in Finalizers : fin[f] \in FinalizerState
  BY DEF TypeInv, TypeOK, JobFinalizerTypeOK
<1>. HIDE DEF Rows, Budget, Handler, Hooks
<1>1. ASSUME NEW f \in Finalizers, NEW n \in Registered, CheckJobCompletions(f, n) PROVE Goal
  <2>1. PICK batch \in SUBSET JobID :
          fin' = [fin EXCEPT ![f] = [Resting EXCEPT !.pc = "next", !.todo = batch]]
    BY <1>1 DEF CheckJobCompletions, FindCompletableJobIDs, CompletableJobs
  <2>. DEFINE w == [Resting EXCEPT !.pc = "next", !.todo = batch]
  <2>2. w \in FinalizerState /\ w.pc = "next"
    BY <1>d DEF FinalizerState, FinalizerPC
  <2>3. fin' = [fin EXCEPT ![f] = w]
    BY <2>1
  <2>. HIDE DEF w
  <2>4. Handler
    BY <2>2, <2>3, FinType DEF Handler
  <2>. QED BY <1>1, <2>4, <1>a, <1>b, <1>c DEF CheckJobCompletions
<1>2. ASSUME NEW f \in Finalizers, FindJob(f) PROVE Goal
  <2>1. PICK j \in fin[f].todo :
          LET rest == [fin[f] EXCEPT !.todo = @ \ {j}] IN
          \/ /\ fin' = [fin EXCEPT ![f] = [rest EXCEPT !.pc = "summary", !.job = j]]
             /\ UNCHANGED spent
          \/ /\ UNCHANGED spent \/ Spend("error")
             /\ fin' = [fin EXCEPT ![f] = IF rest.todo = {} THEN Resting ELSE rest]
    BY <1>2 DEF FindJob
  <2>. DEFINE rest == [fin[f] EXCEPT !.todo = @ \ {j}]
              found == [rest EXCEPT !.pc = "summary", !.job = j]
              skip == IF rest.todo = {} THEN Resting ELSE rest
  <2>2. j \in JobID /\ fin[f].pc = "next"
    BY <1>2, <1>e DEF FindJob, FinAt, FinalizerState
  <2>3. rest \in FinalizerState /\ rest.pc = "next"
    BY <1>e, <2>2 DEF FinalizerState
  <2>4. found \in FinalizerState /\ found.pc = "summary" /\ found.job \in JobID
    <3>. HIDE DEF rest
    <3>. QED BY <2>2, <2>3 DEF FinalizerState, FinalizerPC
  <2>5. skip \in FinalizerState /\ skip.pc \in {"idle", "next"}
    <3>. HIDE DEF rest
    <3>. QED BY <2>3, <1>d
  <2>6. fin' = [fin EXCEPT ![f] = found] \/ fin' = [fin EXCEPT ![f] = skip]
    BY <2>1
  <2>. HIDE DEF found, skip
  <2>7. Handler
    BY <2>4, <2>5, <2>6, FinType DEF Handler
  <2>8. UNCHANGED spent \/ Spend("error")
    BY <2>1
  <2>. QED BY <1>2, <2>7, <2>8, <1>a, <1>b, <1>c DEF FindJob
<1>3. ASSUME NEW f \in Finalizers, Summarize(f) PROVE Goal
  <2>. DEFINE outcome == resolveJobTerminalStatusFromSummary(GetTaskStatusSummary(fin[f].job))
              act == jobStatusToAction(outcome).dst
  <2>0. fin[f].pc = "summary" /\ fin[f].job \in JobID
    BY <1>3 DEF Summarize, FinAt, TypeInv, VisitsJob
  <2>1. outcome # NotReady => act \in Outcomes
    BY ResolvedOutcome
  <2>2. \/ /\ outcome # NotReady /\ UNCHANGED spent
           /\ fin' = [fin EXCEPT ![f].pc = "cas", ![f].outcome = act]
        \/ (UNCHANGED spent \/ Spend("error")) /\ Visited(f)
    BY <1>3 DEF Summarize
  <2>. HIDE DEF act, outcome
  <2>3. Handler
    <3>1. CASE Visited(f)
      BY <3>1, VisitedType DEF Handler
    <3>2. CASE outcome # NotReady /\ fin' = [fin EXCEPT ![f].pc = "cas", ![f].outcome = act]
      <4>. DEFINE w == [fin[f] EXCEPT !.pc = "cas", !.outcome = act]
      <4>1. w \in FinalizerState /\ w.job \in JobID /\ w.outcome \in Outcomes
        BY <1>e, <2>0, <2>1, <3>2 DEF FinalizerState, FinalizerPC, Outcomes, Status, JobStatus
      <4>2. fin' = [fin EXCEPT ![f] = w]
        BY <3>2, <1>e DEF TypeInv, TypeOK, JobFinalizerTypeOK
      <4>. HIDE DEF w
      <4>. QED BY <4>1, <4>2, FinType DEF Handler
    <3>. QED BY <2>2, <3>1, <3>2
  <2>. QED BY <1>3, <2>2, <2>3, <1>a, <1>b, <1>c DEF Summarize
<1>4. ASSUME NEW f \in Finalizers, FinalizeRunningJob(f) PROVE Goal
  <2>0. fin[f].pc = "cas" /\ fin[f].job \in JobID /\ fin[f].outcome \in Outcomes
    BY <1>4 DEF FinalizeRunningJob, FinAt, TypeInv, VisitsJob
  <2>1. Rows
    <3>1. UpdateJobIfStatus(fin[f].job, "RUNNING", fin[f].outcome) \/ UNCHANGED job
      BY <1>4 DEF FinalizeRunningJob
    <3>2. fin[f].outcome \in Status
      BY <2>0 DEF Outcomes, Status, JobStatus
    <3>. QED
      BY <1>4, <2>0, <3>1, <3>2
      DEF FinalizeRunningJob, UpdateJobIfStatus, TypeInv, TypeOK, RepositoryTypeOK, JobRow, Rows
  <2>2. Handler
    <3>1. CASE Visited(f)
      BY <3>1, VisitedType DEF Handler
    <3>2. CASE fin' = [fin EXCEPT ![f].pc = "hook"]
      <4>. DEFINE w == [fin[f] EXCEPT !.pc = "hook"]
      <4>1. w \in FinalizerState /\ w.job \in JobID /\ w.outcome \in Outcomes
        BY <1>e, <2>0 DEF FinalizerState, FinalizerPC
      <4>2. fin' = [fin EXCEPT ![f] = w]
        BY <3>2, <1>e DEF TypeInv, TypeOK, JobFinalizerTypeOK
      <4>. HIDE DEF w
      <4>. QED BY <4>1, <4>2, FinType DEF Handler
    <3>. QED BY <1>4, <3>1, <3>2 DEF FinalizeRunningJob
  <2>. QED BY <1>4, <2>1, <2>2, <1>a, <1>c DEF FinalizeRunningJob
<1>5. ASSUME NEW f \in Finalizers, FireHook(f) PROVE Goal
  <2>0. fin[f].job \in JobID /\ fin[f].outcome \in Status
    BY <1>5 DEF FireHook, FinAt, TypeInv, VisitsJob, Outcomes, Status, JobStatus
  <2>1. Handler
    BY <1>5, VisitedType DEF FireHook, Handler
  <2>2. Hooks
    <3>1. finished \in [JobID -> Seq(Status)]
      BY DEF TypeInv, TypeOK, JobFinalizerTypeOK
    <3>2. Append(finished[fin[f].job], fin[f].outcome) \in Seq(Status)
      BY <3>1, <2>0
    <3>. QED BY <1>5, <3>1, <3>2 DEF FireHook, Hooks
  <2>. QED BY <1>5, <2>1, <2>2, <1>a, <1>b DEF FireHook
<1>6. ASSUME NEW f \in Finalizers, CrashFinalizer(f) PROVE Goal
  <2>1. Handler
    BY <1>6, <1>d, FinType DEF CrashFinalizer, Handler
  <2>. QED BY <1>6, <2>1, <1>a, <1>b, <1>c DEF CrashFinalizer
<1>. HIDE DEF Goal
<1>. QED
  BY <1>1, <1>2, <1>3, <1>4, <1>5, <1>6 DEF FinalizerNext, FinalizerStep

\* TerminateJob writes CANCELLED and touches nothing but rows.
LEMMA TerminateType == ASSUME TypeInv, NEW j \in JobID, Terminate(j) PROVE TypeInv'
<1>1. "CANCELLED" \in Status
  BY DEF Status, JobStatus
<1>2. job' \in [JobID -> JobRow]
  BY <1>1 DEF Terminate, TerminateJob, TypeInv, TypeOK, RepositoryTypeOK, JobRow
<1>3. task' \in [TaskID -> TaskRow]
  BY <1>1 DEF Terminate, TerminateJob, TypeInv, TypeOK, RepositoryTypeOK, TaskRow
<1>. QED
  BY <1>2, <1>3
  DEF Terminate, brokerVars, workerVars, finalizerVars, TypeInv, TypeOK, RepositoryTypeOK,
      FaultsTypeOK, BrokerTypeOK, TaskExecutorTypeOK, HoldsMessage, JobFinalizerTypeOK, VisitsJob

LEMMA StutterType == ASSUME TypeInv, UNCHANGED vars PROVE TypeInv'
BY DEF vars, repositoryVars, brokerVars, workerVars, finalizerVars, TypeInv, TypeOK,
       RepositoryTypeOK, FaultsTypeOK, BrokerTypeOK, TaskExecutorTypeOK, HoldsMessage,
       JobFinalizerTypeOK, VisitsJob

\* The strengthened type invariant holds in every state.
LEMMA TypeInvariant == Spec => []TypeInv
<1>1. TypeInv /\ [Next]_vars => TypeInv'
  BY ConsumersType, FinalizerType, TerminateType, StutterType DEF Next
<1>. QED BY InitType, <1>1, PTL DEF Spec

\* Rows, Kafka, consumers and finalizers stay well-typed; in particular no
\* task row ever holds anything but a task or a job status, although
\* executeTask writes job statuses into the task table.
THEOREM TypeCorrect == Spec => []TypeOK
<1>1. TypeInv => TypeOK
  BY DEF TypeInv
<1>. QED BY TypeInvariant, <1>1, PTL

-----------------------------------------------------------------------------
(* The retry budget *)

\* Handlers carry attempts within the budget, and one that decided to retry
\* has room for one more, whatever the row says by now.
BudgetInv ==
  /\ RetryBudget
  /\ \A c \in Consumers :
       /\ worker[c].attempt <= MaxRetries
       /\ worker[c].pc = "retry" => worker[c].attempt < MaxRetries

\* Row updates that leave the attempt column alone.
LEMMA KeepsAttempts ==
  ASSUME TypeInv, RetryBudget, NEW t \in TaskID, NEW s,
         \/ LoggedUpdate(t, [task[t] EXCEPT !.status = s])
         \/ FailedUpdate(t, [task[t] EXCEPT !.status = s])
         \/ UpdateTask(t, [task[t] EXCEPT !.status = s])
         \/ UNCHANGED task
  PROVE  RetryBudget'
<1>1. \A u \in TaskID : task'[u].attempt = task[u].attempt
  BY DEF LoggedUpdate, FailedUpdate, UpdateTask, TypeInv, TypeOK, RepositoryTypeOK, TaskRow
<1>. QED BY <1>1 DEF RetryBudget

\* A consumer's record replaced by one within the budget.
LEMMA BecomeBudget ==
  ASSUME TypeInv, BudgetInv, NEW c \in Consumers, NEW w, Become(c, w),
         w.attempt <= MaxRetries, w.pc = "retry" => w.attempt < MaxRetries
  PROVE  \A d \in Consumers :
           /\ worker'[d].attempt <= MaxRetries
           /\ worker'[d].pc = "retry" => worker'[d].attempt < MaxRetries
BY DEF Become, BudgetInv, TypeInv, TypeOK, TaskExecutorTypeOK

\* Every action of a consumer keeps the budget.
LEMMA ConsumerBudget == ASSUME TypeInv, BudgetInv, ConsumerNext PROVE BudgetInv'
<1>. DEFINE Handlers == \A d \in Consumers :
              /\ worker'[d].attempt <= MaxRetries
              /\ worker'[d].pc = "retry" => worker'[d].attempt < MaxRetries
            Goal == RetryBudget' /\ Handlers
<1>. SUFFICES Goal
  BY DEF BudgetInv
<1>. USE TaskExecutorAssumption
<1>a. UNCHANGED task => RetryBudget'
  BY DEF BudgetInv, RetryBudget
<1>b. UNCHANGED worker => Handlers
  BY DEF BudgetInv
<1>c. ASSUME NEW c \in Consumers, Become(c, Waiting) PROVE Handlers
  BY <1>c, BecomeBudget DEF Waiting
<1>d. ASSUME NEW c \in Consumers, NEW pc, pc # "retry", worker[c].pc # "fetch", Goto(c, pc)
      PROVE Handlers
  <2>. DEFINE w == [worker[c] EXCEPT !.pc = pc]
  <2>1. w.attempt = worker[c].attempt /\ w.pc = pc
    BY <1>d, WorkerFacts DEF WorkerState
  <2>2. Become(c, w)
    BY <1>d DEF Goto
  <2>. HIDE DEF w
  <2>. QED BY <1>d, <2>1, <2>2, BecomeBudget DEF BudgetInv
<1>e. ASSUME NEW c \in Consumers, NEW pc, NEW s, pc = "retry" => worker[c].attempt < MaxRetries,
             worker[c].pc # "fetch", Become(c, [worker[c] EXCEPT !.pc = pc, !.status = s])
      PROVE Handlers
  <2>. DEFINE w == [worker[c] EXCEPT !.pc = pc, !.status = s]
  <2>1. w.attempt = worker[c].attempt /\ w.pc = pc
    BY <1>e, WorkerFacts DEF WorkerState
  <2>2. Become(c, w)
    BY <1>e
  <2>. HIDE DEF w
  <2>. QED BY <1>e, <2>1, <2>2, BecomeBudget DEF BudgetInv
<1>. HIDE DEF Handlers
<1>1. ASSUME NEW c \in Consumers, Fetch(c) PROVE Goal
  <2>1. PICK p \in Partitions :
          Become(c, [Waiting EXCEPT !.pc = "loadTask", !.part = p, !.offset = position[p] + 1,
                                    !.task = log[p][position[p] + 1]])
    BY <1>1 DEF Fetch
  <2>. DEFINE w == [Waiting EXCEPT !.pc = "loadTask", !.part = p, !.offset = position[p] + 1,
                                   !.task = log[p][position[p] + 1]]
  <2>2. w.attempt = 0 /\ w.pc = "loadTask"
    BY DEF Waiting
  <2>3. Become(c, w)
    BY <2>1
  <2>. HIDE DEF w
  <2>4. Handlers
    BY <2>2, <2>3, BecomeBudget DEF Handlers
  <2>. QED BY <1>1, <2>4, <1>a DEF Fetch, repositoryVars
<1>2. ASSUME NEW c \in Consumers, LoadTask(c) PROVE Goal
  <2>. DEFINE row == task[worker[c].task]
              w == [worker[c] EXCEPT !.pc = "loadJob", !.status = row.status, !.attempt = row.attempt]
  <2>1. worker[c] \in WorkerState /\ row.attempt <= MaxRetries
    BY <1>2, WorkerFacts DEF LoadTask, At, BudgetInv, RetryBudget
  <2>2. w.attempt = row.attempt /\ w.pc = "loadJob"
    BY <2>1 DEF WorkerState
  <2>3. Become(c, w) \/ Become(c, Waiting)
    BY <1>2 DEF LoadTask, ReturnError
  <2>. HIDE DEF w, row
  <2>4. Handlers
    BY <2>1, <2>2, <2>3, <1>c, BecomeBudget DEF Handlers
  <2>. QED BY <1>2, <2>4, <1>a DEF LoadTask, repositoryVars
<1>3. ASSUME NEW c \in Consumers, LoadJob(c) PROVE Goal
  <2>. DEFINE st == job[worker[c].task[1]].status
              w == [worker[c] EXCEPT !.pc = "dispatch", !.jobStatus = st]
  <2>1. worker[c] \in WorkerState
    BY <1>3, WorkerFacts DEF LoadJob, At
  <2>2. w.attempt = worker[c].attempt /\ w.pc = "dispatch"
    BY <2>1 DEF WorkerState
  <2>3. Become(c, w) \/ Become(c, Waiting)
    BY <1>3 DEF LoadJob, ReturnError
  <2>. HIDE DEF w, st
  <2>4. Handlers
    BY <2>2, <2>3, <1>c, BecomeBudget DEF Handlers, BudgetInv
  <2>. QED BY <1>3, <2>4, <1>a DEF LoadJob, repositoryVars
<1>4. ASSUME NEW c \in Consumers,
             Unregistered(c) \/ SkipSettled(c) \/ RefuseStart(c) \/ Execute(c)
             \/ PublishRetry(c) \/ PublishDLQ(c) \/ Commit(c) \/ CrashConsumer(c)
      PROVE Goal
  <2>1. UNCHANGED task
    BY <1>4
    DEF Unregistered, SkipSettled, RefuseStart, Execute, PublishRetry, PublishDLQ, Commit,
        CrashConsumer, repositoryVars
  <2>2. \/ Become(c, Waiting)
        \/ worker[c].pc # "fetch" /\ \E pc \in {"commit", "complete", "fail"} : Goto(c, pc)
    BY <1>4
    DEF Unregistered, SkipSettled, RefuseStart, Execute, PublishRetry, PublishDLQ, Commit,
        CrashConsumer, ReturnError, At
  <2>. QED BY <2>1, <2>2, <1>a, <1>c, <1>d
<1>5. ASSUME NEW c \in Consumers, SkipForJob(c) PROVE Goal
  <2>1. RetryBudget'
    <3>1. \A u \in TaskID : task'[u].attempt = task[u].attempt
      BY <1>5 DEF SkipForJob, UpdateTasksStatus, TypeInv, TypeOK, RepositoryTypeOK, TaskRow
    <3>. QED BY <3>1 DEF BudgetInv, RetryBudget
  <2>2. Handlers
    BY <1>5, <1>d DEF SkipForJob, At
  <2>. QED BY <2>1, <2>2
<1>6. ASSUME NEW c \in Consumers, StartTask(c) PROVE Goal
  <2>. DEFINE s == taskTransitions.start.dst
              row == [task[worker[c].task] EXCEPT !.status = s]
  <2>1. worker[c].pc # "fetch" /\ worker[c].task \in TaskID
    BY <1>6, WorkerFacts DEF StartTask, At
  <2>2. RetryBudget'
    <3>1. \/ UpdateTask(worker[c].task, [task[worker[c].task] EXCEPT !.status = s])
          \/ FailedUpdate(worker[c].task, [task[worker[c].task] EXCEPT !.status = s])
      BY <1>6 DEF StartTask
    <3>. HIDE DEF s
    <3>. QED BY <2>1, <3>1, KeepsAttempts DEF BudgetInv
  <2>3. Become(c, [worker[c] EXCEPT !.pc = "execute", !.status = row.status]) \/ Become(c, Waiting)
    BY <1>6 DEF StartTask, ReturnError
  <2>. HIDE DEF row
  <2>4. CASE Become(c, Waiting)
    BY <2>2, <2>4, <1>c
  <2>5. CASE Become(c, [worker[c] EXCEPT !.pc = "execute", !.status = row.status])
    <3>1. "execute" = "retry" => worker[c].attempt < MaxRetries
      OBVIOUS
    <3>. QED BY <2>1, <2>2, <2>5, <3>1, <1>e
  <2>. QED BY <2>3, <2>4, <2>5
<1>7. ASSUME NEW c \in Consumers, ParamsError(c) \/ CompleteTask(c) PROVE Goal
  <2>1. worker[c].pc # "fetch" /\ worker[c].task \in TaskID
    BY <1>7, WorkerFacts DEF ParamsError, CompleteTask, At
  <2>2. RetryBudget'
    <3>1. \E s : \/ UpdateTask(worker[c].task, [task[worker[c].task] EXCEPT !.status = s])
                 \/ FailedUpdate(worker[c].task, [task[worker[c].task] EXCEPT !.status = s])
      BY <1>7 DEF ParamsError, CompleteTask
    <3>. QED BY <2>1, <3>1, KeepsAttempts DEF BudgetInv
  <2>3. Handlers
    BY <1>7, <2>1, <1>c, <1>d DEF ParamsError, CompleteTask, ReturnError
  <2>. QED BY <2>2, <2>3
<1>8. ASSUME NEW c \in Consumers, FailTask(c) PROVE Goal
  <2>1. worker[c].pc # "fetch" /\ worker[c].task \in TaskID
    BY <1>8, WorkerFacts DEF FailTask, At
  <2>2. RetryBudget'
    BY <1>8, <2>1, KeepsAttempts DEF FailTask, BudgetInv
  <2>3. Handlers
    <3>. DEFINE pc == IF worker[c].attempt < MaxRetries THEN "retry" ELSE "exhaust"
    <3>1. Become(c, [worker[c] EXCEPT !.pc = pc, !.status = "FAILED"])
      BY <1>8 DEF FailTask
    <3>2. pc = "retry" => worker[c].attempt < MaxRetries
      OBVIOUS
    <3>. HIDE DEF pc
    <3>. QED BY <2>1, <3>1, <3>2, <1>e
  <2>. QED BY <2>2, <2>3
<1>9. ASSUME NEW c \in Consumers, RetryTask(c) PROVE Goal
  <2>. DEFINE t == worker[c].task
              pc == IF RetryPartitions = {} THEN "commit" ELSE "publishRetry"
              w == [worker[c] EXCEPT !.pc = pc, !.status = taskTransitions.retry.dst, !.attempt = @ + 1]
  <2>1. worker[c] \in WorkerState /\ t \in TaskID /\ worker[c].attempt < MaxRetries
    BY <1>9, WorkerFacts DEF RetryTask, At, BudgetInv
  <2>2. w.attempt = worker[c].attempt + 1 /\ w.pc # "retry"
    BY <2>1 DEF WorkerState
  <2>3. w.attempt <= MaxRetries
    BY <2>1, <2>2 DEF WorkerState
  <2>4. Become(c, w) /\ LoggedUpdate(t, [status |-> w.status, attempt |-> w.attempt])
    BY <1>9 DEF RetryTask
  <2>. HIDE DEF w, t
  <2>5. Handlers
    BY <2>2, <2>3, <2>4, BecomeBudget DEF Handlers
  <2>6. RetryBudget'
    BY <2>1, <2>3, <2>4
    DEF LoggedUpdate, UpdateTask, BudgetInv, RetryBudget, TypeInv, TypeOK, RepositoryTypeOK
  <2>. QED BY <2>5, <2>6
<1>10. ASSUME NEW c \in Consumers, ExhaustTask(c) PROVE Goal
  <2>. DEFINE t == worker[c].task
              pc == IF DLQConfigured THEN "publishDLQ" ELSE "commit"
              s == taskTransitions.exhaust_retries.dst
              w == [worker[c] EXCEPT !.pc = pc, !.status = s]
  <2>1. worker[c].pc # "fetch" /\ t \in TaskID
    BY <1>10, WorkerFacts DEF ExhaustTask, At
  <2>2. LoggedUpdate(t, [task[t] EXCEPT !.status = w.status]) /\ Become(c, w)
    BY <1>10 DEF ExhaustTask
  <2>3. RetryBudget'
    <3>. HIDE DEF w
    <3>. QED BY <2>1, <2>2, KeepsAttempts DEF BudgetInv
  <2>4. Handlers
    <3>1. pc # "retry"
      OBVIOUS
    <3>. HIDE DEF pc, s
    <3>. QED BY <2>1, <2>2, <3>1, <1>e
  <2>. QED BY <2>3, <2>4
<1>11. ASSUME RebalanceGroup PROVE Goal
  BY <1>11, <1>a, <1>b DEF RebalanceGroup, repositoryVars, workerVars
<1>. HIDE DEF Goal
<1>. QED
  BY <1>1, <1>2, <1>3, <1>4, <1>5, <1>6, <1>7, <1>8, <1>9, <1>10, <1>11
  DEF ConsumerNext, ConsumerStep

\* No redelivery, crash, rebalance or failed write lets the attempt column
\* pass MaxRetries: handleTaskFailure compares the attempt it loaded, and
\* retryTask writes that attempt plus one.
THEOREM RetryBudgetHolds == Spec => []RetryBudget
<1>1. Init /\ TypeInv => BudgetInv
  <2>. SUFFICES ASSUME Init, TypeInv PROVE BudgetInv
    OBVIOUS
  <2>1. RetryBudget
    BY TaskExecutorAssumption DEF Init, RetryBudget
  <2>2. \A c \in Consumers : worker[c].attempt = 0 /\ worker[c].pc = "fetch"
    BY DEF Init, TaskExecutorInit, Waiting
  <2>. QED BY <2>1, <2>2, TaskExecutorAssumption DEF BudgetInv
<1>2. TypeInv /\ BudgetInv /\ [Next]_vars => BudgetInv'
  <2>. SUFFICES ASSUME TypeInv, BudgetInv, [Next]_vars PROVE BudgetInv'
    OBVIOUS
  <2>1. ASSUME FinalizerNext PROVE BudgetInv'
    <3>1. UNCHANGED task /\ UNCHANGED worker
      BY <2>1
      DEF FinalizerNext, CheckJobCompletions, FinalizerStep, FindJob, Summarize,
          FinalizeRunningJob, FireHook, CrashFinalizer, repositoryVars, workerVars
    <3>. QED BY <3>1 DEF BudgetInv, RetryBudget
  <2>2. ASSUME NEW j \in JobID, Terminate(j) PROVE BudgetInv'
    <3>1. \A t \in TaskID : task'[t].attempt = task[t].attempt
      BY <2>2 DEF Terminate, TerminateJob, TypeInv, TypeOK, RepositoryTypeOK, TaskRow
    <3>2. UNCHANGED worker
      BY <2>2 DEF Terminate, workerVars
    <3>. QED BY <3>1, <3>2 DEF BudgetInv, RetryBudget
  <2>3. ASSUME UNCHANGED vars PROVE BudgetInv'
    BY <2>3 DEF vars, repositoryVars, workerVars, BudgetInv, RetryBudget
  <2>. QED BY <2>1, <2>2, <2>3, ConsumerBudget DEF Next
<1>3. BudgetInv => RetryBudget
  BY DEF BudgetInv
<1>. QED BY <1>1, <1>2, <1>3, InitType, TypeInvariant, PTL DEF Spec

-----------------------------------------------------------------------------
(* The end of a run *)

\* A finalizer at the hook won the compare-and-set of its run: the row holds
\* the outcome it decided, and nothing was announced yet.
HookOwned ==
  \A f \in Finalizers : FinAt(f, "hook") =>
    job[fin[f].job].status = fin[f].outcome /\ finished[fin[f].job] = <<>>

\* No two finalizers won the same run.
HookExclusive ==
  \A f, g \in Finalizers : FinAt(f, "hook") /\ FinAt(g, "hook") /\ fin[f].job = fin[g].job => f = g

\* What was announced is the terminal status of the row.
AnnouncedStatus ==
  \A j \in JobID : \/ finished[j] = <<>>
                   \/ finished[j] = <<job[j].status>> /\ job[j].status \in Outcomes

EndInv == HookOwned /\ HookExclusive /\ AnnouncedStatus

\* EndInv does not depend on anything else than the rows' statuses, the
\* announcements and the finalizers at the hook.
LEMMA EndInvFrame ==
  ASSUME EndInv, UNCHANGED <<job, finished>>,
         \A f \in Finalizers : fin'[f].pc = "hook" => fin'[f] = fin[f]
  PROVE  EndInv'
BY DEF EndInv, HookOwned, HookExclusive, AnnouncedStatus, FinAt

\* Visited leaves the hook and touches one finalizer.
LEMMA VisitedSteps ==
  ASSUME TypeInv, NEW f \in Finalizers, Visited(f)
  PROVE  /\ fin'[f].pc # "hook"
         /\ \A g \in Finalizers \ {f} : fin'[g] = fin[g]
BY DEF Visited, Resting, TypeInv, TypeOK, JobFinalizerTypeOK

\* Steps of a finalizer before the compare-and-set concern no hook.
LEMMA ReadsOnly ==
  ASSUME TypeInv, NEW f \in Finalizers,
         (\E n \in Registered : CheckJobCompletions(f, n)) \/ FindJob(f) \/ Summarize(f)
  PROVE  /\ UNCHANGED <<job, task, finished>>
         /\ fin[f].pc # "hook" /\ fin'[f].pc # "hook"
         /\ \A g \in Finalizers \ {f} : fin'[g] = fin[g]
<1>0. fin \in [Finalizers -> FinalizerState]
  BY DEF TypeInv, TypeOK, JobFinalizerTypeOK
<1>1. ASSUME NEW n \in Registered, CheckJobCompletions(f, n) 
      PROVE  /\ UNCHANGED <<job, task, finished>>
             /\ fin[f].pc # "hook" /\ fin'[f].pc # "hook"
             /\ \A g \in Finalizers \ {f} : fin'[g] = fin[g]
  BY <1>0, <1>1 DEF CheckJobCompletions, FinAt, Resting, repositoryVars
<1>2. CASE FindJob(f)
  <2>1. PICK j \in fin[f].todo :
          LET rest == [fin[f] EXCEPT !.todo = @ \ {j}] IN
          \/ fin' = [fin EXCEPT ![f] = [rest EXCEPT !.pc = "summary", !.job = j]]
          \/ fin' = [fin EXCEPT ![f] = IF rest.todo = {} THEN Resting ELSE rest]
    BY <1>2 DEF FindJob
  <2>2. fin[f] \in FinalizerState /\ fin[f].pc = "next"
    BY <1>0, <1>2 DEF FindJob, FinAt
  <2>. DEFINE rest == [fin[f] EXCEPT !.todo = @ \ {j}]
              found == [rest EXCEPT !.pc = "summary", !.job = j]
              skip == IF rest.todo = {} THEN Resting ELSE rest
  <2>3. found.pc = "summary" /\ skip.pc \in {"idle", "next"}
    BY <2>2 DEF FinalizerState, Resting
  <2>4. fin' = [fin EXCEPT ![f] = found] \/ fin' = [fin EXCEPT ![f] = skip]
    BY <2>1
  <2>. HIDE DEF found, skip
  <2>5. fin'[f].pc # "hook" /\ \A g \in Finalizers \ {f} : fin'[g] = fin[g]
    BY <1>0, <2>3, <2>4
  <2>. QED BY <1>2, <2>2, <2>5 DEF FindJob, repositoryVars
<1>3. CASE Summarize(f)
  <2>1. \/ \E o : fin' = [fin EXCEPT ![f].pc = "cas", ![f].outcome = o]
        \/ Visited(f)
    BY <1>3 DEF Summarize
  <2>2. fin'[f].pc # "hook" /\ \A g \in Finalizers \ {f} : fin'[g] = fin[g]
    BY <1>0, <2>1, VisitedSteps DEF FinalizerState
  <2>. QED BY <1>3, <2>2 DEF Summarize, FinAt, repositoryVars
<1>. QED BY <1>1, <1>2, <1>3

\* The compare-and-set either missed or hit a RUNNING row; it goes to the hook
\* only in the second case.
LEMMA CasSteps ==
  ASSUME TypeInv, NEW f \in Finalizers, FinalizeRunningJob(f)
  PROVE  /\ fin[f].pc = "cas" /\ fin[f].job \in JobID /\ fin[f].outcome \in Outcomes
         /\ UNCHANGED <<task, finished>>
         /\ \A g \in Finalizers \ {f} : fin'[g] = fin[g]
         /\ \/ job' = job /\ fin'[f].pc # "hook"
            \/ /\ job[fin[f].job].status = "RUNNING"
               /\ job' = [job EXCEPT ![fin[f].job].status = fin[f].outcome]
               /\ \/ fin'[f].pc # "hook"
                  \/ fin'[f].pc = "hook" /\ fin'[f].job = fin[f].job /\ fin'[f].outcome = fin[f].outcome
<1>0. fin \in [Finalizers -> FinalizerState]
  BY DEF TypeInv, TypeOK, JobFinalizerTypeOK
<1>1. /\ fin[f].pc = "cas" /\ fin[f].job \in JobID /\ fin[f].outcome \in Outcomes
      /\ UNCHANGED <<task, finished>>
  BY DEF FinalizeRunningJob, FinAt, TypeInv, VisitsJob
<1>2. CASE Visited(f) /\ (UpdateJobIfStatus(fin[f].job, "RUNNING", fin[f].outcome) \/ UNCHANGED job)
  BY <1>1, <1>2, VisitedSteps DEF UpdateJobIfStatus
<1>3. CASE /\ fin' = [fin EXCEPT ![f].pc = "hook"] /\ job[fin[f].job].status = "RUNNING"
           /\ UpdateJobIfStatus(fin[f].job, "RUNNING", fin[f].outcome)
  BY <1>0, <1>1, <1>3 DEF UpdateJobIfStatus, FinalizerState
<1>. QED BY <1>2, <1>3 DEF FinalizeRunningJob

\* OnJobFinished is called with the outcome, and the hook is left.
LEMMA HookSteps ==
  ASSUME TypeInv, NEW f \in Finalizers, FireHook(f)
  PROVE  /\ fin[f].pc = "hook" /\ fin[f].job \in JobID /\ fin[f].outcome \in Outcomes
         /\ UNCHANGED <<job, task>>
         /\ \/ finished' = finished
            \/ finished' = [finished EXCEPT ![fin[f].job] = Append(@, fin[f].outcome)]
         /\ fin'[f].pc # "hook"
         /\ \A g \in Finalizers \ {f} : fin'[g] = fin[g]
<1>1. Visited(f) /\ fin[f].pc = "hook" /\ UNCHANGED <<job, task>>
  BY DEF FireHook, FinAt, repositoryVars
<1>. QED BY <1>1, VisitedSteps DEF FireHook, TypeInv, VisitsJob

\* EndInv is inductive relative to TypeInv.
LEMMA EndInvStep == ASSUME TypeInv, EndInv, [Next]_vars PROVE EndInv'
<1>0. /\ job \in [JobID -> JobRow] /\ fin \in [Finalizers -> FinalizerState]
      /\ finished \in [JobID -> Seq(Status)]
  BY DEF TypeInv, TypeOK, RepositoryTypeOK, JobFinalizerTypeOK
<1>1. ASSUME ConsumerNext PROVE EndInv'
  <2>1. UNCHANGED <<job, fin, finished>>
    BY <1>1
    DEF ConsumerNext, ConsumerStep, Fetch, LoadTask, LoadJob, Unregistered, SkipForJob, SkipSettled,
        StartTask, RefuseStart, Execute, ParamsError, CompleteTask, FailTask, RetryTask, PublishRetry,
        ExhaustTask, PublishDLQ, Commit, CrashConsumer, RebalanceGroup, repositoryVars, finalizerVars
  <2>. QED BY <2>1, EndInvFrame
<1>2. ASSUME NEW f \in Finalizers,
             (\E n \in Registered : CheckJobCompletions(f, n)) \/ FindJob(f) \/ Summarize(f)
      PROVE  EndInv'
  BY <1>2, ReadsOnly, EndInvFrame
<1>3. ASSUME NEW f \in Finalizers, FinalizeRunningJob(f) PROVE EndInv'
  <2>. DEFINE j == fin[f].job
  <2>1. CASE job' = job /\ fin'[f].pc # "hook"
    BY <1>3, <2>1, CasSteps, EndInvFrame
  <2>2. CASE /\ job[j].status = "RUNNING"
             /\ job' = [job EXCEPT ![j].status = fin[f].outcome]
    <3>1. "RUNNING" \notin Outcomes
      BY DEF Outcomes
    <3>2. finished[j] = <<>> /\ \A g \in Finalizers : FinAt(g, "hook") => fin[g].job # j
      <4>1. j \in JobID
        BY <1>3, CasSteps
      <4>2. \A g \in Finalizers : FinAt(g, "hook") => fin[g].outcome \in Outcomes
        BY DEF TypeInv, VisitsJob, FinAt
      <4>. QED BY <2>2, <3>1, <4>1, <4>2 DEF EndInv, AnnouncedStatus, HookOwned
    <3>3. job'[j].status = fin[f].outcome /\ \A k \in JobID \ {j} : job'[k].status = job[k].status
      BY <1>0, <1>3, <2>2, CasSteps DEF JobRow
    <3>4. \A g \in Finalizers : FinAt(g, "hook") => fin[g].job \in JobID
      BY DEF TypeInv, VisitsJob, FinAt
    <3>a. /\ \A g \in Finalizers \ {f} : fin'[g] = fin[g]
          /\ FinAt(f, "hook")' => fin'[f].job = j /\ fin'[f].outcome = fin[f].outcome
          /\ finished' = finished /\ j \in JobID
      BY <1>3, CasSteps DEF FinAt
    <3>. HIDE DEF j
    <3>5. HookOwned'
      <4>. SUFFICES ASSUME NEW g \in Finalizers, FinAt(g, "hook")'
                    PROVE  job'[fin'[g].job].status = fin'[g].outcome /\ finished'[fin'[g].job] = <<>>
        BY DEF HookOwned
      <4>1. CASE g = f
        BY <4>1, <3>2, <3>3, <3>a
      <4>2. CASE g # f
        BY <4>2, <3>2, <3>3, <3>4, <3>a DEF EndInv, HookOwned, FinAt
      <4>. QED BY <4>1, <4>2
    <3>6. HookExclusive'
      BY <3>2, <3>a DEF EndInv, HookExclusive, FinAt
    <3>7. AnnouncedStatus'
      BY <1>3, <3>2, <3>3, CasSteps DEF EndInv, AnnouncedStatus
    <3>. QED BY <3>5, <3>6, <3>7 DEF EndInv
  <2>. QED BY <1>3, <2>1, <2>2, CasSteps
<1>4. ASSUME NEW f \in Finalizers, FireHook(f) PROVE EndInv'
  <2>1. CASE finished' = finished
    BY <1>4, <2>1, HookSteps, EndInvFrame
  <2>2. CASE finished' = [finished EXCEPT ![fin[f].job] = Append(@, fin[f].outcome)]
    <3>. DEFINE j == fin[f].job
    <3>1. j \in JobID /\ FinAt(f, "hook") /\ fin[f].outcome \in Outcomes
      BY <1>4, HookSteps DEF FinAt
    <3>2. finished[j] = <<>> /\ job[j].status = fin[f].outcome
      BY <3>1 DEF EndInv, HookOwned
    <3>3. finished'[j] = <<fin[f].outcome>> /\ \A k \in JobID \ {j} : finished'[k] = finished[k]
      BY <1>0, <2>2, <3>1, <3>2
    <3>4. \A g \in Finalizers : FinAt(g, "hook")' => g # f /\ fin'[g] = fin[g] /\ fin[g].job # j
      BY <1>4, <3>1, HookSteps DEF EndInv, HookExclusive, FinAt
    <3>5. \A g \in Finalizers : FinAt(g, "hook") => fin[g].job \in JobID
      BY DEF TypeInv, VisitsJob, FinAt
    <3>6. HookOwned'
      BY <1>4, <3>3, <3>4, <3>5, HookSteps DEF EndInv, HookOwned, FinAt
    <3>7. HookExclusive'
      BY <3>4 DEF EndInv, HookExclusive, FinAt
    <3>8. AnnouncedStatus'
      BY <1>4, <3>1, <3>2, <3>3, HookSteps DEF EndInv, AnnouncedStatus
    <3>. QED BY <3>6, <3>7, <3>8 DEF EndInv
  <2>. QED BY <1>4, <2>1, <2>2, HookSteps
<1>5. ASSUME NEW f \in Finalizers, CrashFinalizer(f) PROVE EndInv'
  <2>1. UNCHANGED <<job, finished>> /\ fin' = [fin EXCEPT ![f] = Resting]
    BY <1>5 DEF CrashFinalizer, repositoryVars
  <2>2. \A g \in Finalizers : fin'[g].pc = "hook" => fin'[g] = fin[g]
    BY <1>0, <2>1 DEF Resting
  <2>. QED BY <2>1, <2>2, EndInvFrame
<1>6. ASSUME NEW j \in JobID, Terminate(j) PROVE EndInv'
  <2>1. /\ job[j].status \in {"PENDING", "RUNNING"} /\ UNCHANGED <<fin, finished>>
        /\ job' = [job EXCEPT ![j].status = "CANCELLED"]
    BY <1>6 DEF Terminate, TerminateJob, finalizerVars
  <2>2. job[j].status \notin Outcomes
    BY <2>1 DEF Outcomes
  <2>3. finished[j] = <<>> /\ \A g \in Finalizers : FinAt(g, "hook") => fin[g].job # j
    BY <2>2 DEF EndInv, AnnouncedStatus, HookOwned, TypeInv, VisitsJob, FinAt
  <2>4. \A k \in JobID \ {j} : job'[k] = job[k]
    BY <1>0, <2>1
  <2>5. \A g \in Finalizers : FinAt(g, "hook") => fin[g].job \in JobID
    BY DEF TypeInv, VisitsJob, FinAt
  <2>. QED BY <2>1, <2>3, <2>4, <2>5 DEF EndInv, HookOwned, HookExclusive, AnnouncedStatus, FinAt
<1>7. CASE UNCHANGED vars
  BY <1>7, EndInvFrame DEF vars, repositoryVars, finalizerVars
<1>. QED
  BY <1>1, <1>2, <1>3, <1>4, <1>5, <1>6, <1>7 DEF Next, FinalizerNext, FinalizerStep

LEMMA EndInvariant == Spec => [](TypeInv /\ EndInv)
<1>1. Init => EndInv
  BY DEF Init, JobFinalizerInit, Resting, EndInv, HookOwned, HookExclusive, AnnouncedStatus, FinAt
<1>2. TypeInv /\ EndInv /\ [Next]_vars => EndInv'
  BY EndInvStep
<1>. QED BY <1>1, <1>2, TypeInvariant, PTL DEF Spec

\* However many completion checks overlap and wherever they crash, OnJobFinished
\* is called at most once per run and with the status the row then keeps.
THEOREM FinalizedOnceHolds == Spec => []FinalizedOnce
<1>1. TypeInv /\ EndInv => FinalizedOnce
  <2>. SUFFICES ASSUME TypeInv, EndInv, NEW j \in JobID
                PROVE  /\ Len(finished[j]) <= 1
                       /\ Len(finished[j]) = 1 => job[j].status = finished[j][1]
    BY DEF FinalizedOnce
  <2>1. CASE finished[j] = <<>>
    BY <2>1
  <2>2. CASE finished[j] = <<job[j].status>>
    BY <2>2
  <2>. QED BY <2>1, <2>2 DEF EndInv, AnnouncedStatus
<1>. QED BY <1>1, EndInvariant, PTL

-----------------------------------------------------------------------------
(* Refinement *)

\* Runs are due exactly while a finalizer is at their hook.
LEMMA DueKept ==
  ASSUME TypeInv,
         \A f \in Finalizers : (fin'[f].pc = "hook" \/ fin[f].pc = "hook") => fin'[f] = fin[f]
  PROVE  Due' = Due
BY DEF Due, FinAt

LEMMA RunStatusMoves ==
  ASSUME TypeInv, NEW j \in JobID, NEW s, job' = [job EXCEPT ![j].status = s]
  PROVE  RunStatus' = [RunStatus EXCEPT ![j] = s]
BY DEF RunStatus, TypeInv, TypeOK, RepositoryTypeOK, JobRow

\* Every step of Execution is a step of RunLifecycle, or none at all.
LEMMA LifecycleStep ==
  ASSUME TypeInv, EndInv, [Next]_vars
  PROVE  [Lifecycle!Next]_(Lifecycle!vars)
<1>. DEFINE Stutters == UNCHANGED <<RunStatus, Due, finished>>
            Goal == Stutters \/ Lifecycle!Next
<1>. SUFFICES Goal
  BY DEF Lifecycle!vars
<1>0. fin \in [Finalizers -> FinalizerState] /\ RunStatus = [j \in JobID |-> job[j].status]
  BY DEF TypeInv, TypeOK, JobFinalizerTypeOK, RunStatus
<1>a. UNCHANGED job => UNCHANGED RunStatus
  BY DEF RunStatus
<1>b. \A o \in Outcomes :
        \E event \in {Lifecycle!jobTransitions.complete, Lifecycle!jobTransitions.partial_fail,
                      Lifecycle!jobTransitions.fail} : event.dst = o
  BY DEF Outcomes, Lifecycle!jobTransitions
<1>1. ASSUME ConsumerNext PROVE Goal
  <2>1. UNCHANGED <<job, fin, finished>>
    BY <1>1
    DEF ConsumerNext, ConsumerStep, Fetch, LoadTask, LoadJob, Unregistered, SkipForJob, SkipSettled,
        StartTask, RefuseStart, Execute, ParamsError, CompleteTask, FailTask, RetryTask, PublishRetry,
        ExhaustTask, PublishDLQ, Commit, CrashConsumer, RebalanceGroup, repositoryVars, finalizerVars
  <2>. QED BY <2>1, <1>a, DueKept
<1>2. ASSUME NEW f \in Finalizers,
             (\E n \in Registered : CheckJobCompletions(f, n)) \/ FindJob(f) \/ Summarize(f)
      PROVE  Goal
  <2>1. UNCHANGED <<job, finished>>
    BY <1>2, ReadsOnly
  <2>2. Due' = Due
    BY <1>2, ReadsOnly, DueKept
  <2>. QED BY <2>1, <2>2, <1>a
<1>3. ASSUME NEW f \in Finalizers, FinalizeRunningJob(f) PROVE Goal
  <2>. DEFINE j == fin[f].job
  <2>0. /\ fin[f].pc = "cas" /\ j \in JobID /\ fin[f].outcome \in Outcomes /\ finished' = finished
        /\ \A g \in Finalizers \ {f} : fin'[g] = fin[g]
    BY <1>3, CasSteps
  <2>1. CASE job' = job /\ fin'[f].pc # "hook"
    <3>1. Due' = Due
      BY <2>0, <2>1, DueKept
    <3>. QED BY <2>0, <2>1, <3>1, <1>a
  <2>2. CASE /\ job[j].status = "RUNNING"
             /\ job' = [job EXCEPT ![j].status = fin[f].outcome]
             /\ fin'[f].pc # "hook" \/ (fin'[f].pc = "hook" /\ fin'[f].job = j)
    <3>1. RunStatus' = [RunStatus EXCEPT ![j] = fin[f].outcome] /\ RunStatus[j] = "RUNNING"
      BY <2>0, <2>2, <1>0, RunStatusMoves
    <3>2. Due' \in {Due, Due \cup {j}}
      <4>. HIDE DEF j
      <4>1. CASE fin'[f].pc # "hook"
        BY <2>0, <4>1, DueKept
      <4>2. CASE fin'[f].pc = "hook" /\ fin'[f].job = j
        <5>1. \A k \in JobID : k \in Due' <=> k \in Due \/ k = j
          BY <2>0, <4>2 DEF Due, FinAt
        <5>. QED BY <2>0, <5>1 DEF Due
      <4>. QED BY <2>2, <4>1, <4>2
    <3>3. Lifecycle!Finish(j)
      BY <2>0, <3>1, <3>2, <1>b DEF Lifecycle!Finish
    <3>. QED BY <2>0, <3>3 DEF Lifecycle!Next
  <2>. QED BY <1>3, <2>1, <2>2, CasSteps
<1>4. ASSUME NEW f \in Finalizers, FireHook(f) \/ (CrashFinalizer(f) /\ fin[f].pc = "hook")
      PROVE  Goal
  <2>. DEFINE j == fin[f].job
  <2>1. /\ fin[f].pc = "hook" /\ j \in JobID /\ UNCHANGED job
        /\ fin'[f].pc # "hook" /\ \A g \in Finalizers \ {f} : fin'[g] = fin[g]
        /\ finished' = finished \/ finished' = [finished EXCEPT ![j] = Append(@, fin[f].outcome)]
    <3>1. CASE FireHook(f)
      BY <3>1, HookSteps
    <3>2. CASE CrashFinalizer(f) /\ fin[f].pc = "hook"
      BY <3>2, <1>0 DEF CrashFinalizer, Resting, repositoryVars, TypeInv, VisitsJob
    <3>. QED BY <1>4, <3>1, <3>2
  <2>2. Due' = Due \ {j} /\ j \in Due
    <3>1. \A g \in Finalizers : fin[g].pc = "hook" /\ fin[g].job = j => g = f
      BY <2>1 DEF EndInv, HookExclusive, FinAt
    <3>. HIDE DEF j
    <3>2. \A k \in JobID : k \in Due' <=> k \in Due /\ k # j
      BY <2>1, <3>1 DEF Due, FinAt, j
    <3>. QED BY <2>1, <3>2 DEF Due, FinAt, j
  <2>3. RunStatus[j] = fin[f].outcome
    BY <2>1, <1>0 DEF EndInv, HookOwned, FinAt
  <2>4. Lifecycle!Announce(j)
    BY <2>1, <2>2, <2>3, <1>a DEF Lifecycle!Announce
  <2>. QED BY <2>1, <2>4 DEF Lifecycle!Next
<1>5. ASSUME NEW f \in Finalizers, CrashFinalizer(f), fin[f].pc # "hook" PROVE Goal
  <2>1. UNCHANGED <<job, finished>> /\ fin' = [fin EXCEPT ![f] = Resting]
    BY <1>5 DEF CrashFinalizer, repositoryVars
  <2>2. Due' = Due
    BY <1>0, <1>5, <2>1, DueKept DEF Resting
  <2>. QED BY <2>1, <2>2, <1>a
<1>6. ASSUME NEW j \in JobID, Terminate(j) PROVE Goal
  <2>1. /\ job[j].status \in {"PENDING", "RUNNING"} /\ UNCHANGED <<fin, finished>>
        /\ job' = [job EXCEPT ![j].status = "CANCELLED"]
    BY <1>6 DEF Terminate, TerminateJob, finalizerVars
  <2>2. RunStatus' = [RunStatus EXCEPT ![j] = "CANCELLED"] /\ RunStatus[j] = job[j].status
    BY <2>1, <1>0, RunStatusMoves
  <2>3. Due' = Due
    BY <2>1, DueKept
  <2>4. /\ Lifecycle!CanFire(Lifecycle!jobTransitions.cancel, RunStatus[j])
        /\ Lifecycle!jobTransitions.cancel.dst = "CANCELLED"
    BY <2>1, <2>2 DEF Lifecycle!jobTransitions, Lifecycle!CanFire
  <2>5. Lifecycle!Move(j)
    BY <2>1, <2>2, <2>3, <2>4 DEF Lifecycle!Move
  <2>. QED BY <2>5 DEF Lifecycle!Next
<1>7. CASE UNCHANGED vars
  BY <1>7, <1>a, DueKept DEF vars, repositoryVars, finalizerVars
<1>. HIDE DEF Goal
<1>8. ASSUME FinalizerNext PROVE Goal
  <2>1. PICK f \in Finalizers :
          \/ \E n \in Registered : CheckJobCompletions(f, n)
          \/ FinalizerStep(f)
          \/ CrashFinalizer(f)
    BY <1>8 DEF FinalizerNext
  <2>. QED BY <2>1, <1>2, <1>3, <1>4, <1>5 DEF FinalizerStep
<1>. QED
  BY <1>1, <1>6, <1>7, <1>8 DEF Next

\* Execution implements RunLifecycle: whatever consumers, completion checks
\* and TerminateJob do at the same time, the status of a started run follows
\* the job state machine and never leaves a terminal state.
THEOREM LifecycleImplemented == Spec => ImplementsLifecycle
<1>1. Init => Lifecycle!Init
  <2>. SUFFICES ASSUME Init PROVE Lifecycle!Init
    OBVIOUS
  <2>1. RunStatus \in [JobID -> JobStatus \cup {Absent}]
    BY DEF Init, RunStatus, JobStatus
  <2>2. Due = {}
    BY DEF Init, JobFinalizerInit, Resting, Due, FinAt
  <2>3. finished = [r \in JobID |-> <<>>]
    BY DEF Init, JobFinalizerInit
  <2>. QED BY <2>1, <2>2, <2>3 DEF Lifecycle!Init, Lifecycle!JobStatus, Lifecycle!Absent, JobStatus, Absent
<1>2. TypeInv /\ EndInv /\ [Next]_vars => [Lifecycle!Next]_(Lifecycle!vars)
  BY LifecycleStep
<1>. QED BY <1>1, <1>2, EndInvariant, PTL DEF Spec, ImplementsLifecycle, Lifecycle!Spec

-----------------------------------------------------------------------------
(* Which consumer may work on a task: the inductive invariant. *)

\* If nothing is delivered twice there is one token for each task at most: a
\* message that is not fetched yet, or a handler that carries the task.
OneMessage ==
  \A p, q \in Partitions : \A i \in Unfetched(p), k \in Unfetched(q) :
    log[p][i] = log[q][k] => p = q /\ i = k

OneCarrier ==
  \A c, d \in Consumers : Carries(c) /\ Carries(d) /\ worker[c].task = worker[d].task => c = d

NotBoth ==
  \A c \in Consumers : Carries(c) =>
    \A p \in Partitions : \A i \in Unfetched(p) : log[p][i] # worker[c].task

TokenInv == DeliveredOnce => OneMessage /\ OneCarrier /\ NotBoth

-----------------------------------------------------------------------------
(* Steps in general. *)

LEMMA FinalizerSpends ==
  ASSUME FinalizerNext
  PROVE  UNCHANGED spent \/ Spend("error") \/ Spend("crash")
BY DEF FinalizerNext, FinalizerStep, CheckJobCompletions, FindJob, Summarize, FinalizeRunningJob,
       FireHook, CrashFinalizer

LEMMA FaultsStay ==
  ASSUME TypeInv, [Next]_vars, NEW x \in FaultKind, Never(x)'
  PROVE  Never(x)
<1>1. UNCHANGED spent \/ \E k \in FaultKind : Spend(k)
  <2>1. CASE ConsumerNext
    BY <2>1, ConsumerSpends DEF ConsumerNext, CrashConsumer, RebalanceGroup, Rebalance, FaultKind
  <2>2. CASE FinalizerNext
    BY <2>2, FinalizerSpends DEF FaultKind
  <2>. QED BY <2>1, <2>2 DEF Next, Terminate, vars
<1>. QED BY <1>1, SpendFacts DEF Never

LEMMA DeliveredOnceStays == ASSUME TypeInv, [Next]_vars, DeliveredOnce' PROVE DeliveredOnce
BY FaultsStay DEF DeliveredOnce, PublishedOnce, FaultKind

\* Messages are delivered again only after a crash or a rebalance.
LEMMA Redelivery ==
  ASSUME TypeInv, RebalanceGroup \/ \E c \in Consumers : CrashConsumer(c)
  PROVE  ~DeliveredOnce' /\ ~(Never("crash") /\ Never("rebalance"))'
<1>1. Spend("crash") \/ Spend("rebalance")
  BY DEF RebalanceGroup, Rebalance, CrashConsumer
<1>. QED BY <1>1, SpendFacts DEF DeliveredOnce, FaultKind

\* The ways in which Execution may go on.
LEMMA StepCases ==
  ASSUME [Next]_vars
  PROVE  \/ \E c \in Consumers : (HandlerStep(c) \/ Fetch(c) \/ PublishRetry(c)) /\ UNCHANGED finalizerVars
         \/ (RebalanceGroup \/ \E c \in Consumers : CrashConsumer(c)) /\ UNCHANGED finalizerVars
         \/ FinalizerNext
         \/ \E j \in JobID : Terminate(j)
         \/ UNCHANGED vars
BY DEF Next, ConsumerNext, ConsumerStep, HandlerStep

-----------------------------------------------------------------------------
(* One token for each task. *)

\* Tokens that only disappear.
LEMMA TokensFade ==
  ASSUME TokenInv, DeliveredOnce' => DeliveredOnce, log' = log, position' = position,
         \A c \in Consumers : Carries(c)' => Carries(c) /\ worker'[c].task = worker[c].task
  PROVE  TokenInv'
<1>. SUFFICES ASSUME DeliveredOnce' PROVE OneMessage' /\ OneCarrier' /\ NotBoth'
  BY DEF TokenInv
<1>1. OneMessage /\ OneCarrier /\ NotBoth
  BY DEF TokenInv
<1>2. ASSUME NEW p PROVE Unfetched(p)' = Unfetched(p)
  BY DEF Unfetched
<1>3. OneMessage'
  BY <1>1, <1>2 DEF OneMessage
<1>4. OneCarrier'
  BY <1>1 DEF OneCarrier
<1>5. NotBoth'
  BY <1>1, <1>2 DEF NotBoth
<1>. QED BY <1>3, <1>4, <1>5

\* The message that is fetched becomes the handler's.
LEMMA FetchTokens ==
  ASSUME TypeInv, TokenInv, NEW c \in Consumers, Fetch(c)
  PROVE  TokenInv'
<1>. SUFFICES ASSUME DeliveredOnce' PROVE OneMessage' /\ OneCarrier' /\ NotBoth'
  BY DEF TokenInv
<1>1. /\ Alone(c) /\ worker[c].pc = "fetch" /\ worker'[c].pc = "loadTask"
      /\ log' = log /\ spent' = spent
  BY FetchEffect
<1>2. PICK p \in Partitions :
        /\ position[p] + 1 \in Unfetched(p)
        /\ position' = [position EXCEPT ![p] = @ + 1]
        /\ worker'[c].task = log[p][position[p] + 1]
  BY FetchEffect
<1>3. OneMessage /\ OneCarrier /\ NotBoth
  BY <1>1 DEF TokenInv, DeliveredOnce, Never
<1>4. ASSUME NEW q \in Partitions, NEW i \in Unfetched(q)'
      PROVE  i \in Unfetched(q) /\ ~(q = p /\ i = position[p] + 1)
  <2>1. position \in [Partitions -> Nat] /\ Len(log[q]) \in Nat
    BY DEF TypeInv, TypeOK, BrokerTypeOK
  <2>. QED BY <1>1, <1>2, <2>1 DEF Unfetched
<1>5. ASSUME NEW d \in Consumers, Carries(d)', d # c
      PROVE  Carries(d) /\ worker'[d].task = worker[d].task
  BY <1>1, <1>5 DEF Carries, Alone
<1>6. OneMessage'
  BY <1>1, <1>3, <1>4 DEF OneMessage
<1>7. OneCarrier'
  <2>1. ASSUME NEW d \in Consumers, d # c, Carries(d)' PROVE worker'[d].task # worker'[c].task
    BY <1>2, <1>3, <1>5, <2>1 DEF NotBoth
  <2>. QED BY <1>3, <1>5, <2>1 DEF OneCarrier
<1>8. NotBoth'
  <2>1. ASSUME NEW d \in Consumers, Carries(d)', NEW q \in Partitions, NEW i \in Unfetched(q)'
        PROVE  log[q][i] # worker'[d].task
    <3>1. CASE d = c
      BY <1>2, <1>3, <1>4, <3>1 DEF OneMessage
    <3>2. CASE d # c
      BY <1>3, <1>4, <1>5, <2>1, <3>2 DEF NotBoth
    <3>. QED BY <3>1, <3>2
  <2>. QED BY <1>1, <2>1 DEF NotBoth
<1>. QED BY <1>6, <1>7, <1>8

\* The offsets to fetch after a message was appended to one partition.
LEMMA PublishedOffsets ==
  ASSUME TypeInv, NEW p \in Partitions, NEW m \in TaskID,
         log' = [log EXCEPT ![p] = Append(@, m)], position' = position,
         NEW q \in Partitions, NEW i \in Unfetched(q)'
  PROVE  \/ i \in Unfetched(q) /\ log'[q][i] = log[q][i]
         \/ q = p /\ i = Len(log[p]) + 1 /\ log'[q][i] = m
<1>1. log[q] \in Seq(TaskID) /\ log[p] \in Seq(TaskID) /\ position[q] \in Nat
  BY DEF TypeInv, TypeOK, BrokerTypeOK
<1>2. CASE q # p
  <2>1. log'[q] = log[q]
    BY <1>2 DEF TypeInv, TypeOK, BrokerTypeOK
  <2>. QED BY <2>1 DEF Unfetched
<1>3. CASE q = p
  <2>1. log'[p] = Append(log[p], m)
    BY DEF TypeInv, TypeOK, BrokerTypeOK
  <2>2. i \in (position[p] + 1)..(Len(log[p]) + 1)
    BY <1>1, <1>3, <2>1 DEF Unfetched
  <2>3. CASE i = Len(log[p]) + 1
    BY <1>1, <1>3, <2>1, <2>3
  <2>4. CASE i # Len(log[p]) + 1
    <3>1. i \in Unfetched(p) /\ i \in 1..Len(log[p])
      BY <1>1, <1>3, <2>2, <2>4 DEF Unfetched
    <3>2. Append(log[p], m)[i] = log[p][i]
      BY <1>1, <3>1
    <3>. QED BY <1>3, <2>1, <3>1, <3>2
  <2>. QED BY <2>3, <2>4
<1>. QED BY <1>2, <1>3

\* The handler's token becomes the retry message.
LEMMA PublishTokens ==
  ASSUME TypeInv, TokenInv, NEW c \in Consumers, PublishRetry(c)
  PROVE  TokenInv'
<1>1. /\ GoesOn(c, "publishRetry", "commit") /\ position' = position
      /\ \/ /\ \E p \in RetryPartitions : log' = [log EXCEPT ![p] = Append(@, worker[c].task)]
            /\ spent' = spent
         \/ log' = log /\ Spend("error")
  BY PublishRetryEffect
<1>2. ASSUME NEW d \in Consumers, Carries(d)'
      PROVE  d # c /\ Carries(d) /\ worker'[d].task = worker[d].task
  BY <1>1, <1>2 DEF GoesOn, Alone, Carries, CarryPC
<1>3. DeliveredOnce' => DeliveredOnce
  BY <1>1, SpendFacts DEF DeliveredOnce, PublishedOnce, Never, FaultKind
<1>4. CASE log' = log
  BY <1>1, <1>2, <1>3, <1>4, TokensFade
<1>5. ASSUME NEW p \in RetryPartitions, log' = [log EXCEPT ![p] = Append(@, worker[c].task)]
      PROVE  TokenInv'
  <2>. SUFFICES ASSUME DeliveredOnce' PROVE OneMessage' /\ OneCarrier' /\ NotBoth'
    BY DEF TokenInv
  <2>. DEFINE t == worker[c].task
  <2>0. t \in TaskID /\ p \in Partitions /\ Carries(c)
    BY <1>1, WorkerFacts DEF GoesOn, Carries, CarryPC, Partitions
  <2>1. OneMessage /\ OneCarrier /\ NotBoth
    BY <1>3 DEF TokenInv
  <2>. HIDE DEF t
  <2>2. ASSUME NEW q \in Partitions, NEW i \in Unfetched(q)'
        PROVE  \/ i \in Unfetched(q) /\ log'[q][i] = log[q][i] /\ log[q][i] # t
               \/ q = p /\ i = Len(log[p]) + 1 /\ log'[q][i] = t
    <3>1. log' = [log EXCEPT ![p] = Append(@, t)]
      BY <1>5 DEF t
    <3>2. i \in Unfetched(q) => log[q][i] # t
      BY <2>0, <2>1 DEF NotBoth, t
    <3>3. PICK m \in TaskID : m = t
      BY <2>0
    <3>4. log' = [log EXCEPT ![p] = Append(@, m)]
      BY <3>1, <3>3
    <3>5. \/ i \in Unfetched(q) /\ log'[q][i] = log[q][i]
          \/ q = p /\ i = Len(log[p]) + 1 /\ log'[q][i] = m
      BY <1>1, <2>0, <3>4, PublishedOffsets
    <3>. QED BY <3>2, <3>3, <3>5
  <2>3. OneMessage'
    BY <2>1, <2>2 DEF OneMessage
  <2>4. OneCarrier'
    BY <1>2, <2>1 DEF OneCarrier
  <2>5. NotBoth'
    <3>1. ASSUME NEW d \in Consumers, Carries(d)' PROVE worker'[d].task # t
      BY <1>2, <2>0, <2>1, <3>1 DEF OneCarrier, t
    <3>. QED BY <1>2, <2>1, <2>2, <3>1 DEF NotBoth
  <2>. QED BY <2>3, <2>4, <2>5
<1>. QED BY <1>1, <1>4, <1>5

LEMMA TokenStep == ASSUME TypeInv, TokenInv, [Next]_vars PROVE TokenInv'
<1>0. DeliveredOnce' => DeliveredOnce
  BY DeliveredOnceStays
<1>1. ASSUME NEW c \in Consumers, HandlerStep(c) PROVE TokenInv'
  <2>1. Steady(c)
    BY <1>1, HandlerSteady
  <2>2. ASSUME NEW d \in Consumers, Carries(d)'
        PROVE  Carries(d) /\ worker'[d].task = worker[d].task
    BY <2>1, <2>2 DEF Steady, Alone, Carries, Waiting, CarryPC
  <2>. QED BY <1>0, <2>1, <2>2, TokensFade DEF Steady
<1>2. ASSUME UNCHANGED <<brokerVars, workerVars>> PROVE TokenInv'
  BY <1>0, <1>2, TokensFade DEF brokerVars, workerVars, Carries
<1>3. ASSUME RebalanceGroup \/ \E c \in Consumers : CrashConsumer(c) PROVE TokenInv'
  BY <1>3, Redelivery DEF TokenInv
<1>. QED
  BY <1>1, <1>2, <1>3, StepCases, FetchTokens, PublishTokens DEF FinalizerNext, Terminate, vars

LEMMA TokenInit == Init => TokenInv
<1>. SUFFICES ASSUME Init, PublishedOnce PROVE OneMessage /\ OneCarrier /\ NotBoth
  BY DEF TokenInv, DeliveredOnce
<1>1. \A c \in Consumers : ~Carries(c)
  BY DEF Init, TaskExecutorInit, Carries, Waiting, CarryPC
<1>2. ASSUME NEW p \in Partitions, NEW i \in Unfetched(p)
      PROVE  p \in TaskPartitions /\ log[p] = Published[p] /\ i \in 1..Len(Published[p])
  <2>1. position[p] = 0 /\ log[p] = IF p \in TaskPartitions THEN Published[p] ELSE <<>>
    BY DEF Init
  <2>2. i \in 1..Len(log[p])
    BY <2>1 DEF Unfetched
  <2>. QED BY <2>1, <2>2
<1>3. OneMessage
  BY <1>2 DEF OneMessage, PublishedOnce
<1>. QED BY <1>1, <1>3 DEF OneCarrier, NotBoth

LEMMA TokenInvariant == Spec => []TokenInv
<1>1. TypeInv /\ TokenInv /\ [Next]_vars => TokenInv'
  BY TokenStep
<1>. QED BY TokenInit, TypeInvariant, <1>1, PTL DEF Spec

\* If every message is delivered once, executeTask never runs for one task in
\* two consumers at a time: the retry message is published only after the row
\* is handed over, and nothing of the handler comes after it but the commit.
THEOREM ExclusiveExecutionHolds == Spec => []ExclusiveExecution
<1>1. TokenInv => ExclusiveExecution
  BY DEF TokenInv, OneCarrier, ExclusiveExecution, Working, Holds, Carries, CarryPC
<1>. QED BY TokenInvariant, <1>1, PTL

-----------------------------------------------------------------------------
(* What becomes of a task: the inductive invariants. *)

\* Messages and handlers are about tasks that were published; these and no
\* others have rows.  A job row holds a job status, and so does the copy the
\* handler decides on.
OriginInv ==
  /\ \A t \in TaskID : Exists(task[t]) <=> t \in PublishedTasks
  /\ \A p \in Partitions : \A i \in 1..Len(log[p]) : log[p][i] \in PublishedTasks
  /\ \A c \in Consumers : worker[c].pc # "fetch" => worker[c].task \in PublishedTasks
  /\ \A j \in JobID : job[j].status \in JobStatus
  /\ \A c \in Consumers : worker[c].pc = "dispatch" => worker[c].jobStatus \in JobStatus

\* The attempt a token stands for has not been executed until its handler
\* calls Execute, and the attempt the handler has read is the row's.
AttemptInv ==
  DeliveredOnce /\ Never("error") =>
    /\ \A t \in TaskID : executed[t] <= task[t].attempt
    /\ \A p \in Partitions : \A i \in Unfetched(p) : executed[log[p][i]] < task[log[p][i]].attempt
    /\ \A c \in Consumers :
         /\ worker[c].pc \in {"loadTask", "loadJob", "dispatch", "execute", "publishRetry"} =>
              executed[worker[c].task] < task[worker[c].task].attempt
         /\ worker[c].pc \in CarryPC \ {"loadTask", "publishRetry"} =>
              worker[c].attempt = task[worker[c].task].attempt

AllCompleted(j) == \A t \in TasksOf(j) : task[t].status = "COMPLETED"

\* A COMPLETED task has no token, so nobody will write it again; what a
\* finalizer saw COMPLETED is still COMPLETED when its UPDATE hits the row.
DoneInv ==
  DeliveredOnce =>
    /\ \A t \in TaskID : task[t].status = "COMPLETED" =>
         /\ \A c \in Consumers : Carries(c) => worker[c].task # t
         /\ \A p \in Partitions : \A i \in Unfetched(p) : log[p][i] # t
    /\ \A f \in Finalizers :
         fin[f].pc \in {"cas", "hook"} /\ fin[f].outcome = "COMPLETED" => AllCompleted(fin[f].job)
    /\ \A j \in JobID : job[j].status = "COMPLETED" => AllCompleted(j)

-----------------------------------------------------------------------------
(* Where messages, rows and statuses come from. *)

LEMMA OriginInit == Init => OriginInv
<1>. SUFFICES ASSUME Init PROVE OriginInv
  OBVIOUS
<1>1. \A t \in TaskID : Exists(task[t]) <=> t \in PublishedTasks
  BY DEF Init, Exists, Absent
<1>2. \A p \in Partitions : \A i \in 1..Len(log[p]) : log[p][i] \in PublishedTasks
  <2>. SUFFICES ASSUME NEW p \in Partitions, NEW i \in 1..Len(log[p])
                PROVE  log[p][i] \in PublishedTasks
    OBVIOUS
  <2>1. log[p] = IF p \in TaskPartitions THEN Published[p] ELSE <<>>
    BY DEF Init
  <2>2. p \in TaskPartitions /\ log[p] = Published[p] /\ Published[p] \in Seq(TaskID)
    BY <2>1, ExecutionAssumption
  <2>3. Published[p][i] \in TaskID
    BY <2>2
  <2>. QED BY <2>2, <2>3 DEF PublishedTasks
<1>3. \A c \in Consumers : worker[c].pc = "fetch"
  BY DEF Init, TaskExecutorInit, Waiting
<1>4. \A j \in JobID : job[j].status \in JobStatus
  BY DEF Init, JobStatus
<1>. QED BY <1>1, <1>2, <1>3, <1>4 DEF OriginInv

LEMMA OriginHandler ==
  ASSUME TypeInv, OriginInv, NEW c \in Consumers, HandlerStep(c)
  PROVE  OriginInv'
<1>1. Steady(c)
  BY HandlerSteady
<1>2. ASSUME NEW t \in TaskID PROVE Exists(task'[t]) <=> t \in PublishedTasks
  <2>1. CASE task'[t] = task[t]
    BY <2>1 DEF OriginInv
  <2>2. CASE task'[t] # task[t]
    <3>1. t = worker[c].task /\ t \in PublishedTasks
      BY <1>1, <2>2 DEF Steady, OtherRows, OriginInv
    <3>2. task'[t].status \in Verdicts \cup JobStatus
      BY <2>2, <3>1, HandlerWrites DEF OriginInv
    <3>. QED BY <3>1, <3>2 DEF Exists, Absent, Verdicts, JobStatus
  <2>. QED BY <2>1, <2>2
<1>3. \A d \in Consumers : worker'[d].pc # "fetch" => worker'[d].task \in PublishedTasks
  BY <1>1 DEF Steady, Alone, Waiting, OriginInv
<1>4. \A d \in Consumers : worker'[d].pc = "dispatch" => worker'[d].jobStatus \in JobStatus
  <2>1. worker'[c].pc = "dispatch" => worker'[c].jobStatus \in JobStatus
    <3>1. CASE LoadJob(c)
      <4>1. worker[c].task \in PublishedTasks /\ worker[c].task[1] \in JobID
        BY <1>1, WorkerFacts DEF Steady, OriginInv, TaskID
      <4>. QED BY <3>1, <4>1, LoadJobEffect DEF Drops, Waiting, OriginInv
    <3>2. CASE ~LoadJob(c)
      <4>. USE DEF GoesOn, Drops, Waiting
      <4>1. CASE LoadTask(c)
        BY <4>1, LoadTaskEffect
      <4>2. CASE Unregistered(c) \/ RefuseStart(c)
        BY <4>2, DropEffect
      <4>3. CASE SkipForJob(c) \/ SkipSettled(c)
        BY <4>3, SkipForJobEffect, SkipSettledEffect
      <4>4. CASE StartTask(c) \/ Execute(c) \/ ParamsError(c)
        BY <4>4, StartTaskEffect, ExecuteEffect, ParamsErrorEffect
      <4>5. CASE CompleteTask(c) \/ FailTask(c)
        BY <4>5, CompleteTaskEffect, FailTaskEffect
      <4>7. CASE RetryTask(c)
        BY <4>7, RetryTaskEffect
      <4>6. CASE ExhaustTask(c) \/ PublishDLQ(c) \/ Commit(c)
        BY <4>6, ExhaustTaskEffect, PublishDLQEffect, CommitEffect
      <4>. QED BY <3>2, <4>1, <4>2, <4>3, <4>4, <4>5, <4>6, <4>7 DEF HandlerStep
    <3>. QED BY <3>1, <3>2
  <2>. QED BY <1>1, <2>1 DEF Steady, Alone, OriginInv
<1>. QED BY <1>1, <1>2, <1>3, <1>4 DEF Steady, OriginInv

\* Steps that neither change a row's existence nor a handler, and leave job
\* rows with job statuses.
LEMMA OriginFrame ==
  ASSUME OriginInv, UNCHANGED <<log, worker>>,
         \A t \in TaskID : Exists(task'[t]) <=> Exists(task[t]),
         \A j \in JobID : job'[j].status \in JobStatus
  PROVE  OriginInv'
BY DEF OriginInv, Exists

LEMMA OriginStep == ASSUME TypeInv, OriginInv, [Next]_vars PROVE OriginInv'
<1>1. ASSUME NEW c \in Consumers, Fetch(c) PROVE OriginInv'
  <2>1. /\ Alone(c) /\ worker'[c].pc = "loadTask" /\ UNCHANGED <<log, job, task>>
    BY <1>1, FetchEffect
  <2>2. worker'[c].task \in PublishedTasks
    <3>1. PICK p \in Partitions :
            /\ position[p] + 1 \in Unfetched(p)
            /\ worker'[c].task = log[p][position[p] + 1]
      BY <1>1, FetchEffect
    <3>2. position[p] + 1 \in 1..Len(log[p])
      BY <3>1 DEF Unfetched, TypeInv, TypeOK, BrokerTypeOK
    <3>. QED BY <3>1, <3>2 DEF OriginInv
  <2>. QED BY <2>1, <2>2 DEF OriginInv, Alone, Exists
<1>2. ASSUME NEW c \in Consumers, PublishRetry(c) PROVE OriginInv'
  <2>1. /\ GoesOn(c, "publishRetry", "commit") /\ UNCHANGED <<job, task>>
        /\ \/ \E p \in RetryPartitions : log' = [log EXCEPT ![p] = Append(@, worker[c].task)]
           \/ log' = log
    BY <1>2, PublishRetryEffect
  <2>2. worker[c].task \in PublishedTasks /\ worker[c].task \in TaskID
    BY <2>1 DEF GoesOn, OriginInv, PublishedTasks
  <2>3. \A d \in Consumers :
          /\ worker'[d].pc # "fetch" => worker'[d].task \in PublishedTasks
          /\ worker'[d].pc = "dispatch" => worker'[d].jobStatus \in JobStatus
    BY <2>1, <2>2 DEF GoesOn, Alone, OriginInv
  <2>4. ASSUME NEW q \in Partitions, NEW i \in 1..Len(log'[q]) PROVE log'[q][i] \in PublishedTasks
    <3>1. log \in [Partitions -> Seq(TaskID)]
      BY DEF TypeInv, TypeOK, BrokerTypeOK
    <3>2. CASE log'[q] = log[q]
      BY <2>4, <3>2 DEF OriginInv
    <3>3. CASE log'[q] = Append(log[q], worker[c].task)
      BY <2>2, <2>4, <3>1, <3>3 DEF OriginInv
    <3>. QED BY <2>1, <3>1, <3>2, <3>3
  <2>. QED BY <2>1, <2>3, <2>4 DEF OriginInv, Exists
<1>3. ASSUME RebalanceGroup \/ \E c \in Consumers : CrashConsumer(c) PROVE OriginInv'
  <2>1. UNCHANGED <<log, job, task>>
    BY <1>3 DEF RebalanceGroup, Rebalance, CrashConsumer, Rejoin, repositoryVars
  <2>2. \A d \in Consumers : worker'[d] = worker[d] \/ worker'[d].pc = "fetch"
    BY <1>3 DEF RebalanceGroup, workerVars, CrashConsumer, Become, Waiting, TypeInv, TypeOK,
                TaskExecutorTypeOK
  <2>. QED BY <2>1, <2>2 DEF OriginInv, Exists
<1>4. ASSUME FinalizerNext PROVE OriginInv'
  <2>1. UNCHANGED <<log, worker, task>>
    BY <1>4 DEF FinalizerNext, brokerVars, workerVars, FinalizerStep, CheckJobCompletions, FindJob,
                Summarize, FinalizeRunningJob, FireHook, CrashFinalizer, repositoryVars
  <2>2. \A j \in JobID : job'[j].status \in JobStatus
    <3>1. PICK f \in Finalizers : job' = job \/ FinalizeRunningJob(f)
      BY <1>4 DEF FinalizerNext, FinalizerStep, CheckJobCompletions, FindJob, Summarize, FireHook,
                  CrashFinalizer, repositoryVars
    <3>2. CASE FinalizeRunningJob(f)
      <4>1. fin[f].outcome \in JobStatus
        BY <3>2 DEF FinalizeRunningJob, FinAt, TypeInv, VisitsJob, Outcomes, JobStatus
      <4>2. job' = job \/ job' = [job EXCEPT ![fin[f].job].status = fin[f].outcome]
        BY <3>2 DEF FinalizeRunningJob, UpdateJobIfStatus
      <4>. QED BY <4>1, <4>2 DEF OriginInv, TypeInv, TypeOK, RepositoryTypeOK, JobRow
    <3>. QED BY <3>1, <3>2 DEF OriginInv
  <2>. QED BY <2>1, <2>2, OriginFrame
<1>5. ASSUME NEW j \in JobID, Terminate(j) PROVE OriginInv'
  <2>1. UNCHANGED <<log, worker>>
    BY <1>5 DEF Terminate, brokerVars, workerVars
  <2>2. \A k \in JobID : job'[k].status \in JobStatus
    BY <1>5 DEF Terminate, TerminateJob, OriginInv, TypeInv, TypeOK, RepositoryTypeOK, JobRow, JobStatus
  <2>3. \A t \in TaskID : Exists(task'[t]) <=> Exists(task[t])
    BY <1>5 DEF Terminate, TerminateJob, Exists, Absent, TypeInv, TypeOK, RepositoryTypeOK, TaskRow
  <2>. QED BY <2>1, <2>2, <2>3, OriginFrame
<1>6. ASSUME UNCHANGED vars PROVE OriginInv'
  BY <1>6, OriginFrame DEF vars, repositoryVars, brokerVars, workerVars, OriginInv
<1>. QED BY <1>1, <1>2, <1>3, <1>4, <1>5, <1>6, OriginHandler, StepCases

LEMMA OriginInvariant == Spec => []OriginInv
<1>1. TypeInv /\ OriginInv /\ [Next]_vars => OriginInv'
  BY OriginStep
<1>. QED BY OriginInit, TypeInvariant, <1>1, PTL DEF Spec

-----------------------------------------------------------------------------
(* One execution for each attempt. *)

\* Handlers that have not executed the attempt of the row yet, and handlers
\* that go by the attempt they have read.
UnspentPC == {"loadTask", "loadJob", "dispatch", "execute", "publishRetry"}
ReadPC == CarryPC \ {"loadTask", "publishRetry"}

\* The parts of AttemptInv, in the terms of the tokens.
Within == \A t \in TaskID : executed[t] <= task[t].attempt
QueuedUnspent ==
  \A p \in Partitions : \A i \in Unfetched(p) : executed[log[p][i]] < task[log[p][i]].attempt
HeldUnspent ==
  \A c \in Consumers : worker[c].pc \in UnspentPC =>
    executed[worker[c].task] < task[worker[c].task].attempt
AttemptRead ==
  \A c \in Consumers : worker[c].pc \in ReadPC => worker[c].attempt = task[worker[c].task].attempt

LEMMA AttemptParts ==
  AttemptInv <=> (DeliveredOnce /\ Never("error") =>
                    Within /\ QueuedUnspent /\ HeldUnspent /\ AttemptRead)
BY DEF AttemptInv, Within, QueuedUnspent, HeldUnspent, AttemptRead, UnspentPC, ReadPC

\* The tasks that messages are about, and the types behind the comparisons.
LEMMA TokenTasks ==
  ASSUME TypeInv
  PROVE  /\ \A p \in Partitions : \A i \in Unfetched(p) : log[p][i] \in TaskID
         /\ \A c \in Consumers : Carries(c) => worker[c].task \in TaskID
         /\ \A t \in TaskID : executed[t] \in Nat /\ task[t].attempt \in Nat
<1>1. ASSUME NEW p \in Partitions, NEW i \in Unfetched(p) PROVE log[p][i] \in TaskID
  <2>1. position[p] \in Nat /\ log[p] \in Seq(TaskID)
    BY DEF TypeInv, TypeOK, BrokerTypeOK
  <2>2. i \in 1..Len(log[p])
    BY <2>1 DEF Unfetched
  <2>. QED BY <2>1, <2>2
<1>2. ASSUME NEW c \in Consumers, Carries(c) PROVE worker[c].task \in TaskID
  BY <1>2, WorkerFacts DEF Carries, CarryPC
<1>3. ASSUME NEW t \in TaskID PROVE executed[t] \in Nat /\ task[t].attempt \in Nat
  BY DEF TypeInv, TypeOK, TaskExecutorTypeOK, RepositoryTypeOK, TaskRow
<1>. QED BY <1>1, <1>2, <1>3

\* A step that leaves the two counters alone, and with every token something
\* that was an unspent token before.
LEMMA CountersKept ==
  ASSUME Within, QueuedUnspent, HeldUnspent, AttemptRead, executed' = executed,
         \A t \in TaskID : task'[t].attempt = task[t].attempt,
         \A c \in Consumers : Carries(c)' => worker'[c].task \in TaskID,
         log' = log, position' = position, TypeInv,
         \A c \in Consumers :
           /\ worker'[c].pc \in UnspentPC =>
                worker[c].pc \in UnspentPC /\ worker'[c].task = worker[c].task
           /\ worker'[c].pc \in ReadPC =>
                /\ worker'[c].task = worker[c].task
                /\ \/ worker[c].pc \in ReadPC /\ worker'[c].attempt = worker[c].attempt
                   \/ worker'[c].attempt = task[worker[c].task].attempt
  PROVE  Within' /\ QueuedUnspent' /\ HeldUnspent' /\ AttemptRead'
<1>1. Within'
  BY DEF Within
<1>2. QueuedUnspent'
  BY TokenTasks DEF QueuedUnspent, Unfetched
<1>3. ASSUME NEW c \in Consumers, worker'[c].pc \in UnspentPC \cup ReadPC
      PROVE  worker'[c].task \in TaskID
  BY <1>3 DEF Carries, UnspentPC, ReadPC, CarryPC
<1>4. HeldUnspent'
  BY <1>3 DEF HeldUnspent
<1>5. AttemptRead'
  BY <1>3 DEF AttemptRead
<1>. QED BY <1>1, <1>2, <1>4, <1>5

\* A step of c on the counters of the task it holds: there is no other token
\* for that task.
LEMMA CountersMoved ==
  ASSUME TypeInv, OneCarrier, NotBoth, Within, QueuedUnspent, HeldUnspent, AttemptRead,
         NEW c \in Consumers, Carries(c), Alone(c), log' = log, position' = position,
         \A t \in TaskID : t # worker[c].task =>
           executed'[t] = executed[t] /\ task'[t].attempt = task[t].attempt,
         executed'[worker[c].task] <= task'[worker[c].task].attempt,
         worker'[c].task = worker[c].task,
         worker'[c].pc \in UnspentPC => executed'[worker[c].task] < task'[worker[c].task].attempt,
         worker'[c].pc \in ReadPC => worker'[c].attempt = task'[worker[c].task].attempt
  PROVE  Within' /\ QueuedUnspent' /\ HeldUnspent' /\ AttemptRead'
<1>1. Within'
  BY DEF Within
<1>2. QueuedUnspent'
  <2>1. ASSUME NEW p \in Partitions, NEW i \in Unfetched(p)
        PROVE  log[p][i] \in TaskID /\ log[p][i] # worker[c].task
    BY TokenTasks DEF NotBoth
  <2>2. ASSUME NEW p \in Partitions, NEW i \in Unfetched(p)
        PROVE  executed'[log[p][i]] < task'[log[p][i]].attempt
    BY <2>1 DEF QueuedUnspent
  <2>. QED BY <2>2 DEF QueuedUnspent, Unfetched
<1>3. ASSUME NEW d \in Consumers, d # c, worker[d].pc \in UnspentPC \cup ReadPC
      PROVE  worker[d].task \in TaskID /\ worker[d].task # worker[c].task
  <2>1. Carries(d)
    BY <1>3 DEF Carries, UnspentPC, ReadPC, CarryPC
  <2>. QED BY <1>3, <2>1, TokenTasks DEF OneCarrier
<1>4. HeldUnspent'
  BY <1>3 DEF HeldUnspent, Alone
<1>5. AttemptRead'
  BY <1>3 DEF AttemptRead, Alone
<1>. QED BY <1>1, <1>2, <1>4, <1>5

LEMMA AttemptHandler ==
  ASSUME TypeInv, TokenInv, AttemptInv, NEW c \in Consumers, HandlerStep(c),
         (DeliveredOnce /\ Never("error"))' => DeliveredOnce /\ Never("error")
  PROVE  AttemptInv'
<1>. SUFFICES ASSUME (DeliveredOnce /\ Never("error"))'
              PROVE  Within' /\ QueuedUnspent' /\ HeldUnspent' /\ AttemptRead'
  BY DEF AttemptInv, Within, QueuedUnspent, HeldUnspent, AttemptRead, UnspentPC, ReadPC
<1>1. Within /\ QueuedUnspent /\ HeldUnspent /\ AttemptRead
  BY AttemptParts
<1>2. OneCarrier /\ NotBoth
  BY DEF TokenInv
<1>3. ~Spend("error")
  BY SpendFacts DEF FaultKind
<1>4. Steady(c) /\ worker[c].task \in TaskID
  BY HandlerSteady, WorkerFacts DEF Steady
<1>5. CASE Execute(c)
  <2>1. /\ worker[c].pc = "execute" /\ worker'[c].pc \in {"complete", "fail"}
        /\ worker'[c].task = worker[c].task /\ worker'[c].attempt = worker[c].attempt
        /\ task' = task /\ executed' = [executed EXCEPT ![worker[c].task] = @ + 1]
    BY <1>5, ExecuteEffect DEF GoesOn
  <2>2. executed[worker[c].task] < task[worker[c].task].attempt
    BY <1>1, <2>1 DEF HeldUnspent, UnspentPC
  <2>3. worker[c].attempt = task[worker[c].task].attempt
    BY <1>1, <2>1 DEF AttemptRead, ReadPC, CarryPC
  <2>4. /\ executed'[worker[c].task] = executed[worker[c].task] + 1
        /\ \A t \in TaskID : t # worker[c].task => executed'[t] = executed[t]
    BY <1>4, <2>1 DEF TypeInv, TypeOK, TaskExecutorTypeOK
  <2>5. executed'[worker[c].task] <= task'[worker[c].task].attempt
    BY <1>4, <2>1, <2>2, <2>4, TokenTasks
  <2>. QED BY <1>1, <1>2, <1>4, <2>1, <2>3, <2>4, <2>5, CountersMoved
           DEF Steady, Carries, CarryPC, UnspentPC
<1>6. CASE RetryTask(c)
  <2>1. /\ worker[c].pc = "retry" /\ worker'[c].pc \in {"publishRetry", "commit"}
        /\ worker'[c].task = worker[c].task /\ OtherRows(c) /\ executed' = executed
        /\ task'[worker[c].task].attempt = worker[c].attempt + 1
    BY <1>3, <1>6, RetryTaskEffect DEF GoesOn
  <2>2. worker[c].attempt = task[worker[c].task].attempt
    BY <1>1, <2>1 DEF AttemptRead, ReadPC, CarryPC
  <2>3. executed'[worker[c].task] < task'[worker[c].task].attempt
    BY <1>1, <1>4, <2>1, <2>2, TokenTasks DEF Within
  <2>4. executed'[worker[c].task] <= task'[worker[c].task].attempt
    BY <1>1, <1>4, <2>1, <2>2, TokenTasks DEF Within
  <2>. QED BY <1>1, <1>2, <1>4, <2>1, <2>3, <2>4, CountersMoved
           DEF Steady, Carries, CarryPC, ReadPC, OtherRows
<1>7. CASE ~Execute(c) /\ ~RetryTask(c)
  <2>. DEFINE Kept ==
         /\ executed' = executed
         /\ \A t \in TaskID : task'[t].attempt = task[t].attempt
         /\ worker'[c].pc \in UnspentPC => worker[c].pc \in UnspentPC
         /\ worker'[c].pc \in ReadPC =>
              \/ worker[c].pc \in ReadPC /\ worker'[c].attempt = worker[c].attempt
              \/ worker'[c].attempt = task[worker[c].task].attempt
  <2>1. Kept
    <3>. USE <1>3 DEF GoesOn, Drops, Waiting, UnspentPC, ReadPC, CarryPC, Writes, OtherRows
    <3>1. CASE LoadTask(c)
      BY <3>1, LoadTaskEffect
    <3>2. CASE LoadJob(c)
      BY <3>2, LoadJobEffect
    <3>3. CASE Unregistered(c) \/ RefuseStart(c)
      BY <3>3, DropEffect
    <3>4. CASE SkipForJob(c)
      BY <3>4, SkipForJobEffect
    <3>5. CASE SkipSettled(c)
      BY <3>5, SkipSettledEffect
    <3>6. CASE StartTask(c)
      BY <3>6, StartTaskEffect
    <3>7. CASE ParamsError(c)
      BY <3>7, ParamsErrorEffect
    <3>8. CASE CompleteTask(c)
      BY <3>8, CompleteTaskEffect
    <3>9. CASE FailTask(c)
      BY <3>9, FailTaskEffect
    <3>10. CASE ExhaustTask(c)
      BY <3>10, ExhaustTaskEffect
    <3>11. CASE PublishDLQ(c) \/ Commit(c)
      BY <3>11, PublishDLQEffect, CommitEffect
    <3>. QED BY <1>7, <3>1, <3>2, <3>3, <3>4, <3>5, <3>6, <3>7, <3>8, <3>9, <3>10, <3>11 DEF HandlerStep
  <2>2. \A d \in Consumers : Carries(d)' => worker'[d].task \in TaskID
    BY <1>4, TokenTasks DEF Steady, Alone, Carries, Waiting, CarryPC
  <2>3. worker'[c].pc \in UnspentPC \cup ReadPC => worker'[c].task = worker[c].task
    BY <1>4 DEF Steady, Waiting, UnspentPC, ReadPC, CarryPC
  <2>. QED BY <1>1, <1>4, <2>1, <2>2, <2>3, CountersKept DEF Steady, Alone
<1>. QED BY <1>5, <1>6, <1>7

LEMMA AttemptStep == ASSUME TypeInv, TokenInv, AttemptInv, [Next]_vars PROVE AttemptInv'
<1>0. (DeliveredOnce /\ Never("error"))' => DeliveredOnce /\ Never("error")
  BY DeliveredOnceStays, FaultsStay DEF FaultKind
<1>. SUFFICES ASSUME (DeliveredOnce /\ Never("error"))' PROVE AttemptInv'
  BY DEF AttemptInv
<1>1. Within /\ QueuedUnspent /\ HeldUnspent /\ AttemptRead
  BY <1>0, AttemptParts
<1>2. Within' /\ QueuedUnspent' /\ HeldUnspent' /\ AttemptRead' => AttemptInv'
  BY DEF AttemptInv, Within, QueuedUnspent, HeldUnspent, AttemptRead, UnspentPC, ReadPC
<1>3. ASSUME NEW c \in Consumers, HandlerStep(c) PROVE AttemptInv'
  BY <1>0, <1>3, AttemptHandler
<1>4. ASSUME NEW c \in Consumers, Fetch(c) PROVE AttemptInv'
  <2>1. /\ Alone(c) /\ worker'[c].pc = "loadTask" /\ UNCHANGED <<log, task, executed>>
    BY <1>4, FetchEffect
  <2>2. PICK p \in Partitions :
          /\ position[p] + 1 \in Unfetched(p)
          /\ position' = [position EXCEPT ![p] = @ + 1]
          /\ worker'[c].task = log[p][position[p] + 1]
    BY <1>4, FetchEffect
  <2>3. ASSUME NEW q \in Partitions, NEW i \in Unfetched(q)' PROVE i \in Unfetched(q)
    BY <2>1, <2>2 DEF Unfetched, TypeInv, TypeOK, BrokerTypeOK
  <2>4. HeldUnspent' /\ AttemptRead'
    BY <1>1, <2>1, <2>2 DEF HeldUnspent, AttemptRead, QueuedUnspent, Alone, ReadPC
  <2>5. Within' /\ QueuedUnspent'
    BY <1>1, <2>1, <2>3 DEF Within, QueuedUnspent
  <2>. QED BY <1>2, <2>4, <2>5
<1>5. ASSUME NEW c \in Consumers, PublishRetry(c) PROVE AttemptInv'
  <2>1. /\ GoesOn(c, "publishRetry", "commit") /\ UNCHANGED <<task, executed, position>>
        /\ \E p \in RetryPartitions : log' = [log EXCEPT ![p] = Append(@, worker[c].task)]
    <3>1. ~Spend("error")
      BY SpendFacts DEF FaultKind
    <3>. QED BY <1>5, <3>1, PublishRetryEffect
  <2>2. worker[c].task \in TaskID /\ executed[worker[c].task] < task[worker[c].task].attempt
    BY <1>1, <2>1, WorkerFacts DEF GoesOn, HeldUnspent, UnspentPC
  <2>3. PICK m \in TaskID : m = worker[c].task
    BY <2>2
  <2>4. PICK p \in Partitions : log' = [log EXCEPT ![p] = Append(@, m)]
    BY <2>1, <2>3 DEF Partitions
  <2>5. ASSUME NEW q \in Partitions, NEW i \in Unfetched(q)'
        PROVE  log'[q][i] = m \/ (i \in Unfetched(q) /\ log'[q][i] = log[q][i])
    BY <2>1, <2>4, PublishedOffsets
  <2>6. QueuedUnspent'
    BY <1>1, <2>1, <2>2, <2>3, <2>5 DEF QueuedUnspent
  <2>7. Within' /\ HeldUnspent' /\ AttemptRead'
    BY <1>1, <2>1 DEF Within, HeldUnspent, AttemptRead, GoesOn, Alone, UnspentPC, ReadPC, CarryPC
  <2>. QED BY <1>2, <2>6, <2>7
<1>6. ASSUME UNCHANGED <<log, position, worker, executed>>,
             \A t \in TaskID : task'[t].attempt = task[t].attempt
      PROVE  AttemptInv'
  <2>1. \A c \in Consumers : Carries(c)' => worker'[c].task \in TaskID
    BY <1>6, TokenTasks DEF Carries
  <2>. QED BY <1>1, <1>2, <1>6, <2>1, CountersKept
<1>7. ASSUME FinalizerNext PROVE AttemptInv'
  BY <1>6, <1>7 DEF FinalizerNext, brokerVars, workerVars, FinalizerStep, CheckJobCompletions,
                    FindJob, Summarize, FinalizeRunningJob, FireHook, CrashFinalizer, repositoryVars
<1>8. ASSUME NEW j \in JobID, Terminate(j) PROVE AttemptInv'
  <2>1. \A t \in TaskID : task'[t].attempt = task[t].attempt
    BY <1>8 DEF Terminate, TerminateJob, TypeInv, TypeOK, RepositoryTypeOK, TaskRow
  <2>. QED BY <1>6, <1>8, <2>1 DEF Terminate, brokerVars, workerVars
<1>9. ASSUME UNCHANGED vars PROVE AttemptInv'
  BY <1>6, <1>9 DEF vars, repositoryVars, brokerVars, workerVars
<1>. QED BY <1>3, <1>4, <1>5, <1>7, <1>8, <1>9, StepCases, Redelivery

LEMMA AttemptInit == Init => AttemptInv
<1>. SUFFICES ASSUME Init PROVE Within /\ QueuedUnspent /\ HeldUnspent /\ AttemptRead
  BY AttemptParts
<1>1. TypeInv /\ OriginInv
  BY InitType, OriginInit
<1>2. ASSUME NEW t \in PublishedTasks
      PROVE  t \in TaskID /\ executed[t] < task[t].attempt
  BY DEF Init, TaskExecutorInit, PublishedTasks
<1>3. Within
  BY DEF Init, TaskExecutorInit, Within
<1>4. QueuedUnspent
  <2>1. ASSUME NEW p \in Partitions, NEW i \in Unfetched(p) PROVE log[p][i] \in PublishedTasks
    BY <1>1 DEF Unfetched, OriginInv, TypeInv, TypeOK, BrokerTypeOK
  <2>. QED BY <1>2, <2>1 DEF QueuedUnspent
<1>5. \A c \in Consumers : worker[c].pc = "fetch"
  BY DEF Init, TaskExecutorInit, Waiting
<1>6. HeldUnspent /\ AttemptRead
  BY <1>5 DEF HeldUnspent, AttemptRead, UnspentPC, ReadPC, CarryPC
<1>. QED BY <1>3, <1>4, <1>6

\* While nothing is delivered twice and no call fails, TaskExecutor.Execute
\* has been called at most as often as the attempt column of the row says:
\* retryTask counts the attempt up before the message for it exists.
THEOREM OneExecutionPerAttemptHolds == Spec => []OneExecutionPerAttempt
<1>1. TypeInv /\ TokenInv /\ AttemptInv /\ [Next]_vars => AttemptInv'
  BY AttemptStep
<1>2. AttemptInv => OneExecutionPerAttempt
  BY DEF AttemptInv, OneExecutionPerAttempt
<1>. QED BY AttemptInit, TypeInvariant, TokenInvariant, <1>1, <1>2, PTL DEF Spec

-----------------------------------------------------------------------------
(* The dead letter topic. *)

LEMMA ExhaustedHandler ==
  ASSUME TypeInv, OriginInv, ExhaustedReachesDLQ, NEW c \in Consumers,
         HandlerStep(c) \/ Fetch(c) \/ PublishRetry(c),
         Never("error"), Never("crash"), Never("error")', DLQConfigured, NEW t \in TaskID,
         task'[t].status = "MAX_RETRIES_EXHAUSTED"
  PROVE  t \in dlq' \/ \E d \in Consumers : worker'[d].task = t /\ worker'[d].pc = "publishDLQ"
<1>1. ~Spend("error")
  BY SpendFacts DEF FaultKind
<1>2. Alone(c)
  BY HandlerSteady, FetchEffect, PublishRetryEffect DEF Steady, GoesOn
<1>3. ASSUME dlq' = dlq, worker[c].pc # "publishDLQ", task[t].status = "MAX_RETRIES_EXHAUSTED"
      PROVE  t \in dlq' \/ \E d \in Consumers : worker'[d].task = t /\ worker'[d].pc = "publishDLQ"
  BY <1>2, <1>3 DEF ExhaustedReachesDLQ, Holds, At, Alone
<1>4. CASE ExhaustTask(c) /\ t = worker[c].task
  BY <1>4, ExhaustTaskEffect DEF GoesOn
<1>5. CASE PublishDLQ(c)
  <2>1. dlq' = dlq \cup {worker[c].task} /\ task' = task
    BY <1>1, <1>5, PublishDLQEffect
  <2>. QED BY <1>2, <2>1 DEF ExhaustedReachesDLQ, Holds, At, Alone
<1>6. CASE ~(ExhaustTask(c) /\ t = worker[c].task) /\ ~PublishDLQ(c)
  <2>1. dlq' = dlq /\ worker[c].pc # "publishDLQ" /\ task[t].status = "MAX_RETRIES_EXHAUSTED"
    <3>. USE <1>1 DEF GoesOn, Drops, Writes, OtherRows
    <3>1. CASE LoadTask(c) \/ LoadJob(c)
      BY <3>1, LoadTaskEffect, LoadJobEffect
    <3>2. CASE Unregistered(c) \/ RefuseStart(c) \/ SkipSettled(c)
      BY <3>2, DropEffect, SkipSettledEffect
    <3>3. CASE SkipForJob(c)
      <4>1. worker[c].jobStatus \in JobStatus
        BY <3>3, SkipForJobEffect DEF OriginInv
      <4>. QED BY <3>3, <4>1, SkipForJobEffect DEF JobStatus
    <3>4. CASE StartTask(c)
      BY <3>4, StartTaskEffect
    <3>5. CASE Execute(c)
      BY <3>5, ExecuteEffect
    <3>6. CASE ParamsError(c)
      BY <3>6, ParamsErrorEffect
    <3>7. CASE CompleteTask(c)
      BY <3>7, CompleteTaskEffect
    <3>8. CASE FailTask(c)
      BY <3>8, FailTaskEffect
    <3>9. CASE RetryTask(c)
      BY <3>9, RetryTaskEffect
    <3>10. CASE ExhaustTask(c)
      BY <1>6, <3>10, ExhaustTaskEffect
    <3>11. CASE Commit(c)
      BY <3>11, CommitEffect
    <3>12. CASE Fetch(c)
      BY <3>12, FetchEffect
    <3>13. CASE PublishRetry(c)
      BY <3>13, PublishRetryEffect
    <3>. QED BY <1>6, <3>1, <3>2, <3>3, <3>4, <3>5, <3>6, <3>7, <3>8, <3>9, <3>10, <3>11, <3>12, <3>13
             DEF HandlerStep
  <2>. QED BY <1>3, <2>1
<1>. QED BY <1>4, <1>5, <1>6

LEMMA ExhaustedStep ==
  ASSUME TypeInv, OriginInv, ExhaustedReachesDLQ, [Next]_vars
  PROVE  ExhaustedReachesDLQ'
<1>0. (Never("error") /\ Never("crash"))' => Never("error") /\ Never("crash")
  BY FaultsStay DEF FaultKind
<1>. SUFFICES ASSUME Never("error")', Never("crash")', DLQConfigured, NEW t \in TaskID,
                     task'[t].status = "MAX_RETRIES_EXHAUSTED"
              PROVE  t \in dlq' \/ \E d \in Consumers : worker'[d].task = t /\ worker'[d].pc = "publishDLQ"
  BY DEF ExhaustedReachesDLQ, Holds, At
<1>1. CASE \E c \in Consumers : HandlerStep(c) \/ Fetch(c) \/ PublishRetry(c)
  BY <1>0, <1>1, ExhaustedHandler
<1>2. ASSUME UNCHANGED <<worker, dlq>>, task[t].status = "MAX_RETRIES_EXHAUSTED"
      PROVE  t \in dlq' \/ \E d \in Consumers : worker'[d].task = t /\ worker'[d].pc = "publishDLQ"
  BY <1>0, <1>2 DEF ExhaustedReachesDLQ, Holds, At
<1>3. CASE \E c \in Consumers : CrashConsumer(c)
  BY <1>3, SpendFacts DEF CrashConsumer, FaultKind
<1>4. CASE RebalanceGroup
  BY <1>2, <1>4 DEF RebalanceGroup, workerVars, repositoryVars
<1>5. CASE FinalizerNext
  BY <1>2, <1>5 DEF FinalizerNext, workerVars, FinalizerStep, CheckJobCompletions,
                    FindJob, Summarize, FinalizeRunningJob, FireHook, CrashFinalizer, repositoryVars
<1>6. CASE \E j \in JobID : Terminate(j)
  <2>1. task[t].status = "MAX_RETRIES_EXHAUSTED"
    BY <1>6 DEF Terminate, TerminateJob, TypeInv, TypeOK, RepositoryTypeOK, TaskRow
  <2>. QED BY <1>2, <1>6, <2>1 DEF Terminate, workerVars
<1>7. CASE UNCHANGED vars
  BY <1>2, <1>7 DEF vars, repositoryVars, workerVars
<1>. QED BY <1>1, <1>3, <1>4, <1>5, <1>6, <1>7, StepCases

\* A task that sendTaskToDLQ marked MAX_RETRIES_EXHAUSTED has its message in
\* the dead letter topic or is about to get it, if no call fails and no
\* process dies in between; no other code writes that status.
THEOREM ExhaustedReachesDLQHolds == Spec => []ExhaustedReachesDLQ
<1>1. Init => ExhaustedReachesDLQ
  BY DEF Init, ExhaustedReachesDLQ, Absent
<1>2. TypeInv /\ OriginInv /\ ExhaustedReachesDLQ /\ [Next]_vars => ExhaustedReachesDLQ'
  BY ExhaustedStep
<1>. QED BY TypeInvariant, OriginInvariant, <1>1, <1>2, PTL DEF Spec

-----------------------------------------------------------------------------
(* COMPLETED runs. *)

LEMMA TasksFinite == ASSUME NEW j PROVE IsFiniteSet(TasksOf(j))
<1>1. IsFiniteSet(JobID)
  BY RepositoryAssumption, FS_Interval DEF JobID
<1>2. IsFiniteSet(0..(MaxTasks - 1))
  BY RepositoryAssumption, FS_Interval
<1>3. IsFiniteSet(TaskID)
  BY <1>1, <1>2, FS_Product DEF TaskID
<1>. QED BY <1>3, FS_Subset DEF TasksOf

\* The counters of GetTaskStatusSummary add up to COMPLETED only if every
\* task of the job is.
LEMMA SummaryCompleted ==
  ASSUME NEW j, resolveJobTerminalStatusFromSummary(GetTaskStatusSummary(j)) = "COMPLETED"
  PROVE  AllCompleted(j)
<1>. DEFINE done == {t \in TasksOf(j) : task[t].status = "COMPLETED"}
            s == GetTaskStatusSummary(j)
<1>1. s.total = Cardinality(TasksOf(j)) /\ s.completed = Cardinality(done)
  BY DEF GetTaskStatusSummary
<1>. HIDE DEF s
<1>2. s.total = 0 \/ s.completed = s.total
  BY DEF resolveJobTerminalStatusFromSummary, NotReady, s
<1>. HIDE DEF done
<1>3. TasksOf(j) = {} \/ done = TasksOf(j)
  <2>1. done \subseteq TasksOf(j)
    BY DEF done
  <2>2. IsFiniteSet(TasksOf(j))
    BY TasksFinite
  <2>3. CASE s.total = 0
    BY <1>1, <2>2, <2>3, FS_EmptySet
  <2>4. CASE s.completed = s.total
    BY <1>1, <2>1, <2>2, <2>4, FS_Subset
  <2>. QED BY <1>2, <2>3, <2>4
<1>. QED BY <1>3 DEF AllCompleted, done

\* The parts of DoneInv.
Untouched ==
  \A t \in TaskID : task[t].status = "COMPLETED" =>
    /\ \A c \in Consumers : Carries(c) => worker[c].task # t
    /\ \A p \in Partitions : \A i \in Unfetched(p) : log[p][i] # t
Decided ==
  \A f \in Finalizers :
    fin[f].pc \in {"cas", "hook"} /\ fin[f].outcome = "COMPLETED" => AllCompleted(fin[f].job)
Recorded == \A j \in JobID : job[j].status = "COMPLETED" => AllCompleted(j)

LEMMA DoneParts == DoneInv <=> (DeliveredOnce => Untouched /\ Decided /\ Recorded)
BY DEF DoneInv, Untouched, Decided, Recorded

\* What is COMPLETED stays so in a step that leaves COMPLETED rows alone and
\* inserts none.
LEMMA CompletedKept ==
  ASSUME OriginInv, OriginInv', NEW j,
         \A t \in TaskID : task[t].status = "COMPLETED" => task'[t] = task[t],
         AllCompleted(j)
  PROVE  AllCompleted(j)'
<1>1. ASSUME NEW t \in TaskID PROVE Exists(task'[t]) <=> Exists(task[t])
  BY DEF OriginInv
<1>2. \A t : t \in TasksOf(j)' <=> t \in TasksOf(j)
  BY <1>1 DEF TasksOf, Exists
<1>. QED BY <1>2 DEF AllCompleted, TasksOf

\* Neither a handler nor TerminateJob writes to a COMPLETED row.
LEMMA CompletedUntouched ==
  ASSUME TypeInv, Untouched, [Next]_vars, NEW t \in TaskID, task[t].status = "COMPLETED"
  PROVE  task'[t] = task[t]
<1>1. CASE \E c \in Consumers : HandlerStep(c)
  BY <1>1, HandlerWrites DEF Untouched, OtherRows
<1>2. CASE \E c \in Consumers : Fetch(c) \/ PublishRetry(c) \/ CrashConsumer(c)
  BY <1>2, FetchEffect, PublishRetryEffect DEF CrashConsumer, repositoryVars
<1>3. CASE RebalanceGroup \/ FinalizerNext \/ UNCHANGED vars
  BY <1>3 DEF RebalanceGroup, vars, FinalizerNext, FinalizerStep, CheckJobCompletions,
              FindJob, Summarize, FinalizeRunningJob, FireHook, CrashFinalizer, repositoryVars
<1>4. CASE \E j \in JobID : Terminate(j)
  BY <1>4 DEF Terminate, TerminateJob
<1>. QED BY <1>1, <1>2, <1>3, <1>4, StepCases

\* A row becomes COMPLETED by a step of the handler that carries its task,
\* and the handler does not carry it any more.
LEMMA BecomesCompleted ==
  ASSUME TypeInv, [Next]_vars, NEW t \in TaskID, task[t].status # "COMPLETED",
         task'[t].status = "COMPLETED"
  PROVE  \E c \in Consumers : /\ HandlerStep(c) /\ Carries(c) /\ worker[c].task = t
                              /\ ~Carries(c)'
<1>1. ASSUME NEW c \in Consumers, HandlerStep(c)
      PROVE  Carries(c) /\ worker[c].task = t /\ ~Carries(c)'
  <2>1. Carries(c) /\ worker[c].task = t
    BY <1>1, HandlerWrites DEF OtherRows
  <2>2. ~Carries(c)'
    <3>. USE <1>1, <2>1 DEF GoesOn, Drops, Writes, OtherRows, Carries, CarryPC, Waiting
    <3>1. CASE LoadTask(c) \/ LoadJob(c)
      BY <3>1, LoadTaskEffect, LoadJobEffect
    <3>2. CASE Unregistered(c) \/ RefuseStart(c) \/ SkipSettled(c)
      BY <3>2, DropEffect, SkipSettledEffect
    <3>3. CASE SkipForJob(c)
      BY <3>3, SkipForJobEffect
    <3>4. CASE StartTask(c)
      BY <3>4, StartTaskEffect
    <3>5. CASE Execute(c)
      BY <3>5, ExecuteEffect
    <3>6. CASE ParamsError(c)
      BY <3>6, ParamsErrorEffect
    <3>7. CASE CompleteTask(c)
      BY <3>7, CompleteTaskEffect
    <3>8. CASE FailTask(c)
      BY <3>8, FailTaskEffect
    <3>9. CASE RetryTask(c)
      BY <3>9, RetryTaskEffect
    <3>10. CASE ExhaustTask(c)
      BY <3>10, ExhaustTaskEffect
    <3>11. CASE PublishDLQ(c) \/ Commit(c)
      BY <3>11, PublishDLQEffect, CommitEffect
    <3>. QED BY <3>1, <3>2, <3>3, <3>4, <3>5, <3>6, <3>7, <3>8, <3>9, <3>10, <3>11 DEF HandlerStep
  <2>. QED BY <2>1, <2>2
<1>2. CASE \E c \in Consumers : Fetch(c) \/ PublishRetry(c) \/ CrashConsumer(c)
  BY <1>2, FetchEffect, PublishRetryEffect DEF CrashConsumer, repositoryVars
<1>3. CASE RebalanceGroup \/ FinalizerNext \/ UNCHANGED vars
  BY <1>3 DEF RebalanceGroup, vars, FinalizerNext, FinalizerStep, CheckJobCompletions,
              FindJob, Summarize, FinalizeRunningJob, FireHook, CrashFinalizer, repositoryVars
<1>4. CASE \E j \in JobID : Terminate(j)
  BY <1>4 DEF Terminate, TerminateJob, TypeInv, TypeOK, RepositoryTypeOK, TaskRow
<1>. QED BY <1>1, <1>2, <1>3, <1>4, StepCases

\* A message to fetch or a handler that carries the task.
Token(t) ==
  \/ \E c \in Consumers : Carries(c) /\ worker[c].task = t
  \/ \E p \in Partitions : \E i \in Unfetched(p) : log[p][i] = t

\* Without redelivery tokens are handed on, never made.
LEMMA NoNewToken ==
  ASSUME TypeInv, [Next]_vars, DeliveredOnce', NEW t, ~Token(t)
  PROVE  ~Token(t)'
<1>0. /\ \A c \in Consumers : Carries(c) => worker[c].task # t
      /\ \A p \in Partitions : \A i \in Unfetched(p) : log[p][i] # t
  BY DEF Token
<1>1. ASSUME NEW c \in Consumers, HandlerStep(c) PROVE ~Token(t)'
  <2>1. Steady(c)
    BY <1>1, HandlerSteady
  <2>2. \A d \in Consumers : Carries(d)' => worker'[d].task # t
    BY <1>0, <2>1 DEF Steady, Alone, Carries, Waiting, CarryPC
  <2>. QED BY <1>0, <2>1, <2>2 DEF Token, Steady, Unfetched
<1>2. ASSUME NEW c \in Consumers, Fetch(c) PROVE ~Token(t)'
  <2>1. Alone(c) /\ log' = log
    BY <1>2, FetchEffect
  <2>2. PICK p \in Partitions :
          /\ position[p] + 1 \in Unfetched(p)
          /\ position' = [position EXCEPT ![p] = @ + 1]
          /\ worker'[c].task = log[p][position[p] + 1]
    BY <1>2, FetchEffect
  <2>3. ASSUME NEW q \in Partitions, NEW i \in Unfetched(q)' PROVE log'[q][i] # t
    <3>1. i \in Unfetched(q)
      BY <2>1, <2>2 DEF Unfetched, TypeInv, TypeOK, BrokerTypeOK
    <3>. QED BY <1>0, <2>1, <3>1
  <2>4. \A d \in Consumers : Carries(d)' => worker'[d].task # t
    BY <1>0, <2>1, <2>2 DEF Alone, Carries
  <2>. QED BY <2>3, <2>4 DEF Token
<1>3. ASSUME NEW c \in Consumers, PublishRetry(c) PROVE ~Token(t)'
  <2>1. /\ GoesOn(c, "publishRetry", "commit") /\ position' = position
        /\ \/ \E p \in RetryPartitions : log' = [log EXCEPT ![p] = Append(@, worker[c].task)]
           \/ log' = log
    BY <1>3, PublishRetryEffect
  <2>2. worker[c].task \in TaskID /\ worker[c].task # t
    BY <1>0, <2>1, WorkerFacts DEF GoesOn, Carries, CarryPC
  <2>3. \A d \in Consumers : Carries(d)' => worker'[d].task # t
    BY <1>0, <2>1 DEF GoesOn, Alone, Carries, CarryPC
  <2>4. ASSUME NEW q \in Partitions, NEW i \in Unfetched(q)' PROVE log'[q][i] # t
    <3>1. CASE log' = log
      BY <1>0, <2>1, <2>4, <3>1 DEF Unfetched
    <3>2. ASSUME NEW p \in RetryPartitions, log' = [log EXCEPT ![p] = Append(@, worker[c].task)]
          PROVE  log'[q][i] # t
      <4>1. PICK m \in TaskID : m = worker[c].task
        BY <2>2
      <4>2. log' = [log EXCEPT ![p] = Append(@, m)] /\ p \in Partitions
        BY <3>2, <4>1 DEF Partitions
      <4>3. log'[q][i] = m \/ (i \in Unfetched(q) /\ log'[q][i] = log[q][i])
        BY <2>1, <2>4, <4>2, PublishedOffsets
      <4>. QED BY <1>0, <2>2, <4>1, <4>3
    <3>. QED BY <2>1, <3>1, <3>2
  <2>. QED BY <2>3, <2>4 DEF Token
<1>4. ASSUME UNCHANGED <<brokerVars, workerVars>> PROVE ~Token(t)'
  BY <1>0, <1>4 DEF Token, brokerVars, workerVars, Carries, Unfetched
<1>. QED BY <1>1, <1>2, <1>3, <1>4, StepCases, Redelivery DEF FinalizerNext, Terminate, vars

LEMMA UntouchedStep ==
  ASSUME TypeInv, OneCarrier, NotBoth, Untouched, [Next]_vars, DeliveredOnce'
  PROVE  Untouched'
<1>. SUFFICES ASSUME NEW t \in TaskID, task'[t].status = "COMPLETED" PROVE ~Token(t)'
  BY DEF Untouched, Token
<1>1. CASE task[t].status = "COMPLETED"
  BY <1>1, NoNewToken DEF Untouched, Token
<1>2. CASE task[t].status # "COMPLETED"
  <2>1. PICK c \in Consumers : /\ HandlerStep(c) /\ Carries(c) /\ worker[c].task = t
                               /\ ~Carries(c)'
    BY <1>2, BecomesCompleted
  <2>2. Steady(c)
    BY <2>1, HandlerSteady
  <2>3. ASSUME NEW d \in Consumers, Carries(d)' PROVE worker'[d].task # t
    <3>1. d # c /\ worker'[d] = worker[d] /\ Carries(d)
      BY <2>1, <2>2, <2>3 DEF Steady, Alone, Carries
    <3>. QED BY <2>1, <3>1 DEF OneCarrier
  <2>4. \A p \in Partitions : \A i \in Unfetched(p) : log[p][i] # t
    BY <2>1 DEF NotBoth
  <2>5. \A p \in Partitions : Unfetched(p)' = Unfetched(p) /\ log'[p] = log[p]
    BY <2>2 DEF Steady, Unfetched
  <2>. QED BY <2>3, <2>4, <2>5 DEF Token
<1>. QED BY <1>1, <1>2

\* A finalizer that goes on to the next job has decided nothing for it.
LEMMA VisitedPC ==
  ASSUME TypeInv, NEW f \in Finalizers, Visited(f)
  PROVE  fin'[f].pc \in {"idle", "next"}
<1>. DEFINE w == IF fin[f].todo = {} THEN Resting
                 ELSE [Resting EXCEPT !.pc = "next", !.todo = fin[f].todo]
<1>1. w.pc \in {"idle", "next"}
  BY DEF Resting
<1>2. fin' = [fin EXCEPT ![f] = w] /\ fin \in [Finalizers -> FinalizerState]
  BY DEF Visited, TypeInv, TypeOK, JobFinalizerTypeOK
<1>. HIDE DEF w
<1>. QED BY <1>1, <1>2

LEMMA FindJobPC ==
  ASSUME TypeInv, NEW f \in Finalizers, FindJob(f)
  PROVE  fin'[f].pc \in {"idle", "next", "summary"}
<1>1. fin \in [Finalizers -> FinalizerState] /\ fin[f] \in FinalizerState /\ fin[f].pc = "next"
  BY DEF FindJob, FinAt, TypeInv, TypeOK, JobFinalizerTypeOK
<1>2. PICK j \in fin[f].todo :
        \/ fin' = [fin EXCEPT ![f] = [[fin[f] EXCEPT !.todo = @ \ {j}] EXCEPT !.pc = "summary", !.job = j]]
        \/ fin' = [fin EXCEPT ![f] = IF [fin[f] EXCEPT !.todo = @ \ {j}].todo = {} THEN Resting
                                     ELSE [fin[f] EXCEPT !.todo = @ \ {j}]]
  BY DEF FindJob
<1>. DEFINE rest == [fin[f] EXCEPT !.todo = @ \ {j}]
            there == [rest EXCEPT !.pc = "summary", !.job = j]
            on == IF rest.todo = {} THEN Resting ELSE rest
<1>3. there.pc = "summary" /\ on.pc \in {"idle", "next"}
  BY <1>1 DEF FinalizerState, Resting
<1>4. fin' = [fin EXCEPT ![f] = there] \/ fin' = [fin EXCEPT ![f] = on]
  BY <1>2
<1>. HIDE DEF there, on
<1>. QED BY <1>1, <1>3, <1>4

\* A finalizer that has decided COMPLETED, and a row that says so.
LEMMA DecidedStep ==
  ASSUME TypeInv, Decided, [Next]_vars, NEW g \in Finalizers,
         fin'[g].pc \in {"cas", "hook"}, fin'[g].outcome = "COMPLETED"
  PROVE  fin'[g].job \in JobID /\ AllCompleted(fin'[g].job)
<1>1. ASSUME fin'[g] = fin[g] PROVE fin'[g].job \in JobID /\ AllCompleted(fin'[g].job)
  BY <1>1 DEF Decided, TypeInv, VisitsJob
<1>2. CASE UNCHANGED finalizerVars
  BY <1>1, <1>2 DEF finalizerVars
<1>3. CASE FinalizerNext
  <2>1. PICK f \in Finalizers :
          (\E n \in Registered : CheckJobCompletions(f, n)) \/ FinalizerStep(f) \/ CrashFinalizer(f)
    BY <1>3 DEF FinalizerNext
  <2>2. fin \in [Finalizers -> FinalizerState]
    BY DEF TypeInv, TypeOK, JobFinalizerTypeOK
  <2>3. CASE g # f
    <3>1. fin'[g] = fin[g]
      BY <2>1, <2>2, <2>3 DEF CheckJobCompletions, FinalizerStep, FindJob, Summarize,
                              FinalizeRunningJob, FireHook, CrashFinalizer, Visited
    <3>. QED BY <1>1, <3>1
  <2>4. CASE g = f /\ Summarize(f)
    <3>. DEFINE outcome == resolveJobTerminalStatusFromSummary(GetTaskStatusSummary(fin[f].job))
    <3>1. ~Visited(f)
      BY <2>4, VisitedPC
    <3>2. /\ outcome # NotReady /\ FinAt(f, "summary")
          /\ fin' = [fin EXCEPT ![f].pc = "cas", ![f].outcome = jobStatusToAction(outcome).dst]
      BY <2>4, <3>1 DEF Summarize
    <3>3. jobStatusToAction(outcome).dst = outcome
      BY <3>2, ResolvedOutcome
    <3>. HIDE DEF outcome
    <3>4. fin'[f].outcome = outcome /\ fin'[f].job = fin[f].job
      BY <2>2, <3>2, <3>3 DEF FinalizerState
    <3>5. fin[f].job \in JobID
      BY <3>2 DEF FinAt, TypeInv, VisitsJob
    <3>6. AllCompleted(fin[f].job)
      BY <2>4, <3>4, <3>5, SummaryCompleted DEF outcome
    <3>. QED BY <2>4, <3>4, <3>5, <3>6
  <2>5. CASE g = f /\ FinalizeRunningJob(f)
    <3>1. ~Visited(f)
      BY <2>5, VisitedPC
    <3>2. fin' = [fin EXCEPT ![f].pc = "hook"] /\ FinAt(f, "cas")
      BY <2>5, <3>1 DEF FinalizeRunningJob
    <3>3. fin'[f].outcome = fin[f].outcome /\ fin'[f].job = fin[f].job
      BY <2>2, <3>2 DEF FinalizerState
    <3>. QED BY <2>5, <3>2, <3>3 DEF FinAt, Decided, TypeInv, VisitsJob
  <2>6. CASE g = f /\ ~Summarize(f) /\ ~FinalizeRunningJob(f)
    <3>1. CASE FireHook(f)
      BY <2>6, <3>1, VisitedPC DEF FireHook
    <3>2. CASE CrashFinalizer(f)
      BY <2>2, <2>6, <3>2 DEF CrashFinalizer, Resting
    <3>3. CASE \E n \in Registered : CheckJobCompletions(f, n)
      BY <2>2, <2>6, <3>3 DEF CheckJobCompletions, Resting
    <3>4. CASE FindJob(f)
      BY <2>6, <3>4, FindJobPC
    <3>. QED BY <2>1, <2>6, <3>1, <3>2, <3>3, <3>4 DEF FinalizerStep
  <2>. QED BY <2>3, <2>4, <2>5, <2>6
<1>. QED BY <1>2, <1>3 DEF Next, ConsumerNext, Terminate, vars

LEMMA DoneStep ==
  ASSUME TypeInv, TokenInv, OriginInv, OriginInv', DoneInv, [Next]_vars
  PROVE  DoneInv'
<1>. SUFFICES ASSUME DeliveredOnce' PROVE Untouched' /\ Decided' /\ Recorded'
  BY DEF DoneInv, Untouched, Decided, Recorded
<1>1. DeliveredOnce /\ OneCarrier /\ NotBoth
  BY DeliveredOnceStays DEF TokenInv
<1>2. Untouched /\ Decided /\ Recorded
  BY <1>1, DoneParts
<1>3. Untouched'
  BY <1>1, <1>2, UntouchedStep
<1>4. \A t \in TaskID : task[t].status = "COMPLETED" => task'[t] = task[t]
  BY <1>2, CompletedUntouched
<1>5. ASSUME NEW j \in JobID, AllCompleted(j) PROVE AllCompleted(j)'
  BY <1>4, <1>5, CompletedKept
<1>6. Decided'
  <2>. SUFFICES ASSUME NEW g \in Finalizers, fin'[g].pc \in {"cas", "hook"},
                       fin'[g].outcome = "COMPLETED"
                PROVE  AllCompleted(fin[g].job)'
    BY DEF Decided
  <2>1. fin'[g].job \in JobID /\ AllCompleted(fin'[g].job)
    BY <1>2, DecidedStep
  <2>2. PICK j \in JobID : j = fin'[g].job
    BY <2>1
  <2>3. AllCompleted(j)'
    BY <1>5, <2>1, <2>2
  <2>. QED BY <2>2, <2>3
<1>7. Recorded'
  <2>. SUFFICES ASSUME NEW j \in JobID, job'[j].status = "COMPLETED" PROVE AllCompleted(j)
    BY <1>5 DEF Recorded
  <2>1. CASE job'[j] = job[j]
    BY <1>2, <2>1 DEF Recorded
  <2>2. CASE job'[j] # job[j]
    <3>1. CASE \E f \in Finalizers : FinalizeRunningJob(f)
      <4>1. PICK f \in Finalizers : FinalizeRunningJob(f)
        BY <3>1
      <4>2. job' = [job EXCEPT ![fin[f].job].status = fin[f].outcome] /\ fin[f].pc = "cas"
        BY <2>2, <4>1 DEF FinalizeRunningJob, UpdateJobIfStatus, FinAt
      <4>3. j = fin[f].job /\ fin[f].outcome = "COMPLETED"
        BY <2>2, <4>2 DEF TypeInv, TypeOK, RepositoryTypeOK, JobRow
      <4>. QED BY <1>2, <4>2, <4>3 DEF Decided
    <3>2. CASE \E k \in JobID : Terminate(k)
      BY <2>2, <3>2 DEF Terminate, TerminateJob, TypeInv, TypeOK, RepositoryTypeOK, JobRow
    <3>3. CASE \E c \in Consumers : HandlerStep(c) \/ Fetch(c) \/ PublishRetry(c)
      BY <2>2, <3>3, HandlerSteady, FetchEffect, PublishRetryEffect DEF Steady
    <3>4. CASE RebalanceGroup \/ (\E c \in Consumers : CrashConsumer(c)) \/ UNCHANGED vars
      BY <2>2, <3>4 DEF RebalanceGroup, CrashConsumer, vars, repositoryVars
    <3>5. CASE FinalizerNext
      BY <2>2, <3>1, <3>5 DEF FinalizerNext, FinalizerStep, CheckJobCompletions, FindJob, Summarize,
                              FireHook, CrashFinalizer, repositoryVars
    <3>. QED BY <3>2, <3>3, <3>4, <3>5, StepCases
  <2>. QED BY <2>1, <2>2
<1>. QED BY <1>3, <1>6, <1>7

\* Without redelivery a run that checkJobCompletions marked COMPLETED has
\* only COMPLETED tasks, and keeps them: nobody is left who would write to
\* them, and what the summary counted is still so when the UPDATE comes.
THEOREM CompletedMeansAllCompletedHolds == Spec => []CompletedMeansAllCompleted
<1>1. Init => DoneInv
  BY DEF Init, JobFinalizerInit, Resting, DoneInv, Absent
<1>2. TypeInv /\ TokenInv /\ OriginInv /\ OriginInv' /\ DoneInv /\ [Next]_vars => DoneInv'
  BY DoneStep
<1>3. DoneInv => CompletedMeansAllCompleted
  BY DEF DoneInv, CompletedMeansAllCompleted, AllCompleted
<1>. QED BY TypeInvariant, TokenInvariant, OriginInvariant, <1>1, <1>2, <1>3, PTL DEF Spec

-----------------------------------------------------------------------------
(* Who will come back to a task: the inductive invariants. *)

\* A job that the handler saw ended stays ended.
EndedInv ==
  \A c \in Consumers : At(c, "dispatch") /\ ~IsExecutionPending(worker[c].jobStatus) =>
    ~IsExecutionPending(job[worker[c].task[1]].status)

\* Who will come back to a FAILED task.
Resumed(t) == \E c \in Consumers : worker[c].pc \in {"retry", "exhaust"} /\ Holds(c, t)

Quiet == RetryPartitions # {} /\ Never("error") /\ (Never("crash") \/ Never("rebalance"))

Live(t) == IsExecutionPending(job[JobOf(t)].status) /\ job[JobOf(t)].name \in Registered

AttendedInv ==
  Quiet =>
    \A t \in TaskID : Live(t) =>
      /\ task[t].status \in {"PENDING", "RUNNING"} => Reached(t)
      /\ task[t].status = "FAILED" /\ Never("crash") => Resumed(t)

\* The steps as the consumers and Kafka see them.
LEMMA KafkaSteps == ASSUME TypeInv, [Next]_vars PROVE WorkInv /\ WorkInv' /\ KafkaStep
<1>1. TypeInv'
  BY ConsumersType, FinalizerType, TerminateType, StutterType DEF Next
<1>2. WorkInv'
  BY <1>1 DEF TypeInv, TypeOK, WorkInv
<1>3. FinalizerNext \/ (\E j \in JobID : Terminate(j)) \/ UNCHANGED vars => Outside
  BY DEF FinalizerNext, Terminate, vars, brokerVars, workerVars, Outside
<1>. QED BY <1>2, <1>3, StepCases DEF KafkaStep

\* Steps of the finalizers and of TerminateJob are elsewhere.
LEMMA ElsewhereFacts ==
  ASSUME FinalizerNext \/ (\E j \in JobID : Terminate(j)) \/ UNCHANGED vars
  PROVE  UNCHANGED <<log, committed, position, owner, worker>>
BY DEF FinalizerNext, Terminate, vars, brokerVars, workerVars

-----------------------------------------------------------------------------
(* Runs that have ended. *)

\* A run that has ended stays ended, and no run changes its name.
LEMMA JobsEnd ==
  ASSUME TypeInv, [Next]_vars, NEW j \in JobID
  PROVE  /\ job'[j].name = job[j].name
         /\ ~IsExecutionPending(job[j].status) => ~IsExecutionPending(job'[j].status)
<1>0. job \in [JobID -> JobRow]
  BY DEF TypeInv, TypeOK, RepositoryTypeOK
<1>1. CASE job' = job
  BY <1>1
<1>2. ASSUME NEW f \in Finalizers, FinalizeRunningJob(f), job' # job
      PROVE  /\ job'[j].name = job[j].name
             /\ ~IsExecutionPending(job[j].status) => ~IsExecutionPending(job'[j].status)
  <2>1. /\ job[fin[f].job].status = "RUNNING"
        /\ job' = [job EXCEPT ![fin[f].job].status = fin[f].outcome]
    BY <1>2 DEF FinalizeRunningJob, UpdateJobIfStatus
  <2>. QED BY <1>0, <2>1 DEF JobRow, IsExecutionPending, NonTerminalJobStates
<1>3. ASSUME NEW k \in JobID, Terminate(k)
      PROVE  /\ job'[j].name = job[j].name
             /\ ~IsExecutionPending(job[j].status) => ~IsExecutionPending(job'[j].status)
  <2>1. job' = [job EXCEPT ![k].status = "CANCELLED"]
    BY <1>3 DEF Terminate, TerminateJob
  <2>. QED BY <1>0, <2>1 DEF JobRow, IsExecutionPending, NonTerminalJobStates
<1>4. CASE FinalizerNext
  BY <1>1, <1>2, <1>4 DEF FinalizerNext, FinalizerStep, CheckJobCompletions, FindJob, Summarize,
                          FireHook, CrashFinalizer, repositoryVars
<1>5. ASSUME NEW c \in Consumers, HandlerStep(c) \/ Fetch(c) \/ PublishRetry(c) PROVE job' = job
  BY <1>5, HandlerHolds, FetchEffect, PublishRetryEffect
<1>6. CASE RebalanceGroup \/ (\E c \in Consumers : CrashConsumer(c)) \/ UNCHANGED vars
  BY <1>1, <1>6, RebalanceFacts, CrashFacts DEF vars, repositoryVars
<1>. QED BY <1>1, <1>3, <1>4, <1>5, <1>6, StepCases

\* The run of the task that a handler holds.
LEMMA HeldJob == ASSUME NEW t \in TaskID PROVE t[1] \in JobID
BY DEF TaskID

LEMMA LiveBefore ==
  ASSUME TypeInv, [Next]_vars, NEW t \in TaskID, Live(t)'
  PROVE  Live(t)
BY JobsEnd, HeldJob DEF Live, JobOf

LEMMA EndedStep == ASSUME TypeInv, EndedInv, [Next]_vars PROVE EndedInv'
<1>. SUFFICES ASSUME NEW d \in Consumers, worker'[d].pc = "dispatch",
                     ~IsExecutionPending(worker'[d].jobStatus)
              PROVE  ~IsExecutionPending(job'[worker'[d].task[1]].status)
  BY DEF EndedInv, At
<1>1. ASSUME worker'[d] = worker[d]
      PROVE  ~IsExecutionPending(job'[worker'[d].task[1]].status)
  <2>1. worker[d].task[1] \in JobID
    BY <1>1, WorkerFacts, HeldJob
  <2>. QED BY <1>1, <2>1, JobsEnd DEF EndedInv, At
<1>2. ASSUME NEW c \in Consumers, HandlerStep(c)
      PROVE  ~IsExecutionPending(job'[worker'[d].task[1]].status)
  <2>1. CASE d # c
    BY <1>1, <1>2, <2>1, HandlerHolds DEF Alone
  <2>2. CASE d = c
    <3>1. LoadJob(c)
      <4>. USE <2>2 DEF GoesOn, Drops, Waiting
      <4>1. ~LoadTask(c)
        BY LoadTaskEffect
      <4>2. ~Unregistered(c) /\ ~RefuseStart(c) /\ ~SkipSettled(c) /\ ~SkipForJob(c)
        BY DropEffect, SkipSettledEffect, SkipForJobEffect
      <4>3. ~StartTask(c) /\ ~Execute(c) /\ ~ParamsError(c)
        BY StartTaskEffect, ExecuteEffect, ParamsErrorEffect
      <4>4. ~CompleteTask(c) /\ ~FailTask(c)
        BY CompleteTaskEffect, FailTaskEffect
      <4>5. ~RetryTask(c)
        BY RetryTaskEffect
      <4>6. ~ExhaustTask(c) /\ ~PublishDLQ(c) /\ ~Commit(c)
        BY ExhaustTaskEffect, PublishDLQEffect, CommitEffect
      <4>. QED BY <1>2, <4>1, <4>2, <4>3, <4>4, <4>5, <4>6 DEF HandlerStep
    <3>. QED BY <2>2, <3>1, LoadJobEffect DEF GoesOn, Drops, Waiting
  <2>. QED BY <2>1, <2>2
<1>3. ASSUME NEW c \in Consumers, Fetch(c) \/ PublishRetry(c) PROVE worker'[d] = worker[d]
  BY <1>3, FetchEffect, PublishRetryEffect DEF Alone, GoesOn
<1>4. ASSUME NEW c \in Consumers, CrashConsumer(c) PROVE worker'[d] = worker[d]
  BY <1>4, CrashFacts DEF Alone, Waiting
<1>. QED BY <1>1, <1>2, <1>3, <1>4, StepCases, RebalanceFacts, ElsewhereFacts

-----------------------------------------------------------------------------
(* Nobody loses sight of a task. *)

\* A handler's step on a task that is FAILED after it.
LEMMA HandlerResume ==
  ASSUME TypeInv, EndedInv, [Next]_vars, NEW c \in Consumers, HandlerStep(c), Never("error")',
         NEW t \in TaskID, Live(t), task'[t].status = "FAILED",
         task[t].status = "FAILED" => Resumed(t)
  PROVE  Resumed(t)'
<1>1. ~Spend("error")
  BY SpendFacts DEF FaultKind
<1>2. Steady(c)
  BY HandlerSteady
<1>3. ASSUME task'[t] = task[t], ~(worker[c].pc \in {"retry", "exhaust"} /\ worker[c].task = t)
      PROVE  Resumed(t)'
  BY <1>2, <1>3 DEF Steady, Alone, Resumed, Holds
<1>4. CASE t # worker[c].task
  BY <1>2, <1>3, <1>4 DEF Steady, OtherRows
<1>5. CASE t = worker[c].task
  <2>. DEFINE Stays == worker'[c].task = worker[c].task /\ worker'[c].pc \in {"retry", "exhaust"}
              Leaves == task'[t] = task[t] /\ worker[c].pc \notin {"retry", "exhaust"}
  <2>1. Stays => Resumed(t)'
    BY <1>5 DEF Resumed, Holds
  <2>2. Leaves => Resumed(t)'
    BY <1>3
  <2>3. Stays \/ Leaves
    <3>. USE <1>1, <1>5 DEF GoesOn, Drops, Writes
    <3>1. CASE LoadTask(c) \/ LoadJob(c)
      BY <3>1, LoadTaskEffect, LoadJobEffect
    <3>2. CASE Unregistered(c) \/ RefuseStart(c) \/ SkipSettled(c)
      BY <3>2, DropEffect, SkipSettledEffect
    <3>3. CASE SkipForJob(c)
      BY <3>3, SkipForJobEffect DEF EndedInv, At, Live, JobOf
    <3>4. CASE StartTask(c)
      BY <3>4, StartTaskEffect
    <3>5. CASE Execute(c)
      BY <3>5, ExecuteEffect
    <3>6. CASE ParamsError(c)
      BY <3>6, ParamsErrorEffect
    <3>7. CASE CompleteTask(c)
      BY <3>7, CompleteTaskEffect
    <3>8. CASE FailTask(c)
      BY <3>8, FailTaskEffect
    <3>9. CASE RetryTask(c)
      BY <3>9, RetryTaskEffect
    <3>10. CASE ExhaustTask(c)
      BY <3>10, ExhaustTaskEffect
    <3>11. CASE PublishDLQ(c) \/ Commit(c)
      BY <3>11, PublishDLQEffect, CommitEffect
    <3>. QED BY <3>1, <3>2, <3>3, <3>4, <3>5, <3>6, <3>7, <3>8, <3>9, <3>10, <3>11 DEF HandlerStep
  <2>. QED BY <2>1, <2>2, <2>3
<1>. QED BY <1>4, <1>5

LEMMA AttendedStep ==
  ASSUME TypeInv, ReachInv, HeldInv, EndedInv, AttendedInv, [Next]_vars
  PROVE  AttendedInv'
<1>. SUFFICES ASSUME Quiet', NEW t \in TaskID, Live(t)'
              PROVE  /\ task'[t].status \in {"PENDING", "RUNNING"} => Reached(t)'
                     /\ task'[t].status = "FAILED" /\ Never("crash")' => Resumed(t)'
  BY DEF AttendedInv
<1>1. Quiet /\ Never("error")' /\ RetryPartitions # {} /\ (Never("crash")' => Never("crash"))
  BY FaultsStay DEF Quiet, FaultKind
<1>2. Live(t)
  BY LiveBefore
<1>0. WorkInv /\ WorkInv' /\ KafkaStep /\ job[t[1]].name \in Registered
  BY <1>2, KafkaSteps DEF Live, JobOf
<1>3. /\ task[t].status \in {"PENDING", "RUNNING"} => Reached(t)
      /\ task[t].status = "FAILED" /\ Never("crash") => Resumed(t)
  BY <1>1, <1>2 DEF AttendedInv
<1>. DEFINE Goal == /\ task'[t].status \in {"PENDING", "RUNNING"} => Reached(t)'
                    /\ task'[t].status = "FAILED" /\ Never("crash")' => Resumed(t)'
<1>. SUFFICES Goal
  OBVIOUS
<1>4. ASSUME NEW c \in Consumers, HandlerStep(c) PROVE Goal
  BY <1>0, <1>1, <1>2, <1>3, <1>4, HandlerReach, HandlerResume
<1>5. ASSUME NEW c \in Consumers, Fetch(c) PROVE Goal
  <2>1. Alone(c) /\ worker[c].pc = "fetch" /\ task' = task
    BY <1>5, FetchEffect
  <2>2. Reached(t) => Reached(t)'
    BY <1>0, <2>1, ReachedElsewhere DEF Acts
  <2>3. Resumed(t) => Resumed(t)'
    BY <2>1 DEF Resumed, Holds, Alone
  <2>. QED BY <1>1, <1>3, <2>1, <2>2, <2>3
<1>6. ASSUME NEW c \in Consumers, PublishRetry(c) PROVE Goal
  <2>1. GoesOn(c, "publishRetry", "commit") /\ task' = task
    BY <1>6, PublishRetryEffect
  <2>2. Reached(t) => Reached(t)'
    BY <1>0, <1>1, <1>6, PublishReach
  <2>3. Resumed(t) => Resumed(t)'
    BY <2>1 DEF Resumed, Holds, GoesOn, Alone
  <2>. QED BY <1>1, <1>3, <2>1, <2>2, <2>3
<1>7. ASSUME NEW c \in Consumers, CrashConsumer(c) PROVE Goal
  <2>1. task' = task /\ ~Never("crash")'
    BY <1>7, CrashFacts, SpendFacts DEF FaultKind
  <2>2. Never("rebalance")
    BY <2>1, FaultsStay DEF Quiet, FaultKind
  <2>. QED BY <1>0, <1>3, <1>7, <2>1, <2>2, CrashReach
<1>8. ASSUME UNCHANGED worker, task'[t].status \in {"PENDING", "RUNNING", "FAILED"} => task'[t] = task[t]
      PROVE  Goal
  <2>1. Reached(t) => Reached(t)'
    BY <1>0, <1>8, RestReach
  <2>2. Resumed(t) => Resumed(t)'
    BY <1>8 DEF Resumed, Holds
  <2>. QED BY <1>1, <1>3, <1>8, <2>1, <2>2
<1>9. CASE RebalanceGroup
  BY <1>8, <1>9, RebalanceFacts
<1>10. CASE FinalizerNext \/ UNCHANGED vars
  <2>1. task' = task
    BY <1>10 DEF vars, FinalizerNext, FinalizerStep, CheckJobCompletions, FindJob, Summarize,
                 FinalizeRunningJob, FireHook, CrashFinalizer, repositoryVars
  <2>. QED BY <1>8, <1>10, <2>1, ElsewhereFacts
<1>11. ASSUME NEW j \in JobID, Terminate(j) PROVE Goal
  <2>1. task'[t].status \in {"PENDING", "RUNNING", "FAILED"} => task'[t] = task[t]
    BY <1>11 DEF Terminate, TerminateJob, TypeInv, TypeOK, RepositoryTypeOK, TaskRow
  <2>. QED BY <1>8, <1>11, <2>1, ElsewhereFacts
<1>. HIDE DEF Goal
<1>. QED BY <1>4, <1>5, <1>6, <1>7, <1>9, <1>10, <1>11, StepCases

LEMMA AttendedInit == Init => ReachInv /\ HeldInv /\ EndedInv /\ AttendedInv
<1>. SUFFICES ASSUME Init PROVE ReachInv /\ HeldInv /\ EndedInv /\ AttendedInv
  OBVIOUS
<1>1. TypeInv
  BY InitType
<1>2. \A c \in Consumers : worker[c].pc = "fetch"
  BY DEF Init, TaskExecutorInit, Waiting
<1>3. \A p \in Partitions : position[p] = 0 /\ committed[p] = 0
  BY DEF Init
<1>4. ReachInv /\ HeldInv /\ EndedInv
  BY <1>1, <1>2, <1>3, OffsetTypes DEF ReachInv, HeldInv, EndedInv, Inside, At
<1>5. ASSUME NEW t \in TaskID, task[t].status \in {"PENDING", "RUNNING", "FAILED"}
      PROVE  task[t].status = "PENDING" /\ Reached(t)
  <2>1. t \in PublishedTasks /\ task[t].status = "PENDING"
    BY <1>5 DEF Init, Absent
  <2>2. PICK p \in TaskPartitions : \E i \in 1..Len(Published[p]) : Published[p][i] = t
    BY <2>1 DEF PublishedTasks
  <2>3. p \in Partitions /\ log[p] = Published[p]
    BY DEF Init, Partitions
  <2>4. PICK i \in 1..Len(log[p]) : log[p][i] = t
    BY <2>2, <2>3
  <2>5. Fresh(p, i)
    BY <1>1, <1>2, <1>3, <2>3, OffsetTypes DEF Fresh, Inside
  <2>. QED BY <2>1, <2>3, <2>4, <2>5 DEF Reached
<1>. QED BY <1>4, <1>5 DEF AttendedInv

\* With a retry topic and while no call fails, a PENDING or RUNNING task of a
\* live run is in a message its consumer has still to fetch or in a handler's
\* hands, however often consumers crash or partitions move (not both): the
\* offset of a message is committed only after executeTask is through with
\* the task or has published it again.
THEOREM NoTaskForgottenHolds == Spec => []NoTaskForgotten
<1>1. TypeInv /\ ReachInv /\ HeldInv /\ EndedInv /\ AttendedInv /\ [Next]_vars
        => ReachInv' /\ HeldInv' /\ EndedInv' /\ AttendedInv'
  <2>. SUFFICES ASSUME TypeInv, ReachInv, HeldInv, EndedInv, AttendedInv, [Next]_vars
                PROVE  ReachInv' /\ HeldInv' /\ EndedInv' /\ AttendedInv'
    OBVIOUS
  <2>1. WorkInv /\ WorkInv' /\ KafkaStep /\ (Never("rebalance")' => Never("rebalance"))
    BY KafkaSteps, FaultsStay DEF FaultKind
  <2>. QED BY <2>1, ReachStep, HeldStep, EndedStep, AttendedStep
<1>2. TypeInv /\ AttendedInv => NoTaskForgotten
  <2>. SUFFICES ASSUME TypeInv, AttendedInv, Quiet, NEW t \in TaskID, Live(t),
                       \/ task[t].status \in {"PENDING", "RUNNING"}
                       \/ task[t].status = "FAILED" /\ Never("crash")
                PROVE  Attended(t)
    BY DEF NoTaskForgotten, Quiet, Live
  <2>1. Reached(t) \/ Resumed(t)
    BY DEF AttendedInv
  <2>2. ASSUME NEW p \in Partitions, NEW i \in 1..Len(log[p]), Fresh(p, i) PROVE i \in Unfetched(p)
    BY <2>2, OffsetTypes DEF Fresh, Unfetched
  <2>. QED BY <2>1, <2>2 DEF Reached, Resumed, Attended, Queued, Holds
<1>. QED BY AttendedInit, TypeInvariant, <1>1, <1>2, PTL DEF Spec

=============================================================================
