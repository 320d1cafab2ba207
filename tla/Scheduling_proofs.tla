-------------------------- MODULE Scheduling_proofs -------------------------
(***************************************************************************)
(* Proofs about Scheduling, for any number of jobs, tasks, partitions,     *)
(* consumers, callers, finalizers and faults: TypeOK,                      *)
(* CompletedMeansExecuted and StartedTasksAttended as invariants.  The     *)
(* callers' lemmas come from Components_proofs, the consumers' from        *)
(* Consumers_proofs.                                                       *)
(***************************************************************************)
EXTENDS Scheduling, Components_proofs, Consumers_proofs, FiniteSetTheorems

-----------------------------------------------------------------------------
(* The inductive invariants *)

\* A message is of a task that has a row; a handler works on such a task, and
\* past the load of its job it knows a status of it; what a caller has still to
\* publish has rows.
WrittenTasks == \A t \in TaskID : Written(t) => Exists(task[t])

HeldTasks ==
  \A c \in Consumers :
    /\ worker[c].pc # "fetch" => Exists(task[worker[c].task])
    /\ worker[c].pc = "dispatch" => worker[c].jobStatus # Absent

DueTasks ==
  \A c \in Callers : caller[c].pc \in {"flow", "publish"} =>
    \A t \in caller[c].tasks : Exists(task[t])

KnownTasks == WrittenTasks /\ HeldTasks /\ DueTasks

TypeInv == CallInv /\ WorkInv /\ KnownTasks

\* The user's code ran for every task of the run.
AllExecuted(j) == \A t \in TaskID : t[1] = j /\ Exists(task[t]) => executed[t] > 0

\* Whoever has read that a run or a task is COMPLETED, or is about to write it,
\* has it from an execution: the rows, ...
RowsExecuted ==
  /\ \A t \in TaskID : task[t].status = "COMPLETED" => executed[t] > 0
  /\ \A j \in JobID : job[j].status = "COMPLETED" => AllExecuted(j)

\* ... the handlers, which write the status of the job over the task's, ...
HandlerExecuted(c) ==
  /\ worker[c].pc = "complete" => executed[worker[c].task] > 0
  /\ worker[c].pc = "dispatch" /\ worker[c].jobStatus = "COMPLETED" => AllExecuted(worker[c].task[1])

\* ... the callers that found the run, and write its status over its tasks', ...
CallerExecuted(c) ==
  caller[c].pc \in Holding /\ caller[c].status = "COMPLETED" => AllExecuted(caller[c].job)

\* ... and the finalizers that have counted its tasks.
FinalizerExecuted(f) ==
  /\ fin[f].pc \in {"summary", "cas", "hook"} => Exists(job[fin[f].job])
  /\ fin[f].pc \in {"cas", "hook"} /\ fin[f].outcome = "COMPLETED" => AllExecuted(fin[f].job)

ExecutedInv ==
  /\ RowsExecuted
  /\ \A c \in Consumers : HandlerExecuted(c)
  /\ \A c \in Callers : CallerExecuted(c)
  /\ \A f \in Finalizers : FinalizerExecuted(f)

-----------------------------------------------------------------------------
(* Steps of consumers *)

LEMMA TypeFacts ==
  ASSUME TypeInv
  PROVE  /\ SharedInv /\ RepositoryTypeOK /\ OwnTasks /\ FaultsTypeOK /\ BrokerTypeOK(TaskID)
         /\ FinalizerInv /\ TaskExecutorTypeOK /\ HoldsMessage
BY DEF TypeInv, CallInv, SharedInv, WorkInv

\* Where a handler gets to: it has just loaded the job when it comes to the
\* dispatch, and just executed the task when it comes to complete it.
LEMMA HandlerArrives ==
  ASSUME WorkInv, NEW c \in Consumers, HandlerStep(c)
  PROVE  /\ worker'[c].pc = "dispatch" =>
              /\ UNCHANGED <<task, executed>> /\ worker'[c].task = worker[c].task
              /\ worker'[c].jobStatus = job[worker[c].task[1]].status
         /\ worker'[c].pc = "complete" =>
              /\ UNCHANGED task /\ worker'[c].task = worker[c].task
              /\ executed' = [executed EXCEPT ![worker[c].task] = @ + 1]
         /\ \/ executed' = executed
            \/ executed' = [executed EXCEPT ![worker[c].task] = @ + 1]
<1>. USE DEF GoesOn, Drops, Waiting
<1>1. CASE LoadTask(c)
  BY <1>1, LoadTaskEffect
<1>2. CASE LoadJob(c)
  BY <1>2, LoadJobEffect
<1>3. CASE Unregistered(c) \/ RefuseStart(c)
  BY <1>3, DropEffect
<1>4. CASE SkipForJob(c)
  BY <1>4, SkipForJobEffect
<1>5. CASE SkipSettled(c)
  BY <1>5, SkipSettledEffect
<1>6. CASE StartTask(c)
  BY <1>6, StartTaskEffect
<1>7. CASE Execute(c)
  BY <1>7, ExecuteEffect
<1>8. CASE ParamsError(c)
  BY <1>8, ParamsErrorEffect
<1>9. CASE CompleteTask(c)
  BY <1>9, CompleteTaskEffect
<1>10. CASE FailTask(c)
  BY <1>10, FailTaskEffect
<1>11. CASE RetryTask(c)
  BY <1>11, RetryTaskEffect
<1>12. CASE ExhaustTask(c)
  BY <1>12, ExhaustTaskEffect
<1>13. CASE PublishDLQ(c)
  BY <1>13, PublishDLQEffect
<1>14. CASE Commit(c)
  BY <1>14, CommitEffect
<1>. QED
  BY <1>1, <1>2, <1>3, <1>4, <1>5, <1>6, <1>7, <1>8, <1>9, <1>10, <1>11, <1>12, <1>13, <1>14
  DEF HandlerStep

\* A handler updates a row that is there.
LEMMA HandlerRows ==
  ASSUME TypeInv, NEW c \in Consumers, HandlerStep(c)
  PROVE  \A t \in TaskID : Exists(task'[t]) <=> Exists(task[t])
<1>1. CASE UNCHANGED task
  BY <1>1
<1>2. CASE task' # task
  <2>1. /\ OtherRows(c) /\ worker[c].task \in TaskID
        /\ \/ task'[worker[c].task].status \in Verdicts
           \/ worker[c].pc = "dispatch" /\ task'[worker[c].task].status = worker[c].jobStatus
    BY <1>2, HandlerWrites DEF TypeInv
  <2>2. Absent \notin Verdicts
    BY DEF Verdicts, Absent
  <2>3. worker[c].pc # "fetch"
    BY HandlerSteady DEF TypeInv, Steady
  <2>4. Exists(task[worker[c].task]) /\ (worker[c].pc = "dispatch" => worker[c].jobStatus # Absent)
    BY <2>3 DEF TypeInv, KnownTasks, HeldTasks
  <2>. QED BY <2>1, <2>2, <2>4 DEF OtherRows, Exists
<1>. QED BY <1>1, <1>2

\* The ways in which a consumer goes on.
LEMMA ConsumerCases ==
  ASSUME NEW c \in Consumers, ConsumerStep(c)
  PROVE  HandlerStep(c) \/ Fetch(c) \/ PublishRetry(c)
BY DEF ConsumerStep, HandlerStep

LEMMA ConsumerKnown ==
  ASSUME TypeInv, NEW c \in Consumers, ConsumerStep(c), UNCHANGED caller
  PROVE  KnownTasks' /\ \A t \in TaskID : Exists(task'[t]) <=> Exists(task[t])
<1>0. WorkInv /\ WrittenTasks /\ HeldTasks /\ DueTasks /\ BrokerTypeOK(TaskID) /\ OwnTasks
  BY TypeFacts DEF TypeInv, KnownTasks
<1>1. CASE HandlerStep(c)
  <2>1. \A t \in TaskID : Exists(task'[t]) <=> Exists(task[t])
    BY <1>1, HandlerRows
  <2>2. Steady(c)
    BY <1>0, <1>1, HandlerSteady
  <2>3. WrittenTasks' /\ DueTasks'
    BY <1>0, <2>1, <2>2 DEF Steady, WrittenTasks, DueTasks, Written, JobExecutorTypeOK, CallerState,
                             TypeInv, CallInv
  <2>4. worker[c].pc # "fetch" /\ worker[c].task \in TaskID /\ Exists(task[worker[c].task])
    BY <1>0, <2>2, WorkerFacts DEF Steady, HeldTasks
  <2>5. worker'[c].pc = "dispatch" => worker'[c].jobStatus # Absent
    BY <1>0, <1>1, <2>4, HandlerArrives, TaskBelongs DEF OwnTasks, Exists
  <2>6. \A d \in Consumers : d # c => worker'[d] = worker[d]
    BY <2>2 DEF Steady, Alone
  <2>7. worker'[c].pc # "fetch" => Exists(task'[worker'[c].task])
    BY <2>1, <2>2, <2>4 DEF Steady, Waiting
  <2>8. ASSUME NEW d \in Consumers, d # c
        PROVE  worker'[d].pc # "fetch" => Exists(task'[worker'[d].task])
    BY <1>0, <2>1, <2>6, <2>8, WorkerFacts DEF HeldTasks
  <2>9. HeldTasks'
    BY <1>0, <2>5, <2>6, <2>7, <2>8 DEF HeldTasks
  <2>. QED BY <2>1, <2>3, <2>9 DEF KnownTasks
<1>2. CASE Fetch(c)
  <2>1. /\ Alone(c) /\ worker'[c].pc = "loadTask" /\ UNCHANGED <<log, task>>
        /\ \E p \in Partitions :
             position[p] + 1 \in Unfetched(p) /\ worker'[c].task = log[p][position[p] + 1]
    BY <1>0, <1>2, FetchEffect
  <2>2. PICK p \in Partitions :
          position[p] + 1 \in Unfetched(p) /\ worker'[c].task = log[p][position[p] + 1]
    BY <2>1
  <2>3. position[p] + 1 \in 1..Len(log[p]) /\ log[p][position[p] + 1] \in TaskID
    BY <1>0, <2>2 DEF Unfetched, BrokerTypeOK
  <2>4. Exists(task[worker'[c].task])
    BY <1>0, <2>2, <2>3 DEF WrittenTasks, Written
  <2>5. HeldTasks'
    BY <1>0, <2>1, <2>4 DEF HeldTasks, Alone
  <2>. QED BY <1>0, <2>1, <2>5 DEF KnownTasks, WrittenTasks, DueTasks, Written
<1>3. CASE PublishRetry(c)
  <2>1. GoesOn(c, "publishRetry", "commit") /\ task' = task
    BY <1>0, <1>3, PublishRetryEffect
  <2>2. worker[c].task \in TaskID /\ Exists(task[worker[c].task])
    BY <1>0, <2>1, WorkerFacts DEF GoesOn, HeldTasks
  <2>3. WrittenTasks'
    <3>. SUFFICES ASSUME NEW u \in TaskID, Written(u)' PROVE Exists(task'[u])
      BY DEF WrittenTasks
    <3>1. CASE log' = log
      BY <1>0, <2>1, <3>1 DEF WrittenTasks, Written
    <3>2. ASSUME NEW p \in RetryPartitions, log' = [log EXCEPT ![p] = Append(@, worker[c].task)]
          PROVE  Exists(task'[u])
      <4>1. p \in Partitions
        BY DEF Partitions
      <4>2. PICK m \in TaskID : m = worker[c].task
        BY <2>2
      <4>3. Written(u) \/ u = m
        BY <1>0, <3>2, <4>1, <4>2, WrittenBy
      <4>. QED BY <1>0, <2>1, <2>2, <4>2, <4>3 DEF WrittenTasks
    <3>. QED BY <1>0, <1>3, <3>1, <3>2, PublishRetryEffect
  <2>4. HeldTasks'
    BY <1>0, <2>1, <2>2 DEF HeldTasks, GoesOn, Alone
  <2>. QED BY <1>0, <2>1, <2>3, <2>4 DEF KnownTasks, DueTasks
<1>. QED BY <1>1, <1>2, <1>3, ConsumerCases

-----------------------------------------------------------------------------
(* Steps of callers *)

\* A run that is there gets no further tasks and loses none.
Stays == \A t \in TaskID : Exists(job[t[1]]) => (Exists(task'[t]) <=> Exists(task[t]))

Calls(c) ==
  \/ Trigger(c) \/ (\E j \in JobID : RetryTriggerJob(c, j)) \/ Redeliver(c)
  \/ CallerStep(c) \/ CrashCaller(c)

LEMMA KindRows == ASSUME NEW c \in Callers, Kind(c) PROVE Stays
<1>1. CASE Updated
  BY <1>1 DEF Updated, Stays
<1>2. ASSUME NEW k \in JobID, NEW row, NEW n, Inserted(k, row, n) PROVE Stays
  BY <1>2, TaskBelongs DEF Inserted, Stays
<1>3. BeginsNext(c) \/ BeginsAgain(c) \/ Reads(c) \/ Marks(c) \/ Cancels(c) \/ Misses(c) => Updated
  BY DEF BeginsNext, BeginsAgain, Reads, Marks, Cancels, Misses, Quiet
<1>4. (\E j \in JobID : Hits(c, j)) => Updated
  BY DEF Hits
<1>5. ASSUME NEW k \in JobID, NEW status \in Status, NEW failure \in BOOLEAN, NEW n \in 0..MaxTasks,
             Inserts(c, k, status, failure, n)
      PROVE  Stays
  BY <1>2, <1>5 DEF Inserts
<1>. QED BY <1>1, <1>3, <1>4, <1>5 DEF Kind

LEMMA CallerKnown ==
  ASSUME TypeInv, NEW c \in Callers, Calls(c), UNCHANGED workerVars
  PROVE  KnownTasks' /\ Stays
<1>0. /\ CallInv /\ WrittenTasks /\ HeldTasks /\ DueTasks /\ BrokerTypeOK(TaskID) /\ OwnTasks
      /\ WorkInv
  BY TypeFacts DEF TypeInv, KnownTasks
<1>1. Stays
  BY <1>0, CallerKinds, KindRows DEF Calls
<1>2. \A t \in TaskID : Exists(task[t]) => Exists(task'[t])
  BY <1>0, <1>1 DEF Stays, OwnTasks
<1>3. HeldTasks'
  BY <1>0, <1>2, WorkerFacts DEF workerVars, HeldTasks
<1>4. UNCHANGED brokerVars => WrittenTasks'
  BY <1>0, <1>2 DEF WrittenTasks, Written, brokerVars
<1>5. Others(c) /\ (caller'[c].pc \in {"flow", "publish"} => \A t \in caller'[c].tasks : Exists(task'[t]))
        => DueTasks'
  <2>. SUFFICES ASSUME Others(c), NEW d \in Callers, d # c, caller[d].pc \in {"flow", "publish"},
                       NEW t \in caller[d].tasks
                PROVE  Exists(task'[t])
    BY DEF DueTasks, Others
  <2>1. t \in TaskID
    BY <1>0 DEF CallInv, JobExecutorTypeOK, CallerState
  <2>. QED BY <1>0, <1>2, <2>1 DEF DueTasks
<1>. DEFINE Goal == WrittenTasks' /\ DueTasks'
<1>. SUFFICES Goal
  BY <1>1, <1>3 DEF KnownTasks
<1>6. UNCHANGED brokerVars /\ Others(c) /\ caller'[c].pc \notin {"flow", "publish"} => Goal
  BY <1>4, <1>5
<1>7. UNCHANGED brokerVars /\ Ends(c) => Goal
  BY <1>6 DEF Ends
<1>8. ASSUME NEW pc, pc \notin {"flow", "publish"}, UNCHANGED brokerVars, Moves(c, pc) PROVE Goal
  BY <1>6, <1>8 DEF Moves
<1>9. ASSUME NEW m \in Nat \cup {NoAsynq}, NextCall(c, m) PROVE Goal
  BY <1>0, <1>6, <1>9, NextCallEffect DEF Begins
<1>10. CASE Redeliver(c)
  BY <1>0, <1>6, <1>10, RedeliverEffect DEF Begins
<1>11. CASE Trigger(c) \/ \E j \in JobID : RetryTriggerJob(c, j)
  <2>1. AsynqMaxRetry[c] \in Nat \cup {NoAsynq} /\ NoAsynq \in Nat \cup {NoAsynq}
    BY JobExecutorAssumption
  <2>. HIDE DEF Goal
  <2>. QED BY <1>9, <1>11, <2>1 DEF Trigger, RetryTriggerJob
<1>12. CASE FindExisting(c)
  <2>1. \A j \in JobID : Finds(c, j) => Others(c) /\ caller'[c].pc = "findTasks"
    BY DEF Finds
  <2>. HIDE DEF Goal
  <2>. QED BY <1>0, <1>6, <1>7, <1>8, <1>12, <2>1, FindEffect
<1>13. CASE FindExistingTasks(c)
  <2>1. UNCHANGED <<brokerVars, repositoryVars>> /\ (FindsTasks(c) \/ Ends(c))
    BY <1>0, <1>13, FindTasksEffect
  <2>2. CASE FindsTasks(c)
    <3>1. \A t \in caller'[c].tasks : t \in TaskID /\ Exists(task[t])
      BY <2>2 DEF FindsTasks, TasksOf
    <3>. QED BY <1>2, <1>4, <1>5, <2>1, <2>2, <3>1 DEF FindsTasks
  <2>. HIDE DEF Goal
  <2>. QED BY <1>7, <2>1, <2>2
<1>14. CASE Split(c)
  <2>1. \A n \in 0..MaxTasks : Splitting(c, n) => Others(c) /\ caller'[c].pc = "create"
    BY DEF Splitting
  <2>. HIDE DEF Goal
  <2>. QED BY <1>0, <1>6, <1>7, <1>8, <1>14, <2>1, SplitEffect
<1>15. CASE RecheckRef(c)
  <2>. HIDE DEF Goal
  <2>. QED BY <1>0, <1>7, <1>8, <1>15, RecheckEffect
<1>16. CASE PersistTriggerFailure(c)
  BY <1>0, <1>7, <1>16, PersistEffect
<1>17. CASE CreateRun(c)
  <2>1. UNCHANGED brokerVars
    BY <1>0, <1>17, CreateEffect
  <2>2. CASE Ends(c)
    BY <1>7, <2>1, <2>2
  <2>3. ASSUME NEW k \in JobID, Inserted(k, NewJob(c, caller[c].status, FALSE), caller[c].size),
               Creates(c, k)
        PROVE  Goal
    <3>1. \A t \in caller'[c].tasks : Exists(task'[t])
      BY <2>3 DEF Inserted, Creates
    <3>. QED BY <1>4, <1>5, <2>1, <2>3, <3>1 DEF Creates
  <2>. HIDE DEF Goal
  <2>. QED BY <1>0, <1>17, <2>2, <2>3, CreateEffect
<1>18. CASE SyncTasks(c) \/ AlreadyRunning(c) \/ MarkFailed(c) \/ EndFinalize(c) \/ CrashCaller(c)
  <2>1. UNCHANGED brokerVars /\ Ends(c)
    BY <1>0, <1>18, SyncEffect, AlreadyRunningEffect, MarkFailedEffect, EndFinalizeEffect, CrashEffect
  <2>. QED BY <1>7, <2>1
<1>19. CASE BeginPublish(c)
  <2>1. /\ caller[c].pc = "flow" /\ UNCHANGED <<repositoryVars, brokerVars>>
        /\ Moves(c, IF caller[c].size = 0 THEN AfterPublish(c) ELSE "publish")
    BY <1>0, <1>19, BeginPublishEffect
  <2>2. Others(c) /\ caller'[c].tasks = caller[c].tasks
    BY <2>1 DEF Moves
  <2>3. \A t \in caller[c].tasks : Exists(task'[t])
    BY <1>0, <2>1 DEF DueTasks, repositoryVars
  <2>. QED BY <1>4, <1>5, <2>1, <2>2, <2>3
<1>20. CASE PublishTask(c)
  <2>1. caller[c].pc = "publish" /\ UNCHANGED <<repositoryVars, finalizerVars>>
    BY <1>0, <1>20, PublishEffect
  <2>2. \A t \in caller[c].tasks : t \in TaskID /\ Exists(task'[t])
    BY <1>0, <2>1 DEF DueTasks, repositoryVars, CallInv, JobExecutorTypeOK, CallerState
  <2>3. DueTasks'
    <3>1. CASE \E t \in TaskID : Publishes(c, t)
      BY <1>5, <2>2, <3>1 DEF Publishes
    <3>2. CASE Moves(c, "markFailed")
      BY <1>5, <3>2 DEF Moves
    <3>. QED BY <1>0, <1>20, <3>1, <3>2, PublishEffect
  <2>4. WrittenTasks'
    <3>1. PICK t \in caller[c].tasks : Publish(t, TaskPartitions) \/ UNCHANGED brokerVars
      BY <1>20 DEF PublishTask
    <3>2. ASSUME Publish(t, TaskPartitions), NEW u \in TaskID, Written(u)' PROVE Exists(task'[u])
      <4>1. PICK p \in TaskPartitions : log' = [log EXCEPT ![p] = Append(@, t)]
        BY <3>2 DEF Publish
      <4>2. p \in Partitions /\ t \in TaskID
        BY <2>2 DEF Partitions
      <4>3. Written(u) \/ u = t
        BY <1>0, <3>2, <4>1, <4>2, WrittenBy
      <4>. QED BY <1>0, <1>2, <2>2, <4>3 DEF WrittenTasks
    <3>. QED BY <1>4, <3>1, <3>2 DEF WrittenTasks
  <2>. QED BY <2>3, <2>4
<1>21. CASE CancelOthers(c)
  BY <1>0, <1>8, <1>21, CancelEffect
<1>22. CASE StartJob(c)
  <2>. HIDE DEF Goal
  <2>. QED BY <1>0, <1>7, <1>8, <1>22, StartEffect
<1>. HIDE DEF Goal
<1>. QED
  BY <1>10, <1>11, <1>12, <1>13, <1>14, <1>15, <1>16, <1>17, <1>18, <1>19, <1>20, <1>21, <1>22
  DEF Calls, CallerStep

-----------------------------------------------------------------------------
(* Type correctness *)

LEMMA InitType == Init => TypeInv
<1>. SUFFICES ASSUME Init PROVE TypeInv
  OBVIOUS
<1>. USE RepositoryAssumption, BrokerAssumption DEF Init
<1>1. RepositoryTypeOK /\ OwnTasks /\ \A t \in TaskID : ~Exists(task[t])
  <2>1. NoJobRow \in JobRow
    BY DEF NoJobRow, JobRow, NoParent
  <2>2. job \in [JobID -> JobRow]
    BY <2>1
  <2>3. task \in [TaskID -> TaskRow] /\ \A t \in TaskID : ~Exists(task[t])
    BY DEF TaskRow, Exists
  <2>. QED BY <2>2, <2>3 DEF RepositoryTypeOK, OwnTasks
<1>2. FaultsTypeOK
  BY DEF FaultsInit, FaultsTypeOK
<1>3. BrokerTypeOK(TaskID)
  <2>1. log \in [Partitions -> Seq(TaskID)]
    <3>1. <<>> \in Seq(TaskID)
      OBVIOUS
    <3>. QED BY <3>1
  <2>. QED BY <2>1 DEF BrokerTypeOK
<1>4. JobFinalizerTypeOK /\ Visiting
  BY DEF JobFinalizerInit, JobFinalizerTypeOK, Visiting, Resting, FinalizerState, FinalizerPC
<1>5. JobExecutorTypeOK /\ CallerInv
  <2>1. "idle" \in CallerPC /\ 0 \in 0..MaxTasks /\ {} \in SUBSET TaskID
    BY DEF CallerPC
  <2>2. JobExecutorTypeOK
    BY <2>1 DEF JobExecutorInit, JobExecutorTypeOK, CallerState
  <2>3. \A c \in Callers : Len(CallRefs[c]) \in Nat
    BY JobExecutorAssumption
  <2>. QED BY <2>2, <2>3 DEF JobExecutorInit, CallerInv, CallerOK, Holding, Starting
<1>6. TaskExecutorTypeOK /\ HoldsMessage
  BY DEF TaskExecutorInit, TaskExecutorTypeOK, HoldsMessage, Waiting, WorkerState, WorkerPC, Status
<1>7. CallInv /\ WorkInv
  BY <1>1, <1>2, <1>3, <1>4, <1>5, <1>6 DEF CallInv, SharedInv, FinalizerInv, WorkInv
<1>8. WrittenTasks
  BY DEF WrittenTasks, Written
<1>9. HeldTasks /\ DueTasks
  BY DEF HeldTasks, DueTasks, TaskExecutorInit, Waiting, JobExecutorInit
<1>. QED BY <1>7, <1>8, <1>9 DEF TypeInv, KnownTasks

\* The steps, by component.
LEMMA NextCases ==
  ASSUME [Next]_vars
  PROVE  \/ \E c \in Callers : Calls(c) /\ UNCHANGED workerVars
         \/ \E c \in Consumers : ConsumerStep(c) /\ UNCHANGED <<finalizerVars, caller>>
         \/ /\ RebalanceGroup \/ \E c \in Consumers : CrashConsumer(c)
            /\ UNCHANGED <<finalizerVars, caller>>
         \/ \E f \in Finalizers :
              /\ \/ FinalizerStep(f) \/ CrashFinalizer(f)
                 \/ \E n \in Registered : CheckJobCompletions(f, n)
              /\ UNCHANGED <<brokerVars, workerVars, caller>>
         \/ \E j \in JobID : Terminate(j)
         \/ UNCHANGED vars
<1>1. ASSUME NEW c \in Callers, Fire(c) \/ Refire(c) \/ CallerNext(c)
      PROVE  Calls(c) /\ UNCHANGED workerVars
  BY <1>1 DEF Fire, Refire, CallerNext, Calls
<1>2. ASSUME NEW c \in Callers, CrashCaller(c) /\ UNCHANGED workerVars
      PROVE  Calls(c) /\ UNCHANGED workerVars
  BY <1>2 DEF Calls
<1>. QED BY <1>1, <1>2 DEF Next, Fault, ConsumerNext, FinalizerNext, Tick

\* What a finalizer does to the rows, and to the others.
LEMMA FinalizerChanges ==
  ASSUME TypeInv, NEW f \in Finalizers,
         \/ FinalizerStep(f) \/ CrashFinalizer(f)
         \/ \E n \in Registered : CheckJobCompletions(f, n)
  PROVE  FinalizerEffects(f) /\ Updated
BY TypeFacts, FinalizerSteps, FinalizerUpdates

\* The consumers as others leave them.
LEMMA WorkKept ==
  ASSUME TypeInv, SharedInv', UNCHANGED workerVars
  PROVE  WorkInv'
BY DEF TypeInv, WorkInv, SharedInv, workerVars, TaskExecutorTypeOK, HoldsMessage

LEMMA KnownKept ==
  ASSUME TypeInv, Updated, UNCHANGED <<log, workerVars, caller>>
  PROVE  KnownTasks'
<1>1. \A t \in TaskID : Exists(task'[t]) <=> Exists(task[t])
  BY DEF Updated
<1>2. WorkInv /\ WrittenTasks /\ HeldTasks /\ DueTasks
  BY DEF TypeInv, KnownTasks
<1>3. WrittenTasks'
  BY <1>1, <1>2 DEF WrittenTasks, Written
<1>4. HeldTasks'
  BY <1>1, <1>2, WorkerFacts DEF HeldTasks, workerVars
<1>5. DueTasks'
  BY <1>1, <1>2 DEF DueTasks, TypeInv, CallInv, JobExecutorTypeOK, CallerState
<1>. QED BY <1>3, <1>4, <1>5 DEF KnownTasks

\* A consumer that crashed, or a partition given to another one.
LEMMA DropsOut ==
  ASSUME TypeInv, RebalanceGroup \/ \E c \in Consumers : CrashConsumer(c)
  PROVE  /\ UNCHANGED <<repositoryVars, log, executed>>
         /\ \A c \in Consumers : worker'[c] = worker[c] \/ worker'[c] = Waiting
<1>1. CASE RebalanceGroup
  BY <1>1 DEF RebalanceGroup, Rebalance, workerVars
<1>2. ASSUME NEW c \in Consumers, CrashConsumer(c)
      PROVE  /\ UNCHANGED <<repositoryVars, log, executed>>
             /\ \A d \in Consumers : worker'[d] = worker[d] \/ worker'[d] = Waiting
  BY <1>2 DEF CrashConsumer, Rejoin, Become, TypeInv, WorkInv, TaskExecutorTypeOK
<1>. QED BY <1>1, <1>2

LEMMA ConsumerUpdates ==
  ASSUME TypeInv, NEW c \in Consumers, ConsumerStep(c), UNCHANGED <<finalizerVars, caller>>
  PROVE  WorkInv' /\ Updated /\ job' = job /\ KnownTasks'
<1>1. WorkInv' /\ job' = job
  BY ConsumerType DEF TypeInv
<1>2. KnownTasks' /\ \A t \in TaskID : Exists(task'[t]) <=> Exists(task[t])
  BY ConsumerKnown
<1>3. OwnTasks' /\ RepositoryTypeOK'
  BY <1>1, <1>2, TypeFacts DEF OwnTasks, WorkInv
<1>. QED BY <1>1, <1>2, <1>3 DEF Updated

LEMMA TypeStep == ASSUME TypeInv, [Next]_vars PROVE TypeInv'
<1>0. SharedInv /\ CallInv /\ WorkInv
  BY TypeFacts DEF TypeInv
<1>a. ASSUME Updated, WorkInv', KnownTasks', FinalizerInv', UNCHANGED caller PROVE TypeInv'
  <2>1. BrokerTypeOK(TaskID)' /\ FaultsTypeOK'
    BY <1>a DEF WorkInv
  <2>2. SharedInv' /\ Grows
    BY <1>0, <1>a, <2>1, SharedKept
  <2>3. CallInv'
    BY <1>0, <1>a, <2>2, CallKept
  <2>. QED BY <1>a, <2>3 DEF TypeInv
<1>b. ASSUME Updated, FinalizerInv', FaultsTypeOK', UNCHANGED <<brokerVars, workerVars, caller>>
      PROVE  TypeInv'
  <2>1. BrokerTypeOK(TaskID)'
    BY <1>0, <1>b, UnchangedShared
  <2>2. SharedInv'
    BY <1>0, <1>b, <2>1, SharedKept
  <2>3. WorkInv'
    BY <1>b, <2>2, WorkKept
  <2>4. KnownTasks'
    BY <1>b, KnownKept DEF brokerVars
  <2>. QED BY <1>a, <1>b, <2>3, <2>4
<1>1. ASSUME NEW c \in Callers, Calls(c), UNCHANGED workerVars PROVE TypeInv'
  <2>1. CallInv'
    BY <1>0, <1>1, CallerTypeStep DEF Calls
  <2>2. KnownTasks'
    BY <1>1, CallerKnown
  <2>3. WorkInv'
    BY <1>1, <2>1, WorkKept DEF CallInv
  <2>. QED BY <2>1, <2>2, <2>3 DEF TypeInv
<1>2. ASSUME NEW c \in Consumers, ConsumerStep(c), UNCHANGED <<finalizerVars, caller>> PROVE TypeInv'
  <2>1. FinalizerInv'
    BY <1>0, <1>2, UnchangedShared
  <2>. QED BY <1>2, <1>a, <2>1, ConsumerUpdates
<1>3. ASSUME RebalanceGroup \/ \E c \in Consumers : CrashConsumer(c), UNCHANGED <<finalizerVars, caller>>
      PROVE  TypeInv'
  <2>1. WorkInv'
    BY <1>0, <1>3, ConsumerType
  <2>2. FinalizerInv' /\ Updated
    BY <1>0, <1>3, DropsOut, UnchangedShared
  <2>3. WrittenTasks' /\ DueTasks'
    BY <1>3, DropsOut DEF TypeInv, KnownTasks, WrittenTasks, DueTasks, Written, repositoryVars
  <2>4. HeldTasks'
    BY <1>3, DropsOut DEF TypeInv, KnownTasks, HeldTasks, repositoryVars, Waiting
  <2>. QED BY <1>3, <1>a, <2>1, <2>2, <2>3, <2>4 DEF KnownTasks
<1>4. ASSUME NEW f \in Finalizers, UNCHANGED <<brokerVars, workerVars, caller>>,
             \/ FinalizerStep(f) \/ CrashFinalizer(f)
             \/ \E n \in Registered : CheckJobCompletions(f, n)
      PROVE  TypeInv'
  BY <1>4, <1>b, FinalizerChanges DEF FinalizerEffects
<1>5. ASSUME NEW j \in JobID, Terminate(j) PROVE TypeInv'
  <2>1. Updated
    BY <1>0, <1>5, CancelRows DEF Terminate, SharedInv
  <2>. QED BY <1>0, <1>5, <1>b, <2>1, UnchangedShared DEF Terminate
<1>6. CASE UNCHANGED vars
  BY <1>0, <1>6, <1>b, UnchangedShared DEF vars
<1>. QED BY <1>1, <1>2, <1>3, <1>4, <1>5, <1>6, NextCases

LEMMA TypeInvariant == Spec => []TypeInv
BY InitType, TypeStep, PTL DEF Spec

\* Rows, Kafka, callers, consumers and finalizers stay well-typed while runs
\* are created, published, consumed and finalized at once: every message is of
\* a task that has a row, every call works on a row that exists.
THEOREM SchedulingTypeCorrect == Spec => []TypeOK
<1>1. TypeInv => TypeOK
  BY TypeFacts DEF TypeInv, CallInv, SharedInv, FinalizerInv, TypeOK
<1>. QED BY TypeInvariant, <1>1, PTL

-----------------------------------------------------------------------------
(* What a finalizer concludes *)

LEMMA TasksFinite == ASSUME NEW j PROVE IsFiniteSet(TasksOf(j))
<1>1. IsFiniteSet(JobID)
  BY RepositoryAssumption, FS_Interval DEF JobID
<1>2. IsFiniteSet(0..(MaxTasks - 1))
  BY RepositoryAssumption, FS_Interval
<1>3. IsFiniteSet(TaskID)
  BY <1>1, <1>2, FS_Product DEF TaskID
<1>. QED BY <1>3, FS_Subset DEF TasksOf

\* The counters of GetTaskStatusSummary add up to COMPLETED only if every
\* task of the job is.
LEMMA SummaryCompleted ==
  ASSUME NEW j,
         jobStatusToAction(resolveJobTerminalStatusFromSummary(GetTaskStatusSummary(j))).dst = "COMPLETED",
         resolveJobTerminalStatusFromSummary(GetTaskStatusSummary(j)) # NotReady
  PROVE  \A t \in TasksOf(j) : task[t].status = "COMPLETED"
<1>. DEFINE done == {t \in TasksOf(j) : task[t].status = "COMPLETED"}
            s == GetTaskStatusSummary(j)
            o == resolveJobTerminalStatusFromSummary(s)
<1>1. s.total = Cardinality(TasksOf(j)) /\ s.completed = Cardinality(done)
  BY DEF GetTaskStatusSummary
<1>2. o = "COMPLETED"
  <2>1. o \in TerminalOutcomes
    BY DEF resolveJobTerminalStatusFromSummary, TerminalOutcomes
  <2>2. jobStatusToAction(o).dst = "COMPLETED"
    OBVIOUS
  <2>. HIDE DEF o
  <2>. QED BY <2>1, <2>2 DEF TerminalOutcomes, jobStatusToAction, jobTransitions
<1>. HIDE DEF s
<1>3. s.total = 0 \/ s.completed = s.total
  BY <1>2 DEF resolveJobTerminalStatusFromSummary, NotReady
<1>. HIDE DEF done
<1>4. TasksOf(j) = {} \/ done = TasksOf(j)
  <2>1. done \subseteq TasksOf(j)
    BY DEF done
  <2>2. IsFiniteSet(TasksOf(j))
    BY TasksFinite
  <2>3. CASE s.total = 0
    BY <1>1, <2>2, <2>3, FS_EmptySet
  <2>4. CASE s.completed = s.total
    BY <1>1, <2>1, <2>2, <2>4, FS_Subset
  <2>. QED BY <1>3, <2>3, <2>4
<1>. QED BY <1>4 DEF done

\* Where a finalizer gets to, and with what.
LEMMA FinalizerArrives ==
  ASSUME TypeInv, NEW f \in Finalizers,
         \/ FinalizerStep(f) \/ CrashFinalizer(f)
         \/ \E n \in Registered : CheckJobCompletions(f, n)
  PROVE  /\ fin'[f].pc = "summary" => job[fin'[f].job].status = "RUNNING"
         /\ fin'[f].pc = "cas" =>
              /\ fin[f].pc = "summary" /\ fin'[f].job = fin[f].job
              /\ fin'[f].outcome = "COMPLETED" =>
                   \A t \in TasksOf(fin[f].job) : task[t].status = "COMPLETED"
         /\ fin'[f].pc = "hook" =>
              fin[f].pc = "cas" /\ fin'[f].job = fin[f].job /\ fin'[f].outcome = fin[f].outcome
<1>. DEFINE Goal == /\ fin'[f].pc = "summary" => job[fin'[f].job].status = "RUNNING"
                    /\ fin'[f].pc = "cas" =>
                         /\ fin[f].pc = "summary" /\ fin'[f].job = fin[f].job
                         /\ fin'[f].outcome = "COMPLETED" =>
                              \A t \in TasksOf(fin[f].job) : task[t].status = "COMPLETED"
                    /\ fin'[f].pc = "hook" =>
                         fin[f].pc = "cas" /\ fin'[f].job = fin[f].job /\ fin'[f].outcome = fin[f].outcome
<1>. SUFFICES Goal
  OBVIOUS
<1>0. FinalizerInv /\ fin \in [Finalizers -> FinalizerState] /\ fin[f] \in FinalizerState
  BY TypeFacts DEF FinalizerInv, JobFinalizerTypeOK
<1>1. fin'[f].pc \in {"idle", "next"} => Goal
  OBVIOUS
<1>2. finished' = finished /\ Visited(f) => Goal
  BY <1>0, <1>1, VisitedMoves DEF FinalizerInv, JobFinalizerTypeOK
<1>3. CASE FindJob(f)
  <2>1. PICK j \in fin[f].todo :
          LET rest == [fin[f] EXCEPT !.todo = @ \ {j}] IN
          \/ /\ job[j].status = "RUNNING"
             /\ fin' = [fin EXCEPT ![f] = [rest EXCEPT !.pc = "summary", !.job = j]]
          \/ fin' = [fin EXCEPT ![f] = IF rest.todo = {} THEN Resting ELSE rest]
    BY <1>3 DEF FindJob
  <2>2. fin[f].pc = "next"
    BY <1>3 DEF FindJob, FinAt
  <2>3. CASE job[j].status = "RUNNING"
             /\ fin' = [fin EXCEPT ![f] = [[fin[f] EXCEPT !.todo = @ \ {j}] EXCEPT !.pc = "summary", !.job = j]]
    <3>1. fin'[f].pc = "summary" /\ fin'[f].job = j
      BY <1>0, <2>3 DEF FinalizerState
    <3>. QED BY <2>3, <3>1
  <2>4. CASE fin' = [fin EXCEPT ![f] = IF [fin[f] EXCEPT !.todo = @ \ {j}].todo = {} THEN Resting
                                       ELSE [fin[f] EXCEPT !.todo = @ \ {j}]]
    <3>1. fin'[f].pc \in {"idle", "next"}
      BY <1>0, <2>2, <2>4 DEF FinalizerState, Resting
    <3>. QED BY <1>1, <3>1
  <2>. QED BY <2>1, <2>3, <2>4
<1>4. CASE Summarize(f)
  <2>. DEFINE outcome == resolveJobTerminalStatusFromSummary(GetTaskStatusSummary(fin[f].job))
              act == jobStatusToAction(outcome).dst
  <2>1. /\ finished' = finished /\ fin[f].pc = "summary"
        /\ \/ outcome # NotReady /\ fin' = [fin EXCEPT ![f].pc = "cas", ![f].outcome = act]
           \/ Visited(f)
    BY <1>4 DEF Summarize, FinAt
  <2>2. outcome # NotReady /\ act = "COMPLETED" =>
          \A t \in TasksOf(fin[f].job) : task[t].status = "COMPLETED"
    BY SummaryCompleted
  <2>. HIDE DEF outcome, act
  <2>3. CASE outcome # NotReady /\ fin' = [fin EXCEPT ![f].pc = "cas", ![f].outcome = act]
    <3>1. fin'[f].pc = "cas" /\ fin'[f].job = fin[f].job /\ fin'[f].outcome = act
      BY <1>0, <2>3 DEF FinalizerState
    <3>. QED BY <2>1, <2>2, <2>3, <3>1
  <2>. HIDE DEF Goal
  <2>. QED BY <1>2, <2>1, <2>3
<1>5. CASE FinalizeRunningJob(f)
  <2>1. /\ finished' = finished /\ fin[f].pc = "cas"
        /\ fin' = [fin EXCEPT ![f].pc = "hook"] \/ Visited(f)
    BY <1>5 DEF FinalizeRunningJob, FinAt
  <2>2. CASE fin' = [fin EXCEPT ![f].pc = "hook"]
    <3>1. fin'[f].pc = "hook" /\ fin'[f].job = fin[f].job /\ fin'[f].outcome = fin[f].outcome
      BY <1>0, <2>2 DEF FinalizerState
    <3>. QED BY <2>1, <3>1
  <2>. HIDE DEF Goal
  <2>. QED BY <1>2, <2>1, <2>2
<1>6. CASE FireHook(f)
  <2>1. fin'[f].pc \in {"idle", "next"}
    BY <1>0, <1>6 DEF FireHook, Visited, Resting
  <2>. QED BY <1>1, <2>1
<1>7. CASE CrashFinalizer(f)
  BY <1>0, <1>7 DEF CrashFinalizer, Resting
<1>8. CASE \E n \in Registered : CheckJobCompletions(f, n)
  <2>1. fin'[f].pc = "next"
    BY <1>0, <1>8 DEF CheckJobCompletions, Resting
  <2>. QED BY <1>1, <2>1
<1>. HIDE DEF Goal
<1>. QED BY <1>3, <1>4, <1>5, <1>6, <1>7, <1>8 DEF FinalizerStep

-----------------------------------------------------------------------------
(* CompletedMeansExecuted *)

\* Rows and executions only come to more.
Carried ==
  /\ Stays /\ Grows
  /\ \A t \in TaskID : executed[t] \in Nat /\ executed'[t] \in Nat /\ executed'[t] >= executed[t]

LEMMA AllExecutedStays ==
  ASSUME Carried, NEW j \in JobID, Exists(job[j]), AllExecuted(j)
  PROVE  AllExecuted(j)'
<1>. SUFFICES ASSUME NEW t \in TaskID, t[1] = j, Exists(task'[t]) PROVE executed'[t] > 0
  BY DEF AllExecuted
<1>1. executed[t] > 0
  BY DEF Carried, Stays, AllExecuted
<1>. QED BY <1>1 DEF Carried

\* What those know that do not take part in a step.
LEMMA ExecutedKept ==
  ASSUME TypeInv, ExecutedInv, Carried
  PROVE  /\ \A c \in Consumers : worker'[c] = worker[c] => HandlerExecuted(c)'
         /\ \A c \in Callers : caller'[c] = caller[c] => CallerExecuted(c)'
         /\ \A f \in Finalizers : fin'[f] = fin[f] => FinalizerExecuted(f)'
<1>1. ASSUME NEW c \in Consumers, worker'[c] = worker[c] PROVE HandlerExecuted(c)'
  <2>1. HandlerExecuted(c)
    BY DEF ExecutedInv
  <2>2. CASE worker[c].pc = "complete"
    <3>1. worker[c].task \in TaskID /\ executed[worker[c].task] > 0
      BY <2>1, <2>2, WorkerFacts DEF HandlerExecuted, TypeInv
    <3>2. executed'[worker[c].task] > 0
      BY <3>1 DEF Carried
    <3>. QED BY <1>1, <2>2, <3>2 DEF HandlerExecuted
  <2>3. CASE worker[c].pc = "dispatch" /\ worker[c].jobStatus = "COMPLETED"
    <3>1. worker[c].task \in TaskID /\ Exists(task[worker[c].task])
      BY <2>3, WorkerFacts DEF TypeInv, KnownTasks, HeldTasks
    <3>2. PICK j \in JobID : j = worker[c].task[1]
      BY <3>1, TaskBelongs
    <3>3. Exists(job[j]) /\ AllExecuted(j)
      BY <2>1, <2>3, <3>1, <3>2, TypeFacts DEF HandlerExecuted, OwnTasks
    <3>4. AllExecuted(j)'
      BY <3>3, AllExecutedStays
    <3>. QED BY <1>1, <2>3, <3>2, <3>4 DEF HandlerExecuted
  <2>. QED BY <1>1, <2>2, <2>3 DEF HandlerExecuted
<1>2. ASSUME NEW c \in Callers, caller'[c] = caller[c] PROVE CallerExecuted(c)'
  <2>1. CASE caller[c].pc \in Holding /\ caller[c].status = "COMPLETED"
    <3>1. caller[c].job \in JobID /\ Exists(job[caller[c].job]) /\ AllExecuted(caller[c].job)
      BY <2>1 DEF TypeInv, CallInv, CallerInv, CallerOK, ExecutedInv, CallerExecuted
    <3>2. PICK j \in JobID : j = caller[c].job
      BY <3>1
    <3>3. AllExecuted(j)'
      BY <3>1, <3>2, AllExecutedStays
    <3>. QED BY <1>2, <3>2, <3>3 DEF CallerExecuted
  <2>. QED BY <1>2, <2>1 DEF CallerExecuted
<1>3. ASSUME NEW f \in Finalizers, fin'[f] = fin[f] PROVE FinalizerExecuted(f)'
  <2>1. FinalizerExecuted(f) /\ Visiting
    BY TypeFacts DEF ExecutedInv, FinalizerInv
  <2>2. fin[f].pc \in {"summary", "cas", "hook"} =>
          fin[f].job \in JobID /\ Exists(job[fin[f].job]) /\ Exists(job'[fin[f].job])
    BY <2>1 DEF FinalizerExecuted, Visiting, Carried, Grows
  <2>3. CASE fin[f].pc \in {"cas", "hook"} /\ fin[f].outcome = "COMPLETED"
    <3>1. PICK j \in JobID : j = fin[f].job
      BY <2>2, <2>3
    <3>2. AllExecuted(j)'
      BY <2>1, <2>2, <2>3, <3>1, AllExecutedStays DEF FinalizerExecuted
    <3>. QED BY <1>3, <2>2, <2>3, <3>1, <3>2 DEF FinalizerExecuted
  <2>. QED BY <1>3, <2>2, <2>3 DEF FinalizerExecuted
<1>. QED BY <1>1, <1>2, <1>3

\* What a step has to show: that what it writes as COMPLETED was executed, and
\* that those who take part in it know what they should.
LEMMA AssembleExecuted ==
  ASSUME TypeInv, ExecutedInv, Carried,
         \A t \in TaskID : task'[t].status = "COMPLETED" =>
           task[t].status = "COMPLETED" \/ executed'[t] > 0,
         \A j \in JobID : job'[j].status = "COMPLETED" =>
           job[j].status = "COMPLETED" \/ AllExecuted(j)',
         \A c \in Consumers : worker'[c] = worker[c] \/ HandlerExecuted(c)',
         \A c \in Callers : caller'[c] = caller[c] \/ CallerExecuted(c)',
         \A f \in Finalizers : fin'[f] = fin[f] \/ FinalizerExecuted(f)'
  PROVE  ExecutedInv'
<1>1. \A t \in TaskID : task'[t].status = "COMPLETED" => executed'[t] > 0
  BY DEF ExecutedInv, RowsExecuted, Carried
<1>2. ASSUME NEW j \in JobID, job[j].status = "COMPLETED" PROVE AllExecuted(j)'
  <2>1. AllExecuted(j) /\ Exists(job[j])
    BY <1>2 DEF ExecutedInv, RowsExecuted, Exists, Absent
  <2>. QED BY <2>1, AllExecutedStays
<1>3. RowsExecuted'
  BY <1>1, <1>2 DEF RowsExecuted
<1>. QED BY <1>3, ExecutedKept DEF ExecutedInv

LEMMA UpdatedCarried ==
  ASSUME TypeInv, Updated, UNCHANGED executed
  PROVE  Carried
BY DEF Updated, Carried, Stays, Grows, TypeInv, WorkInv, TaskExecutorTypeOK

\* A consumer: it writes COMPLETED after an execution, or over the task of a
\* run that is COMPLETED.
LEMMA HandlerExecutes ==
  ASSUME TypeInv, ExecutedInv, NEW c \in Consumers, ConsumerStep(c), UNCHANGED <<finalizerVars, caller>>
  PROVE  ExecutedInv'
<1>0. WorkInv /\ Updated /\ job' = job /\ fin' = fin
  BY ConsumerUpdates DEF TypeInv, finalizerVars
<1>1. CASE Fetch(c) \/ PublishRetry(c)
  <2>1. /\ Alone(c) /\ worker'[c].pc \in {"loadTask", "commit"}
        /\ UNCHANGED <<task, executed>>
    BY <1>0, <1>1, FetchEffect, PublishRetryEffect DEF GoesOn
  <2>2. Carried
    BY <1>0, <2>1, UpdatedCarried
  <2>3. HandlerExecuted(c)'
    BY <2>1 DEF HandlerExecuted
  <2>4. \A d \in Consumers : worker'[d] = worker[d] \/ HandlerExecuted(d)'
    BY <2>1, <2>3 DEF Alone
  <2>. QED BY <1>0, <2>1, <2>2, <2>4, AssembleExecuted
<1>2. CASE HandlerStep(c)
  <2>1. Steady(c) /\ worker[c].pc # "fetch"
    BY <1>0, <1>2, HandlerSteady DEF Steady
  <2>2. PICK u \in TaskID : u = worker[c].task
    BY <1>0, <2>1, WorkerFacts
  <2>3. PICK j \in JobID : j = u[1]
    BY TaskBelongs
  <2>4. Exists(task[u]) /\ Exists(job[j]) /\ executed \in [TaskID -> Nat]
    BY <2>1, <2>2, <2>3, TypeFacts
    DEF TypeInv, KnownTasks, HeldTasks, OwnTasks, TaskExecutorTypeOK
  <2>5. executed' = executed \/ executed' = [executed EXCEPT ![u] = @ + 1]
    BY <1>0, <1>2, <2>2, HandlerArrives
  <2>6. \A t \in TaskID : executed[t] \in Nat /\ executed'[t] \in Nat /\ executed'[t] >= executed[t]
    BY <2>4, <2>5
  <2>7. Carried
    BY <1>0, <2>6 DEF Carried, Updated, Stays, Grows
  <2>8. HandlerExecuted(c)
    BY DEF ExecutedInv
  <2>9. task'[u].status = "COMPLETED" => task[u].status = "COMPLETED" \/ executed[u] > 0
    <3>1. CASE worker[c].pc = "complete"
      BY <2>2, <2>8, <3>1 DEF HandlerExecuted
    <3>2. CASE worker[c].pc = "dispatch" /\ worker[c].jobStatus = "COMPLETED"
      BY <2>2, <2>3, <2>4, <2>8, <3>2 DEF HandlerExecuted, AllExecuted
    <3>. QED BY <1>0, <1>2, <2>2, <3>1, <3>2, HandlerWrites
  <2>10. \A t \in TaskID : task'[t].status = "COMPLETED" =>
           task[t].status = "COMPLETED" \/ executed'[t] > 0
    <3>1. \A t \in TaskID : t # u => task'[t] = task[t]
      BY <2>1, <2>2 DEF Steady, OtherRows
    <3>2. executed[u] > 0 => executed'[u] > 0
      BY <2>6
    <3>. QED BY <2>9, <3>1, <3>2
  <2>11. worker'[c].pc = "complete" => executed'[worker'[c].task] > 0
    <3>1. CASE executed' = [executed EXCEPT ![u] = @ + 1] /\ worker'[c].task = u
      BY <2>4, <3>1
    <3>. QED BY <1>0, <1>2, <2>2, <3>1, HandlerArrives
  <2>12. worker'[c].pc = "dispatch" /\ worker'[c].jobStatus = "COMPLETED" =>
           worker'[c].task = u /\ AllExecuted(j)'
    <3>. SUFFICES ASSUME worker'[c].pc = "dispatch", worker'[c].jobStatus = "COMPLETED"
                  PROVE  worker'[c].task = u /\ AllExecuted(j)'
      OBVIOUS
    <3>1. worker'[c].task = u /\ job[j].status = "COMPLETED"
      BY <1>0, <1>2, <2>2, <2>3, HandlerArrives
    <3>2. AllExecuted(j)
      BY <3>1 DEF ExecutedInv, RowsExecuted
    <3>. QED BY <2>4, <2>7, <3>1, <3>2, AllExecutedStays
  <2>13. HandlerExecuted(c)'
    BY <2>3, <2>11, <2>12 DEF HandlerExecuted, AllExecuted
  <2>14. \A d \in Consumers : worker'[d] = worker[d] \/ HandlerExecuted(d)'
    BY <2>1, <2>13 DEF Steady, Alone
  <2>. QED BY <1>0, <2>7, <2>10, <2>14, AssembleExecuted
<1>. QED BY <1>1, <1>2, ConsumerCases

\* A caller: it writes a status over the tasks of a run when it read that the
\* run has ended with it, creates tasks of a new run, or cancels tasks.
LEMMA CallerWrites ==
  ASSUME TypeInv, NEW c \in Callers, Calls(c), NEW t \in TaskID
  PROVE  \/ task'[t].status = task[t].status
         \/ /\ caller[c].pc = "flow" /\ ~IsExecutionPending(caller[c].status)
            /\ task'[t].status = caller[c].status
            /\ t[1] = caller[c].job /\ Exists(task[t])
         \/ ~Exists(job[t[1]]) /\ task'[t].status \in {"PENDING", "REJECTED"}
         \/ task'[t].status = "CANCELLED"
<1>0. CallInv /\ CallerOK(c) /\ RepositoryTypeOK
  BY TypeFacts DEF TypeInv, CallInv, CallerInv
<1>1. CASE UNCHANGED task
  BY <1>1
<1>2. CASE PersistTriggerFailure(c) /\ task' # task
  <2>1. PICK s : task' = [u \in TaskID |-> IF u[1] = NextID /\ u[2] < 0
                                  THEN [status |-> s, attempt |-> 1] ELSE task[u]]
    BY <1>2 DEF PersistTriggerFailure, CreateJobAndTasks, repositoryVars
  <2>2. ~(t[2] < 0)
    BY TaskBelongs
  <2>. QED BY <2>1, <2>2
<1>3. CASE CreateRun(c) /\ task' # task
  <2>. DEFINE s == setInitialTaskStatus(caller[c].status)
  <2>1. /\ FreeIDs # {}
        /\ task' = [u \in TaskID |-> IF u[1] = NextID /\ u[2] < caller[c].size
                                     THEN [status |-> s, attempt |-> 1] ELSE task[u]]
    BY <1>3 DEF CreateRun, CreateJobAndTasks, repositoryVars
  <2>2. caller[c].status \in {"PENDING", "REJECTED"}
    BY <1>0, <1>3 DEF CreateRun, CallAt, CallerOK
  <2>3. s \in {"PENDING", "REJECTED"}
    BY <2>2 DEF setInitialTaskStatus, IsExecutionPending, NonTerminalJobStates
  <2>4. ~Exists(job[NextID])
    BY <2>1, NextIDFree DEF FreeIDs
  <2>. HIDE DEF s
  <2>. QED BY <2>1, <2>3, <2>4
<1>4. CASE SyncTasks(c) /\ task' # task
  <2>1. /\ caller[c].pc = "flow" /\ UpdateTasksStatus(TasksOf(caller[c].job), caller[c].status)
        /\ ~IsExecutionPending(caller[c].status)
    BY <1>4 DEF SyncTasks, CallAt
  <2>2. t \in TasksOf(caller[c].job) \/ task'[t] = task[t]
    BY <2>1 DEF UpdateTasksStatus
  <2>3. t \in TasksOf(caller[c].job) => task'[t].status = caller[c].status
    BY <1>0, <2>1 DEF UpdateTasksStatus, RepositoryTypeOK, TaskRow
  <2>. QED BY <2>1, <2>2, <2>3 DEF TasksOf
<1>5. CASE CancelOthers(c) /\ task' # task
  BY <1>0, <1>5 DEF CancelOthers, CancelPreviousJobs, repositoryVars, RepositoryTypeOK, TaskRow
<1>6. Trigger(c) \/ (\E j \in JobID : RetryTriggerJob(c, j)) \/ Redeliver(c) \/ CrashCaller(c)
        => UNCHANGED task
  BY DEF Trigger, RetryTriggerJob, NextCall, Redeliver, CrashCaller, repositoryVars
<1>7. FindExisting(c) \/ FindExistingTasks(c) \/ Split(c) \/ RecheckRef(c) \/ AlreadyRunning(c)
        => UNCHANGED task
  BY DEF FindExisting, FindExistingTasks, Split, RecheckRef, AlreadyRunning, repositoryVars
<1>8. BeginPublish(c) \/ PublishTask(c) \/ MarkFailed(c) \/ StartJob(c) \/ EndFinalize(c)
        => UNCHANGED task
  BY DEF BeginPublish, PublishTask, MarkFailed, StartJob, EndFinalize, repositoryVars
<1>. QED BY <1>1, <1>2, <1>3, <1>4, <1>5, <1>6, <1>7, <1>8 DEF Calls, CallerStep

\* ... and never writes COMPLETED over a run's.
LEMMA CallerJobs ==
  ASSUME NEW c \in Callers, Kind(c), NEW j \in JobID, job'[j].status = "COMPLETED"
  PROVE  job[j].status = "COMPLETED"
<1>1. BeginsNext(c) \/ BeginsAgain(c) \/ Reads(c) \/ Misses(c) => job' = job
  BY DEF BeginsNext, BeginsAgain, Reads, Misses
<1>2. (\E k \in JobID : Hits(c, k)) => job' = job
  BY DEF Hits
<1>3. CASE Marks(c)
  BY <1>3 DEF Marks, SetsStatus
<1>4. CASE Cancels(c)
  BY <1>4 DEF Cancels
<1>5. ASSUME NEW k \in JobID, NEW status \in Status, NEW failure \in BOOLEAN, NEW n \in 0..MaxTasks,
             Inserts(c, k, status, failure, n)
      PROVE  job[j].status = "COMPLETED"
  <2>1. NewJob(c, status, failure).status = status /\ status # "COMPLETED"
    BY <1>5 DEF Inserts, NewJob
  <2>. QED BY <1>5, <2>1 DEF Inserts, Inserted
<1>. QED BY <1>1, <1>2, <1>3, <1>4, <1>5 DEF Kind

\* A caller knows a run's status from a row, or has kept it.
LEMMA CallerKnows ==
  ASSUME TypeInv, ExecutedInv, Carried, NEW c \in Callers, Kind(c)
  PROVE  Others(c) /\ CallerExecuted(c)'
<1>0. CallerExecuted(c) /\ CallerOK(c) /\ RowsExecuted
  BY DEF ExecutedInv, TypeInv, CallInv, CallerInv
<1>1. CASE caller'[c].pc \notin Holding /\ Others(c)
  BY <1>1 DEF CallerExecuted
<1>2. CASE Quiet(c)
  <2>. SUFFICES ASSUME caller'[c].pc \in Holding, caller'[c].status = "COMPLETED"
                PROVE  AllExecuted(caller[c].job)' /\ Others(c)
    BY <1>2 DEF Quiet, CallerExecuted
  <2>1. /\ caller[c].pc \in Holding /\ caller'[c].job = caller[c].job
        /\ caller[c].status = "COMPLETED" /\ Others(c)
    BY <1>2 DEF Quiet
  <2>2. PICK j \in JobID : j = caller[c].job
    BY <1>0, <2>1 DEF CallerOK
  <2>3. Exists(job[j]) /\ AllExecuted(j)
    BY <1>0, <2>1, <2>2 DEF CallerOK, CallerExecuted
  <2>4. AllExecuted(j)'
    BY <2>3, AllExecutedStays
  <2>. QED BY <2>1, <2>2, <2>4 DEF AllExecuted
<1>3. ASSUME NEW j \in JobID, Hits(c, j) PROVE Others(c) /\ CallerExecuted(c)'
  <2>1. /\ Others(c) /\ caller'[c].job = j /\ caller'[c].status = job[j].status /\ Exists(job[j])
    BY <1>3 DEF Hits
  <2>2. job[j].status = "COMPLETED" => AllExecuted(j)'
    BY <1>0, <2>1, AllExecutedStays DEF RowsExecuted
  <2>. QED BY <2>1, <2>2 DEF CallerExecuted, AllExecuted
<1>4. CASE \E k \in JobID : \E status \in Status : \E failure \in BOOLEAN : \E n \in 0..MaxTasks :
             Inserts(c, k, status, failure, n)
  <2>1. Others(c) /\ (caller'[c].pc = "idle" \/ caller'[c].status # "COMPLETED")
    BY <1>4 DEF Inserts
  <2>. QED BY <2>1 DEF CallerExecuted, Holding
<1>5. BeginsNext(c) \/ BeginsAgain(c) => Others(c) /\ caller'[c].pc \notin Holding
  BY DEF BeginsNext, BeginsAgain, Begins, Holding
<1>6. Misses(c) => Others(c) /\ caller'[c].pc \notin Holding
  BY DEF Misses, Holding
<1>7. Reads(c) \/ Marks(c) \/ Cancels(c) => Quiet(c)
  BY DEF Reads, Marks, Cancels
<1>. QED BY <1>1, <1>2, <1>3, <1>4, <1>5, <1>6, <1>7 DEF Kind

LEMMA CallerExecutes ==
  ASSUME TypeInv, ExecutedInv, NEW c \in Callers, Calls(c), UNCHANGED workerVars
  PROVE  ExecutedInv'
<1>1. Kind(c) /\ (UNCHANGED finalizerVars \/ Restarts(c)) /\ Grows
  BY CallerKinds, CallerTypeStep DEF TypeInv, Calls
<1>2. Carried
  BY <1>1, CallerKnown DEF Carried, workerVars, TypeInv, WorkInv, TaskExecutorTypeOK
<1>3. Others(c) /\ CallerExecuted(c)'
  BY <1>1, <1>2, CallerKnows
<1>4. \A d \in Callers : caller'[d] = caller[d] \/ CallerExecuted(d)'
  BY <1>3 DEF Others
<1>5. \A f \in Finalizers : fin'[f] = fin[f] \/ FinalizerExecuted(f)'
  <2>1. Restarts(c) => FinalizerExecuted(c)'
    BY DEF Restarts, FinalizerExecuted
  <2>. QED BY <1>1, <2>1 DEF Restarts, finalizerVars
<1>6. \A t \in TaskID : task'[t].status = "COMPLETED" =>
        task[t].status = "COMPLETED" \/ executed'[t] > 0
  <2>. SUFFICES ASSUME NEW t \in TaskID, task'[t].status = "COMPLETED", task[t].status # "COMPLETED"
                PROVE  executed'[t] > 0
    OBVIOUS
  <2>1. /\ caller[c].pc = "flow" /\ caller[c].status = "COMPLETED"
        /\ t[1] = caller[c].job /\ Exists(task[t])
    BY CallerWrites
  <2>2. executed[t] > 0
    BY <2>1 DEF ExecutedInv, CallerExecuted, Holding, AllExecuted
  <2>. QED BY <2>2 DEF workerVars
<1>7. \A j \in JobID : job'[j].status = "COMPLETED" => job[j].status = "COMPLETED"
  BY <1>1, CallerJobs
<1>8. \A d \in Consumers : worker'[d] = worker[d]
  BY DEF workerVars
<1>. QED BY <1>2, <1>4, <1>5, <1>6, <1>7, <1>8, AssembleExecuted

\* A finalizer: it writes COMPLETED when it has counted as many completed tasks
\* as there are.
LEMMA FinalizerExecutes ==
  ASSUME TypeInv, ExecutedInv, NEW f \in Finalizers, UNCHANGED <<brokerVars, workerVars, caller>>,
         \/ FinalizerStep(f) \/ CrashFinalizer(f)
         \/ \E n \in Registered : CheckJobCompletions(f, n)
  PROVE  ExecutedInv'
<1>1. FinalizerEffects(f) /\ Updated /\ task' = task /\ FinalizerInv'
  BY FinalizerChanges DEF FinalizerEffects
<1>2. executed' = executed /\ worker' = worker
  BY DEF workerVars
<1>3. Carried
  BY <1>1, <1>2, UpdatedCarried
<1>4. FinalizerExecuted(f) /\ RowsExecuted /\ Visiting
  BY TypeFacts DEF ExecutedInv, FinalizerInv
<1>5. ASSUME NEW j \in JobID, job'[j].status = "COMPLETED", job[j].status # "COMPLETED"
      PROVE  AllExecuted(j)'
  <2>1. FinalizerHits(f)
    BY <1>1, <1>5 DEF FinalizerEffects, FinalizerReads, FinalizerAnnounces
  <2>2. j = fin[f].job /\ fin[f].pc = "cas" /\ fin[f].outcome = "COMPLETED"
    <3>1. job \in [JobID -> JobRow]
      BY TypeFacts DEF RepositoryTypeOK
    <3>. QED BY <1>5, <2>1, <3>1 DEF FinalizerHits, JobRow
  <2>3. AllExecuted(j) /\ Exists(job[j])
    BY <1>4, <2>2 DEF FinalizerExecuted
  <2>. QED BY <1>3, <2>3, AllExecutedStays
<1>6. fin'[f].pc \in {"summary", "cas", "hook"} => fin'[f].job \in JobID /\ Exists(job[fin'[f].job])
  <2>1. fin'[f].pc \in {"summary", "cas", "hook"} => fin'[f].job \in JobID
    BY <1>1 DEF FinalizerInv, Visiting
  <2>2. fin'[f].pc = "summary" => Exists(job[fin'[f].job])
    BY FinalizerArrives DEF Exists, Absent
  <2>3. fin'[f].pc \in {"cas", "hook"} => Exists(job[fin'[f].job])
    BY <1>4, FinalizerArrives DEF FinalizerExecuted
  <2>. QED BY <2>1, <2>2, <2>3
<1>7. ASSUME fin'[f].pc \in {"cas", "hook"}, fin'[f].outcome = "COMPLETED"
      PROVE  AllExecuted(fin[f].job) /\ fin'[f].job = fin[f].job
  <2>1. CASE fin'[f].pc = "hook"
    BY <1>4, <1>7, <2>1, FinalizerArrives DEF FinalizerExecuted
  <2>2. CASE fin'[f].pc = "cas"
    <3>1. fin'[f].job = fin[f].job /\ \A t \in TasksOf(fin[f].job) : task[t].status = "COMPLETED"
      BY <1>7, <2>2, FinalizerArrives
    <3>. QED BY <1>4, <3>1 DEF RowsExecuted, AllExecuted, TasksOf
  <2>. QED BY <1>7, <2>1, <2>2
<1>8. FinalizerExecuted(f)'
  <2>1. fin'[f].pc \in {"summary", "cas", "hook"} => Exists(job'[fin'[f].job])
    BY <1>6, <1>3 DEF Carried, Grows
  <2>2. ASSUME fin'[f].pc \in {"cas", "hook"}, fin'[f].outcome = "COMPLETED"
        PROVE  \A t \in TaskID : t[1] = fin'[f].job /\ Exists(task'[t]) => executed'[t] > 0
    BY <1>1, <1>2, <1>7, <2>2 DEF AllExecuted
  <2>. QED BY <2>1, <2>2 DEF FinalizerExecuted, AllExecuted
<1>9. \A g \in Finalizers : fin'[g] = fin[g] \/ FinalizerExecuted(g)'
  BY <1>1, <1>8 DEF FinalizerEffects
<1>. QED BY <1>1, <1>2, <1>3, <1>5, <1>9, AssembleExecuted

LEMMA ExecutedStep == ASSUME TypeInv, ExecutedInv, [Next]_vars PROVE ExecutedInv'
<1>1. ASSUME RebalanceGroup \/ \E c \in Consumers : CrashConsumer(c), UNCHANGED <<finalizerVars, caller>>
      PROVE  ExecutedInv'
  <2>1. /\ UNCHANGED <<job, task, executed, fin, caller>>
        /\ \A c \in Consumers : worker'[c] = worker[c] \/ worker'[c] = Waiting
    BY <1>1, DropsOut DEF repositoryVars, finalizerVars
  <2>2. Updated
    BY <2>1, TypeFacts, UnchangedRows DEF repositoryVars
  <2>3. Carried
    BY <2>1, <2>2, UpdatedCarried
  <2>4. \A c \in Consumers : worker'[c] = Waiting => HandlerExecuted(c)'
    BY DEF HandlerExecuted, Waiting
  <2>. QED BY <2>1, <2>3, <2>4, AssembleExecuted
<1>2. ASSUME NEW j \in JobID, Terminate(j) PROVE ExecutedInv'
  <2>0. RepositoryTypeOK /\ OwnTasks
    BY TypeFacts
  <2>1. /\ UNCHANGED <<worker, executed, fin, caller>> /\ TerminateJob(j)
    BY <1>2 DEF Terminate, workerVars, finalizerVars
  <2>2. Updated /\ \A k \in JobID : job'[k].status = "COMPLETED" => job[k].status = "COMPLETED"
    BY <2>0, <2>1, CancelRows
  <2>3. \A t \in TaskID : task'[t].status = "COMPLETED" => task[t].status = "COMPLETED"
    BY <2>0, <2>1 DEF TerminateJob, RepositoryTypeOK, TaskRow
  <2>4. Carried
    BY <2>1, <2>2, UpdatedCarried
  <2>. QED BY <2>1, <2>2, <2>3, <2>4, AssembleExecuted
<1>3. CASE UNCHANGED vars
  <2>1. UNCHANGED <<job, task, worker, executed, fin, caller>>
    BY <1>3 DEF vars, repositoryVars, workerVars, finalizerVars
  <2>2. Updated
    BY <2>1, TypeFacts, UnchangedRows DEF repositoryVars
  <2>3. Carried
    BY <2>1, <2>2, UpdatedCarried
  <2>. QED BY <2>1, <2>3, AssembleExecuted
<1>. QED BY <1>1, <1>2, <1>3, HandlerExecutes, CallerExecutes, FinalizerExecutes, NextCases

LEMMA InitExecuted == Init => ExecutedInv
<1>. SUFFICES ASSUME Init PROVE ExecutedInv
  OBVIOUS
<1>1. RowsExecuted
  BY DEF Init, RowsExecuted, NoJobRow, Absent
<1>2. (\A c \in Consumers : HandlerExecuted(c)) /\ (\A c \in Callers : CallerExecuted(c))
  BY DEF Init, TaskExecutorInit, JobExecutorInit, HandlerExecuted, CallerExecuted, Waiting, Holding
<1>3. \A f \in Finalizers : FinalizerExecuted(f)
  BY DEF Init, JobFinalizerInit, FinalizerExecuted, Resting
<1>. QED BY <1>1, <1>2, <1>3 DEF ExecutedInv

\* A run is COMPLETED only if the user's code ran for every one of its tasks,
\* whichever caller published it, in whatever order its messages were consumed
\* and whoever crashed: no chain of stale reads (a handler that writes the
\* status of the job over the task's, a caller that writes it over all tasks, a
\* finalizer that counts them) makes a run COMPLETED that was not executed.
THEOREM CompletedMeansExecutedHolds == Spec => []CompletedMeansExecuted
<1>1. ExecutedInv => CompletedMeansExecuted
  BY DEF ExecutedInv, RowsExecuted, AllExecuted, CompletedMeansExecuted, TasksOf
<1>2. TypeInv /\ ExecutedInv /\ [Next]_vars => ExecutedInv'
  BY ExecutedStep
<1>. QED BY <1>1, <1>2, InitExecuted, TypeInvariant, PTL DEF Spec

-----------------------------------------------------------------------------
(* Whose run it is *)

\* Triggers with one reference are fired by one caller, one after the other: a
\* cron job takes its reference from the id of the asynq task, which asynq gives
\* once and whose retries follow one another; a client of Service.Trigger picks
\* its own.
OwnRefs ==
  \A c, d \in Callers : c # d =>
    \A i \in 1..Len(CallRefs[c]) : \A k \in 1..Len(CallRefs[d]) : CallRefs[c][i] # CallRefs[d][k]

\* A caller holds the run of its own reference; ...
Owned(c) == caller[c].pc \in Holding => job[caller[c].job].ref = RefID(c)

\* ... one that it read as PENDING is so still, unless somebody cancelled it.
Unstarted(c) ==
  caller[c].pc \in Holding \ {"finalize"} /\ caller[c].status = "PENDING" =>
    job[caller[c].job].status \in {"PENDING", "CANCELLED"}

OwnInv ==
  /\ \A j \in JobID : Exists(job[j]) => job[j].name \in Registered
  /\ \A c \in Callers : Owned(c) /\ Unstarted(c)

\* What may become of a run's status, apart from what its own caller does.
Ages(j) ==
  \/ job'[j].status = job[j].status
  \/ job[j].status \in {"PENDING", "RUNNING"} /\ job'[j].status = "CANCELLED"
  \/ job[j].status = "RUNNING" /\ job'[j].status \in TerminalOutcomes

\* A step that is not a caller's.
Apart == UNCHANGED caller /\ Updated /\ \A j \in JobID : Ages(j)

LEMMA NextKinds ==
  ASSUME TypeInv, [Next]_vars
  PROVE  Apart \/ \E c \in Callers : Calls(c) /\ Kind(c) /\ UNCHANGED workerVars
<1>0. RepositoryTypeOK /\ OwnTasks
  BY TypeFacts
<1>1. ASSUME NEW c \in Callers, Calls(c) PROVE Kind(c)
  BY <1>1, CallerKinds DEF Calls, TypeInv
<1>2. ASSUME NEW c \in Consumers, ConsumerStep(c), UNCHANGED <<finalizerVars, caller>> PROVE Apart
  BY <1>2, ConsumerUpdates DEF Apart, Ages
<1>3. ASSUME RebalanceGroup \/ \E c \in Consumers : CrashConsumer(c), UNCHANGED <<finalizerVars, caller>>
      PROVE  Apart
  BY <1>0, <1>3, DropsOut, UnchangedRows DEF Apart, Ages
<1>4. ASSUME NEW f \in Finalizers, UNCHANGED <<brokerVars, workerVars, caller>>,
             \/ FinalizerStep(f) \/ CrashFinalizer(f)
             \/ \E n \in Registered : CheckJobCompletions(f, n)
      PROVE  Apart
  <2>1. FinalizerEffects(f) /\ Updated
    BY <1>4, FinalizerChanges
  <2>2. job' = job \/ FinalizerHits(f)
    BY <2>1 DEF FinalizerEffects, FinalizerReads, FinalizerAnnounces
  <2>3. \A j \in JobID : Ages(j)
    BY <1>0, <2>2 DEF FinalizerHits, Ages, RepositoryTypeOK, JobRow
  <2>. QED BY <1>4, <2>1, <2>3 DEF Apart
<1>5. ASSUME NEW j \in JobID, Terminate(j) PROVE Apart
  <2>1. /\ Updated
        /\ \A k \in JobID : \/ job'[k] = job[k]
                            \/ job[k].status \in {"PENDING", "RUNNING"} /\ job'[k].status = "CANCELLED"
    BY <1>0, <1>5, CancelRows DEF Terminate
  <2>. QED BY <1>5, <2>1 DEF Apart, Ages, Terminate
<1>6. CASE UNCHANGED vars
  BY <1>0, <1>6, UnchangedRows DEF Apart, Ages, vars
<1>. QED BY <1>1, <1>2, <1>3, <1>4, <1>5, <1>6, NextCases

\* Two callers never hold the same run.
LEMMA OwnRuns ==
  ASSUME OwnRefs, TypeInv, OwnInv, NEW c \in Callers, NEW d \in Callers, c # d,
         caller[c].pc \in Holding, caller[d].pc \in Holding
  PROVE  caller[c].job # caller[d].job
<1>1. ASSUME NEW e \in Callers, caller[e].pc \in Holding
      PROVE  caller[e].turn \in 1..Len(CallRefs[e]) /\ job[caller[e].job].ref = CallRefs[e][caller[e].turn]
  <2>1. CallerOK(e) /\ caller[e] \in CallerState /\ CallRefs[e] \in Seq(Refs) /\ caller[e].pc # "idle"
    BY <1>1, CallFacts DEF TypeInv, Holding
  <2>2. caller[e].turn \in Nat /\ Len(CallRefs[e]) \in Nat
    BY <2>1 DEF CallerState
  <2>3. caller[e].turn >= 1 /\ caller[e].turn <= Len(CallRefs[e])
    BY <2>1 DEF CallerOK
  <2>4. Owned(e)
    BY DEF OwnInv
  <2>. QED BY <1>1, <2>2, <2>3, <2>4 DEF Owned, RefID
<1>2. PICK i \in 1..Len(CallRefs[c]) : job[caller[c].job].ref = CallRefs[c][i]
  BY <1>1
<1>3. PICK k \in 1..Len(CallRefs[d]) : job[caller[d].job].ref = CallRefs[d][k]
  BY <1>1
<1>4. CallRefs[c][i] # CallRefs[d][k]
  BY Zenon DEF OwnRefs
<1>. QED BY <1>2, <1>3, <1>4

\* The run of a caller that marks it is PENDING, or was cancelled meanwhile.
LEMMA MarksOwn ==
  ASSUME OwnInv, NEW c \in Callers, Marks(c)
  PROVE  /\ caller[c].pc \in Holding \ {"finalize"} /\ caller[c].job \in JobID
         /\ job[caller[c].job].status \in {"PENDING", "CANCELLED"}
<1>1. /\ caller[c].pc \in {"markFailed", "start"} /\ caller[c].job \in JobID
      /\ caller[c].status = "PENDING"
  BY DEF Marks
<1>2. caller[c].pc \in Holding \ {"finalize"}
  BY <1>1 DEF Holding
<1>. QED BY <1>1, <1>2 DEF OwnInv, Unstarted

LEMMA KindAges ==
  ASSUME NEW c \in Callers, Kind(c), NEW j \in JobID, Exists(job[j])
  PROVE  Ages(j) \/ (Marks(c) /\ j = caller[c].job)
<1>1. BeginsNext(c) \/ BeginsAgain(c) \/ Reads(c) \/ Misses(c) => job' = job
  BY DEF BeginsNext, BeginsAgain, Reads, Misses
<1>2. (\E k \in JobID : Hits(c, k)) => job' = job
  BY DEF Hits
<1>3. CASE Marks(c)
  BY <1>3 DEF Marks, SetsStatus, Ages
<1>4. CASE Cancels(c)
  BY <1>4 DEF Cancels, Ages
<1>5. ASSUME NEW k \in JobID, NEW status \in Status, NEW failure \in BOOLEAN, NEW n \in 0..MaxTasks,
             Inserts(c, k, status, failure, n)
      PROVE  Ages(j)
  BY <1>5 DEF Inserts, Inserted, Ages
<1>. QED BY <1>1, <1>2, <1>3, <1>4, <1>5 DEF Kind, Ages

LEMMA OwnStep ==
  ASSUME OwnRefs, TypeInv, OwnInv, [Next]_vars
  PROVE  OwnInv'
<1>. DEFINE Names1 == \A j \in JobID : Exists(job'[j]) => job'[j].name \in Registered
<1>0. \A d \in Callers : CallerOK(d) /\ Owned(d) /\ Unstarted(d)
  BY DEF OwnInv, TypeInv, CallInv, CallerInv
<1>1. Updated => Names1
  BY DEF Updated, OwnInv
\* A caller that keeps its run, whose status ages.
<1>2. ASSUME NEW d \in Callers, caller'[d].turn = caller[d].turn,
             caller'[d].pc \in Holding =>
               caller[d].pc \in Holding /\ caller'[d].job = caller[d].job,
             \A j \in JobID : Exists(job[j]) => job'[j].ref = job[j].ref
      PROVE  Owned(d)'
  <2>. SUFFICES ASSUME caller'[d].pc \in Holding
                PROVE  job'[caller[d].job].ref = CallRefs[d][caller[d].turn]
    BY <1>2 DEF Owned, RefID
  <2>. QED BY <1>0, <1>2 DEF Owned, RefID, CallerOK
<1>3. ASSUME NEW d \in Callers,
             caller'[d].pc \in Holding \ {"finalize"} =>
               /\ caller[d].pc \in Holding \ {"finalize"} /\ caller'[d].job = caller[d].job
               /\ caller'[d].status = caller[d].status /\ Ages(caller[d].job)
      PROVE  Unstarted(d)'
  <2>. SUFFICES ASSUME caller'[d].pc \in Holding \ {"finalize"}, caller'[d].status = "PENDING"
                PROVE  job'[caller'[d].job].status \in {"PENDING", "CANCELLED"}
    BY DEF Unstarted
  <2>. QED BY <1>0, <1>3 DEF Unstarted, Ages
<1>4. CASE Apart
  <2>1. \A d \in Callers : caller[d].pc \in Holding => Ages(caller[d].job)
    BY <1>0, <1>4 DEF Apart, CallerOK
  <2>2. \A d \in Callers : Owned(d)' /\ Unstarted(d)'
    BY <1>2, <1>3, <1>4, <2>1 DEF Apart, Updated
  <2>. QED BY <1>1, <1>4, <2>2 DEF OwnInv, Apart
<1>5. ASSUME NEW c \in Callers, Kind(c) PROVE OwnInv'
  <2>1. /\ Others(c)
        /\ \A j \in JobID : Exists(job[j]) => job'[j].ref = job[j].ref
    <3>1. BeginsNext(c) \/ BeginsAgain(c) => Updated /\ Others(c)
      BY DEF BeginsNext, BeginsAgain, Begins
    <3>2. Reads(c) \/ Marks(c) \/ Cancels(c) \/ Misses(c) => Updated /\ Others(c)
      BY DEF Reads, Marks, Cancels, Misses, Quiet
    <3>3. (\E j \in JobID : Hits(c, j)) => Updated /\ Others(c)
      BY DEF Hits
    <3>4. ASSUME NEW k \in JobID, NEW status \in Status, NEW failure \in BOOLEAN, NEW n \in 0..MaxTasks,
                 Inserts(c, k, status, failure, n)
          PROVE  Others(c) /\ \A j \in JobID : Exists(job[j]) => job'[j] = job[j]
      BY <3>4 DEF Inserts, Inserted
    <3>5. CASE Updated /\ Others(c)
      BY <3>5 DEF Updated
    <3>. QED BY <1>5, <3>1, <3>2, <3>3, <3>4, <3>5 DEF Kind
  <2>2. ASSUME NEW d \in Callers, d # c PROVE Owned(d)' /\ Unstarted(d)'
    <3>1. caller'[d] = caller[d]
      BY <2>1, <2>2 DEF Others
    <3>2. caller[d].pc \in Holding => Ages(caller[d].job)
      <4>. SUFFICES ASSUME caller[d].pc \in Holding PROVE Ages(caller[d].job)
        OBVIOUS
      <4>1. PICK j \in JobID : j = caller[d].job
        BY <1>0 DEF CallerOK
      <4>2. Exists(job[j])
        BY <1>0, <4>1 DEF CallerOK
      <4>3. ~(Marks(c) /\ j = caller[c].job)
        BY <2>2, <4>1, MarksOwn, OwnRuns
      <4>. QED BY <1>5, <4>1, <4>2, <4>3, KindAges
    <3>. QED BY <1>2, <1>3, <2>1, <3>1, <3>2
  <2>. DEFINE Goal == Names1 /\ Owned(c)' /\ Unstarted(c)'
  <2>. SUFFICES Goal
    BY <2>2 DEF OwnInv
  <2>3. CASE BeginsNext(c) \/ BeginsAgain(c) \/ Misses(c)
    <3>1. Updated /\ caller'[c].pc \notin Holding
      BY <2>3 DEF BeginsNext, BeginsAgain, Begins, Misses, Holding
    <3>2. Owned(c)' /\ Unstarted(c)'
      BY <3>1 DEF Owned, Unstarted
    <3>. QED BY <1>1, <3>1, <3>2
  <2>4. CASE Reads(c) \/ Marks(c) \/ Cancels(c)
    <3>1. Quiet(c)
      BY <2>4 DEF Reads, Marks, Cancels
    <3>2. Owned(c)'
      BY <1>2, <2>1, <3>1 DEF Quiet, SameCall
    <3>3. caller'[c].pc \in Holding \ {"finalize"} => ~Marks(c)
      BY DEF Marks, Holding
    <3>4. caller'[c].pc \in Holding \ {"finalize"} => Ages(caller[c].job)
      <4>. SUFFICES ASSUME caller'[c].pc \in Holding \ {"finalize"} PROVE Ages(caller[c].job)
        OBVIOUS
      <4>1. PICK j \in JobID : j = caller[c].job
        BY <1>0, <3>1 DEF CallerOK, Quiet
      <4>2. Exists(job[j])
        BY <1>0, <3>1, <4>1 DEF CallerOK, Quiet
      <4>. QED BY <1>5, <3>3, <4>1, <4>2, KindAges
    <3>5. Unstarted(c)'
      BY <1>3, <3>1, <3>4 DEF Quiet
    <3>. QED BY <1>1, <3>1, <3>2, <3>5 DEF Quiet
  <2>5. ASSUME NEW j \in JobID, Hits(c, j) PROVE Goal
    <3>1. /\ Updated /\ job' = job /\ caller'[c].job = j /\ caller'[c].status = job[j].status
          /\ job[j].ref = CallRefs[c][caller'[c].turn]
      BY <2>5 DEF Hits, SameCall
    <3>2. Owned(c)' /\ Unstarted(c)'
      BY <3>1 DEF Owned, Unstarted, RefID
    <3>. QED BY <1>1, <3>1, <3>2
  <2>6. ASSUME NEW k \in JobID, NEW status \in Status, NEW failure \in BOOLEAN, NEW n \in 0..MaxTasks,
               Inserts(c, k, status, failure, n)
        PROVE  Goal
    <3>1. /\ job'[k] = NewJob(c, status, failure) /\ SameCall(c)
          /\ \A j \in JobID : j # k => job'[j] = job[j]
          /\ \/ caller'[c].pc = "idle"
             \/ caller'[c].pc = "flow" /\ caller'[c].job = k /\ caller'[c].status = status
      BY <2>6 DEF Inserts, Inserted
    <3>2. job'[k].name = CallName[c] /\ job'[k].ref = RefID(c) /\ job'[k].status = status
      BY <3>1 DEF NewJob
    <3>3. Names1
      BY <3>1, <3>2, JobExecutorAssumption DEF OwnInv
    <3>4. Owned(c)' /\ Unstarted(c)'
      BY <3>1, <3>2 DEF Owned, Unstarted, RefID, SameCall, Holding
    <3>. QED BY <3>3, <3>4
  <2>. HIDE DEF Goal
  <2>. QED BY <1>5, <2>3, <2>4, <2>5, <2>6 DEF Kind
<1>. QED BY <1>4, <1>5, NextKinds

LEMMA InitOwn == Init => OwnInv
BY DEF Init, NoJobRow, JobExecutorInit, OwnInv, Owned, Unstarted, Exists, Holding

-----------------------------------------------------------------------------
(* Runs that end PARTIAL_FAILED *)

Partial(j) == job[j].status = "PARTIAL_FAILED"

\* The status is one of jobs: a task has it only from a handler or a caller
\* that read it off the task's run, and the run has it still.
PartialInv ==
  /\ \A t \in TaskID : task[t].status = "PARTIAL_FAILED" => Partial(t[1])
  /\ \A c \in Consumers : worker[c].pc = "dispatch" /\ worker[c].jobStatus = "PARTIAL_FAILED" =>
       Partial(worker[c].task[1])
  /\ \A c \in Callers : caller[c].pc \in Holding /\ caller[c].status = "PARTIAL_FAILED" =>
       Partial(caller[c].job)

LEMMA PartialStays ==
  ASSUME TypeInv, OwnInv, [Next]_vars, NEW j \in JobID, Partial(j)
  PROVE  Partial(j)'
<1>1. Exists(job[j])
  BY DEF Partial, Exists, Absent
<1>2. CASE Ages(j)
  BY <1>2 DEF Ages, Partial
<1>3. ASSUME NEW c \in Callers, Kind(c) PROVE Ages(j)
  BY <1>1, <1>3, KindAges, MarksOwn DEF Partial
<1>. QED BY <1>2, <1>3, NextKinds DEF Apart

LEMMA PartialStep ==
  ASSUME TypeInv, OwnInv, PartialInv, [Next]_vars
  PROVE  PartialInv'
<1>. DEFINE Rows == \A t \in TaskID : task'[t].status = "PARTIAL_FAILED" =>
                      task[t].status = "PARTIAL_FAILED" \/ Partial(t[1])
            Hand(c) == worker'[c].pc = "dispatch" /\ worker'[c].jobStatus = "PARTIAL_FAILED" =>
                         \E j \in JobID : j = worker'[c].task[1] /\ Partial(j)
            Call(c) == caller'[c].pc \in Holding /\ caller'[c].status = "PARTIAL_FAILED" =>
                         \E j \in JobID : j = caller'[c].job /\ (Partial(j) \/ Partial(j)')
<1>0. WorkInv /\ RepositoryTypeOK /\ OwnTasks
  BY TypeFacts DEF TypeInv
<1>1. ASSUME Rows, \A c \in Consumers : Hand(c), \A c \in Callers : Call(c)
      PROVE  PartialInv'
  <2>1. \A t \in TaskID : task'[t].status = "PARTIAL_FAILED" => Partial(t[1])'
    BY <1>1, PartialStays, TaskBelongs DEF PartialInv
  <2>2. \A c \in Consumers : worker'[c].pc = "dispatch" /\ worker'[c].jobStatus = "PARTIAL_FAILED" =>
          job'[worker'[c].task[1]].status = "PARTIAL_FAILED"
    BY <1>1, PartialStays DEF Partial
  <2>3. \A c \in Callers : caller'[c].pc \in Holding /\ caller'[c].status = "PARTIAL_FAILED" =>
          job'[caller'[c].job].status = "PARTIAL_FAILED"
    BY <1>1, PartialStays DEF Partial
  <2>. QED BY <2>1, <2>2, <2>3 DEF PartialInv, Partial
<1>2. ASSUME NEW c \in Consumers, worker'[c] = worker[c] PROVE Hand(c)
  BY <1>0, <1>2, WorkerFacts, TaskBelongs DEF PartialInv
<1>3. ASSUME NEW c \in Callers, caller'[c] = caller[c] PROVE Call(c)
  <2>1. CallerOK(c)
    BY DEF TypeInv, CallInv, CallerInv
  <2>. QED BY <1>3, <2>1 DEF PartialInv, CallerOK
<1>4. UNCHANGED worker => \A c \in Consumers : Hand(c)
  BY <1>2
<1>5. UNCHANGED caller => \A c \in Callers : Call(c)
  BY <1>3
<1>6. UNCHANGED task => Rows
  OBVIOUS
<1>7. ASSUME NEW c \in Callers, Calls(c), UNCHANGED workerVars PROVE PartialInv'
  <2>0. Kind(c) /\ CallerOK(c)
    BY <1>7, CallerKinds DEF Calls, TypeInv, CallInv, CallerInv
  <2>1. Rows
    <3>. SUFFICES ASSUME NEW t \in TaskID, task'[t].status = "PARTIAL_FAILED",
                         task[t].status # "PARTIAL_FAILED"
                  PROVE  Partial(t[1])
      OBVIOUS
    <3>1. caller[c].pc = "flow" /\ caller[c].status = "PARTIAL_FAILED" /\ t[1] = caller[c].job
      BY <1>7, CallerWrites
    <3>. QED BY <3>1 DEF PartialInv, Holding
  <2>2. Others(c) /\ Call(c)
    <3>1. CASE Quiet(c)
      BY <2>0, <3>1 DEF Quiet, PartialInv, CallerOK
    <3>2. ASSUME NEW j \in JobID, Hits(c, j) PROVE Others(c) /\ Call(c)
      <4>1. Others(c) /\ caller'[c].job = j /\ caller'[c].status = job[j].status
        BY <3>2 DEF Hits
      <4>. QED BY <4>1 DEF Partial
    <3>3. CASE \E k \in JobID : \E status \in Status : \E failure \in BOOLEAN : \E n \in 0..MaxTasks :
                 Inserts(c, k, status, failure, n)
      <4>1. Others(c) /\ (caller'[c].pc = "idle" \/ caller'[c].status # "PARTIAL_FAILED")
        BY <3>3 DEF Inserts
      <4>. QED BY <4>1 DEF Holding
    <3>4. BeginsNext(c) \/ BeginsAgain(c) \/ Misses(c) => Others(c) /\ caller'[c].pc \notin Holding
      BY DEF BeginsNext, BeginsAgain, Begins, Misses, Holding
    <3>5. Reads(c) \/ Marks(c) \/ Cancels(c) => Quiet(c)
      BY DEF Reads, Marks, Cancels
    <3>. QED BY <2>0, <3>1, <3>2, <3>3, <3>4, <3>5 DEF Kind
  <2>3. \A d \in Callers : Call(d)
    BY <1>3, <2>2 DEF Others
  <2>. HIDE DEF Rows, Hand, Call
  <2>. QED BY <1>1, <1>4, <1>7, <2>1, <2>3 DEF workerVars
<1>8. ASSUME NEW c \in Consumers, HandlerStep(c), UNCHANGED caller PROVE PartialInv'
  <2>1. Steady(c) /\ worker[c].task \in TaskID
    BY <1>0, <1>8, HandlerSteady, WorkerFacts DEF Steady
  <2>2. Rows
    <3>1. CASE UNCHANGED task
      BY <3>1
    <3>2. CASE task' # task
      <4>1. task'[worker[c].task].status = "PARTIAL_FAILED" =>
              worker[c].pc = "dispatch" /\ worker[c].jobStatus = "PARTIAL_FAILED"
        BY <1>0, <1>8, <3>2, HandlerWrites DEF Verdicts
      <4>2. \A t \in TaskID : t # worker[c].task => task'[t] = task[t]
        BY <2>1 DEF Steady, OtherRows
      <4>. QED BY <4>1, <4>2 DEF PartialInv
    <3>. QED BY <3>1, <3>2
  <2>3. Hand(c)
    <3>. SUFFICES ASSUME worker'[c].pc = "dispatch", worker'[c].jobStatus = "PARTIAL_FAILED"
                  PROVE  worker[c].task[1] \in JobID /\ worker'[c].task = worker[c].task
                         /\ Partial(worker[c].task[1])
      OBVIOUS
    <3>. QED BY <1>0, <1>8, <2>1, HandlerArrives, TaskBelongs DEF Partial
  <2>4. \A d \in Consumers : Hand(d)
    BY <1>2, <2>1, <2>3 DEF Steady, Alone
  <2>. HIDE DEF Rows, Hand, Call
  <2>. QED BY <1>1, <1>5, <1>8, <2>2, <2>4
<1>9. ASSUME NEW c \in Consumers, Fetch(c) \/ PublishRetry(c), UNCHANGED caller PROVE PartialInv'
  <2>1. task' = task /\ Alone(c) /\ worker'[c].pc # "dispatch"
    BY <1>0, <1>9, FetchEffect, PublishRetryEffect DEF GoesOn
  <2>2. \A d \in Consumers : Hand(d)
    BY <1>2, <2>1 DEF Alone
  <2>. HIDE DEF Rows, Hand, Call
  <2>. QED BY <1>1, <1>5, <1>6, <1>9, <2>1, <2>2
<1>10. ASSUME RebalanceGroup \/ \E c \in Consumers : CrashConsumer(c), UNCHANGED caller PROVE PartialInv'
  <2>1. task' = task /\ \A c \in Consumers : worker'[c] = worker[c] \/ worker'[c].pc # "dispatch"
    BY <1>10, DropsOut DEF repositoryVars, Waiting
  <2>2. \A d \in Consumers : Hand(d)
    BY <1>2, <2>1
  <2>. HIDE DEF Rows, Hand, Call
  <2>. QED BY <1>1, <1>5, <1>6, <1>10, <2>1, <2>2
<1>11. ASSUME UNCHANGED <<worker, caller>>, Rows PROVE PartialInv'
  <2>. HIDE DEF Rows, Hand, Call
  <2>. QED BY <1>1, <1>4, <1>5, <1>11
<1>12. ASSUME NEW f \in Finalizers, UNCHANGED <<brokerVars, workerVars, caller>>,
             \/ FinalizerStep(f) \/ CrashFinalizer(f)
             \/ \E n \in Registered : CheckJobCompletions(f, n)
      PROVE  PartialInv'
  <2>1. task' = task
    BY <1>12, FinalizerChanges DEF FinalizerEffects
  <2>. HIDE DEF Rows, Hand, Call
  <2>. QED BY <1>6, <1>11, <1>12, <2>1 DEF workerVars
<1>13. ASSUME NEW j \in JobID, Terminate(j) PROVE PartialInv'
  <2>1. Rows
    BY <1>0, <1>13 DEF Terminate, TerminateJob, RepositoryTypeOK, TaskRow
  <2>. HIDE DEF Rows, Hand, Call
  <2>. QED BY <1>11, <1>13, <2>1 DEF Terminate, workerVars
<1>14. CASE UNCHANGED vars
  BY <1>11, <1>14 DEF vars, repositoryVars, workerVars
<1>. QED BY <1>7, <1>8, <1>9, <1>10, <1>12, <1>13, <1>14, ConsumerCases, NextCases

LEMMA InitPartial == Init => PartialInv
BY DEF Init, PartialInv, TaskExecutorInit, JobExecutorInit, Waiting, Holding, Absent

-----------------------------------------------------------------------------
(* Who will come back to a task of a run *)

\* No step un-spends a fault.
LEMMA FaultsStay ==
  ASSUME TypeInv, [Next]_vars
  PROVE  \A k \in FaultKind : Never(k)' => Never(k)
<1>0. WorkInv /\ FaultsTypeOK /\ CallInv
  BY TypeFacts DEF TypeInv
<1>1. ASSUME NEW k \in FaultKind, Spend(k) PROVE \A x \in FaultKind : Never(x)' => Never(x)
  BY <1>0, <1>1, SpendFacts
<1>2. UNCHANGED spent => \A x \in FaultKind : Never(x)' => Never(x)
  BY DEF Never
<1>3. ASSUME NEW c \in Callers, Calls(c) PROVE \A k \in FaultKind : Never(k)' => Never(k)
  <2>1. Trigger(c) \/ (\E j \in JobID : RetryTriggerJob(c, j)) \/ Redeliver(c) => UNCHANGED spent
    BY DEF Trigger, RetryTriggerJob, Redeliver, NextCall
  <2>. QED BY <1>0, <1>2, <1>3, <2>1, CallerFaults DEF Calls
<1>4. ASSUME NEW c \in Consumers, ConsumerStep(c) \/ CrashConsumer(c)
      PROVE  \A k \in FaultKind : Never(k)' => Never(k)
  BY <1>1, <1>2, <1>4, ConsumerSpends DEF CrashConsumer, FaultKind
<1>5. RebalanceGroup => \A k \in FaultKind : Never(k)' => Never(k)
  BY <1>1 DEF RebalanceGroup, Rebalance, FaultKind
<1>6. ASSUME NEW f \in Finalizers,
             \/ FinalizerStep(f) \/ CrashFinalizer(f)
             \/ \E n \in Registered : CheckJobCompletions(f, n)
      PROVE  \A k \in FaultKind : Never(k)' => Never(k)
  BY <1>6, FinalizerChanges DEF FinalizerEffects
<1>7. (\E j \in JobID : Terminate(j)) \/ UNCHANGED vars => UNCHANGED spent
  BY DEF Terminate, vars
<1>. QED BY <1>2, <1>3, <1>4, <1>5, <1>6, <1>7, NextCases

\* What a caller does to Kafka: nothing, or it publishes one of its tasks.
LEMMA CallerKafka ==
  ASSUME TypeInv, NEW c \in Callers, Calls(c)
  PROVE  \/ UNCHANGED brokerVars
         \/ \E t \in TaskID : PublishTask(c) /\ Publish(t, TaskPartitions)
<1>1. CASE PublishTask(c)
  <2>1. caller[c].tasks \subseteq TaskID
    BY DEF TypeInv, CallInv, JobExecutorTypeOK, CallerState
  <2>2. PICK t \in caller[c].tasks : Publish(t, TaskPartitions) \/ UNCHANGED brokerVars
    BY <1>1 DEF PublishTask
  <2>. QED BY <1>1, <2>1, <2>2
<1>2. Trigger(c) \/ (\E j \in JobID : RetryTriggerJob(c, j)) \/ Redeliver(c) \/ CrashCaller(c)
        => UNCHANGED brokerVars
  BY DEF Trigger, RetryTriggerJob, NextCall, Redeliver, CrashCaller, frame
<1>3. FindExisting(c) \/ FindExistingTasks(c) \/ Split(c) \/ RecheckRef(c) \/ AlreadyRunning(c)
        \/ PersistTriggerFailure(c) => UNCHANGED brokerVars
  BY DEF FindExisting, FindExistingTasks, Split, RecheckRef, AlreadyRunning, PersistTriggerFailure, frame
<1>4. CreateRun(c) \/ SyncTasks(c) \/ BeginPublish(c) \/ MarkFailed(c) \/ CancelOthers(c)
        \/ StartJob(c) \/ EndFinalize(c) => UNCHANGED brokerVars
  BY DEF CreateRun, SyncTasks, BeginPublish, MarkFailed, CancelOthers, StartJob, EndFinalize, frame
<1>. QED BY <1>1, <1>2, <1>3, <1>4 DEF Calls, CallerStep

LEMMA KafkaSteps == ASSUME TypeInv, [Next]_vars PROVE WorkInv /\ WorkInv' /\ KafkaStep
<1>1. WorkInv /\ WorkInv'
  BY TypeStep DEF TypeInv
<1>2. UNCHANGED <<brokerVars, workerVars>> => Outside
  BY DEF brokerVars, workerVars, Outside
<1>3. ASSUME NEW c \in Callers, Calls(c), UNCHANGED workerVars PROVE Outside
  <2>1. ASSUME NEW t \in TaskID, Publish(t, TaskPartitions) PROVE Outside
    <3>1. PICK p \in TaskPartitions : log' = [log EXCEPT ![p] = Append(@, t)]
      BY <2>1 DEF Publish
    <3>2. p \in Partitions
      BY DEF Partitions
    <3>. QED BY <1>3, <2>1, <3>1, <3>2 DEF Publish, Outside, workerVars
  <2>. QED BY <1>2, <1>3, <2>1, CallerKafka
<1>4. (\E j \in JobID : Terminate(j)) \/ UNCHANGED vars => Outside
  BY <1>2 DEF Terminate, vars
<1>5. ASSUME NEW c \in Consumers, ConsumerStep(c) \/ CrashConsumer(c) PROVE KafkaStep
  BY <1>5, ConsumerCases DEF KafkaStep
<1>. QED BY <1>1, <1>2, <1>3, <1>4, <1>5, NextCases DEF KafkaStep

\* Where a caller that gets to publish, cancel or start comes from.
Arrives(c) ==
  \/ FindsTasks(c) /\ UNCHANGED task
  \/ \E k \in JobID :
       Inserted(k, NewJob(c, caller[c].status, FALSE), caller[c].size) /\ Creates(c, k)
  \/ /\ caller[c].pc = "flow"
     /\ \/ Moves(c, "publish")
        \/ caller[c].size = 0 /\ Moves(c, AfterPublish(c))
  \/ caller[c].pc = "publish" /\ \E t \in TaskID : Publishes(c, t)
  \/ caller[c].pc = "cancel" /\ Moves(c, "start")

Heading == {"flow", "publish", "cancel", "start"}

LEMMA CallerArrives ==
  ASSUME TypeInv, NEW c \in Callers, Calls(c)
  PROVE  Others(c) /\ (caller'[c].pc \in Heading => Arrives(c))
<1>0. CallInv
  BY DEF TypeInv
<1>. DEFINE Goal == Others(c) /\ (caller'[c].pc \in Heading => Arrives(c))
<1>. SUFFICES Goal
  OBVIOUS
<1>1. Ends(c) => Goal
  BY DEF Ends, Heading
<1>2. ASSUME NEW pc, pc \notin Heading, Moves(c, pc) PROVE Goal
  BY <1>2 DEF Moves
<1>3. ASSUME NEW m \in Nat \cup {NoAsynq}, NextCall(c, m) PROVE Goal
  BY <1>0, <1>3, NextCallEffect DEF Begins, Heading
<1>4. CASE Redeliver(c)
  BY <1>0, <1>4, RedeliverEffect DEF Begins, Heading
<1>5. CASE Trigger(c) \/ \E j \in JobID : RetryTriggerJob(c, j)
  <2>1. AsynqMaxRetry[c] \in Nat \cup {NoAsynq} /\ NoAsynq \in Nat \cup {NoAsynq}
    BY JobExecutorAssumption
  <2>. HIDE DEF Goal
  <2>. QED BY <1>3, <1>5, <2>1 DEF Trigger, RetryTriggerJob
<1>6. CASE FindExisting(c)
  <2>1. \A j \in JobID : Finds(c, j) => Goal
    BY DEF Finds, Heading
  <2>2. Moves(c, "split") => Goal
    BY <1>2 DEF Heading
  <2>. HIDE DEF Goal
  <2>. QED BY <1>0, <1>1, <1>6, <2>1, <2>2, FindEffect
<1>7. CASE FindExistingTasks(c)
  <2>1. UNCHANGED task /\ (FindsTasks(c) \/ Ends(c))
    BY <1>0, <1>7, FindTasksEffect DEF repositoryVars
  <2>2. FindsTasks(c) => Goal
    BY <2>1 DEF FindsTasks, Arrives
  <2>. HIDE DEF Goal
  <2>. QED BY <1>1, <2>1, <2>2
<1>8. CASE Split(c)
  <2>1. \A n \in 0..MaxTasks : Splitting(c, n) => Goal
    BY DEF Splitting, Heading
  <2>2. Moves(c, "recheck") => Goal
    BY <1>2 DEF Heading
  <2>. HIDE DEF Goal
  <2>. QED BY <1>0, <1>1, <1>8, <2>1, <2>2, SplitEffect
<1>9. CASE RecheckRef(c)
  <2>1. Moves(c, "persist") => Goal
    BY <1>2 DEF Heading
  <2>. HIDE DEF Goal
  <2>. QED BY <1>0, <1>1, <1>9, <2>1, RecheckEffect
<1>10. CASE CreateRun(c)
  <2>1. ASSUME NEW k \in JobID, Inserted(k, NewJob(c, caller[c].status, FALSE), caller[c].size),
               Creates(c, k)
        PROVE  Goal
    <3>1. Arrives(c)
      BY <2>1 DEF Arrives
    <3>. QED BY <2>1, <3>1 DEF Creates
  <2>. HIDE DEF Goal
  <2>. QED BY <1>0, <1>1, <1>10, <2>1, CreateEffect
<1>11. CASE SyncTasks(c) \/ AlreadyRunning(c) \/ MarkFailed(c) \/ EndFinalize(c) \/ CrashCaller(c)
            \/ PersistTriggerFailure(c)
  <2>1. Ends(c)
    BY <1>0, <1>11, SyncEffect, AlreadyRunningEffect, MarkFailedEffect, EndFinalizeEffect, CrashEffect,
       PersistEffect
  <2>. QED BY <1>1, <2>1
<1>12. CASE BeginPublish(c)
  <2>1. caller[c].pc = "flow" /\ Moves(c, IF caller[c].size = 0 THEN AfterPublish(c) ELSE "publish")
    BY <1>0, <1>12, BeginPublishEffect
  <2>2. Arrives(c)
    BY <2>1 DEF Arrives
  <2>. QED BY <2>1, <2>2 DEF Moves
<1>13. CASE PublishTask(c)
  <2>1. \A t \in TaskID : caller[c].pc = "publish" /\ Publishes(c, t) => Goal
    BY DEF Publishes, Arrives
  <2>2. Moves(c, "markFailed") => Goal
    BY <1>2 DEF Heading
  <2>. HIDE DEF Goal
  <2>. QED BY <1>0, <1>13, <2>1, <2>2, PublishEffect
<1>14. CASE CancelOthers(c)
  <2>1. caller[c].pc = "cancel" /\ Moves(c, "start")
    BY <1>0, <1>14, CancelEffect
  <2>2. Arrives(c)
    BY <2>1 DEF Arrives
  <2>. QED BY <2>1, <2>2 DEF Moves
<1>15. CASE StartJob(c)
  <2>1. Moves(c, "finalize") => Goal
    BY <1>2 DEF Heading
  <2>. HIDE DEF Goal
  <2>. QED BY <1>0, <1>1, <1>15, <2>1, StartEffect
<1>. HIDE DEF Goal
<1>. QED
  BY <1>4, <1>5, <1>6, <1>7, <1>8, <1>9, <1>10, <1>11, <1>12, <1>13, <1>14, <1>15 DEF Calls, CallerStep

\* A caller that takes its run to be empty has no tasks to publish.
EmptyInv == \A c \in Callers : caller[c].pc = "flow" /\ caller[c].size = 0 => caller[c].tasks = {}

LEMMA EmptyStep == ASSUME TypeInv, EmptyInv, [Next]_vars PROVE EmptyInv'
<1>1. CASE UNCHANGED caller
  BY <1>1 DEF EmptyInv
<1>2. ASSUME NEW c \in Callers, Calls(c) PROVE EmptyInv'
  <2>1. Others(c) /\ (caller'[c].pc \in Heading => Arrives(c))
    BY <1>2, CallerArrives
  <2>. SUFFICES ASSUME caller'[c].pc = "flow", caller'[c].size = 0 PROVE caller'[c].tasks = {}
    BY <2>1 DEF EmptyInv, Others
  <2>2. Arrives(c)
    BY <2>1 DEF Heading
  <2>3. CASE FindsTasks(c)
    BY <2>3 DEF FindsTasks
  <2>4. ASSUME NEW k \in JobID, Creates(c, k) PROVE caller'[c].tasks = {}
    <3>1. caller'[c].tasks = {t \in TaskID : t[1] = k /\ t[2] < 0}
      BY <2>4 DEF Creates
    <3>2. \A t \in TaskID : ~(t[2] < 0)
      BY TaskBelongs
    <3>. QED BY <3>1, <3>2
  <2>. QED BY <2>2, <2>3, <2>4 DEF Arrives, Moves, Publishes, AfterPublish
<1>. QED BY <1>1, <1>2, NextKinds DEF Apart

\* A caller that will start the run of t has no message of t to write any more.
Published(c, t) ==
  /\ caller[c].pc \in Heading /\ caller[c].status = "PENDING" /\ caller[c].job = t[1]
  /\ caller[c].pc \in {"flow", "publish"} => t \notin caller[c].tasks

\* The run of t was started, or will be without another message of t.
Promised(t) == job[t[1]].status = "RUNNING" \/ \E c \in Callers : Published(c, t)

Calm == Never("error") /\ (Never("crash") \/ Never("rebalance"))

AttendInv ==
  Calm => \A t \in TaskID : task[t].status \in {"PENDING", "RUNNING"} /\ Promised(t) => Reached(t)

\* A caller gives no promise of a task but by publishing it; it leaves a task
\* PENDING or RUNNING only as it was, or as one that it has yet to publish.
LEMMA CallerPromises ==
  ASSUME TypeInv, EmptyInv, NEW c \in Callers, Calls(c), NEW t \in TaskID,
         task'[t].status \in {"PENDING", "RUNNING"}, Promised(t)'
  PROVE  /\ task[t].status \in {"PENDING", "RUNNING"}
         /\ Promised(t) \/ Publish(t, TaskPartitions)
<1>0. CallInv /\ Kind(c) /\ t[1] \in JobID /\ RepositoryTypeOK /\ OwnTasks
  BY CallerKinds, TypeFacts, TaskBelongs DEF TypeInv, Calls
<1>1. \A d \in Callers : CallerOK(d)
  BY <1>0 DEF CallInv, CallerInv
<1>2. Others(c) /\ (caller'[c].pc \in Heading => Arrives(c))
  BY CallerArrives
<1>3. Heading \subseteq Holding
  BY DEF Heading, Holding
<1>4. ASSUME NEW d \in Callers, d # c, Published(d, t)' PROVE Published(d, t)
  BY <1>2, <1>4 DEF Published, Others
\* The caller's own promise.
<1>5. ASSUME Published(c, t)', Exists(task'[t])
      PROVE  Exists(job[t[1]]) /\ (Published(c, t) \/ Publish(t, TaskPartitions))
  <2>0. /\ caller'[c].pc \in Heading /\ caller'[c].status = "PENDING" /\ caller'[c].job = t[1]
        /\ caller'[c].pc \in {"flow", "publish"} => t \notin caller'[c].tasks
        /\ Arrives(c)
    BY <1>2, <1>5 DEF Published
  <2>1. ASSUME FindsTasks(c), UNCHANGED task PROVE FALSE
    <3>1. t \in TasksOf(t[1])
      BY <1>5, <2>1 DEF TasksOf
    <3>. QED BY <2>0, <2>1, <3>1 DEF FindsTasks
  <2>2. ASSUME NEW k \in JobID, Inserted(k, NewJob(c, caller[c].status, FALSE), caller[c].size),
               Creates(c, k)
        PROVE  FALSE
    <3>1. t[1] = k /\ t[2] < caller[c].size
      BY <1>5, <2>0, <2>2 DEF Inserted, Creates
    <3>2. t \in caller'[c].tasks /\ caller'[c].pc = "flow"
      BY <2>2, <3>1 DEF Creates
    <3>. QED BY <2>0, <3>2
  <2>3. ASSUME caller[c].pc \in Heading, caller'[c].job = caller[c].job,
               caller'[c].status = caller[c].status,
               caller[c].pc \in {"flow", "publish"} => t \notin caller[c].tasks
        PROVE  Exists(job[t[1]]) /\ Published(c, t)
    BY <1>1, <1>3, <2>0, <2>3 DEF Published, CallerOK
  <2>4. CASE caller[c].pc = "flow" /\ Moves(c, "publish")
    BY <2>0, <2>3, <2>4 DEF Moves, Heading
  <2>5. CASE caller[c].pc = "flow" /\ caller[c].size = 0 /\ Moves(c, AfterPublish(c))
    <3>1. caller[c].tasks = {}
      BY <2>5 DEF EmptyInv
    <3>. QED BY <2>3, <2>5, <3>1 DEF Moves, Heading
  <2>6. ASSUME caller[c].pc = "publish", NEW u \in TaskID, Publishes(c, u)
        PROVE  Exists(job[t[1]]) /\ (Published(c, t) \/ Publish(t, TaskPartitions))
    <3>1. CASE u = t
      <4>1. caller'[c].job = caller[c].job /\ caller[c].pc \in Holding
        BY <2>6 DEF Publishes, Holding
      <4>. QED BY <1>1, <2>0, <2>6, <3>1, <4>1 DEF Publishes, CallerOK
    <3>2. CASE u # t
      <4>1. t \notin caller[c].tasks
        BY <2>0, <2>6, <3>2 DEF Publishes
      <4>. QED BY <2>3, <2>6, <4>1 DEF Publishes, Heading
    <3>. QED BY <3>1, <3>2
  <2>7. CASE caller[c].pc = "cancel" /\ Moves(c, "start")
    BY <2>3, <2>7 DEF Moves, Heading
  <2>. QED BY <2>0, <2>1, <2>2, <2>4, <2>5, <2>6, <2>7 DEF Arrives
\* The promise of a run that has been started.
<1>6. ASSUME job'[t[1]].status = "RUNNING"
      PROVE  Exists(job[t[1]]) /\ Promised(t)
  <2>1. Exists(job[t[1]])
    <3>1. Updated => Exists(job[t[1]])
      BY <1>0, <1>6 DEF Updated, Exists, Absent
    <3>2. ASSUME NEW k \in JobID, NEW status \in Status, NEW failure \in BOOLEAN, NEW n \in 0..MaxTasks,
                 Inserts(c, k, status, failure, n)
          PROVE  Exists(job[t[1]])
      <4>1. NewJob(c, status, failure).status = status /\ status # "RUNNING"
        BY <3>2 DEF Inserts, NewJob
      <4>2. t[1] # k /\ job'[t[1]] = job[t[1]]
        BY <1>0, <1>6, <3>2, <4>1 DEF Inserts, Inserted
      <4>. QED BY <1>6, <4>2 DEF Exists, Absent
    <3>3. BeginsNext(c) \/ BeginsAgain(c) \/ Reads(c) \/ Marks(c) \/ Cancels(c) \/ Misses(c) => Updated
      BY DEF BeginsNext, BeginsAgain, Reads, Marks, Cancels, Misses, Quiet
    <3>4. (\E j \in JobID : Hits(c, j)) => Updated
      BY DEF Hits
    <3>. QED BY <1>0, <3>1, <3>2, <3>3, <3>4 DEF Kind
  <2>2. CASE Ages(t[1])
    BY <1>6, <2>1, <2>2 DEF Ages, TerminalOutcomes, Promised
  <2>3. CASE Marks(c) /\ t[1] = caller[c].job
    <3>1. caller[c].pc = "start" /\ caller[c].status = "PENDING"
      BY <1>6, <2>3 DEF Marks, SetsStatus
    <3>2. Published(c, t)
      BY <2>3, <3>1 DEF Published, Heading
    <3>. QED BY <2>1, <3>2 DEF Promised
  <2>. QED BY <1>0, <2>1, <2>2, <2>3, KindAges
<1>7. Exists(task'[t])
  BY DEF Exists, Absent
<1>8. Exists(job[t[1]]) /\ (Promised(t) \/ Publish(t, TaskPartitions))
  <2>1. ASSUME NEW d \in Callers, Published(d, t)
        PROVE  Exists(job[t[1]]) /\ Promised(t)
    BY <1>1, <1>3, <2>1 DEF Published, CallerOK, Promised
  <2>2. ASSUME NEW d \in Callers, Published(d, t)'
        PROVE  Exists(job[t[1]]) /\ (Promised(t) \/ Publish(t, TaskPartitions))
    <3>1. CASE d = c
      BY <1>5, <1>7, <2>1, <2>2, <3>1
    <3>2. CASE d # c
      BY <1>4, <2>1, <2>2, <3>2
    <3>. QED BY <3>1, <3>2
  <2>3. job'[t[1]].status = "RUNNING" \/ \E d \in Callers : Published(d, t)'
    BY DEF Promised
  <2>. QED BY <1>6, <2>2, <2>3
<1>9. task[t].status \in {"PENDING", "RUNNING"}
  <2>1. ~IsExecutionPending(task'[t].status) => FALSE
    BY DEF IsExecutionPending, NonTerminalJobStates
  <2>. QED BY <1>8, <2>1, CallerWrites
<1>. QED BY <1>8, <1>9

LEMMA AttendStep ==
  ASSUME RetryPartitions # {}, TypeInv, OwnInv, EmptyInv, ReachInv, HeldInv, AttendInv, [Next]_vars
  PROVE  AttendInv'
<1>. SUFFICES ASSUME Calm', NEW t \in TaskID, task'[t].status \in {"PENDING", "RUNNING"}, Promised(t)'
              PROVE  Reached(t)'
  BY DEF AttendInv
<1>0. WorkInv /\ WorkInv' /\ KafkaStep /\ TypeInv'
  BY KafkaSteps, TypeStep
<1>1. Calm /\ Never("error")' /\ (Never("crash")' \/ Never("rebalance")')
  BY FaultsStay DEF Calm, FaultKind
<1>2. task[t].status \in {"PENDING", "RUNNING"} /\ Promised(t) => Reached(t)
  BY <1>1 DEF AttendInv
<1>3. ASSUME UNCHANGED <<job, caller>> PROVE Promised(t)
  BY <1>3 DEF Promised, Published
<1>4. ASSUME UNCHANGED <<job, caller>>, NEW c \in Consumers, HandlerStep(c) PROVE Reached(t)'
  <2>1. Exists(job'[t[1]]) /\ t[1] \in JobID
    BY <1>0, TaskBelongs DEF TypeInv, CallInv, SharedInv, OwnTasks, Exists, Absent
  <2>2. job[t[1]].name \in Registered
    BY <1>4, <2>1 DEF OwnInv
  <2>. QED BY <1>0, <1>1, <1>2, <1>3, <1>4, <2>2, HandlerReach
<1>5. ASSUME UNCHANGED <<job, caller>>, NEW c \in Consumers, Fetch(c) PROVE Reached(t)'
  <2>1. Alone(c) /\ worker[c].pc = "fetch" /\ task' = task
    BY <1>0, <1>5, FetchEffect
  <2>. QED BY <1>0, <1>2, <1>3, <1>5, <2>1, ReachedElsewhere DEF Acts
<1>6. ASSUME UNCHANGED <<job, caller>>, NEW c \in Consumers, PublishRetry(c) PROVE Reached(t)'
  <2>1. task' = task
    BY <1>0, <1>6, PublishRetryEffect
  <2>. QED BY <1>0, <1>1, <1>2, <1>3, <1>6, <2>1, PublishReach
<1>7. ASSUME UNCHANGED <<job, caller>>, NEW c \in Consumers, CrashConsumer(c) PROVE Reached(t)'
  <2>1. task' = task /\ ~Never("crash")'
    BY <1>0, <1>7, CrashFacts, SpendFacts DEF FaultKind
  <2>2. Never("rebalance")
    BY <1>1, <2>1, FaultsStay DEF FaultKind
  <2>. QED BY <1>0, <1>2, <1>3, <1>7, <2>1, <2>2, CrashReach
\* Steps that leave the consumers alone.
<1>8. ASSUME UNCHANGED worker, task[t].status \in {"PENDING", "RUNNING"}, Promised(t) PROVE Reached(t)'
  BY <1>0, <1>2, <1>8, RestReach
<1>9. ASSUME UNCHANGED <<job, caller>>, RebalanceGroup PROVE Reached(t)'
  BY <1>0, <1>3, <1>8, <1>9, RebalanceFacts
<1>10. ASSUME UNCHANGED <<worker, caller>>, task'[t] = task[t],
              job'[t[1]].status = "RUNNING" => job[t[1]].status = "RUNNING"
       PROVE  Reached(t)'
  <2>1. Promised(t)
    BY <1>10 DEF Promised, Published
  <2>. QED BY <1>8, <1>10, <2>1
<1>11. ASSUME NEW c \in Callers, Calls(c), UNCHANGED workerVars PROVE Reached(t)'
  <2>1. /\ task[t].status \in {"PENDING", "RUNNING"}
        /\ Promised(t) \/ Publish(t, TaskPartitions)
    BY <1>11, CallerPromises DEF TypeInv
  <2>2. CASE Publish(t, TaskPartitions)
    <3>1. PICK p \in Partitions : log' = [log EXCEPT ![p] = Append(@, t)]
      BY <2>2 DEF Publish, Partitions
    <3>2. \A d \in Consumers : Inside(d)' =>
            Inside(d) /\ worker'[d].part = worker[d].part /\ worker'[d].offset = worker[d].offset
      BY <1>11 DEF workerVars, Inside
    <3>3. UNCHANGED <<position, committed>>
      BY <2>2 DEF Publish
    <3>. QED BY <1>0, <3>1, <3>2, <3>3, AppendReach
  <2>. QED BY <1>8, <1>11, <2>1, <2>2 DEF workerVars
<1>12. ASSUME NEW c \in Consumers, ConsumerStep(c), UNCHANGED <<finalizerVars, caller>> PROVE Reached(t)'
  <2>1. job' = job
    BY <1>12, ConsumerUpdates
  <2>. QED BY <1>4, <1>5, <1>6, <1>12, <2>1, ConsumerCases
<1>13. ASSUME RebalanceGroup \/ \E c \in Consumers : CrashConsumer(c), UNCHANGED <<finalizerVars, caller>>
       PROVE  Reached(t)'
  <2>1. job' = job
    BY <1>13, DropsOut DEF repositoryVars
  <2>. QED BY <1>7, <1>9, <1>13, <2>1
<1>14. ASSUME NEW f \in Finalizers, UNCHANGED <<brokerVars, workerVars, caller>>,
              \/ FinalizerStep(f) \/ CrashFinalizer(f)
              \/ \E n \in Registered : CheckJobCompletions(f, n)
       PROVE  Reached(t)'
  <2>1. FinalizerEffects(f) /\ task' = task /\ RepositoryTypeOK
    BY <1>14, FinalizerChanges, TypeFacts DEF FinalizerEffects
  <2>2. job' = job \/ FinalizerHits(f)
    BY <2>1 DEF FinalizerEffects, FinalizerReads, FinalizerAnnounces
  <2>3. job'[t[1]].status = "RUNNING" => job[t[1]].status = "RUNNING"
    BY <2>1, <2>2, TaskBelongs DEF FinalizerHits, RepositoryTypeOK, JobRow, TerminalOutcomes
  <2>. QED BY <1>10, <1>14, <2>1, <2>3 DEF workerVars
<1>15. ASSUME NEW j \in JobID, Terminate(j) PROVE Reached(t)'
  <2>1. RepositoryTypeOK /\ OwnTasks /\ UNCHANGED <<worker, caller>> /\ TerminateJob(j)
    BY <1>15, TypeFacts DEF Terminate, workerVars
  <2>2. job'[t[1]].status = "RUNNING" => job[t[1]].status = "RUNNING"
    BY <2>1, CancelRows, TaskBelongs
  <2>3. task'[t] = task[t]
    BY <2>1 DEF TerminateJob, RepositoryTypeOK, TaskRow
  <2>. QED BY <1>10, <2>1, <2>2, <2>3
<1>16. CASE UNCHANGED vars
  BY <1>10, <1>16 DEF vars, workerVars, repositoryVars
<1>. QED BY <1>11, <1>12, <1>13, <1>14, <1>15, <1>16, NextCases

\* The invariants of the argument, in one.
AttendedInv ==
  TypeInv /\ OwnInv /\ PartialInv /\ EmptyInv /\ ReachInv /\ HeldInv /\ AttendInv

LEMMA InitAttended == Init => AttendedInv
<1>. SUFFICES ASSUME Init PROVE AttendedInv
  OBVIOUS
<1>1. TypeInv /\ OwnInv /\ PartialInv
  BY InitType, InitOwn, InitPartial
<1>2. EmptyInv
  BY DEF Init, JobExecutorInit, EmptyInv
<1>3. \A c \in Consumers : ~Inside(c)
  BY DEF Init, TaskExecutorInit, Inside, Waiting
<1>4. \A p \in Partitions : position[p] = 0 /\ committed[p] = 0 /\ Len(log[p]) = 0
  BY DEF Init
<1>5. ReachInv /\ HeldInv
  BY <1>3, <1>4 DEF ReachInv, HeldInv
<1>6. AttendInv
  BY DEF Init, AttendInv, Absent
<1>. QED BY <1>1, <1>2, <1>5, <1>6 DEF AttendedInv

LEMMA AttendedStep ==
  ASSUME RetryPartitions # {}, OwnRefs, AttendedInv, [Next]_vars
  PROVE  AttendedInv'
<1>0. TypeInv /\ OwnInv /\ PartialInv /\ EmptyInv /\ ReachInv /\ HeldInv /\ AttendInv
  BY DEF AttendedInv
<1>1. TypeInv' /\ WorkInv /\ WorkInv' /\ KafkaStep
  BY <1>0, TypeStep, KafkaSteps
<1>2. OwnInv' /\ PartialInv' /\ EmptyInv'
  BY <1>0, OwnStep, PartialStep, EmptyStep
<1>3. ReachInv'
  BY <1>0, <1>1, ReachStep
<1>4. HeldInv'
  BY <1>0, <1>1, HeldStep, FaultsStay DEF FaultKind
<1>5. AttendInv'
  BY <1>0, AttendStep
<1>. QED BY <1>1, <1>2, <1>3, <1>4, <1>5 DEF AttendedInv

LEMMA AttendedMeans == ASSUME AttendedInv PROVE StartedTasksAttended
<1>0. TypeInv /\ PartialInv /\ AttendInv
  BY DEF AttendedInv
<1>. SUFFICES ASSUME Calm, NEW j \in JobID, job[j].status = "RUNNING", NEW t \in TasksOf(j),
                     ~isTaskTerminal(task[t].status)
              PROVE  Queued(t) \/ \E c \in Consumers : worker[c].task = t
  BY DEF StartedTasksAttended, Calm
<1>1. t \in TaskID /\ t[1] = j /\ Exists(task[t])
  BY DEF TasksOf
<1>2. task[t].status \in {"PENDING", "RUNNING"}
  <2>1. task[t].status \in Status
    BY <1>0, <1>1, TypeFacts DEF RepositoryTypeOK, TaskRow, Exists
  <2>2. task[t].status # "PARTIAL_FAILED"
    BY <1>0, <1>1 DEF PartialInv, Partial
  <2>. QED
    BY <2>1, <2>2 DEF Status, JobStatus, TaskStatus, isTaskTerminal, FinishedTaskStates, TerminalTaskStates
<1>3. Reached(t)
  BY <1>0, <1>1, <1>2 DEF AttendInv, Promised
<1>4. ASSUME NEW p \in Partitions, NEW i \in 1..Len(log[p]), Fresh(p, i), log[p][i] = t
      PROVE  Queued(t)
  <2>1. position[p] \in Nat /\ Len(log[p]) \in Nat
    BY <1>0, TypeFacts DEF BrokerTypeOK
  <2>2. i \in Unfetched(p)
    BY <1>4, <2>1 DEF Fresh, Unfetched
  <2>. QED BY <1>4, <2>2 DEF Queued
<1>. QED BY <1>3, <1>4 DEF Reached

\* Every task of a RUNNING run that is not finished is queued in Kafka or in a
\* consumer's hands, wherever callers crashed while they published the run and
\* consumers while they executed it: executeJobFlow starts no run of which a
\* message was lost.  A retry topic is configured, and triggers that share a
\* reference take turns.
THEOREM StartedTasksAttendedHolds ==
  RetryPartitions # {} /\ OwnRefs /\ Spec => []StartedTasksAttended
<1>1. RetryPartitions # {} /\ OwnRefs /\ AttendedInv /\ [Next]_vars => AttendedInv'
  BY AttendedStep
<1>2. RetryPartitions # {} /\ OwnRefs => (RetryPartitions # {} /\ OwnRefs)'
  BY DEF OwnRefs
<1>3. AttendedInv => StartedTasksAttended
  BY AttendedMeans
<1>. QED BY <1>1, <1>2, <1>3, InitAttended, PTL DEF Spec

=============================================================================
