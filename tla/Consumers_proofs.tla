-------------------------- MODULE Consumers_proofs --------------------------
(***************************************************************************)
(* What each action of a task consumer does, and that it keeps the rows,   *)
(* the faults, Kafka and the handlers well formed, for every value of the  *)
(* constants: the lemmas that the proofs about Execution and Scheduling    *)
(* share.                                                                  *)
(***************************************************************************)
EXTENDS TaskExecutor, TLAPS

\* A consumer inside a handler holds a message of a task.
HoldsMessage ==
  \A c \in Consumers : worker[c].pc # "fetch" =>
    worker[c].task \in TaskID /\ worker[c].part \in Partitions

\* What the actions of a consumer need and keep.
WorkInv == RepositoryTypeOK /\ FaultsTypeOK /\ BrokerTypeOK(TaskID) /\ TaskExecutorTypeOK /\ HoldsMessage

-----------------------------------------------------------------------------
(* Well-formed state *)

\* UpdateTask keeps the table typed.
LEMMA UpdateTaskType ==
  ASSUME RepositoryTypeOK, NEW t \in TaskID, NEW row \in TaskRow, UpdateTask(t, row)
  PROVE  task' \in [TaskID -> TaskRow]
BY DEF RepositoryTypeOK, UpdateTask

\* Spend keeps the fault counters typed.
LEMMA SpendType ==
  ASSUME FaultsTypeOK, NEW k \in FaultKind, Spend(k)
  PROVE  FaultsTypeOK'
BY DEF FaultsTypeOK, Spend

\* The types of the consumers' private state and of the rows they build.
LEMMA WorkerFacts ==
  ASSUME WorkInv, NEW c \in Consumers, worker[c].pc # "fetch"
  PROVE  /\ worker[c] \in WorkerState
         /\ worker[c].task \in TaskID /\ worker[c].part \in Partitions
         /\ task[worker[c].task] \in TaskRow /\ job[worker[c].task[1]] \in JobRow
BY DEF WorkInv, HoldsMessage, TaskExecutorTypeOK, RepositoryTypeOK, TaskID

\* A consumer's record replaced by a well-formed one.
LEMMA BecomeType ==
  ASSUME WorkInv, NEW c \in Consumers, NEW w \in WorkerState, Become(c, w),
         w.pc # "fetch" => w.task \in TaskID /\ w.part \in Partitions
  PROVE  worker' \in [Consumers -> WorkerState] /\ HoldsMessage'
BY DEF Become, WorkInv, TaskExecutorTypeOK, HoldsMessage

LEMMA WaitingType == Waiting \in WorkerState /\ Waiting.pc = "fetch"
BY DEF Waiting, WorkerState, WorkerPC

\* The ways in which a step may leave a handler: waiting again, or further on
\* with the same message.
LEMMA HandlerType ==
  ASSUME WorkInv, NEW c \in Consumers, worker[c].pc # "fetch",
         \/ ReturnError(c)
         \/ \E pc \in WorkerPC : Goto(c, pc)
         \/ \E pc \in WorkerPC, st \in Status \cup {Absent}, n \in Nat :
              Become(c, [worker[c] EXCEPT !.pc = pc, !.status = st, !.attempt = n])
         \/ \E pc \in WorkerPC, st \in Status \cup {Absent} :
              \/ Become(c, [worker[c] EXCEPT !.pc = pc, !.status = st])
              \/ Become(c, [worker[c] EXCEPT !.pc = pc, !.jobStatus = st])
  PROVE  worker' \in [Consumers -> WorkerState] /\ HoldsMessage'
<1>. DEFINE Goal == worker' \in [Consumers -> WorkerState] /\ HoldsMessage'
<1>. SUFFICES Goal
  OBVIOUS
<1>. HIDE DEF Goal
<1>0. worker[c] \in WorkerState /\ worker[c].task \in TaskID /\ worker[c].part \in Partitions
  BY WorkerFacts
<1>1. CASE ReturnError(c)
  BY <1>1, BecomeType, WaitingType DEF ReturnError, Goal
<1>2. ASSUME NEW pc \in WorkerPC, Goto(c, pc) PROVE Goal
  <2>. DEFINE w == [worker[c] EXCEPT !.pc = pc]
  <2>1. w \in WorkerState /\ w.task \in TaskID /\ w.part \in Partitions
    BY <1>0 DEF WorkerState
  <2>2. Become(c, w)
    BY <1>2 DEF Goto
  <2>. HIDE DEF w
  <2>. QED BY <2>1, <2>2, BecomeType DEF Goal
<1>3. ASSUME NEW pc \in WorkerPC, NEW st \in Status \cup {Absent}, NEW n \in Nat,
             Become(c, [worker[c] EXCEPT !.pc = pc, !.status = st, !.attempt = n])
      PROVE  Goal
  <2>. DEFINE w == [worker[c] EXCEPT !.pc = pc, !.status = st, !.attempt = n]
  <2>1. w \in WorkerState /\ w.task \in TaskID /\ w.part \in Partitions
    BY <1>0 DEF WorkerState
  <2>2. Become(c, w)
    BY <1>3
  <2>. HIDE DEF w
  <2>. QED BY <2>1, <2>2, BecomeType DEF Goal
<1>4. ASSUME NEW pc \in WorkerPC, NEW st \in Status \cup {Absent},
             Become(c, [worker[c] EXCEPT !.pc = pc, !.jobStatus = st])
      PROVE  Goal
  <2>. DEFINE w == [worker[c] EXCEPT !.pc = pc, !.jobStatus = st]
  <2>1. w \in WorkerState /\ w.task \in TaskID /\ w.part \in Partitions
    BY <1>0 DEF WorkerState
  <2>2. Become(c, w)
    BY <1>4
  <2>. HIDE DEF w
  <2>. QED BY <2>1, <2>2, BecomeType DEF Goal
<1>5. ASSUME NEW pc \in WorkerPC, NEW st \in Status \cup {Absent},
             Become(c, [worker[c] EXCEPT !.pc = pc, !.status = st])
      PROVE  Goal
  <2>. DEFINE w == [worker[c] EXCEPT !.pc = pc, !.status = st]
  <2>1. w \in WorkerState /\ w.task \in TaskID /\ w.part \in Partitions
    BY <1>0 DEF WorkerState
  <2>2. Become(c, w)
    BY <1>5
  <2>. HIDE DEF w
  <2>. QED BY <2>1, <2>2, BecomeType DEF Goal
<1>. QED BY <1>1, <1>2, <1>3, <1>4, <1>5

\* The statements on the task table keep it typed, applied or not.
LEMMA TaskUpdateType ==
  ASSUME WorkInv, NEW t \in TaskID, NEW row \in TaskRow,
         UpdateTask(t, row) \/ LoggedUpdate(t, row) \/ FailedUpdate(t, row) \/ UNCHANGED task
  PROVE  task' \in [TaskID -> TaskRow]
BY UpdateTaskType DEF LoggedUpdate, FailedUpdate, WorkInv, RepositoryTypeOK

\* Publish appends a task to some partition.
LEMMA PublishType ==
  ASSUME WorkInv, NEW t \in TaskID, NEW parts \in SUBSET Partitions, Publish(t, parts)
  PROVE  BrokerTypeOK(TaskID)'
<1>1. PICK p \in Partitions : log' = [log EXCEPT ![p] = Append(@, t)]
  BY DEF Publish
<1>2. Append(log[p], t) \in Seq(TaskID)
  BY DEF WorkInv, BrokerTypeOK
<1>. QED BY <1>1, <1>2 DEF Publish, WorkInv, BrokerTypeOK

\* Every action of a consumer keeps rows, faults, Kafka and handler typed.
LEMMA ConsumerType ==
  ASSUME WorkInv, RebalanceGroup \/ \E c \in Consumers : ConsumerStep(c) \/ CrashConsumer(c)
  PROVE  WorkInv' /\ job' = job
<1>. DEFINE Rows == task' \in [TaskID -> TaskRow] /\ job' = job
            Kafka == BrokerTypeOK(TaskID)'
            Budget == FaultsTypeOK'
            Handler == worker' \in [Consumers -> WorkerState] /\ HoldsMessage'
            Ghosts == executed' \in [TaskID -> Nat] /\ dlq' \subseteq TaskID
            Goal == Rows /\ Kafka /\ Budget /\ Handler /\ Ghosts
<1>. SUFFICES Goal
  BY DEF WorkInv, RepositoryTypeOK, TaskExecutorTypeOK
<1>a. UNCHANGED spent \/ (\E k \in FaultKind : Spend(k)) => Budget
  BY SpendType DEF WorkInv, FaultsTypeOK
<1>b. UNCHANGED brokerVars => Kafka
  BY DEF WorkInv, BrokerTypeOK, brokerVars
<1>c. UNCHANGED repositoryVars => Rows
  BY DEF WorkInv, RepositoryTypeOK, repositoryVars
<1>d. UNCHANGED <<executed, dlq>> => Ghosts
  BY DEF WorkInv, TaskExecutorTypeOK
<1>e. "error" \in FaultKind /\ "crash" \in FaultKind /\ "rebalance" \in FaultKind
  BY DEF FaultKind
<1>. HIDE DEF Rows, Kafka, Budget, Handler, Ghosts
<1>1. ASSUME NEW c \in Consumers, Fetch(c) PROVE Goal
  <2>1. PICK p \in Partitions :
          /\ FetchMessage(c, p)
          /\ Become(c, [Waiting EXCEPT !.pc = "loadTask", !.part = p, !.offset = position[p] + 1,
                                        !.task = log[p][position[p] + 1]])
    BY <1>1 DEF Fetch
  <2>. DEFINE w == [Waiting EXCEPT !.pc = "loadTask", !.part = p, !.offset = position[p] + 1,
                                   !.task = log[p][position[p] + 1]]
  <2>2. log[p][position[p] + 1] \in TaskID
    BY <2>1 DEF FetchMessage, Unfetched, WorkInv, BrokerTypeOK
  <2>3. w \in WorkerState /\ w.task \in TaskID /\ w.part \in Partitions
    <3>1. position[p] + 1 \in Nat
      BY DEF WorkInv, BrokerTypeOK
    <3>. QED BY <3>1, <2>2, WaitingType DEF WorkerState, WorkerPC
  <2>4. Handler
    <3>. HIDE DEF w
    <3>. QED BY <2>1, <2>3, BecomeType DEF Handler, w
  <2>5. Kafka
    BY <2>1 DEF FetchMessage, WorkInv, BrokerTypeOK, Kafka
  <2>. QED BY <1>1, <2>4, <2>5, <1>a, <1>c, <1>d DEF Fetch
<1>2. ASSUME NEW c \in Consumers, LoadTask(c) PROVE Goal
  <2>1. Handler
    BY <1>2, WorkerFacts, HandlerType DEF LoadTask, At, TaskRow, WorkerPC, Handler
  <2>. QED BY <1>2, <2>1, <1>a, <1>b, <1>c, <1>d, <1>e DEF LoadTask
<1>3. ASSUME NEW c \in Consumers, LoadJob(c) PROVE Goal
  <2>1. Handler
    BY <1>3, WorkerFacts, HandlerType, ZenonT(60) DEF LoadJob, At, JobRow, WorkerPC, Handler
  <2>. QED BY <1>3, <2>1, <1>a, <1>b, <1>c, <1>d, <1>e DEF LoadJob
<1>4. ASSUME NEW c \in Consumers, Unregistered(c) PROVE Goal
  <2>1. Handler
    BY <1>4, HandlerType DEF Unregistered, At, Handler
  <2>. QED BY <1>4, <2>1, <1>a, <1>b, <1>c, <1>d DEF Unregistered
<1>5. ASSUME NEW c \in Consumers, SkipForJob(c) PROVE Goal
  <2>1. Handler
    BY <1>5, HandlerType DEF SkipForJob, At, WorkerPC, Handler
  <2>2. Rows
    BY <1>5, WorkerFacts
    DEF SkipForJob, At, UpdateTasksStatus, WorkInv, RepositoryTypeOK, TaskRow, WorkerState, Rows
  <2>. QED BY <1>5, <2>1, <2>2, <1>a, <1>b, <1>d, <1>e DEF SkipForJob
<1>6. ASSUME NEW c \in Consumers, SkipSettled(c) PROVE Goal
  <2>1. Handler
    BY <1>6, HandlerType DEF SkipSettled, At, WorkerPC, Handler
  <2>. QED BY <1>6, <2>1, <1>a, <1>b, <1>c, <1>d DEF SkipSettled
<1>7. ASSUME NEW c \in Consumers, StartTask(c) PROVE Goal
  <2>. DEFINE t == worker[c].task
              row == [task[t] EXCEPT !.status = taskTransitions.start.dst]
  <2>1. t \in TaskID /\ row \in TaskRow /\ row.status = "RUNNING"
    BY <1>7, WorkerFacts DEF StartTask, At, TaskRow, Status, TaskStatus, taskTransitions
  <2>2. \/ UpdateTask(t, row) /\ UNCHANGED spent
           /\ Become(c, [worker[c] EXCEPT !.pc = "execute", !.status = row.status])
        \/ FailedUpdate(t, row) /\ ReturnError(c)
    BY <1>7 DEF StartTask
  <2>. HIDE DEF t, row
  <2>3. Handler
    BY <1>7, <2>1, <2>2, HandlerType DEF StartTask, At, WorkerPC, Status, JobStatus, Handler
  <2>4. Rows
    BY <1>7, <2>1, <2>2, TaskUpdateType DEF StartTask, Rows
  <2>5. Budget
    BY <2>2, <1>a, <1>e DEF FailedUpdate
  <2>. QED BY <1>7, <2>3, <2>4, <2>5, <1>b, <1>d DEF StartTask
<1>8. ASSUME NEW c \in Consumers, RefuseStart(c) PROVE Goal
  <2>1. Handler
    BY <1>8, HandlerType DEF RefuseStart, At, Handler
  <2>. QED BY <1>8, <2>1, <1>a, <1>b, <1>c, <1>d DEF RefuseStart
<1>9. ASSUME NEW c \in Consumers, Execute(c) PROVE Goal
  <2>1. Handler
    BY <1>9, HandlerType DEF Execute, At, WorkerPC, Handler
  <2>2. Ghosts
    <3>1. executed \in [TaskID -> Nat] /\ dlq \subseteq TaskID
      BY DEF WorkInv, TaskExecutorTypeOK
    <3>2. worker[c].task \in TaskID
      BY <1>9, WorkerFacts DEF Execute, At
    <3>3. executed' = [executed EXCEPT ![worker[c].task] = @ + 1] /\ dlq' = dlq
      BY <1>9 DEF Execute
    <3>. QED BY <3>1, <3>2, <3>3 DEF Ghosts
  <2>. QED BY <1>9, <2>1, <2>2, <1>a, <1>b, <1>c DEF Execute
<1>10. ASSUME NEW c \in Consumers, ParamsError(c) PROVE Goal
  <2>1. [task[worker[c].task] EXCEPT !.status = "FAILED"] \in TaskRow /\ worker[c].task \in TaskID
    BY <1>10, WorkerFacts DEF ParamsError, At, TaskRow, Status, TaskStatus
  <2>2. Rows
    BY <1>10, <2>1, TaskUpdateType DEF ParamsError, Rows
  <2>3. Handler
    BY <1>10, HandlerType DEF ParamsError, At, Handler
  <2>4. Budget
    BY <1>10, <1>a, <1>e DEF ParamsError, FailedUpdate
  <2>. QED BY <1>10, <2>2, <2>3, <2>4, <1>b, <1>d DEF ParamsError
<1>11. ASSUME NEW c \in Consumers, CompleteTask(c) PROVE Goal
  <2>. DEFINE t == worker[c].task
              row == [task[t] EXCEPT !.status = taskTransitions.complete.dst]
  <2>1. t \in TaskID /\ row \in TaskRow
    BY <1>11, WorkerFacts DEF CompleteTask, At, TaskRow, Status, TaskStatus, taskTransitions
  <2>2. \/ UpdateTask(t, row) /\ UNCHANGED spent /\ Goto(c, "commit")
        \/ FailedUpdate(t, row) /\ ReturnError(c)
    BY <1>11 DEF CompleteTask
  <2>. HIDE DEF t, row
  <2>3. Handler
    BY <1>11, <2>2, HandlerType DEF CompleteTask, At, WorkerPC, Handler
  <2>4. Rows
    BY <1>11, <2>1, <2>2, TaskUpdateType DEF CompleteTask, Rows
  <2>5. Budget
    BY <2>2, <1>a, <1>e DEF FailedUpdate
  <2>. QED BY <1>11, <2>3, <2>4, <2>5, <1>b, <1>d DEF CompleteTask
<1>12. ASSUME NEW c \in Consumers, FailTask(c) PROVE Goal
  <2>1. [task[worker[c].task] EXCEPT !.status = "FAILED"] \in TaskRow /\ worker[c].task \in TaskID
    BY <1>12, WorkerFacts DEF FailTask, At, TaskRow, Status, TaskStatus
  <2>2. Rows
    BY <1>12, <2>1, TaskUpdateType DEF FailTask, Rows
  <2>3. Handler
    <3>1. "FAILED" \in Status \cup {Absent}
      BY DEF Status, JobStatus
    <3>2. (IF worker[c].attempt < MaxRetries THEN "retry" ELSE "exhaust") \in WorkerPC
      BY DEF WorkerPC
    <3>. QED BY <1>12, <3>1, <3>2, HandlerType DEF FailTask, At, Handler
  <2>4. Budget
    BY <1>12, <1>a, <1>e DEF FailTask, LoggedUpdate
  <2>. QED BY <1>12, <2>2, <2>3, <2>4, <1>b, <1>d DEF FailTask
<1>13. ASSUME NEW c \in Consumers, RetryTask(c) PROVE Goal
  <2>. DEFINE t == worker[c].task
              pc == IF RetryPartitions = {} THEN "commit" ELSE "publishRetry"
              w == [worker[c] EXCEPT !.pc = pc, !.status = taskTransitions.retry.dst, !.attempt = @ + 1]
  <2>1. worker[c] \in WorkerState /\ t \in TaskID
    BY <1>13, WorkerFacts DEF RetryTask, At
  <2>2. taskTransitions.retry.dst \in Status
    BY DEF taskTransitions, Status, TaskStatus
  <2>3. worker[c].attempt + 1 \in Nat
    BY <2>1 DEF WorkerState
  <2>4. w.status \in Status /\ w.attempt \in Nat
    BY <2>1, <2>2, <2>3 DEF WorkerState
  <2>5. Rows
    <3>1. [status |-> w.status, attempt |-> w.attempt] \in TaskRow
      BY <2>4 DEF TaskRow
    <3>2. LoggedUpdate(t, [status |-> w.status, attempt |-> w.attempt]) /\ job' = job
      BY <1>13 DEF RetryTask
    <3>. HIDE DEF w, t
    <3>. QED BY <2>1, <3>1, <3>2, TaskUpdateType DEF Rows
  <2>6. Handler
    <3>1. pc \in WorkerPC
      BY DEF WorkerPC
    <3>2. Become(c, [worker[c] EXCEPT !.pc = pc, !.status = taskTransitions.retry.dst,
                                      !.attempt = worker[c].attempt + 1])
      BY <1>13 DEF RetryTask
    <3>. HIDE DEF pc
    <3>. QED BY <1>13, <2>2, <2>3, <3>1, <3>2, HandlerType DEF RetryTask, At, Handler
  <2>7. Budget
    BY <1>13, <1>a, <1>e DEF RetryTask, LoggedUpdate
  <2>. QED BY <1>13, <2>5, <2>6, <2>7, <1>b, <1>d DEF RetryTask
<1>14. ASSUME NEW c \in Consumers, PublishRetry(c) PROVE Goal
  <2>1. Handler
    BY <1>14, HandlerType DEF PublishRetry, At, WorkerPC, Handler
  <2>2. Kafka
    BY <1>14, <1>b, WorkerFacts, PublishType DEF PublishRetry, At, Kafka, Partitions
  <2>. QED BY <1>14, <2>1, <2>2, <1>a, <1>c, <1>d, <1>e DEF PublishRetry
<1>15. ASSUME NEW c \in Consumers, ExhaustTask(c) PROVE Goal
  <2>. DEFINE t == worker[c].task
              pc == IF DLQConfigured THEN "publishDLQ" ELSE "commit"
              w == [worker[c] EXCEPT !.pc = pc, !.status = taskTransitions.exhaust_retries.dst]
  <2>1. worker[c] \in WorkerState /\ t \in TaskID /\ task[t] \in TaskRow
    BY <1>15, WorkerFacts DEF ExhaustTask, At
  <2>2. taskTransitions.exhaust_retries.dst \in Status
    BY DEF taskTransitions, Status, TaskStatus
  <2>3. w.status \in Status
    BY <2>1, <2>2 DEF WorkerState
  <2>4. Rows
    <3>1. [task[t] EXCEPT !.status = w.status] \in TaskRow
      BY <2>1, <2>3 DEF TaskRow
    <3>2. LoggedUpdate(t, [task[t] EXCEPT !.status = w.status]) /\ job' = job
      BY <1>15 DEF ExhaustTask
    <3>. HIDE DEF w, t
    <3>. QED BY <2>1, <3>1, <3>2, TaskUpdateType DEF Rows
  <2>5. Handler
    <3>1. pc \in WorkerPC
      BY DEF WorkerPC
    <3>2. Become(c, w)
      BY <1>15 DEF ExhaustTask
    <3>. HIDE DEF pc
    <3>. QED BY <1>15, <2>2, <3>1, <3>2, HandlerType DEF ExhaustTask, At, Handler
  <2>6. Budget
    BY <1>15, <1>a, <1>e DEF ExhaustTask, LoggedUpdate
  <2>. QED BY <1>15, <2>4, <2>5, <2>6, <1>b, <1>d DEF ExhaustTask
<1>16. ASSUME NEW c \in Consumers, PublishDLQ(c) PROVE Goal
  <2>1. Handler
    BY <1>16, HandlerType DEF PublishDLQ, At, WorkerPC, Handler
  <2>2. Ghosts
    BY <1>16, WorkerFacts DEF PublishDLQ, At, WorkInv, TaskExecutorTypeOK, Ghosts
  <2>. QED BY <1>16, <2>1, <2>2, <1>a, <1>b, <1>c, <1>e DEF PublishDLQ
<1>17. ASSUME NEW c \in Consumers, Commit(c) PROVE Goal
  <2>1. Handler
    BY <1>17, BecomeType, WaitingType DEF Commit, Handler
  <2>2. Kafka
    <3>1. worker[c].offset \in Nat
      BY <1>17, WorkerFacts DEF Commit, At, WorkerState
    <3>2. \/ CommitMessages(worker[c].part, worker[c].offset)
          \/ UNCHANGED brokerVars
      BY <1>17 DEF Commit
    <3>. QED BY <3>1, <3>2, <1>b DEF CommitMessages, WorkInv, BrokerTypeOK, Kafka
  <2>. QED BY <1>17, <2>1, <2>2, <1>a, <1>c, <1>d, <1>e DEF Commit
<1>18. ASSUME NEW c \in Consumers, CrashConsumer(c) PROVE Goal
  <2>1. Handler
    BY <1>18, BecomeType, WaitingType DEF CrashConsumer, Handler
  <2>2. Kafka
    BY <1>18 DEF CrashConsumer, Rejoin, WorkInv, BrokerTypeOK, Kafka
  <2>. QED BY <1>18, <2>1, <2>2, <1>a, <1>c, <1>d, <1>e DEF CrashConsumer
<1>19. ASSUME RebalanceGroup PROVE Goal
  <2>1. Handler /\ Ghosts
    BY <1>19, <1>d DEF RebalanceGroup, workerVars, WorkInv, TaskExecutorTypeOK, HoldsMessage, Handler
  <2>2. PICK p \in Partitions : \E c \in GroupOf(p) : Rebalance(p, c)
    BY <1>19 DEF RebalanceGroup
  <2>3. GroupOf(p) \subseteq Consumers
    BY DEF GroupOf, Consumers
  <2>4. Kafka
    BY <2>2, <2>3 DEF Rebalance, WorkInv, BrokerTypeOK, Kafka
  <2>5. Budget
    BY <2>2, <1>a, <1>e DEF Rebalance
  <2>. QED BY <1>19, <2>1, <2>4, <2>5, <1>c DEF RebalanceGroup
<1>. HIDE DEF Goal
<1>. QED
  BY <1>1, <1>2, <1>3, <1>4, <1>5, <1>6, <1>7, <1>8, <1>9, <1>10, <1>11, <1>12, <1>13, <1>14,
     <1>15, <1>16, <1>17, <1>18, <1>19
  DEF ConsumerStep

-----------------------------------------------------------------------------
(* What each action of a handler does, in the terms the invariants need. *)

\* The other consumers stand still.
Alone(c) == \A d \in Consumers : d # c => worker'[d] = worker[d]

\* The handler goes on with the message it holds.
GoesOn(c, from, to) ==
  /\ Alone(c) /\ worker[c].pc = from /\ worker'[c].pc = to
  /\ worker'[c].task = worker[c].task
  /\ worker'[c].part = worker[c].part /\ worker'[c].offset = worker[c].offset

\* The handler returns an error: the message is dropped without a commit.
Drops(c, from) == Alone(c) /\ worker[c].pc = from /\ worker'[c] = Waiting

\* At most the row of the task that c holds changes.
OtherRows(c) == \A u \in TaskID : u # worker[c].task => task'[u] = task[u]

\* The status written to the row of the task that c holds, its attempt kept.
Writes(c, status) ==
  /\ OtherRows(c)
  /\ task'[worker[c].task].status = status
  /\ task'[worker[c].task].attempt = task[worker[c].task].attempt

LEMMA BecomeFacts ==
  ASSUME WorkInv, NEW c \in Consumers, NEW w, Become(c, w)
  PROVE  worker'[c] = w /\ Alone(c)
BY DEF Become, Alone, WorkInv, TaskExecutorTypeOK

\* A handler that goes on with some of its fields changed.
LEMMA GotoFacts ==
  ASSUME WorkInv, NEW c \in Consumers, NEW from, from # "fetch", At(c, from), NEW to, Goto(c, to)
  PROVE  /\ GoesOn(c, from, to)
         /\ worker'[c].status = worker[c].status /\ worker'[c].attempt = worker[c].attempt
         /\ worker'[c].jobStatus = worker[c].jobStatus
<1>. DEFINE w == [worker[c] EXCEPT !.pc = to]
<1>1. /\ w.pc = to /\ w.task = worker[c].task /\ w.part = worker[c].part
      /\ w.offset = worker[c].offset /\ w.status = worker[c].status
      /\ w.attempt = worker[c].attempt /\ w.jobStatus = worker[c].jobStatus
  BY WorkerFacts DEF At, WorkerState
<1>2. Become(c, w)
  BY DEF Goto
<1>. HIDE DEF w
<1>. QED BY <1>1, <1>2, BecomeFacts DEF GoesOn, At

LEMMA StatusFacts ==
  ASSUME WorkInv, NEW c \in Consumers, NEW from, from # "fetch", At(c, from), NEW to, NEW st,
         Become(c, [worker[c] EXCEPT !.pc = to, !.status = st])
  PROVE  /\ GoesOn(c, from, to)
         /\ worker'[c].status = st /\ worker'[c].attempt = worker[c].attempt
         /\ worker'[c].jobStatus = worker[c].jobStatus
<1>. DEFINE w == [worker[c] EXCEPT !.pc = to, !.status = st]
<1>1. /\ w.pc = to /\ w.task = worker[c].task /\ w.part = worker[c].part
      /\ w.offset = worker[c].offset /\ w.status = st
      /\ w.attempt = worker[c].attempt /\ w.jobStatus = worker[c].jobStatus
  BY WorkerFacts DEF At, WorkerState
<1>2. Become(c, w)
  OBVIOUS
<1>. HIDE DEF w
<1>. QED BY <1>1, <1>2, BecomeFacts DEF GoesOn, At

\* The row of the held task rewritten with a new status.
LEMMA WriteFacts ==
  ASSUME WorkInv, NEW c \in Consumers, worker[c].pc # "fetch", NEW st,
         UpdateTask(worker[c].task, [task[worker[c].task] EXCEPT !.status = st])
  PROVE  Writes(c, st)
<1>1. worker[c].task \in TaskID /\ task[worker[c].task] \in TaskRow /\ task \in [TaskID -> TaskRow]
  BY WorkerFacts DEF WorkInv, RepositoryTypeOK
<1>. QED BY <1>1 DEF UpdateTask, Writes, OtherRows, TaskRow

LEMMA FetchEffect ==
  ASSUME WorkInv, NEW c \in Consumers, Fetch(c)
  PROVE  /\ Alone(c) /\ worker[c].pc = "fetch" /\ worker'[c].pc = "loadTask"
         /\ UNCHANGED <<log, committed, owner, job, task, executed, dlq, spent>>
         /\ \E p \in Partitions :
              /\ owner[p] = c
              /\ position[p] + 1 \in Unfetched(p)
              /\ position' = [position EXCEPT ![p] = @ + 1]
              /\ worker'[c].part = p /\ worker'[c].offset = position[p] + 1
              /\ worker'[c].task = log[p][position[p] + 1]
<1>1. PICK p \in Partitions :
        /\ FetchMessage(c, p)
        /\ Become(c, [Waiting EXCEPT !.pc = "loadTask", !.part = p, !.offset = position[p] + 1,
                                      !.task = log[p][position[p] + 1]])
  BY DEF Fetch
<1>. DEFINE w == [Waiting EXCEPT !.pc = "loadTask", !.part = p, !.offset = position[p] + 1,
                                 !.task = log[p][position[p] + 1]]
<1>2. /\ w.pc = "loadTask" /\ w.part = p /\ w.offset = position[p] + 1
      /\ w.task = log[p][position[p] + 1]
  BY DEF Waiting
<1>3. Become(c, w)
  BY <1>1
<1>. HIDE DEF w
<1>4. worker'[c] = w /\ Alone(c)
  BY <1>3, BecomeFacts
<1>5. position[p] + 1 \in Unfetched(p)
  BY <1>1 DEF FetchMessage, Unfetched, WorkInv, BrokerTypeOK
<1>6. UNCHANGED <<log, committed, owner, job, task, executed, dlq, spent>> /\ worker[c].pc = "fetch"
  BY <1>1 DEF Fetch, FetchMessage, repositoryVars, At
<1>7. owner[p] = c /\ position' = [position EXCEPT ![p] = @ + 1]
  BY <1>1 DEF FetchMessage
<1>. QED BY <1>2, <1>4, <1>5, <1>6, <1>7

LEMMA LoadTaskEffect ==
  ASSUME WorkInv, NEW c \in Consumers, LoadTask(c)
  PROVE  /\ UNCHANGED <<job, task, brokerVars, executed, dlq>>
         /\ \/ /\ GoesOn(c, "loadTask", "loadJob") /\ UNCHANGED spent
               /\ worker'[c].status = task[worker[c].task].status
               /\ worker'[c].attempt = task[worker[c].task].attempt
            \/ Drops(c, "loadTask") /\ Spend("error")
<1>. DEFINE w == [worker[c] EXCEPT !.pc = "loadJob", !.status = task[worker[c].task].status,
                                   !.attempt = task[worker[c].task].attempt]
<1>0. At(c, "loadTask") /\ UNCHANGED <<job, task, brokerVars, executed, dlq>>
  BY DEF LoadTask, repositoryVars
<1>1. (Become(c, w) /\ UNCHANGED spent) \/ (Become(c, Waiting) /\ Spend("error"))
  BY DEF LoadTask, ReturnError
<1>2. /\ w.pc = "loadJob" /\ w.task = worker[c].task /\ w.part = worker[c].part
      /\ w.offset = worker[c].offset /\ w.status = task[worker[c].task].status
      /\ w.attempt = task[worker[c].task].attempt
  BY <1>0, WorkerFacts DEF At, WorkerState
<1>. HIDE DEF w
<1>3. (worker'[c] = w /\ Alone(c) /\ UNCHANGED spent) \/ (worker'[c] = Waiting /\ Alone(c) /\ Spend("error"))
  BY <1>1, BecomeFacts
<1>. QED BY <1>0, <1>2, <1>3 DEF GoesOn, Drops, At

LEMMA LoadJobEffect ==
  ASSUME WorkInv, NEW c \in Consumers, LoadJob(c)
  PROVE  /\ UNCHANGED <<job, task, brokerVars, executed, dlq>>
         /\ \/ /\ GoesOn(c, "loadJob", "dispatch") /\ UNCHANGED spent
               /\ worker'[c].status = worker[c].status /\ worker'[c].attempt = worker[c].attempt
               /\ worker'[c].jobStatus = job[worker[c].task[1]].status
            \/ Drops(c, "loadJob") /\ Spend("error")
<1>. DEFINE st == job[worker[c].task[1]].status
            w == [worker[c] EXCEPT !.pc = "dispatch", !.jobStatus = st]
<1>0. At(c, "loadJob") /\ UNCHANGED <<job, task, brokerVars, executed, dlq>>
  BY DEF LoadJob, repositoryVars
<1>1. /\ w.pc = "dispatch" /\ w.task = worker[c].task /\ w.part = worker[c].part
      /\ w.offset = worker[c].offset /\ w.status = worker[c].status
      /\ w.attempt = worker[c].attempt /\ w.jobStatus = st
  BY <1>0, WorkerFacts DEF At, WorkerState
<1>2. (Become(c, w) /\ UNCHANGED spent) \/ (Become(c, Waiting) /\ Spend("error"))
  BY DEF LoadJob, ReturnError
<1>. HIDE DEF w
<1>3. (worker'[c] = w /\ Alone(c) /\ UNCHANGED spent) \/ (worker'[c] = Waiting /\ Alone(c) /\ Spend("error"))
  BY <1>2, BecomeFacts
<1>. QED BY <1>0, <1>1, <1>3 DEF GoesOn, Drops, At

LEMMA DropEffect ==
  ASSUME WorkInv, NEW c \in Consumers, Unregistered(c) \/ RefuseStart(c)
  PROVE  Drops(c, "dispatch") /\ UNCHANGED <<job, task, brokerVars, executed, dlq, spent>>
BY BecomeFacts DEF Unregistered, RefuseStart, ReturnError, Drops, At, repositoryVars

LEMMA SkipSettledEffect ==
  ASSUME WorkInv, NEW c \in Consumers, SkipSettled(c)
  PROVE  GoesOn(c, "dispatch", "commit") /\ UNCHANGED <<job, task, brokerVars, executed, dlq, spent>>
BY GotoFacts DEF SkipSettled, repositoryVars

LEMMA SkipForJobEffect ==
  ASSUME WorkInv, NEW c \in Consumers, SkipForJob(c)
  PROVE  /\ GoesOn(c, "dispatch", "commit") /\ ~IsExecutionPending(worker[c].jobStatus)
         /\ UNCHANGED <<job, brokerVars, executed, dlq>>
         /\ \/ Writes(c, worker[c].jobStatus) /\ UNCHANGED spent
            \/ UNCHANGED task /\ Spend("error")
<1>1. worker[c].task \in TaskID /\ task[worker[c].task] \in TaskRow
  BY WorkerFacts DEF SkipForJob, At
<1>2. UpdateTasksStatus({worker[c].task}, worker[c].jobStatus) => Writes(c, worker[c].jobStatus)
  BY <1>1 DEF UpdateTasksStatus, Writes, OtherRows, TaskRow
<1>3. GoesOn(c, "dispatch", "commit")
  BY GotoFacts DEF SkipForJob
<1>. QED BY <1>2, <1>3 DEF SkipForJob

LEMMA StartTaskEffect ==
  ASSUME WorkInv, NEW c \in Consumers, StartTask(c)
  PROVE  /\ UNCHANGED <<job, brokerVars, executed, dlq>>
         /\ IsExecutionPending(worker[c].jobStatus) /\ worker[c].status \in {"PENDING", "RUNNING"}
         /\ \/ /\ GoesOn(c, "dispatch", "execute") /\ Writes(c, "RUNNING") /\ UNCHANGED spent
               /\ worker'[c].status = "RUNNING" /\ worker'[c].attempt = worker[c].attempt
            \/ Drops(c, "dispatch") /\ (Writes(c, "RUNNING") \/ UNCHANGED task) /\ Spend("error")
<1>. DEFINE row == [task[worker[c].task] EXCEPT !.status = "RUNNING"]
<1>1. /\ At(c, "dispatch") /\ UNCHANGED <<job, brokerVars, executed, dlq>>
      /\ IsExecutionPending(worker[c].jobStatus) /\ worker[c].status \in {"PENDING", "RUNNING"}
      /\ \/ /\ UpdateTask(worker[c].task, row) /\ UNCHANGED spent
            /\ Become(c, [worker[c] EXCEPT !.pc = "execute", !.status = row.status])
         \/ FailedUpdate(worker[c].task, row) /\ ReturnError(c)
  BY DEF StartTask, taskTransitions, CanFire
<1>2. row.status = "RUNNING"
  BY <1>1, WorkerFacts DEF At, TaskRow
<1>3. UpdateTask(worker[c].task, row) => Writes(c, "RUNNING")
  BY <1>1, WriteFacts DEF At
<1>4. ReturnError(c) => Drops(c, "dispatch")
  BY <1>1, BecomeFacts DEF ReturnError, Drops, At
<1>. HIDE DEF row
<1>5. CASE Become(c, [worker[c] EXCEPT !.pc = "execute", !.status = row.status])
           /\ UpdateTask(worker[c].task, row) /\ UNCHANGED spent
  <2>1. Become(c, [worker[c] EXCEPT !.pc = "execute", !.status = "RUNNING"])
    BY <1>2, <1>5
  <2>2. /\ GoesOn(c, "dispatch", "execute")
        /\ worker'[c].status = "RUNNING" /\ worker'[c].attempt = worker[c].attempt
    BY <1>1, <2>1, StatusFacts, ZenonT(60)
  <2>. QED BY <1>1, <1>3, <1>5, <2>2
<1>. QED BY <1>1, <1>3, <1>4, <1>5 DEF FailedUpdate

LEMMA ExecuteEffect ==
  ASSUME WorkInv, NEW c \in Consumers, Execute(c)
  PROVE  /\ UNCHANGED <<job, task, brokerVars, dlq, spent>>
         /\ executed' = [executed EXCEPT ![worker[c].task] = @ + 1]
         /\ GoesOn(c, "execute", "complete") \/ GoesOn(c, "execute", "fail")
         /\ worker'[c].attempt = worker[c].attempt /\ worker'[c].status = worker[c].status
<1>1. PICK outcome \in {"complete", "fail"} : Goto(c, outcome)
  BY DEF Execute
<1>2. At(c, "execute")
  BY DEF Execute
<1>3. /\ GoesOn(c, "execute", outcome)
      /\ worker'[c].attempt = worker[c].attempt /\ worker'[c].status = worker[c].status
  BY <1>1, <1>2, GotoFacts
<1>. QED BY <1>3 DEF Execute, repositoryVars

LEMMA ParamsErrorEffect ==
  ASSUME WorkInv, NEW c \in Consumers, ParamsError(c)
  PROVE  /\ UNCHANGED <<job, brokerVars, executed, dlq>>
         /\ Drops(c, "execute") /\ Spend("error") /\ (Writes(c, "FAILED") \/ UNCHANGED task)
<1>1. At(c, "execute") /\ ReturnError(c) /\ UNCHANGED <<job, brokerVars, executed, dlq>>
  BY DEF ParamsError
<1>2. /\ Spend("error")
      /\ \/ UpdateTask(worker[c].task, [task[worker[c].task] EXCEPT !.status = "FAILED"])
         \/ UNCHANGED task
  BY DEF ParamsError, FailedUpdate
<1>3. Drops(c, "execute")
  BY <1>1, BecomeFacts DEF ReturnError, Drops, At
<1>. QED BY <1>1, <1>2, <1>3, WriteFacts DEF At

LEMMA CompleteTaskEffect ==
  ASSUME WorkInv, NEW c \in Consumers, CompleteTask(c)
  PROVE  /\ UNCHANGED <<job, brokerVars, executed, dlq>>
         /\ \/ GoesOn(c, "complete", "commit") /\ Writes(c, "COMPLETED") /\ UNCHANGED spent
            \/ Drops(c, "complete") /\ (Writes(c, "COMPLETED") \/ UNCHANGED task) /\ Spend("error")
<1>. DEFINE row == [task[worker[c].task] EXCEPT !.status = "COMPLETED"]
<1>1. /\ At(c, "complete") /\ UNCHANGED <<job, brokerVars, executed, dlq>>
      /\ \/ UpdateTask(worker[c].task, row) /\ UNCHANGED spent /\ Goto(c, "commit")
         \/ FailedUpdate(worker[c].task, row) /\ ReturnError(c)
  BY DEF CompleteTask, taskTransitions
<1>2. UpdateTask(worker[c].task, row) => Writes(c, "COMPLETED")
  BY <1>1, WriteFacts DEF At
<1>3. ReturnError(c) => Drops(c, "complete")
  BY <1>1, BecomeFacts DEF ReturnError, Drops, At
<1>4. Goto(c, "commit") => GoesOn(c, "complete", "commit")
  BY <1>1, GotoFacts
<1>. HIDE DEF row
<1>. QED BY <1>1, <1>2, <1>3, <1>4 DEF FailedUpdate

LEMMA FailTaskEffect ==
  ASSUME WorkInv, NEW c \in Consumers, FailTask(c)
  PROVE  /\ UNCHANGED <<job, brokerVars, executed, dlq>>
         /\ \/ GoesOn(c, "fail", "retry") /\ worker[c].attempt < MaxRetries
            \/ GoesOn(c, "fail", "exhaust")
         /\ worker'[c].status = "FAILED" /\ worker'[c].attempt = worker[c].attempt
         /\ \/ Writes(c, "FAILED") /\ UNCHANGED spent
            \/ UNCHANGED task /\ Spend("error")
<1>. DEFINE to == IF worker[c].attempt < MaxRetries THEN "retry" ELSE "exhaust"
<1>1. At(c, "fail") /\ UNCHANGED <<job, brokerVars, executed, dlq>>
  BY DEF FailTask
<1>2. \/ /\ UpdateTask(worker[c].task, [task[worker[c].task] EXCEPT !.status = "FAILED"])
         /\ UNCHANGED spent
      \/ UNCHANGED task /\ Spend("error")
  BY DEF FailTask, LoggedUpdate
<1>3. (Writes(c, "FAILED") /\ UNCHANGED spent) \/ (UNCHANGED task /\ Spend("error"))
  BY <1>1, <1>2, WriteFacts DEF At
<1>4. (to = "retry" /\ worker[c].attempt < MaxRetries) \/ to = "exhaust"
  OBVIOUS
<1>5. PICK x \in {"retry", "exhaust"} :
        x = to /\ Become(c, [worker[c] EXCEPT !.pc = x, !.status = "FAILED"])
  BY DEF FailTask
<1>6. GoesOn(c, "fail", x) /\ worker'[c].status = "FAILED" /\ worker'[c].attempt = worker[c].attempt
  BY <1>1, <1>5, StatusFacts, ZenonT(60)
<1>. HIDE DEF to
<1>. QED BY <1>1, <1>3, <1>4, <1>5, <1>6

LEMMA RetryTaskEffect ==
  ASSUME WorkInv, NEW c \in Consumers, RetryTask(c)
  PROVE  /\ UNCHANGED <<job, brokerVars, executed, dlq>>
         /\ \/ GoesOn(c, "retry", "publishRetry") /\ RetryPartitions # {}
            \/ GoesOn(c, "retry", "commit") /\ RetryPartitions = {}
         /\ OtherRows(c)
         /\ \/ /\ task'[worker[c].task].status = "PENDING"
               /\ task'[worker[c].task].attempt = worker[c].attempt + 1
               /\ UNCHANGED spent
            \/ UNCHANGED task /\ Spend("error")
<1>. DEFINE to == IF RetryPartitions = {} THEN "commit" ELSE "publishRetry"
            w == [worker[c] EXCEPT !.pc = to, !.status = "PENDING", !.attempt = @ + 1]
            row == [status |-> "PENDING", attempt |-> worker[c].attempt + 1]
<1>1. At(c, "retry") /\ UNCHANGED <<job, brokerVars, executed, dlq>>
  BY DEF RetryTask
<1>2. worker[c] \in WorkerState /\ worker[c].task \in TaskID /\ task \in [TaskID -> TaskRow]
  BY <1>1, WorkerFacts DEF At, WorkInv, RepositoryTypeOK
<1>3. /\ w.pc = to /\ w.task = worker[c].task /\ w.part = worker[c].part
      /\ w.offset = worker[c].offset /\ w.status = "PENDING" /\ w.attempt = worker[c].attempt + 1
  BY <1>2 DEF WorkerState
<1>4. /\ Become(c, w)
      /\ LoggedUpdate(worker[c].task, [status |-> w.status, attempt |-> w.attempt])
  BY DEF RetryTask, taskTransitions
<1>. HIDE DEF w
<1>5. worker'[c] = w /\ Alone(c)
  BY <1>4, BecomeFacts
<1>6. (UpdateTask(worker[c].task, row) /\ UNCHANGED spent) \/ (UNCHANGED task /\ Spend("error"))
  BY <1>3, <1>4 DEF LoggedUpdate
<1>7. /\ OtherRows(c)
      /\ \/ task'[worker[c].task] = row /\ UNCHANGED spent
         \/ UNCHANGED task /\ Spend("error")
  <2>. HIDE DEF row
  <2>. QED BY <1>2, <1>6 DEF UpdateTask, OtherRows
<1>8. row.status = "PENDING" /\ row.attempt = worker[c].attempt + 1
  OBVIOUS
<1>. HIDE DEF row
<1>9. GoesOn(c, "retry", to)
  BY <1>1, <1>3, <1>5 DEF GoesOn, At
<1>. QED BY <1>1, <1>7, <1>8, <1>9

LEMMA PublishRetryEffect ==
  ASSUME WorkInv, NEW c \in Consumers, PublishRetry(c)
  PROVE  /\ UNCHANGED <<job, task, executed, dlq, committed, position, owner>>
         /\ GoesOn(c, "publishRetry", "commit")
         /\ \/ /\ \E p \in RetryPartitions : log' = [log EXCEPT ![p] = Append(@, worker[c].task)]
               /\ UNCHANGED spent
            \/ UNCHANGED log /\ Spend("error")
<1>1. At(c, "publishRetry") /\ Goto(c, "commit") /\ UNCHANGED <<job, task, executed, dlq>>
  BY DEF PublishRetry, repositoryVars
<1>2. GoesOn(c, "publishRetry", "commit")
  BY <1>1, GotoFacts
<1>3. /\ UNCHANGED <<committed, position, owner>>
      /\ \/ /\ \E p \in RetryPartitions : log' = [log EXCEPT ![p] = Append(@, worker[c].task)]
            /\ UNCHANGED spent
         \/ UNCHANGED log /\ Spend("error")
  BY DEF PublishRetry, Publish, brokerVars
<1>. QED BY <1>1, <1>2, <1>3

LEMMA ExhaustTaskEffect ==
  ASSUME WorkInv, NEW c \in Consumers, ExhaustTask(c)
  PROVE  /\ UNCHANGED <<job, brokerVars, executed, dlq>>
         /\ \/ GoesOn(c, "exhaust", "publishDLQ") /\ DLQConfigured
            \/ GoesOn(c, "exhaust", "commit") /\ ~DLQConfigured
         /\ \/ Writes(c, "MAX_RETRIES_EXHAUSTED") /\ UNCHANGED spent
            \/ UNCHANGED task /\ Spend("error")
<1>. DEFINE to == IF DLQConfigured THEN "publishDLQ" ELSE "commit"
            w == [worker[c] EXCEPT !.pc = to, !.status = "MAX_RETRIES_EXHAUSTED"]
<1>1. At(c, "exhaust") /\ UNCHANGED <<job, brokerVars, executed, dlq>>
  BY DEF ExhaustTask
<1>2. worker[c] \in WorkerState
  BY <1>1, WorkerFacts DEF At
<1>3. /\ w.pc = to /\ w.task = worker[c].task /\ w.part = worker[c].part
      /\ w.offset = worker[c].offset /\ w.status = "MAX_RETRIES_EXHAUSTED"
  BY <1>2 DEF WorkerState
<1>4. /\ Become(c, w)
      /\ LoggedUpdate(worker[c].task, [task[worker[c].task] EXCEPT !.status = w.status])
  BY DEF ExhaustTask, taskTransitions
<1>. HIDE DEF w
<1>5. worker'[c] = w /\ Alone(c)
  BY <1>4, BecomeFacts
<1>6. \/ /\ UpdateTask(worker[c].task, [task[worker[c].task] EXCEPT !.status = "MAX_RETRIES_EXHAUSTED"])
         /\ UNCHANGED spent
      \/ UNCHANGED task /\ Spend("error")
  BY <1>3, <1>4 DEF LoggedUpdate
<1>7. (Writes(c, "MAX_RETRIES_EXHAUSTED") /\ UNCHANGED spent) \/ (UNCHANGED task /\ Spend("error"))
  BY <1>1, <1>6, WriteFacts DEF At
<1>. QED BY <1>1, <1>3, <1>5, <1>7 DEF GoesOn, At

LEMMA PublishDLQEffect ==
  ASSUME WorkInv, NEW c \in Consumers, PublishDLQ(c)
  PROVE  /\ UNCHANGED <<job, task, brokerVars, executed>>
         /\ GoesOn(c, "publishDLQ", "commit")
         /\ \/ dlq' = dlq \cup {worker[c].task} /\ UNCHANGED spent
            \/ UNCHANGED dlq /\ Spend("error")
<1>1. At(c, "publishDLQ") /\ Goto(c, "commit")
  BY DEF PublishDLQ
<1>2. GoesOn(c, "publishDLQ", "commit")
  BY <1>1, GotoFacts
<1>. QED BY <1>2 DEF PublishDLQ, repositoryVars

LEMMA CommitEffect ==
  ASSUME WorkInv, NEW c \in Consumers, Commit(c)
  PROVE  /\ UNCHANGED <<job, task, executed, dlq, log, position, owner>>
         /\ Drops(c, "commit")
         /\ \/ /\ committed' = [committed EXCEPT ![worker[c].part] = worker[c].offset]
               /\ UNCHANGED spent
            \/ owner[worker[c].part] # c /\ UNCHANGED committed /\ UNCHANGED spent
            \/ UNCHANGED committed /\ Spend("error")
<1>1. At(c, "commit") /\ Become(c, Waiting)
  BY DEF Commit
<1>2. Drops(c, "commit")
  BY <1>1, BecomeFacts DEF Drops, At
<1>. QED BY <1>2 DEF Commit, CommitMessages, brokerVars, repositoryVars

-----------------------------------------------------------------------------
(* Steps in general. *)

\* Where a handler still has something to do for its task: it may write the
\* row, or publish the retry message.
CarryPC == {"loadTask", "loadJob", "dispatch", "execute", "complete", "fail", "retry",
            "publishRetry", "exhaust"}

Carries(c) == worker[c].pc \in CarryPC

\* A step of c that neither fetches nor publishes.
HandlerStep(c) ==
  \/ LoadTask(c) \/ LoadJob(c) \/ Unregistered(c) \/ SkipForJob(c) \/ SkipSettled(c)
  \/ StartTask(c) \/ RefuseStart(c) \/ Execute(c) \/ ParamsError(c) \/ CompleteTask(c)
  \/ FailTask(c) \/ RetryTask(c) \/ ExhaustTask(c) \/ PublishDLQ(c) \/ Commit(c)

\* A token is never made by such a step: the handler keeps its task or lets
\* it go, and once it carries nothing it does not carry again.
Steady(c) ==
  /\ UNCHANGED <<log, position, owner, job>>
  /\ Alone(c) /\ worker[c].pc # "fetch" /\ OtherRows(c)
  /\ worker'[c] = Waiting \/ worker'[c].task = worker[c].task
  /\ worker'[c].pc \in CarryPC => worker[c].pc \in CarryPC

LEMMA HandlerSteady == ASSUME WorkInv, NEW c \in Consumers, HandlerStep(c) PROVE Steady(c)
<1>. USE DEF Steady, GoesOn, Drops, CarryPC, Waiting, OtherRows, Writes, brokerVars
<1>1. CASE LoadTask(c)
  BY <1>1, LoadTaskEffect
<1>2. CASE LoadJob(c)
  BY <1>2, LoadJobEffect
<1>3. CASE Unregistered(c) \/ RefuseStart(c)
  BY <1>3, DropEffect
<1>4. CASE SkipForJob(c)
  BY <1>4, SkipForJobEffect
<1>5. CASE SkipSettled(c)
  BY <1>5, SkipSettledEffect
<1>6. CASE StartTask(c)
  BY <1>6, StartTaskEffect
<1>7. CASE Execute(c)
  BY <1>7, ExecuteEffect
<1>8. CASE ParamsError(c)
  BY <1>8, ParamsErrorEffect
<1>9. CASE CompleteTask(c)
  BY <1>9, CompleteTaskEffect
<1>10. CASE FailTask(c)
  BY <1>10, FailTaskEffect
<1>11. CASE RetryTask(c)
  BY <1>11, RetryTaskEffect
<1>12. CASE ExhaustTask(c)
  BY <1>12, ExhaustTaskEffect
<1>13. CASE PublishDLQ(c)
  BY <1>13, PublishDLQEffect
<1>14. CASE Commit(c)
  BY <1>14, CommitEffect
<1>. QED
  BY <1>1, <1>2, <1>3, <1>4, <1>5, <1>6, <1>7, <1>8, <1>9, <1>10, <1>11, <1>12, <1>13, <1>14
  DEF HandlerStep

\* A fault that has happened stays on the books.
LEMMA SpendFacts ==
  ASSUME WorkInv, NEW k \in FaultKind, Spend(k)
  PROVE  ~Never(k)' /\ \A x \in FaultKind : Never(x)' => Never(x)
<1>1. spent \in [FaultKind -> Nat] /\ spent' = [spent EXCEPT ![k] = @ + 1]
  BY DEF Spend, WorkInv, FaultsTypeOK
<1>2. spent'[k] = spent[k] + 1 /\ spent[k] \in Nat
  BY <1>1
<1>3. ASSUME NEW x \in FaultKind, spent'[x] = 0 PROVE spent[x] = 0
  BY <1>1, <1>2, <1>3
<1>. QED BY <1>2, <1>3 DEF Never

LEMMA ConsumerSpends ==
  ASSUME NEW c \in Consumers, ConsumerStep(c)
  PROVE  UNCHANGED spent \/ Spend("error")
BY DEF ConsumerStep, Fetch, LoadTask, LoadJob, Unregistered, SkipForJob, SkipSettled, StartTask,
       RefuseStart, Execute, ParamsError, CompleteTask, FailTask, RetryTask, PublishRetry,
       ExhaustTask, PublishDLQ, Commit, LoggedUpdate, FailedUpdate

-----------------------------------------------------------------------------
(* What a handler may write. *)

\* What the handlers write of their own accord; otherwise it is the status of
\* the job.
Verdicts == {"RUNNING", "COMPLETED", "FAILED", "PENDING", "MAX_RETRIES_EXHAUSTED"}

LEMMA HandlerWrites ==
  ASSUME WorkInv, NEW c \in Consumers, HandlerStep(c)
  PROVE  \/ UNCHANGED task
         \/ /\ Carries(c) /\ OtherRows(c) /\ worker[c].task \in TaskID
            /\ \/ /\ task'[worker[c].task].status \in Verdicts
                  /\ task'[worker[c].task].status = "COMPLETED" => worker[c].pc = "complete"
               \/ worker[c].pc = "dispatch" /\ task'[worker[c].task].status = worker[c].jobStatus
<1>0. worker[c].pc # "fetch" => worker[c].task \in TaskID
  BY WorkerFacts
<1>. USE <1>0 DEF GoesOn, Drops, Carries, CarryPC, Writes, Verdicts
<1>1. CASE LoadTask(c)
  BY <1>1, LoadTaskEffect
<1>2. CASE LoadJob(c)
  BY <1>2, LoadJobEffect
<1>3. CASE Unregistered(c) \/ RefuseStart(c)
  BY <1>3, DropEffect
<1>4. CASE SkipForJob(c)
  BY <1>4, SkipForJobEffect
<1>5. CASE SkipSettled(c)
  BY <1>5, SkipSettledEffect
<1>6. CASE StartTask(c)
  BY <1>6, StartTaskEffect
<1>7. CASE Execute(c)
  BY <1>7, ExecuteEffect
<1>8. CASE ParamsError(c)
  BY <1>8, ParamsErrorEffect
<1>9. CASE CompleteTask(c)
  BY <1>9, CompleteTaskEffect
<1>10. CASE FailTask(c)
  BY <1>10, FailTaskEffect
<1>11. CASE RetryTask(c)
  BY <1>11, RetryTaskEffect
<1>12. CASE ExhaustTask(c)
  BY <1>12, ExhaustTaskEffect
<1>13. CASE PublishDLQ(c)
  BY <1>13, PublishDLQEffect
<1>14. CASE Commit(c)
  BY <1>14, CommitEffect
<1>. QED
  BY <1>1, <1>2, <1>3, <1>4, <1>5, <1>6, <1>7, <1>8, <1>9, <1>10, <1>11, <1>12, <1>13, <1>14
  DEF HandlerStep

\* A message that was written is the one appended, or was there before.
LEMMA WrittenBy ==
  ASSUME BrokerTypeOK(TaskID), NEW p \in Partitions, NEW m \in TaskID,
         log' = [log EXCEPT ![p] = Append(@, m)], NEW u \in TaskID, Written(u)'
  PROVE  Written(u) \/ u = m
<1>1. PICK q \in Partitions : \E i \in 1..Len(log'[q]) : log'[q][i] = u
  BY DEF Written
<1>2. PICK i \in 1..Len(log'[q]) : log'[q][i] = u
  BY <1>1
<1>3. log[q] \in Seq(TaskID) /\ log[p] \in Seq(TaskID)
  BY DEF BrokerTypeOK
<1>4. CASE q # p
  <2>1. log'[q] = log[q]
    BY <1>4 DEF BrokerTypeOK
  <2>. QED BY <1>2, <2>1 DEF Written
<1>5. CASE q = p
  <2>1. log'[q] = Append(log[q], m)
    BY <1>5 DEF BrokerTypeOK
  <2>2. i \in 1..(Len(log[q]) + 1)
    BY <1>2, <1>3, <2>1
  <2>3. CASE i = Len(log[q]) + 1
    BY <1>2, <1>3, <2>1, <2>3
  <2>4. CASE i \in 1..Len(log[q])
    BY <1>2, <1>3, <2>1, <2>4 DEF Written
  <2>. QED BY <1>3, <2>2, <2>3, <2>4
<1>. QED BY <1>4, <1>5

-----------------------------------------------------------------------------
(* Who will come back to a task *)

Inside(c) == worker[c].pc # "fetch"

\* Nothing is read, committed or held beyond the end of a partition.
ReachInv ==
  /\ \A p \in Partitions : position[p] <= Len(log[p]) /\ committed[p] <= Len(log[p])
  /\ \A c \in Consumers : Inside(c) => worker[c].offset <= Len(log[worker[c].part])

\* While partitions stay where they are, a handler's message is in a
\* partition of its consumer, fetched and not committed.
HeldInv ==
  Never("rebalance") =>
    /\ \A p \in Partitions : committed[p] <= position[p]
    /\ \A c \in Consumers : Inside(c) =>
         /\ owner[worker[c].part] = c
         /\ committed[worker[c].part] < worker[c].offset
         /\ worker[c].offset <= position[worker[c].part]
         /\ log[worker[c].part][worker[c].offset] = worker[c].task

\* A message beyond everything that was fetched, committed or is in hand: no
\* commit and no rebalance will skip it.
Fresh(p, i) ==
  /\ i \in 1..Len(log[p]) /\ position[p] < i /\ committed[p] < i
  /\ \A c \in Consumers : Inside(c) /\ worker[c].part = p => worker[c].offset < i

\* A handler that will write the row of its task: it has not read the row
\* yet, or what it has read lets it start, or it has started.
Acts(c) ==
  \/ worker[c].pc \in {"loadTask", "execute", "complete", "fail", "retry", "publishRetry", "exhaust"}
  \/ worker[c].pc \in {"loadJob", "dispatch"} /\ worker[c].status \in {"PENDING", "RUNNING"}

\* Who will come back to a PENDING or RUNNING task.
Reached(t) ==
  \/ \E p \in Partitions : \E i \in 1..Len(log[p]) : Fresh(p, i) /\ log[p][i] = t
  \/ \E c \in Consumers : Acts(c) /\ worker[c].task = t

\* A step of somebody else, who may write a message.
Outside ==
  /\ UNCHANGED <<committed, position, owner, worker>>
  /\ log' = log \/ \E p \in Partitions, m \in TaskID : log' = [log EXCEPT ![p] = Append(@, m)]

KafkaStep ==
  \/ \E c \in Consumers : HandlerStep(c) \/ Fetch(c) \/ PublishRetry(c) \/ CrashConsumer(c)
  \/ RebalanceGroup
  \/ Outside

-----------------------------------------------------------------------------
(* The message a handler holds. *)

\* A handler's step keeps the message or lets it go; only the commit, the
\* last step, moves the committed offset.
LEMMA HandlerHolds ==
  ASSUME WorkInv, NEW c \in Consumers, HandlerStep(c)
  PROVE  /\ Inside(c) /\ Alone(c) /\ UNCHANGED <<log, position, owner, job>>
         /\ \/ worker'[c] = Waiting
            \/ /\ worker'[c].task = worker[c].task /\ worker'[c].part = worker[c].part
               /\ worker'[c].offset = worker[c].offset
         /\ \/ committed' = committed
            \/ /\ committed' = [committed EXCEPT ![worker[c].part] = worker[c].offset]
               /\ worker'[c] = Waiting
<1>. USE DEF Inside, GoesOn, Drops, brokerVars
<1>1. CASE LoadTask(c) \/ LoadJob(c)
  BY <1>1, LoadTaskEffect, LoadJobEffect
<1>2. CASE Unregistered(c) \/ RefuseStart(c) \/ SkipSettled(c)
  BY <1>2, DropEffect, SkipSettledEffect
<1>3. CASE SkipForJob(c)
  BY <1>3, SkipForJobEffect
<1>4. CASE StartTask(c)
  BY <1>4, StartTaskEffect
<1>5. CASE Execute(c)
  BY <1>5, ExecuteEffect
<1>6. CASE ParamsError(c)
  BY <1>6, ParamsErrorEffect
<1>7. CASE CompleteTask(c)
  BY <1>7, CompleteTaskEffect
<1>8. CASE FailTask(c)
  BY <1>8, FailTaskEffect
<1>9. CASE RetryTask(c)
  BY <1>9, RetryTaskEffect
<1>10. CASE ExhaustTask(c)
  BY <1>10, ExhaustTaskEffect
<1>11. CASE PublishDLQ(c)
  BY <1>11, PublishDLQEffect
<1>12. CASE Commit(c)
  BY <1>12, CommitEffect
<1>. QED
  BY <1>1, <1>2, <1>3, <1>4, <1>5, <1>6, <1>7, <1>8, <1>9, <1>10, <1>11, <1>12 DEF HandlerStep

LEMMA OffsetTypes ==
  ASSUME WorkInv
  PROVE  /\ \A p \in Partitions : /\ position[p] \in Nat /\ committed[p] \in Nat
                                  /\ log[p] \in Seq(TaskID) /\ Len(log[p]) \in Nat
         /\ \A c \in Consumers : worker[c].offset \in Nat
         /\ \A c \in Consumers : Inside(c) => worker[c].part \in Partitions /\ worker[c].task \in TaskID
<1>1. \A p \in Partitions : /\ position[p] \in Nat /\ committed[p] \in Nat
                            /\ log[p] \in Seq(TaskID) /\ Len(log[p]) \in Nat
  BY DEF WorkInv, BrokerTypeOK
<1>2. \A c \in Consumers : worker[c].offset \in Nat
  BY DEF WorkInv, TaskExecutorTypeOK, WorkerState
<1>3. \A c \in Consumers : Inside(c) => worker[c].part \in Partitions /\ worker[c].task \in TaskID
  BY WorkerFacts DEF Inside
<1>. QED BY <1>1, <1>2, <1>3

\* A message at the end of its partition.
LEMMA Appended ==
  ASSUME WorkInv, NEW p \in Partitions, NEW m \in TaskID, log' = [log EXCEPT ![p] = Append(@, m)]
  PROVE  /\ \A q \in Partitions : q # p => log'[q] = log[q]
         /\ Len(log'[p]) = Len(log[p]) + 1
         /\ log'[p][Len(log[p]) + 1] = m
         /\ \A i \in 1..Len(log[p]) : log'[p][i] = log[p][i]
<1>1. log[p] \in Seq(TaskID) /\ log'[p] = Append(log[p], m)
      /\ \A q \in Partitions : q # p => log'[q] = log[q]
  BY DEF WorkInv, BrokerTypeOK
<1>2. /\ Len(log'[p]) = Len(log[p]) + 1 /\ log'[p][Len(log[p]) + 1] = m
      /\ \A i \in 1..Len(log[p]) : log'[p][i] = log[p][i]
  BY <1>1
<1>. QED BY <1>1, <1>2

LEMMA PublishesTo ==
  ASSUME WorkInv, NEW c \in Consumers, PublishRetry(c)
  PROVE  \/ log' = log
         \/ \E p \in Partitions, m \in TaskID :
              log' = [log EXCEPT ![p] = Append(@, m)] /\ m = worker[c].task
<1>1. worker[c].task \in TaskID
  BY PublishRetryEffect, WorkerFacts DEF GoesOn
<1>. QED BY <1>1, PublishRetryEffect DEF Partitions

\* No message is ever taken out of a partition.
LEMMA LogGrows ==
  ASSUME WorkInv, KafkaStep, NEW p \in Partitions
  PROVE  Len(log[p]) <= Len(log'[p]) /\ \A i \in 1..Len(log[p]) : log'[p][i] = log[p][i]
<1>1. log' = log \/ \E q \in Partitions, m \in TaskID : log' = [log EXCEPT ![q] = Append(@, m)]
  <2>1. ASSUME NEW c \in Consumers, HandlerStep(c) \/ Fetch(c) PROVE log' = log
    BY <2>1, HandlerHolds, FetchEffect
  <2>2. CASE RebalanceGroup \/ \E c \in Consumers : CrashConsumer(c)
    BY <2>2 DEF RebalanceGroup, Rebalance, CrashConsumer, Rejoin
  <2>. QED BY <2>1, <2>2, PublishesTo DEF KafkaStep, Outside
<1>2. CASE log' = log
  BY <1>2, OffsetTypes
<1>3. ASSUME NEW q \in Partitions, NEW m \in TaskID, log' = [log EXCEPT ![q] = Append(@, m)]
      PROVE  Len(log[p]) <= Len(log'[p]) /\ \A i \in 1..Len(log[p]) : log'[p][i] = log[p][i]
  <2>1. /\ \A r \in Partitions : r # q => log'[r] = log[r]
        /\ Len(log'[q]) = Len(log[q]) + 1
        /\ \A i \in 1..Len(log[q]) : log'[q][i] = log[q][i]
    BY <1>3, Appended
  <2>. QED BY <2>1, OffsetTypes
<1>. QED BY <1>1, <1>2, <1>3

LEMMA CrashFacts ==
  ASSUME WorkInv, NEW c \in Consumers, CrashConsumer(c)
  PROVE  /\ worker'[c] = Waiting /\ Alone(c) /\ Spend("crash")
         /\ UNCHANGED <<log, committed, owner, job, task>>
         /\ \A p \in Partitions : position'[p] = IF owner[p] = c THEN committed[p] ELSE position[p]
BY BecomeFacts DEF CrashConsumer, Rejoin, repositoryVars

LEMMA RebalanceFacts ==
  ASSUME WorkInv, RebalanceGroup
  PROVE  /\ UNCHANGED <<worker, log, committed, job, task>> /\ Spend("rebalance")
         /\ \A p \in Partitions : position'[p] \in {position[p], committed[p]}
<1>1. PICK p \in Partitions : \E c \in GroupOf(p) : Rebalance(p, c)
  BY DEF RebalanceGroup
<1>2. UNCHANGED <<worker, job, task>>
  BY DEF RebalanceGroup, workerVars, repositoryVars
<1>3. position' = [position EXCEPT ![p] = committed[p]] /\ UNCHANGED <<log, committed>> /\ Spend("rebalance")
  BY <1>1 DEF Rebalance
<1>. QED BY <1>2, <1>3 DEF WorkInv, BrokerTypeOK

LEMMA ReachStep == ASSUME WorkInv, WorkInv', KafkaStep, ReachInv PROVE ReachInv'
<1>. DEFINE Ends == \A p \in Partitions : position'[p] <= Len(log'[p]) /\ committed'[p] <= Len(log'[p])
            Hands == \A c \in Consumers : Inside(c)' => worker'[c].offset <= Len(log'[worker'[c].part])
<1>. SUFFICES Ends /\ Hands
  BY DEF ReachInv
<1>0. \A p \in Partitions : position[p] <= Len(log[p]) /\ committed[p] <= Len(log[p])
  BY DEF ReachInv
<1>1. \A p \in Partitions : Len(log[p]) <= Len(log'[p]) /\ Len(log'[p]) \in Nat
  <2>1. \A p \in Partitions : Len(log'[p]) \in Nat
    BY DEF WorkInv, BrokerTypeOK
  <2>. QED BY <2>1, LogGrows
<1>2. ASSUME NEW c \in Consumers, Inside(c), worker'[c].part = worker[c].part,
             worker'[c].offset = worker[c].offset
      PROVE  worker'[c].offset <= Len(log'[worker'[c].part])
  <2>1. worker[c].part \in Partitions /\ worker[c].offset <= Len(log[worker[c].part])
    BY <1>2, OffsetTypes DEF ReachInv
  <2>. QED BY <1>1, <1>2, <2>1, OffsetTypes
<1>3. ASSUME position' = position, committed' = committed PROVE Ends
  BY <1>0, <1>1, <1>3, OffsetTypes
<1>4. ASSUME NEW c \in Consumers, HandlerStep(c) PROVE Ends /\ Hands
  <2>1. Hands
    BY <1>2, <1>4, HandlerHolds DEF Alone, Inside, Waiting
  <2>2. CASE committed' = committed
    BY <1>3, <1>4, <2>1, <2>2, HandlerHolds
  <2>3. CASE committed' # committed
    <3>1. /\ committed' = [committed EXCEPT ![worker[c].part] = worker[c].offset]
          /\ log' = log /\ position' = position /\ Inside(c)
      BY <1>4, <2>3, HandlerHolds
    <3>2. worker[c].offset <= Len(log[worker[c].part])
      BY <3>1 DEF ReachInv
    <3>3. ASSUME NEW p \in Partitions PROVE committed'[p] <= Len(log'[p])
      BY <1>0, <3>1, <3>2 DEF WorkInv, BrokerTypeOK
    <3>. QED BY <1>0, <2>1, <3>1, <3>3
  <2>. QED BY <2>2, <2>3
<1>5. ASSUME NEW c \in Consumers, Fetch(c) PROVE Ends /\ Hands
  <2>1. Alone(c) /\ log' = log /\ committed' = committed
    BY <1>5, FetchEffect
  <2>2. PICK p \in Partitions :
          /\ position[p] + 1 \in Unfetched(p)
          /\ position' = [position EXCEPT ![p] = @ + 1]
          /\ worker'[c].part = p /\ worker'[c].offset = position[p] + 1
    BY <1>5, FetchEffect
  <2>3. position[p] + 1 <= Len(log[p])
    BY <2>2, OffsetTypes DEF Unfetched
  <2>4. Ends
    <3>1. ASSUME NEW q \in Partitions PROVE position'[q] <= Len(log'[q])
      BY <1>0, <2>1, <2>2, <2>3 DEF WorkInv, BrokerTypeOK
    <3>. QED BY <1>0, <2>1, <3>1
  <2>5. ASSUME NEW d \in Consumers, Inside(d)' PROVE worker'[d].offset <= Len(log'[worker'[d].part])
    <3>1. CASE d = c
      BY <2>1, <2>2, <2>3, <3>1
    <3>2. CASE d # c
      BY <1>2, <2>1, <2>5, <3>2 DEF Alone, Inside
    <3>. QED BY <3>1, <3>2
  <2>. QED BY <2>4, <2>5
<1>6. ASSUME NEW c \in Consumers, PublishRetry(c) PROVE Ends /\ Hands
  <2>1. Hands
    BY <1>2, <1>6, PublishRetryEffect DEF GoesOn, Alone, Inside
  <2>. QED BY <1>3, <1>6, <2>1, PublishRetryEffect
<1>7. ASSUME NEW c \in Consumers, CrashConsumer(c) PROVE Ends /\ Hands
  <2>1. Hands
    BY <1>2, <1>7, CrashFacts DEF Alone, Inside, Waiting
  <2>. QED BY <1>0, <1>7, <2>1, CrashFacts
<1>8. CASE RebalanceGroup
  BY <1>0, <1>2, <1>8, RebalanceFacts DEF Inside
<1>9. CASE Outside
  BY <1>2, <1>3, <1>9 DEF Inside, Outside
<1>. HIDE DEF Ends, Hands
<1>. QED BY <1>4, <1>5, <1>6, <1>7, <1>8, <1>9 DEF KafkaStep

LEMMA HeldStep ==
  ASSUME WorkInv, WorkInv', KafkaStep, ReachInv, HeldInv, Never("rebalance")' => Never("rebalance")
  PROVE  HeldInv'
<1>. DEFINE Behind == \A p \in Partitions : committed'[p] <= position'[p]
            Kept(c) == /\ owner'[worker'[c].part] = c
                       /\ committed'[worker'[c].part] < worker'[c].offset
                       /\ worker'[c].offset <= position'[worker'[c].part]
                       /\ log'[worker'[c].part][worker'[c].offset] = worker'[c].task
<1>. SUFFICES ASSUME Never("rebalance")'
              PROVE  Behind /\ \A c \in Consumers : Inside(c)' => Kept(c)
  BY DEF HeldInv
<1>0. Never("rebalance") /\ ~Spend("rebalance")
  BY SpendFacts DEF FaultKind
<1>1. /\ \A p \in Partitions : committed[p] <= position[p]
      /\ \A c \in Consumers : Inside(c) =>
           /\ owner[worker[c].part] = c
           /\ committed[worker[c].part] < worker[c].offset
           /\ worker[c].offset <= position[worker[c].part]
           /\ log[worker[c].part][worker[c].offset] = worker[c].task
  BY <1>0 DEF HeldInv
<1>2. ASSUME NEW c \in Consumers, Inside(c), worker'[c].part = worker[c].part,
             worker'[c].offset = worker[c].offset, worker'[c].task = worker[c].task,
             owner' = owner, committed'[worker[c].part] = committed[worker[c].part],
             position'[worker[c].part] = position[worker[c].part]
      PROVE  Kept(c)
  <2>1. worker[c].part \in Partitions /\ worker[c].offset \in 1..Len(log[worker[c].part])
    BY <1>1, <1>2, OffsetTypes DEF ReachInv
  <2>2. log'[worker[c].part][worker[c].offset] = log[worker[c].part][worker[c].offset]
    BY <2>1, LogGrows
  <2>. QED BY <1>1, <1>2, <2>1, <2>2
<1>3. ASSUME NEW c \in Consumers, HandlerStep(c)
      PROVE  Behind /\ \A d \in Consumers : Inside(d)' => Kept(d)
  <2>1. Inside(c) /\ Alone(c) /\ UNCHANGED <<log, position, owner>>
    BY <1>3, HandlerHolds
  <2>2. CASE committed' = committed
    <3>1. ASSUME NEW d \in Consumers, Inside(d)' PROVE Kept(d)
      BY <1>2, <1>3, <2>1, <2>2, <3>1, HandlerHolds DEF Alone, Inside, Waiting
    <3>. QED BY <1>1, <2>1, <2>2, <3>1
  <2>3. CASE committed' # committed
    <3>1. /\ committed' = [committed EXCEPT ![worker[c].part] = worker[c].offset]
          /\ worker'[c] = Waiting
      BY <1>3, <2>3, HandlerHolds
    <3>2. worker[c].part \in Partitions /\ committed \in [Partitions -> Nat]
      BY <2>1, OffsetTypes DEF WorkInv, BrokerTypeOK
    <3>3. Behind
      BY <1>1, <2>1, <3>1, <3>2
    <3>4. ASSUME NEW d \in Consumers, Inside(d)' PROVE Kept(d)
      <4>1. d # c /\ worker'[d] = worker[d] /\ Inside(d)
        BY <2>1, <3>1, <3>4 DEF Alone, Inside, Waiting
      <4>2. worker[d].part # worker[c].part /\ worker[d].part \in Partitions
        BY <1>1, <2>1, <4>1, OffsetTypes
      <4>. QED BY <1>2, <2>1, <3>1, <3>2, <4>1, <4>2
    <3>. QED BY <3>3, <3>4
  <2>. QED BY <2>2, <2>3
<1>4. ASSUME NEW c \in Consumers, Fetch(c)
      PROVE  Behind /\ \A d \in Consumers : Inside(d)' => Kept(d)
  <2>1. Alone(c) /\ UNCHANGED <<log, committed, owner>>
    BY <1>4, FetchEffect
  <2>2. PICK p \in Partitions :
          /\ owner[p] = c /\ position' = [position EXCEPT ![p] = @ + 1]
          /\ worker'[c].part = p /\ worker'[c].offset = position[p] + 1
          /\ worker'[c].task = log[p][position[p] + 1]
    BY <1>4, FetchEffect
  <2>3. position'[p] = position[p] + 1 /\ \A q \in Partitions : q # p => position'[q] = position[q]
    BY <2>2 DEF WorkInv, BrokerTypeOK
  <2>4. Behind
    BY <1>1, <2>1, <2>3, OffsetTypes
  <2>5. Kept(c)
    BY <1>1, <2>1, <2>2, <2>3, OffsetTypes
  <2>6. ASSUME NEW d \in Consumers, d # c, Inside(d)' PROVE Kept(d)
    <3>1. worker'[d] = worker[d] /\ Inside(d)
      BY <2>1, <2>6 DEF Alone, Inside
    <3>2. worker[d].part # p /\ worker[d].part \in Partitions
      BY <1>1, <2>2, <2>6, <3>1, OffsetTypes
    <3>. QED BY <1>2, <2>1, <2>3, <3>1, <3>2
  <2>. QED BY <2>4, <2>5, <2>6
<1>5. ASSUME NEW c \in Consumers, PublishRetry(c)
      PROVE  Behind /\ \A d \in Consumers : Inside(d)' => Kept(d)
  <2>1. /\ Alone(c) /\ UNCHANGED <<committed, position, owner>> /\ Inside(c)
        /\ worker'[c].part = worker[c].part /\ worker'[c].offset = worker[c].offset
        /\ worker'[c].task = worker[c].task
    BY <1>5, PublishRetryEffect DEF GoesOn, Inside
  <2>2. ASSUME NEW d \in Consumers, Inside(d)' PROVE Kept(d)
    BY <1>2, <2>1, <2>2 DEF Alone, Inside
  <2>. QED BY <1>1, <2>1, <2>2
<1>6. ASSUME NEW c \in Consumers, CrashConsumer(c)
      PROVE  Behind /\ \A d \in Consumers : Inside(d)' => Kept(d)
  <2>1. /\ worker'[c] = Waiting /\ Alone(c) /\ UNCHANGED <<log, committed, owner>>
        /\ \A p \in Partitions : position'[p] = IF owner[p] = c THEN committed[p] ELSE position[p]
    BY <1>6, CrashFacts
  <2>2. Behind
    BY <1>1, <2>1, OffsetTypes
  <2>3. ASSUME NEW d \in Consumers, Inside(d)' PROVE Kept(d)
    <3>1. d # c /\ worker'[d] = worker[d] /\ Inside(d)
      BY <2>1, <2>3 DEF Alone, Inside, Waiting
    <3>2. worker[d].part \in Partitions /\ owner[worker[d].part] # c
      BY <1>1, <3>1, OffsetTypes
    <3>. QED BY <1>2, <2>1, <3>1, <3>2
  <2>. QED BY <2>2, <2>3
<1>7. CASE Outside
  BY <1>1, <1>2, <1>7 DEF Inside, Outside
<1>8. CASE RebalanceGroup
  BY <1>0, <1>8, RebalanceFacts
<1>. HIDE DEF Behind, Kept
<1>. QED BY <1>3, <1>4, <1>5, <1>6, <1>7, <1>8 DEF KafkaStep

\* Acting is done inside a handler.
LEMMA ActsInside == ASSUME NEW c, Acts(c) PROVE Inside(c)
BY DEF Acts, Inside

\* A fresh message stays fresh until it is fetched.
LEMMA FreshStays ==
  ASSUME WorkInv, WorkInv', KafkaStep, NEW p \in Partitions, NEW i \in 1..Len(log[p]), Fresh(p, i)
  PROVE  \/ i \in 1..Len(log'[p]) /\ Fresh(p, i)' /\ log'[p][i] = log[p][i]
         \/ \E c \in Consumers : Acts(c)' /\ worker'[c].task = log[p][i]
<1>1. i \in 1..Len(log'[p]) /\ log'[p][i] = log[p][i]
  <2>1. Len(log'[p]) \in Nat
    BY DEF WorkInv, BrokerTypeOK
  <2>. QED BY <2>1, LogGrows, OffsetTypes
<1>2. /\ position[p] < i /\ committed[p] < i
      /\ \A c \in Consumers : Inside(c) /\ worker[c].part = p => worker[c].offset < i
  BY DEF Fresh
<1>3. ASSUME position'[p] < i, committed'[p] < i,
             \A c \in Consumers : Inside(c)' /\ worker'[c].part = p => worker'[c].offset < i
      PROVE  Fresh(p, i)'
  BY <1>1, <1>3 DEF Fresh
<1>4. ASSUME NEW c \in Consumers, HandlerStep(c) PROVE Fresh(p, i)'
  <2>1. /\ Inside(c) /\ Alone(c) /\ position' = position
        /\ \/ worker'[c] = Waiting
           \/ worker'[c].part = worker[c].part /\ worker'[c].offset = worker[c].offset
        /\ \/ committed' = committed
           \/ committed' = [committed EXCEPT ![worker[c].part] = worker[c].offset]
    BY <1>4, HandlerHolds
  <2>2. committed'[p] < i
    BY <1>2, <2>1 DEF WorkInv, BrokerTypeOK
  <2>3. \A d \in Consumers : Inside(d)' /\ worker'[d].part = p => worker'[d].offset < i
    BY <1>2, <2>1 DEF Alone, Inside, Waiting
  <2>. QED BY <1>2, <1>3, <2>1, <2>2, <2>3
<1>5. ASSUME NEW c \in Consumers, Fetch(c)
      PROVE  Fresh(p, i)' \/ (Acts(c)' /\ worker'[c].task = log[p][i])
  <2>1. Alone(c) /\ committed' = committed /\ worker'[c].pc = "loadTask"
    BY <1>5, FetchEffect
  <2>2. PICK q \in Partitions :
          /\ position' = [position EXCEPT ![q] = @ + 1]
          /\ worker'[c].part = q /\ worker'[c].offset = position[q] + 1
          /\ worker'[c].task = log[q][position[q] + 1]
    BY <1>5, FetchEffect
  <2>3. Acts(c)'
    BY <2>1 DEF Acts
  <2>4. CASE q = p /\ position[p] + 1 = i
    BY <2>2, <2>3, <2>4
  <2>5. CASE q # p \/ position[p] + 1 # i
    <3>1. position \in [Partitions -> Nat]
      BY DEF WorkInv, BrokerTypeOK
    <3>2. position'[p] < i
      BY <1>2, <2>2, <2>5, <3>1
    <3>3. worker'[c].part = p => worker'[c].offset < i
      BY <1>2, <2>2, <2>5, <3>1
    <3>4. \A d \in Consumers : Inside(d)' /\ worker'[d].part = p => worker'[d].offset < i
      BY <1>2, <2>1, <3>3 DEF Alone, Inside
    <3>. QED BY <1>2, <1>3, <2>1, <3>2, <3>4
  <2>. QED BY <2>4, <2>5
<1>6. ASSUME NEW c \in Consumers, PublishRetry(c) PROVE Fresh(p, i)'
  <2>1. /\ GoesOn(c, "publishRetry", "commit") /\ UNCHANGED <<position, committed>>
    BY <1>6, PublishRetryEffect
  <2>. QED BY <1>2, <1>3, <2>1 DEF GoesOn, Alone, Inside
<1>7. ASSUME NEW c \in Consumers, CrashConsumer(c) PROVE Fresh(p, i)'
  <2>1. /\ worker'[c] = Waiting /\ Alone(c) /\ committed' = committed
        /\ position'[p] \in {position[p], committed[p]}
    BY <1>7, CrashFacts
  <2>. QED BY <1>2, <1>3, <2>1 DEF Alone, Inside, Waiting
<1>8. CASE RebalanceGroup
  BY <1>2, <1>3, <1>8, RebalanceFacts DEF Inside
<1>9. CASE Outside
  <2>1. UNCHANGED <<position, committed, worker>>
    BY <1>9 DEF Outside
  <2>2. \A c \in Consumers : Inside(c)' /\ worker'[c].part = p => worker'[c].offset < i
    BY <1>2, <2>1 DEF Inside
  <2>3. Fresh(p, i)'
    BY <1>2, <1>3, <2>1, <2>2
  <2>. QED BY <1>1, <2>3
<1>. QED BY <1>1, <1>4, <1>5, <1>6, <1>7, <1>8, <1>9 DEF KafkaStep

\* Why a handler leaves its task alone.
LEMMA LeavesTask ==
  ASSUME NEW c \in Consumers
  PROVE  /\ Unregistered(c) => job[worker[c].task[1]].name \notin Registered
         /\ SkipSettled(c) \/ RefuseStart(c) => worker[c].status \notin {"PENDING", "RUNNING"}
BY DEF Unregistered, IsRegistered, SkipSettled, RefuseStart, IsTerminal, TerminalTaskStates, CanFire,
       taskTransitions

\* The witness of Reached lives on, unless it is c itself.
LEMMA ReachedElsewhere ==
  ASSUME WorkInv, WorkInv', KafkaStep, NEW c \in Consumers, Alone(c), NEW t \in TaskID, Reached(t),
         ~(Acts(c) /\ worker[c].task = t)
  PROVE  Reached(t)'
<1>1. CASE \E p \in Partitions : \E i \in 1..Len(log[p]) : Fresh(p, i) /\ log[p][i] = t
  <2>0. PICK p \in Partitions : \E i \in 1..Len(log[p]) : Fresh(p, i) /\ log[p][i] = t
    BY <1>1
  <2>1. PICK i \in 1..Len(log[p]) : Fresh(p, i) /\ log[p][i] = t
    BY <2>0
  <2>2. \/ i \in 1..Len(log'[p]) /\ Fresh(p, i)' /\ log'[p][i] = t
        \/ \E d \in Consumers : Acts(d)' /\ worker'[d].task = t
    BY <2>1, FreshStays
  <2>. QED BY <2>2 DEF Reached
<1>2. CASE \E d \in Consumers : Acts(d) /\ worker[d].task = t
  BY <1>2 DEF Alone, Reached, Acts
<1>. QED BY <1>1, <1>2 DEF Reached

\* A handler's step on a task that is PENDING or RUNNING after it.
LEMMA HandlerReach ==
  ASSUME WorkInv, WorkInv', NEW c \in Consumers, HandlerStep(c), Never("error")',
         RetryPartitions # {}, NEW t \in TaskID, job[t[1]].name \in Registered, task'[t].status \in {"PENDING", "RUNNING"},
         task[t].status \in {"PENDING", "RUNNING"} => Reached(t)
  PROVE  Reached(t)'
<1>1. ~Spend("error") /\ KafkaStep
  BY SpendFacts DEF FaultKind, KafkaStep
<1>2. Steady(c)
  BY HandlerSteady
<1>3. CASE t # worker[c].task
  BY <1>1, <1>2, <1>3, ReachedElsewhere DEF Steady, OtherRows
<1>4. CASE t = worker[c].task
  <2>. DEFINE Stays == worker'[c].task = worker[c].task /\ Acts(c)'
              Leaves == task'[t] = task[t] /\ ~Acts(c)
  <2>1. Stays => Reached(t)'
    BY <1>4 DEF Reached
  <2>2. Leaves => Reached(t)'
    BY <1>1, <1>2, ReachedElsewhere DEF Steady
  <2>3. Stays \/ Leaves
    <3>. USE <1>1, <1>4 DEF GoesOn, Drops, Writes, Acts
    <3>1. CASE LoadTask(c)
      BY <3>1, LoadTaskEffect
    <3>2. CASE LoadJob(c)
      BY <3>2, LoadJobEffect
    <3>3. CASE Unregistered(c)
      BY <3>3, LeavesTask
    <3>4. CASE RefuseStart(c)
      BY <3>4, DropEffect, LeavesTask
    <3>5. CASE SkipSettled(c)
      BY <3>5, SkipSettledEffect, LeavesTask
    <3>6. CASE SkipForJob(c)
      BY <3>6, SkipForJobEffect DEF IsExecutionPending, NonTerminalJobStates
    <3>7. CASE StartTask(c)
      BY <3>7, StartTaskEffect
    <3>8. CASE Execute(c)
      BY <3>8, ExecuteEffect
    <3>9. CASE ParamsError(c)
      BY <3>9, ParamsErrorEffect
    <3>10. CASE CompleteTask(c)
      BY <3>10, CompleteTaskEffect
    <3>11. CASE FailTask(c)
      BY <3>11, FailTaskEffect
    <3>12. CASE RetryTask(c)
      BY <3>12, RetryTaskEffect
    <3>13. CASE ExhaustTask(c)
      BY <3>13, ExhaustTaskEffect
    <3>14. CASE PublishDLQ(c) \/ Commit(c)
      BY <3>14, PublishDLQEffect, CommitEffect
    <3>. QED BY <3>1, <3>2, <3>3, <3>4, <3>5, <3>6, <3>7, <3>8, <3>9, <3>10, <3>11, <3>12, <3>13, <3>14
             DEF HandlerStep
  <2>. QED BY <2>1, <2>2, <2>3
<1>. QED BY <1>3, <1>4

\* A message that is written is fresh, and so reaches its task.
LEMMA AppendReach ==
  ASSUME WorkInv, ReachInv, NEW p \in Partitions, NEW t \in TaskID,
         log' = [log EXCEPT ![p] = Append(@, t)], UNCHANGED <<position, committed>>,
         \A d \in Consumers : Inside(d)' =>
           Inside(d) /\ worker'[d].part = worker[d].part /\ worker'[d].offset = worker[d].offset
  PROVE  Reached(t)'
<1>1. Len(log'[p]) = Len(log[p]) + 1 /\ log'[p][Len(log[p]) + 1] = t
  BY Appended
<1>2. PICK i \in Nat : i = Len(log[p]) + 1
  BY OffsetTypes
<1>3. i \in 1..Len(log'[p]) /\ log'[p][i] = t /\ position'[p] < i /\ committed'[p] < i
  BY <1>1, <1>2, OffsetTypes DEF ReachInv
<1>4. ASSUME NEW d \in Consumers, Inside(d)', worker'[d].part = p PROVE worker'[d].offset < i
  <2>1. Inside(d) /\ worker[d].part = p /\ worker'[d].offset = worker[d].offset
    BY <1>4
  <2>. QED BY <1>2, <2>1, OffsetTypes DEF ReachInv
<1>5. Fresh(p, i)'
  BY <1>3, <1>4 DEF Fresh
<1>. QED BY <1>3, <1>5 DEF Reached

LEMMA PublishReach ==
  ASSUME WorkInv, WorkInv', ReachInv, NEW c \in Consumers, PublishRetry(c), Never("error")',
         NEW t \in TaskID, Reached(t)
  PROVE  Reached(t)'
<1>1. /\ GoesOn(c, "publishRetry", "commit") /\ UNCHANGED <<position, committed>> /\ KafkaStep
      /\ \E p \in RetryPartitions : log' = [log EXCEPT ![p] = Append(@, worker[c].task)]
  <2>1. ~Spend("error")
    BY SpendFacts DEF FaultKind
  <2>. QED BY <2>1, PublishRetryEffect DEF KafkaStep
<1>2. CASE t # worker[c].task
  BY <1>1, <1>2, ReachedElsewhere DEF GoesOn
<1>3. CASE t = worker[c].task
  <2>1. PICK p \in Partitions : log' = [log EXCEPT ![p] = Append(@, t)]
    BY <1>1, <1>3 DEF Partitions
  <2>2. \A d \in Consumers : Inside(d)' =>
          Inside(d) /\ worker'[d].part = worker[d].part /\ worker'[d].offset = worker[d].offset
    BY <1>1 DEF GoesOn, Alone, Inside
  <2>. QED BY <1>1, <2>1, <2>2, AppendReach
<1>. QED BY <1>2, <1>3

\* While the handlers rest, whoever reaches a task still does.
LEMMA RestReach ==
  ASSUME WorkInv, WorkInv', KafkaStep, UNCHANGED worker, NEW t \in TaskID, Reached(t)
  PROVE  Reached(t)'
<1>1. CASE \E c \in Consumers : Acts(c) /\ worker[c].task = t
  BY <1>1 DEF Reached, Acts
<1>2. CASE \E p \in Partitions : \E i \in 1..Len(log[p]) : Fresh(p, i) /\ log[p][i] = t
  <2>1. PICK p \in Partitions : \E i \in 1..Len(log[p]) : Fresh(p, i) /\ log[p][i] = t
    BY <1>2
  <2>2. PICK i \in 1..Len(log[p]) : Fresh(p, i) /\ log[p][i] = t
    BY <2>1
  <2>3. \/ i \in 1..Len(log'[p]) /\ Fresh(p, i)' /\ log'[p][i] = t
        \/ \E c \in Consumers : Acts(c)' /\ worker'[c].task = t
    BY <2>2, FreshStays
  <2>. QED BY <2>3 DEF Reached
<1>. QED BY <1>1, <1>2 DEF Reached

\* The message of a handler that dies is fresh again.
LEMMA CrashReach ==
  ASSUME WorkInv, WorkInv', ReachInv, HeldInv, NEW c \in Consumers, CrashConsumer(c),
         Never("rebalance"), NEW t \in TaskID, Reached(t)
  PROVE  Reached(t)'
<1>1. /\ worker'[c] = Waiting /\ Alone(c) /\ UNCHANGED <<log, committed>>
      /\ \A p \in Partitions : position'[p] = IF owner[p] = c THEN committed[p] ELSE position[p]
      /\ KafkaStep
  BY CrashFacts DEF KafkaStep
<1>2. CASE ~(Acts(c) /\ worker[c].task = t)
  BY <1>1, <1>2, ReachedElsewhere
<1>3. CASE Acts(c) /\ worker[c].task = t
  <2>1. PICK p \in Partitions : p = worker[c].part
    BY <1>3, ActsInside, OffsetTypes
  <2>2. PICK i \in Nat : i = worker[c].offset
    BY OffsetTypes
  <2>3. owner[p] = c /\ committed[p] < i /\ log[p][i] = t /\ i <= Len(log[p])
    BY <1>3, <2>1, <2>2, ActsInside DEF HeldInv, ReachInv
  <2>4. i \in 1..Len(log[p])
    BY <2>3, OffsetTypes
  <2>5. \A d \in Consumers : Inside(d)' => worker'[d].part # p
    BY <1>1, <2>3 DEF Alone, Inside, Waiting, HeldInv
  <2>6. Fresh(p, i)'
    BY <1>1, <2>3, <2>4, <2>5 DEF Fresh
  <2>. QED BY <1>1, <2>3, <2>4, <2>6 DEF Reached
<1>. QED BY <1>2, <1>3

=============================================================================
