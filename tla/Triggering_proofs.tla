------------------------- MODULE Triggering_proofs --------------------------
(***************************************************************************)
(* Proofs about Triggering, for any number of callers, triggers, runs,     *)
(* tasks, partitions, finalizers and faults.                               *)
(***************************************************************************)
EXTENDS Triggering, Components_proofs

\* What remains to be written of a run, from the moment its tasks were read or
\* created to the start.
PublishOK(c) ==
  LET ts == {t \in TaskID : t[1] = caller[c].job /\ Exists(task[t])} IN
  /\ caller[c].pc = "flow" => caller[c].tasks = ts /\ (caller[c].size = 0 => ts = {})
  /\ caller[c].pc = "publish" => \A t \in ts : t \in caller[c].tasks \/ Written(t)
  /\ caller[c].pc \in {"cancel", "start"} => \A t \in ts : Written(t)

PublishInv == StartedAfterPublish /\ \A c \in Callers : PublishOK(c)

\* Rows were written by a call of the caller whose reference and name they
\* carry, and a caller works on a row with its own reference.
OriginInv ==
  /\ \A j \in JobID : Exists(job[j]) =>
       \E c \in Callers : \E n \in 1..caller[c].turn :
         CallRefs[c][n] = job[j].ref /\ CallName[c] = job[j].name
  /\ \A c \in Callers : caller[c].pc \in Holding =>
       job[caller[c].job].ref = CallRefs[c][caller[c].turn]

\* A caller that found nothing is still right.
RefInv ==
  /\ \A j, k \in JobID : Exists(job[j]) /\ Exists(job[k]) /\ job[j].ref = job[k].ref => j = k
  /\ \A c \in Callers : caller[c].pc \in Unfound =>
       \A j \in JobID : Exists(job[j]) => job[j].ref # CallRefs[c][caller[c].turn]

\* At the start of a run with CancelPrevious no other run of the name runs.
RunningInv ==
  Never("error") =>
    /\ AtMostOneRunning
    /\ \A c \in Callers : caller[c].pc = "start" /\ CallName[c] \in CancelPrevious =>
         \A j \in JobID : job[j].status = "RUNNING" /\ job[j].name = CallName[c] =>
                            j = caller[c].job

\* The record of a failed trigger: no caller takes it for a run to start, a
\* caller about to write it has no retry left, and none is left afterwards.
FailureInv ==
  /\ \A j \in JobID : job[j].triggerFailure => job[j].status = "FAILED" /\ TasksOf(j) = {}
  /\ \A c \in Callers :
       /\ caller[c].pc \in Holding /\ caller[c].status = "PENDING" =>
            ~job[caller[c].job].triggerFailure
       /\ caller[c].pc \in {"recheck", "persist"} => shouldPersistTriggerFailure(c)

LastInv ==
  \A j \in JobID : job[j].triggerFailure => \A c \in Callers :
    caller[c].turn > 0 /\ CallRefs[c][caller[c].turn] = job[j].ref => caller[c].retry >= caller[c].maxRetry

\* A finalizer at the hook won the compare-and-set of its run and nothing was
\* announced yet; what was announced is the status of the row; a run that a
\* caller may still start has not run.
AnnounceInv ==
  /\ \A f \in Finalizers : fin[f].pc = "hook" =>
       job[fin[f].job].status = fin[f].outcome /\ finished[fin[f].job] = <<>>
  /\ \A f, g \in Finalizers :
       fin[f].pc = "hook" /\ fin[g].pc = "hook" /\ fin[f].job = fin[g].job => f = g
  /\ \A j \in JobID : \/ finished[j] = <<>>
                      \/ Len(finished[j]) = 1 /\ job[j].status \in TerminalOutcomes
  /\ \A c \in Callers :
       caller[c].pc \in Holding \ {"finalize"} /\ caller[c].status = "PENDING" =>
         /\ finished[caller[c].job] = <<>> /\ job[caller[c].job].status # "RUNNING"
         /\ \A f \in Finalizers : fin[f].pc = "hook" => fin[f].job # caller[c].job

-----------------------------------------------------------------------------
(* What TerminateJob does to the rows *)

LEMMA TerminateEffect ==
  ASSUME CallInv, NEW j \in JobID, Terminate(j)
  PROVE  /\ UNCHANGED <<spent, brokerVars, finalizerVars, caller>> /\ Updated
         /\ \A k \in JobID : \/ job'[k] = job[k]
                             \/ /\ job[k].status \in {"PENDING", "RUNNING"}
                                /\ job'[k].status = "CANCELLED"
BY CancelRows DEF Terminate, CallInv, SharedInv

LEMMA FinalizerEffect ==
  ASSUME CallInv, NEW f \in Finalizers, FinalizerNext(f) \/ \E n \in Registered : Tick(f, n)
  PROVE  FinalizerEffects(f) /\ UNCHANGED <<brokerVars, caller>> /\ Updated
<1>1. FaultsTypeOK /\ RepositoryTypeOK /\ FinalizerInv /\ OwnTasks
  BY DEF CallInv, SharedInv, FinalizerInv
<1>2. \/ FinalizerStep(f) \/ CrashFinalizer(f)
      \/ \E n \in Registered : CheckJobCompletions(f, n)
  BY DEF FinalizerNext, Tick
<1>3. FinalizerEffects(f)
  BY <1>1, <1>2, FinalizerSteps
<1>4. Updated
  BY <1>1, <1>3, FinalizerUpdates
<1>. QED BY <1>3, <1>4 DEF FinalizerNext, Tick

-----------------------------------------------------------------------------
(* Type correctness *)

LEMMA InitType == Init => CallInv
<1>. SUFFICES ASSUME Init PROVE CallInv
  OBVIOUS
<1>. USE RepositoryAssumption, BrokerAssumption DEF Init
<1>1. RepositoryTypeOK /\ OwnTasks
  <2>1. NoJobRow \in JobRow
    BY DEF NoJobRow, JobRow, NoParent
  <2>2. job \in [JobID -> JobRow]
    BY <2>1
  <2>3. task \in [TaskID -> TaskRow] /\ \A t \in TaskID : ~Exists(task[t])
    BY DEF TaskRow, Exists
  <2>. QED BY <2>2, <2>3 DEF RepositoryTypeOK, OwnTasks
<1>2. FaultsTypeOK
  BY DEF FaultsInit, FaultsTypeOK
<1>3. BrokerTypeOK(TaskID)
  <2>1. log \in [Partitions -> Seq(TaskID)]
    <3>1. <<>> \in Seq(TaskID)
      OBVIOUS
    <3>. QED BY <3>1
  <2>. QED BY <2>1 DEF BrokerTypeOK
<1>4. JobFinalizerTypeOK /\ Visiting
  BY DEF JobFinalizerInit, JobFinalizerTypeOK, Visiting, Resting, FinalizerState, FinalizerPC
<1>5. JobExecutorTypeOK /\ CallerInv
  <2>1. "idle" \in CallerPC /\ 0 \in 0..MaxTasks /\ {} \in SUBSET TaskID
    BY DEF CallerPC
  <2>2. JobExecutorTypeOK
    BY <2>1 DEF JobExecutorInit, JobExecutorTypeOK, CallerState
  <2>3. \A c \in Callers : Len(CallRefs[c]) \in Nat
    BY JobExecutorAssumption
  <2>. QED BY <2>2, <2>3 DEF JobExecutorInit, CallerInv, CallerOK, Holding, Starting
<1>. QED BY <1>1, <1>2, <1>3, <1>4, <1>5 DEF CallInv, SharedInv, FinalizerInv

LEMMA RestType ==
  ASSUME CallInv,
         \/ \E f \in Finalizers : FinalizerNext(f) \/ \E n \in Registered : Tick(f, n)
         \/ \E j \in JobID : Terminate(j)
         \/ UNCHANGED vars
  PROVE  CallInv'
<1>1. ASSUME Updated, UNCHANGED <<brokerVars, caller>>, FaultsTypeOK', FinalizerInv' PROVE CallInv'
  <2>1. \A c \in Callers : CallerOK(c)'
    BY <1>1 DEF CallInv, CallerInv, CallerOK, Updated
  <2>. QED
    BY <1>1, <2>1
    DEF CallInv, SharedInv, CallerInv, Updated, FinalizerInv, JobExecutorTypeOK, brokerVars, BrokerTypeOK
<1>2. ASSUME NEW f \in Finalizers, FinalizerNext(f) \/ \E n \in Registered : Tick(f, n) PROVE CallInv'
  BY <1>1, <1>2, FinalizerEffect DEF FinalizerEffects
<1>3. UNCHANGED <<spent, finalizerVars>> => FaultsTypeOK' /\ FinalizerInv'
  BY DEF CallInv, SharedInv, FaultsTypeOK, finalizerVars, FinalizerInv, JobFinalizerTypeOK, Visiting
<1>4. ASSUME NEW j \in JobID, Terminate(j) PROVE CallInv'
  BY <1>1, <1>3, <1>4, TerminateEffect
<1>5. CASE UNCHANGED vars
  <2>1. Updated
    BY <1>5, UnchangedRows DEF CallInv, SharedInv, vars
  <2>. QED BY <1>1, <1>3, <1>5, <2>1 DEF vars
<1>. QED BY <1>2, <1>4, <1>5

LEMMA TypeStep == ASSUME CallInv, [Next]_vars PROVE CallInv'
BY CallerTypeStep, RestType DEF Next

LEMMA TypeInvariant == Spec => []CallInv
BY InitType, TypeStep, PTL DEF Spec

\* Rows, Kafka, finalizers and callers stay well-typed: in particular every
\* call works on a row that exists, under one of its caller's references.
THEOREM TriggeringTypeCorrect == Spec => []TypeOK
<1>1. CallInv => TypeOK
  BY DEF CallInv, SharedInv, FinalizerInv, TypeOK
<1>. QED BY TypeInvariant, <1>1, PTL

-----------------------------------------------------------------------------
(* StartedAfterPublish *)

\* What concerns the runs and the callers that a step does not touch.
LEMMA PublishFrame ==
  ASSUME CallInv, PublishInv, NEW d \in Callers, caller'[d] = caller[d],
         \A t \in TaskID : Exists(job[t[1]]) => (Exists(task'[t]) <=> Exists(task[t])),
         \A t \in TaskID : Written(t) => Written(t)'
  PROVE  PublishOK(d)'
<1>1. PublishOK(d) /\ CallerOK(d)
  BY DEF PublishInv, CallInv, CallerInv
<1>2. CASE caller[d].pc \in {"flow", "publish", "cancel", "start"}
  <2>1. Exists(job[caller[d].job])
    BY <1>1, <1>2 DEF CallerOK, Holding
  <2>2. {t \in TaskID : t[1] = caller'[d].job /\ Exists(task'[t])}
          = {t \in TaskID : t[1] = caller[d].job /\ Exists(task[t])}
    BY <2>1
  <2>. QED BY <1>1, <2>2 DEF PublishOK
<1>3. CASE caller[d].pc \notin {"flow", "publish", "cancel", "start"}
  BY <1>3 DEF PublishOK
<1>. QED BY <1>2, <1>3

\* A run that was not started by the step.
LEMMA StartedFrame ==
  ASSUME CallInv, StartedAfterPublish, NEW j \in JobID, job[j].status = "RUNNING",
         \A t \in TaskID : Exists(job[t[1]]) => (Exists(task'[t]) <=> Exists(task[t])),
         \A t \in TaskID : Written(t) => Written(t)'
  PROVE  \A t \in TaskID : t[1] = j /\ Exists(task'[t]) => Written(t)'
<1>1. Exists(job[j])
  BY DEF Exists, Absent
<1>. QED BY <1>1 DEF StartedAfterPublish, TasksOf

\* A step that updates rows and starts no run.
LEMMA PublishKept ==
  ASSUME CallInv, PublishInv, NEW c \in Callers, Others(c), PublishOK(c)',
         \A t \in TaskID : Exists(job[t[1]]) => (Exists(task'[t]) <=> Exists(task[t])),
         \A t \in TaskID : Written(t) => Written(t)',
         \A j \in JobID : job'[j].status = "RUNNING" =>
           \/ job[j].status = "RUNNING"
           \/ \A t \in TaskID : t[1] = j /\ Exists(task'[t]) => Written(t)'
  PROVE  PublishInv'
<1>1. ASSUME NEW d \in Callers PROVE PublishOK(d)'
  BY <1>1, PublishFrame DEF Others
<1>2. StartedAfterPublish'
  <2>. SUFFICES ASSUME NEW j \in JobID, job'[j].status = "RUNNING"
                PROVE  \A t \in TaskID : t[1] = j /\ Exists(task'[t]) => Written(t)'
    BY DEF StartedAfterPublish, TasksOf
  <2>1. CASE job[j].status = "RUNNING"
    BY <2>1, StartedFrame DEF PublishInv
  <2>. QED BY <2>1
<1>. QED BY <1>1, <1>2 DEF PublishInv

LEMMA CallerPublish ==
  ASSUME CallInv, PublishInv, NEW c \in Callers,
         \/ Trigger(c) \/ (\E j \in JobID : RetryTriggerJob(c, j)) \/ Redeliver(c)
         \/ CallerStep(c) \/ CrashCaller(c)
  PROVE  PublishInv'
<1>. DEFINE Tasks == \A t \in TaskID : Exists(job[t[1]]) => (Exists(task'[t]) <=> Exists(task[t]))
            Log == \A t \in TaskID : Written(t) => Written(t)'
            Started == \A j \in JobID : job'[j].status = "RUNNING" =>
                         \/ job[j].status = "RUNNING"
                         \/ \A t \in TaskID : t[1] = j /\ Exists(task'[t]) => Written(t)'
            Call == Others(c) /\ PublishOK(c)'
            Goal == Tasks /\ Log /\ Started /\ Call
<1>. SUFFICES Goal
  BY PublishKept
<1>0. /\ RepositoryTypeOK /\ OwnTasks /\ caller[c] \in CallerState /\ CallerOK(c) /\ PublishOK(c)
  BY CallFacts DEF PublishInv
<1>a. Updated => Tasks
  BY DEF Updated
<1>b. UNCHANGED repositoryVars => Tasks /\ Started
  BY <1>0, <1>a, UnchangedRows
<1>c. UNCHANGED brokerVars => Log
  BY DEF brokerVars, Written
<1>d. ASSUME NEW k \in JobID, NEW row, NEW n, Inserted(k, row, n), row.status # "RUNNING"
      PROVE  Tasks /\ Started
  <2>1. Tasks
    BY <1>d DEF Inserted
  <2>2. Started
    BY <1>d DEF Inserted
  <2>. QED BY <2>1, <2>2
<1>e. job' = job => Started
  OBVIOUS
<1>f. Others(c) /\ caller'[c].pc \notin {"flow", "publish", "cancel", "start"} => Call
  BY DEF PublishOK
<1>g. Ends(c) => Call
  BY <1>f DEF Ends
<1>h. \A pc \in {"split", "recheck", "persist", "markFailed", "finalize"} : Moves(c, pc) => Call
  BY <1>f DEF Moves
<1>. HIDE DEF Tasks, Log, Started
<1>1. ASSUME NEW m \in Nat \cup {NoAsynq}, NextCall(c, m) PROVE Goal
  <2>1. Call
    BY <1>1, <1>f, NextCallEffect DEF Begins
  <2>. QED BY <1>1, <2>1, NextCallEffect, <1>b, <1>c
<1>2. CASE Redeliver(c)
  <2>1. Call
    BY <1>2, <1>f, RedeliverEffect DEF Begins
  <2>. QED BY <1>2, <2>1, RedeliverEffect, <1>b, <1>c
<1>4. CASE FindExisting(c)
  <2>1. Call
    BY <1>4, <1>f, <1>g, <1>h, FindEffect DEF Finds
  <2>. QED BY <1>4, <2>1, FindEffect, <1>b, <1>c
<1>5. CASE FindExistingTasks(c)
  <2>0. Tasks /\ Log /\ Started /\ UNCHANGED repositoryVars
    BY <1>5, FindTasksEffect, <1>b, <1>c
  <2>1. CASE FindsTasks(c)
    <3>1. {t \in TaskID : t[1] = caller'[c].job /\ Exists(task'[t])} = TasksOf(caller[c].job)
      BY <2>0, <2>1 DEF FindsTasks, TasksOf, repositoryVars
    <3>2. PublishOK(c)'
      BY <2>1, <3>1 DEF PublishOK, FindsTasks
    <3>. QED BY <2>0, <2>1, <3>2 DEF FindsTasks
  <2>. QED BY <1>5, <2>0, <2>1, <1>g, FindTasksEffect
<1>6. CASE Split(c)
  <2>1. Call
    BY <1>6, <1>f, <1>g, <1>h, SplitEffect DEF Splitting
  <2>. QED BY <1>6, <2>1, SplitEffect, <1>b, <1>c
<1>7. CASE RecheckRef(c)
  BY <1>7, RecheckEffect, <1>b, <1>c, <1>g, <1>h
<1>8. CASE PersistTriggerFailure(c)
  <2>1. NewJob(c, "FAILED", TRUE).status # "RUNNING"
    BY DEF NewJob
  <2>2. Tasks /\ Started
    BY <1>8, <2>1, <1>a, <1>d, <1>e, PersistEffect
  <2>. QED BY <1>8, <2>2, PersistEffect, <1>c, <1>g
<1>9. CASE CreateRun(c)
  <2>0. caller[c].pc = "create" /\ caller[c].status \in {"PENDING", "REJECTED"} /\ Log
    BY <1>0, <1>9, CreateEffect, <1>c DEF CallerOK
  <2>1. NewJob(c, caller[c].status, FALSE).status # "RUNNING"
    BY <2>0 DEF NewJob
  <2>2. Tasks /\ Started
    BY <1>9, <2>1, <1>a, <1>d, <1>e, CreateEffect
  <2>3. ASSUME NEW k \in JobID, Inserted(k, NewJob(c, caller[c].status, FALSE), caller[c].size),
               Creates(c, k)
        PROVE  Goal
    <3>1. {t \in TaskID : t[1] = caller'[c].job /\ Exists(task'[t])}
            = {t \in TaskID : t[1] = k /\ t[2] < caller[c].size}
      BY <2>3 DEF Inserted, Creates
    <3>2. \A t \in TaskID : ~(t[2] < 0)
      BY TaskBelongs
    <3>3. PublishOK(c)'
      BY <2>3, <3>1, <3>2 DEF PublishOK, Creates
    <3>. QED BY <2>0, <2>2, <2>3, <3>3 DEF Creates
  <2>. QED BY <1>9, <2>0, <2>2, <2>3, CreateEffect, <1>g
<1>10. CASE SyncTasks(c)
  BY <1>10, SyncEffect, <1>a, <1>c, <1>e, <1>g
<1>11. CASE AlreadyRunning(c)
  BY <1>11, AlreadyRunningEffect, <1>b, <1>c, <1>g
<1>12. CASE BeginPublish(c)
  <2>. DEFINE pc == IF caller[c].size = 0 THEN AfterPublish(c) ELSE "publish"
              ts == {t \in TaskID : t[1] = caller[c].job /\ Exists(task[t])}
  <2>0. Tasks /\ Log /\ Started /\ caller[c].pc = "flow" /\ UNCHANGED repositoryVars /\ Moves(c, pc)
    BY <1>12, BeginPublishEffect, <1>b, <1>c
  <2>1. caller[c].tasks = ts /\ (caller[c].size = 0 => ts = {})
    BY <1>0, <2>0 DEF PublishOK
  <2>2. pc = "publish" \/ (pc \in {"cancel", "start"} /\ caller[c].size = 0)
    BY DEF AfterPublish
  <2>3. {t \in TaskID : t[1] = caller'[c].job /\ Exists(task'[t])} = ts
    BY <2>0 DEF Moves, repositoryVars
  <2>. HIDE DEF pc, ts
  <2>4. PublishOK(c)'
    BY <2>0, <2>1, <2>2, <2>3 DEF PublishOK, Moves
  <2>. QED BY <2>0, <2>4 DEF Moves
<1>13. CASE PublishTask(c)
  <2>. DEFINE ts == {t \in TaskID : t[1] = caller[c].job /\ Exists(task[t])}
  <2>0. Tasks /\ Log /\ Started /\ caller[c].pc = "publish" /\ UNCHANGED repositoryVars
    BY <1>13, PublishEffect, <1>b DEF Log
  <2>1. CASE Moves(c, "markFailed")
    BY <2>0, <2>1, <1>h
  <2>2. ASSUME NEW u \in TaskID, Publishes(c, u) PROVE Goal
    <3>1. \A t \in ts : t \in caller[c].tasks \/ Written(t)
      BY <1>0, <2>0 DEF PublishOK
    <3>2. \A t \in ts : t \in caller'[c].tasks \/ Written(t)'
      BY <2>0, <2>2, <3>1 DEF Publishes, Log
    <3>3. {t \in TaskID : t[1] = caller'[c].job /\ Exists(task'[t])} = ts
      BY <2>0, <2>2 DEF Publishes, repositoryVars
    <3>4. \/ caller'[c].pc = "publish"
          \/ caller'[c].pc \in {"cancel", "start"} /\ caller'[c].tasks = {}
      BY <2>2 DEF Publishes, AfterPublish
    <3>. HIDE DEF ts
    <3>5. PublishOK(c)'
      BY <3>2, <3>3, <3>4 DEF PublishOK
    <3>. QED BY <2>0, <2>2, <3>5 DEF Publishes
  <2>. QED BY <1>13, <2>1, <2>2, PublishEffect
<1>14. CASE MarkFailed(c)
  <2>1. Tasks /\ Started
    BY <1>14, MarkFailedEffect, <1>a, <1>e DEF SetsStatus, Started
  <2>. QED BY <1>14, <2>1, MarkFailedEffect, <1>c, <1>g
<1>15. CASE CancelOthers(c)
  <2>0. Tasks /\ Log /\ caller[c].pc = "cancel" /\ Moves(c, "start") /\ Updated
    BY <1>15, CancelEffect, <1>a, <1>c
  <2>1. Started
    BY <1>15, CancelEffect DEF Started
  <2>2. \A t \in {t \in TaskID : t[1] = caller'[c].job /\ Exists(task'[t])} : Written(t)'
    BY <1>0, <2>0 DEF PublishOK, Moves, Updated, Log
  <2>3. PublishOK(c)'
    BY <2>0, <2>2 DEF PublishOK, Moves
  <2>. QED BY <2>0, <2>1, <2>3 DEF Moves
<1>16. CASE StartJob(c)
  <2>0. Log /\ caller[c].pc = "start" /\ caller[c].job \in JobID
    BY <1>0, <1>16, StartEffect, <1>c DEF CallerOK, Holding
  <2>1. Tasks
    BY <1>16, StartEffect, <1>a DEF SetsStatus
  <2>2. CASE SetsStatus(caller[c].job, "RUNNING")
    <3>1. \A t \in TaskID : t[1] = caller[c].job /\ Exists(task'[t]) => Written(t)'
      BY <1>0, <2>0, <2>2 DEF PublishOK, SetsStatus, Updated, Log
    <3>2. Started
      BY <2>2, <3>1 DEF SetsStatus, Started
    <3>. QED BY <1>16, <2>0, <2>1, <3>2, StartEffect, <1>g, <1>h
  <2>. QED BY <1>16, <2>0, <2>1, <2>2, StartEffect, <1>e, <1>g
<1>17. CASE EndFinalize(c)
  BY <1>17, EndFinalizeEffect, <1>b, <1>c, <1>g
<1>18. CASE CrashCaller(c)
  BY <1>18, CrashEffect, <1>b, <1>c, <1>g
<1>19. CASE Trigger(c) \/ \E j \in JobID : RetryTriggerJob(c, j)
  <2>1. AsynqMaxRetry[c] \in Nat \cup {NoAsynq}
    BY JobExecutorAssumption
  <2>. HIDE DEF Goal
  <2>. QED BY <1>1, <1>19, <2>1 DEF Trigger, RetryTriggerJob
<1>. HIDE DEF Goal
<1>. QED
  BY <1>2, <1>4, <1>5, <1>6, <1>7, <1>8, <1>9, <1>10, <1>11, <1>12, <1>13, <1>14, <1>15, <1>16,
     <1>17, <1>18, <1>19
  DEF CallerStep

LEMMA RestPublish ==
  ASSUME CallInv, PublishInv,
         \/ \E f \in Finalizers : FinalizerNext(f) \/ \E n \in Registered : Tick(f, n)
         \/ \E j \in JobID : Terminate(j)
         \/ UNCHANGED vars
  PROVE  PublishInv'
<1>1. ASSUME Updated, UNCHANGED <<brokerVars, caller>>,
             \A j \in JobID : job'[j].status = "RUNNING" => job[j].status = "RUNNING"
      PROVE  PublishInv'
  <2>1. /\ \A t \in TaskID : Exists(job[t[1]]) => (Exists(task'[t]) <=> Exists(task[t]))
        /\ \A t \in TaskID : Written(t) => Written(t)'
    BY <1>1 DEF Updated, brokerVars, Written
  <2>2. \A d \in Callers : PublishOK(d)'
    BY <1>1, <2>1, PublishFrame
  <2>3. StartedAfterPublish'
    <3>. SUFFICES ASSUME NEW j \in JobID, job'[j].status = "RUNNING"
                  PROVE  \A t \in TaskID : t[1] = j /\ Exists(task'[t]) => Written(t)'
      BY DEF StartedAfterPublish, TasksOf
    <3>. QED BY <1>1, <2>1, StartedFrame DEF PublishInv
  <2>. QED BY <2>2, <2>3 DEF PublishInv
<1>2. ASSUME NEW f \in Finalizers, FinalizerNext(f) \/ \E n \in Registered : Tick(f, n)
      PROVE  PublishInv'
  <2>1. FinalizerEffects(f) /\ Updated /\ UNCHANGED <<brokerVars, caller>>
    BY <1>2, FinalizerEffect
  <2>2. \A j \in JobID : job'[j].status = "RUNNING" => job[j].status = "RUNNING"
    BY <2>1 DEF FinalizerEffects, FinalizerReads, FinalizerHits, FinalizerAnnounces, TerminalOutcomes,
                CallInv, SharedInv, RepositoryTypeOK, JobRow
  <2>. QED BY <1>1, <2>1, <2>2
<1>3. ASSUME NEW j \in JobID, Terminate(j) PROVE PublishInv'
  BY <1>1, <1>3, TerminateEffect
<1>4. CASE UNCHANGED vars
  <2>1. Updated
    BY <1>4, UnchangedRows DEF CallInv, SharedInv, vars
  <2>. QED BY <1>1, <1>4, <2>1 DEF vars, repositoryVars
<1>. QED BY <1>2, <1>3, <1>4

LEMMA InitPublish == Init => PublishInv
BY DEF Init, NoJobRow, Absent, JobExecutorInit, PublishInv, PublishOK, StartedAfterPublish

\* A run is RUNNING only when every one of its tasks has been written to
\* Kafka, whatever calls overlap, fail, crash and are repeated: executeJobFlow
\* publishes before it starts, and a repeated call that finds the row publishes
\* again what may have been written before.
THEOREM StartedAfterPublishHolds == Spec => []StartedAfterPublish
<1>1. CallInv /\ PublishInv /\ [Next]_vars => PublishInv'
  BY CallerPublish, RestPublish DEF Next
<1>2. PublishInv => StartedAfterPublish
  BY DEF PublishInv
<1>. QED BY <1>1, <1>2, InitPublish, TypeInvariant, PTL DEF Spec

-----------------------------------------------------------------------------
(* Where rows come from *)

\* Finalizers, TerminateJob and stuttering: rows end, nothing begins.
Settles ==
  /\ Updated /\ UNCHANGED caller
  /\ \A j \in JobID : \/ job'[j] = job[j]
                      \/ /\ job[j].status \in {"PENDING", "RUNNING"}
                         /\ job'[j].status \in TerminalOutcomes \cup {"CANCELLED"}

LEMMA RestSettles ==
  ASSUME CallInv,
         \/ \E f \in Finalizers : FinalizerNext(f) \/ \E n \in Registered : Tick(f, n)
         \/ \E j \in JobID : Terminate(j)
         \/ UNCHANGED vars
  PROVE  Settles /\ \A k \in FaultKind : Never(k)' => Never(k)
<1>1. ASSUME NEW f \in Finalizers, FinalizerNext(f) \/ \E n \in Registered : Tick(f, n)
      PROVE  Settles /\ \A k \in FaultKind : Never(k)' => Never(k)
  <2>1. FinalizerEffects(f) /\ UNCHANGED caller /\ Updated
    BY <1>1, FinalizerEffect
  <2>2. \A j \in JobID : \/ job'[j] = job[j]
                         \/ /\ job[j].status \in {"PENDING", "RUNNING"}
                            /\ job'[j].status \in TerminalOutcomes \cup {"CANCELLED"}
    BY <2>1 DEF FinalizerEffects, FinalizerReads, FinalizerHits, FinalizerAnnounces,
                CallInv, SharedInv, RepositoryTypeOK, JobRow
  <2>. QED BY <2>1, <2>2 DEF Settles, FinalizerEffects
<1>2. ASSUME NEW j \in JobID, Terminate(j)
      PROVE  Settles /\ \A k \in FaultKind : Never(k)' => Never(k)
  <2>1. /\ UNCHANGED <<spent, caller>> /\ Updated
        /\ \A k \in JobID : \/ job'[k] = job[k]
                            \/ /\ job[k].status \in {"PENDING", "RUNNING"}
                               /\ job'[k].status = "CANCELLED"
    BY <1>2, TerminateEffect
  <2>. QED BY <2>1 DEF Settles, Never
<1>3. CASE UNCHANGED vars
  <2>1. Updated /\ job' = job
    BY <1>3, UnchangedRows DEF CallInv, SharedInv, vars
  <2>. QED BY <1>3, <2>1 DEF Settles, Never, vars
<1>. QED BY <1>1, <1>2, <1>3

-----------------------------------------------------------------------------
(* Whose rows they are *)

LEMMA OriginStep ==
  ASSUME CallInv, OriginInv, Settles \/ \E c \in Callers : Kind(c)
  PROVE  OriginInv'
<1>. DEFINE Rows == \A j \in JobID : Exists(job'[j]) =>
              \E d \in Callers : \E n \in 1..caller'[d].turn :
                CallRefs[d][n] = job'[j].ref /\ CallName[d] = job'[j].name
            Own(d) == caller'[d].pc \in Holding =>
                        job'[caller'[d].job].ref = CallRefs[d][caller'[d].turn]
<1>. SUFFICES Rows /\ \A d \in Callers : Own(d)
  BY DEF OriginInv
<1>0. \A d \in Callers : caller[d].turn \in Nat /\ CallerOK(d)
  BY CallFacts DEF CallerState
\* Rows that were there.
<1>1. ASSUME \A d \in Callers : caller'[d].turn \in Nat /\ caller'[d].turn >= caller[d].turn,
             NEW j \in JobID, Exists(job[j]), job'[j].name = job[j].name, job'[j].ref = job[j].ref
      PROVE  \E d \in Callers : \E n \in 1..caller'[d].turn :
               CallRefs[d][n] = job'[j].ref /\ CallName[d] = job'[j].name
  <2>1. PICK d \in Callers : \E n \in 1..caller[d].turn :
          CallRefs[d][n] = job[j].ref /\ CallName[d] = job[j].name
    BY <1>1 DEF OriginInv
  <2>2. PICK n \in 1..caller[d].turn : CallRefs[d][n] = job[j].ref /\ CallName[d] = job[j].name
    BY <2>1
  <2>3. n \in 1..caller'[d].turn
    BY <1>0, <1>1
  <2>. QED BY <1>1, <2>2, <2>3
<1>2. ASSUME Updated, \A d \in Callers : caller'[d].turn \in Nat /\ caller'[d].turn >= caller[d].turn
      PROVE  Rows
  BY <1>1, <1>2 DEF Updated
\* Callers that did nothing, or keep their row.
<1>3. ASSUME NEW d \in Callers, caller'[d].turn = caller[d].turn,
             caller'[d].pc \in Holding => caller[d].pc \in Holding /\ caller'[d].job = caller[d].job,
             \A j \in JobID : Exists(job[j]) => job'[j].ref = job[j].ref
      PROVE  Own(d)
  BY <1>0, <1>3 DEF OriginInv, CallerOK
<1>4. CASE Settles
  <2>1. \A d \in Callers : Own(d)
    BY <1>3, <1>4 DEF Settles, Updated
  <2>2. Rows
    BY <1>0, <1>2, <1>4 DEF Settles
  <2>. QED BY <2>1, <2>2
<1>5. ASSUME NEW c \in Callers, Kind(c) PROVE Rows /\ \A d \in Callers : Own(d)
  <2>0. caller[c].turn \in Nat /\ CallerOK(c)
    BY <1>0
  <2>. DEFINE Turns == \A d \in Callers : caller'[d].turn \in Nat /\ caller'[d].turn >= caller[d].turn
  <2>1. Others(c) /\ SameCall(c) => Turns
    BY <1>0 DEF Others, SameCall
  <2>2. ASSUME Others(c), \A j \in JobID : Exists(job[j]) => job'[j].ref = job[j].ref, Own(c)
        PROVE  \A d \in Callers : Own(d)
    <3>. HIDE DEF Own
    <3>1. ASSUME NEW d \in Callers, d # c PROVE Own(d)
      <4>1. caller'[d] = caller[d]
        BY <2>2, <3>1 DEF Others
      <4>. QED BY <1>3, <2>2, <4>1
    <3>. QED BY <2>2, <3>1
  <2>. HIDE DEF Turns, Rows
  <2>3. CASE BeginsNext(c) \/ BeginsAgain(c)
    <3>1. Updated /\ Others(c) /\ caller'[c].pc = "find"
          /\ (caller'[c].turn = caller[c].turn \/ caller'[c].turn = caller[c].turn + 1)
      BY <2>3 DEF BeginsNext, BeginsAgain, Begins
    <3>2. Turns
      BY <1>0, <2>0, <3>1 DEF Others, Turns
    <3>3. Own(c)
      BY <3>1 DEF Holding
    <3>. HIDE DEF Own
    <3>. QED BY <1>2, <2>2, <3>1, <3>2, <3>3 DEF Updated, Turns
  <2>4. CASE Reads(c) \/ Marks(c) \/ Cancels(c)
    <3>1. Quiet(c)
      BY <2>4 DEF Reads, Marks, Cancels
    <3>2. Own(c)
      BY <1>3, <3>1 DEF Quiet, SameCall, Updated
    <3>. HIDE DEF Own
    <3>. QED BY <1>2, <2>1, <2>2, <3>1, <3>2 DEF Quiet, Updated, Turns
  <2>5. CASE Misses(c)
    <3>1. Own(c)
      BY <2>5 DEF Misses, Holding
    <3>. HIDE DEF Own
    <3>. QED BY <1>2, <2>1, <2>2, <2>5, <3>1 DEF Misses, Updated, Turns
  <2>6. ASSUME NEW j \in JobID, Hits(c, j) PROVE Rows /\ \A d \in Callers : Own(d)
    <3>1. Own(c)
      BY <2>6 DEF Hits, SameCall
    <3>. HIDE DEF Own
    <3>. QED BY <1>2, <2>1, <2>2, <2>6, <3>1 DEF Hits, Updated, Turns
  <2>7. ASSUME NEW k \in JobID, NEW s, NEW failure, NEW m, Inserts(c, k, s, failure, m)
        PROVE  Rows /\ \A d \in Callers : Own(d)
    <3>1. /\ ~Exists(job[k]) /\ job'[k] = NewJob(c, s, failure)
          /\ \A j \in JobID : j # k => job'[j] = job[j]
          /\ Others(c) /\ SameCall(c) /\ caller[c].pc # "idle"
      BY <2>7 DEF Inserts, Inserted
    <3>2. job'[k].ref = CallRefs[c][caller[c].turn] /\ job'[k].name = CallName[c]
      BY <3>1 DEF NewJob, RefID
    <3>3. Turns
      BY <2>1, <3>1
    <3>4. caller[c].turn \in 1..caller'[c].turn
      BY <2>0, <3>1 DEF CallerOK, SameCall
    <3>5. Rows
      <4>1. ASSUME NEW j \in JobID, Exists(job'[j])
            PROVE  \E d \in Callers : \E n \in 1..caller'[d].turn :
                     CallRefs[d][n] = job'[j].ref /\ CallName[d] = job'[j].name
        <5>1. CASE j = k
          BY <3>2, <3>4, <5>1
        <5>2. CASE j # k
          BY <1>1, <3>1, <3>3, <4>1, <5>2 DEF Turns
        <5>. QED BY <5>1, <5>2
      <4>. QED BY <4>1 DEF Rows
    <3>6. Own(c)
      BY <2>7, <3>1, <3>2 DEF Inserts, SameCall, Holding
    <3>7. \A j \in JobID : Exists(job[j]) => job'[j].ref = job[j].ref
      BY <3>1
    <3>. HIDE DEF Own
    <3>. QED BY <2>2, <3>1, <3>5, <3>6, <3>7
  <2>. HIDE DEF Own
  <2>. QED BY <1>5, <2>3, <2>4, <2>5, <2>6, <2>7 DEF Kind
<1>. HIDE DEF Rows, Own
<1>. QED BY <1>4, <1>5

LEMMA InitOrigin == Init => OriginInv
BY DEF Init, NoJobRow, JobExecutorInit, OriginInv, Exists, Holding

\* Every step is a step of a caller or settles rows.
LEMMA NextKinds ==
  ASSUME CallInv, [Next]_vars
  PROVE  /\ Settles \/ \E c \in Callers : Kind(c)
         /\ \A k \in FaultKind : Never(k)' => Never(k)
<1>1. ASSUME NEW c \in Callers, Trigger(c) \/ (\E j \in JobID : RetryTriggerJob(c, j)) \/ Redeliver(c)
      PROVE  Kind(c) /\ \A k \in FaultKind : Never(k)' => Never(k)
  <2>1. UNCHANGED spent
    BY <1>1 DEF Trigger, RetryTriggerJob, Redeliver, NextCall
  <2>. QED BY <1>1, <2>1, CallerKinds DEF Never
<1>2. ASSUME NEW c \in Callers, CallerStep(c) \/ CrashCaller(c)
      PROVE  Kind(c) /\ \A k \in FaultKind : Never(k)' => Never(k)
  BY <1>2, CallerKinds, CallerFaults
<1>. QED BY <1>1, <1>2, RestSettles DEF Next

LEMMA OriginInvariant == Spec => []OriginInv
<1>1. CallInv /\ OriginInv /\ [Next]_vars => OriginInv'
  BY OriginStep, NextKinds
<1>. QED BY <1>1, InitOrigin, TypeInvariant, PTL DEF Spec

-----------------------------------------------------------------------------
(* OneRunPerRef *)

\* A reference leads to one caller, if the calls take turns.
LEMMA OneUser ==
  ASSUME TakingTurns, NEW c \in Callers, NEW d \in Callers,
         NEW m \in 1..Len(CallRefs[c]), NEW n \in 1..Len(CallRefs[d]), CallRefs[c][m] = CallRefs[d][n]
  PROVE  c = d
<1>1. CallRefs[c][m] \in Refs
  BY JobExecutorAssumption
<1>2. Uses(c, CallRefs[c][m]) /\ Uses(d, CallRefs[c][m])
  BY DEF Uses
<1>. QED BY <1>1, <1>2 DEF TakingTurns

LEMMA TurnFacts ==
  ASSUME CallInv, NEW c \in Callers
  PROVE  /\ caller[c].turn \in Nat /\ Len(CallRefs[c]) \in Nat /\ caller[c].turn <= Len(CallRefs[c])
         /\ caller[c].pc # "idle" => caller[c].turn \in 1..Len(CallRefs[c])
<1>1. caller[c] \in CallerState /\ CallerOK(c) /\ CallRefs[c] \in Seq(Refs)
  BY CallFacts
<1>2. caller[c].turn \in Nat /\ Len(CallRefs[c]) \in Nat
  BY <1>1 DEF CallerState
<1>. QED BY <1>1, <1>2 DEF CallerOK

LEMMA RefStep ==
  ASSUME CallInv, TakingTurns, RefInv, Settles \/ \E c \in Callers : Kind(c)
  PROVE  RefInv'
<1>. DEFINE Unique == \A j, k \in JobID :
              Exists(job'[j]) /\ Exists(job'[k]) /\ job'[j].ref = job'[k].ref => j = k
            None(d) == caller'[d].pc \in Unfound =>
              \A j \in JobID : Exists(job'[j]) => job'[j].ref # CallRefs[d][caller'[d].turn]
<1>. SUFFICES Unique /\ \A d \in Callers : None(d)
  BY DEF RefInv
<1>1. ASSUME Updated PROVE Unique
  BY <1>1 DEF Updated, RefInv
<1>2. ASSUME NEW d \in Callers, caller'[d].turn = caller[d].turn, Updated,
             caller'[d].pc \in Unfound => caller[d].pc \in Unfound
      PROVE  None(d)
  BY <1>2 DEF Updated, RefInv
<1>3. CASE Settles
  BY <1>1, <1>2, <1>3 DEF Settles
<1>4. ASSUME NEW c \in Callers, Kind(c) PROVE Unique /\ \A d \in Callers : None(d)
  <2>1. ASSUME Updated, Others(c), None(c) PROVE Unique /\ \A d \in Callers : None(d)
    <3>. HIDE DEF None, Unique
    <3>1. ASSUME NEW d \in Callers, d # c PROVE None(d)
      BY <1>2, <2>1, <3>1 DEF Others
    <3>. QED BY <1>1, <2>1, <3>1
  <2>2. CASE BeginsNext(c) \/ BeginsAgain(c)
    <3>1. Updated /\ Others(c) /\ caller'[c].pc = "find"
      BY <2>2 DEF BeginsNext, BeginsAgain, Begins
    <3>. QED BY <2>1, <3>1 DEF Unfound
  <2>3. CASE Reads(c) \/ Marks(c) \/ Cancels(c)
    <3>1. Quiet(c)
      BY <2>3 DEF Reads, Marks, Cancels
    <3>2. None(c)
      BY <1>2, <3>1 DEF Quiet, SameCall
    <3>. HIDE DEF None, Unique
    <3>. QED BY <2>1, <3>1, <3>2 DEF Quiet
  <2>4. CASE Misses(c)
    <3>1. None(c)
      BY <2>4 DEF Misses, SameCall
    <3>. HIDE DEF None, Unique
    <3>. QED BY <2>1, <2>4, <3>1 DEF Misses
  <2>5. ASSUME NEW j \in JobID, Hits(c, j) PROVE Unique /\ \A d \in Callers : None(d)
    <3>1. None(c)
      BY <2>5 DEF Hits, Unfound
    <3>. HIDE DEF None, Unique
    <3>. QED BY <2>1, <2>5, <3>1 DEF Hits
  <2>6. ASSUME NEW k \in JobID, NEW s, NEW failure, NEW m, Inserts(c, k, s, failure, m)
        PROVE  Unique /\ \A d \in Callers : None(d)
    <3>1. /\ ~Exists(job[k]) /\ job'[k] = NewJob(c, s, failure)
          /\ \A j \in JobID : j # k => job'[j] = job[j]
          /\ Others(c) /\ SameCall(c) /\ caller[c].pc \in Unfound /\ caller[c].pc # "idle"
          /\ caller'[c].pc \notin Unfound
      BY <2>6 DEF Inserts, Inserted, Unfound
    <3>2. job'[k].ref = CallRefs[c][caller[c].turn]
      BY <3>1 DEF NewJob, RefID
    <3>3. \A j \in JobID : Exists(job[j]) => job[j].ref # CallRefs[c][caller[c].turn]
      BY <3>1 DEF RefInv
    <3>4. Unique
      BY <3>1, <3>2, <3>3 DEF RefInv
    <3>5. ASSUME NEW d \in Callers, d # c, caller'[d].pc \in Unfound
          PROVE  \A j \in JobID : Exists(job'[j]) => job'[j].ref # CallRefs[d][caller'[d].turn]
      <4>1. caller'[d] = caller[d] /\ caller[d].pc # "idle"
        BY <3>1, <3>5 DEF Others, Unfound
      <4>2. CallRefs[c][caller[c].turn] # CallRefs[d][caller[d].turn]
        BY <3>1, <3>5, <4>1, TurnFacts, OneUser
      <4>. QED BY <3>1, <3>2, <3>5, <4>1, <4>2 DEF RefInv
    <3>. QED BY <3>1, <3>4, <3>5
  <2>. HIDE DEF None, Unique
  <2>. QED BY <1>4, <2>2, <2>3, <2>4, <2>5, <2>6 DEF Kind
<1>. HIDE DEF None, Unique
<1>. QED BY <1>3, <1>4

\* Among calls that take turns a reference names at most one run, whatever
\* fails, crashes and is repeated: the lookup finds what an earlier call left.
THEOREM OneRunPerRefHolds == Spec => []OneRunPerRef
<1>1. Init => RefInv
  BY DEF Init, NoJobRow, JobExecutorInit, RefInv, Exists, Unfound
<1>2. CallInv /\ (TakingTurns => RefInv) /\ [Next]_vars => (TakingTurns => RefInv)'
  BY RefStep, NextKinds DEF TakingTurns, Uses
<1>3. (TakingTurns => RefInv) => OneRunPerRef
  BY DEF OneRunPerRef, RefInv
<1>. QED BY <1>1, <1>2, <1>3, TypeInvariant, PTL DEF Spec

-----------------------------------------------------------------------------
(* OneRunningRun *)

\* A row with the reference of the call in progress has the caller's name.
LEMMA OwnRow ==
  ASSUME CallInv, OriginInv, TakingTurns, NEW c \in Callers, caller[c].pc # "idle", NEW j \in JobID,
         Exists(job[j]), job[j].ref = CallRefs[c][caller[c].turn]
  PROVE  job[j].name = CallName[c]
<1>1. PICK d \in Callers : \E n \in 1..caller[d].turn :
        CallRefs[d][n] = job[j].ref /\ CallName[d] = job[j].name
  BY DEF OriginInv
<1>2. PICK n \in 1..caller[d].turn : CallRefs[d][n] = job[j].ref /\ CallName[d] = job[j].name
  BY <1>1
<1>3. n \in 1..Len(CallRefs[d]) /\ caller[c].turn \in 1..Len(CallRefs[c])
  BY TurnFacts
<1>4. c = d
  BY <1>2, <1>3, OneUser
<1>. QED BY <1>2, <1>4

\* The row a caller works on.
LEMMA HeldRow ==
  ASSUME CallInv, OriginInv, TakingTurns, NEW c \in Callers, caller[c].pc \in Holding
  PROVE  /\ caller[c].job \in JobID /\ Exists(job[caller[c].job]) /\ caller[c].pc # "idle"
         /\ job[caller[c].job].ref = CallRefs[c][caller[c].turn]
         /\ job[caller[c].job].name = CallName[c]
<1>1. /\ caller[c].job \in JobID /\ Exists(job[caller[c].job]) /\ caller[c].pc # "idle"
      /\ job[caller[c].job].ref = CallRefs[c][caller[c].turn]
  BY CallFacts DEF CallerOK, OriginInv, Holding
<1>. QED BY <1>1, OwnRow

\* No two callers work on one row.
LEMMA HeldApart ==
  ASSUME CallInv, OriginInv, TakingTurns, NEW c \in Callers, NEW d \in Callers,
         caller[c].pc \in Holding, caller[d].pc \in Holding, caller[c].job = caller[d].job
  PROVE  c = d
BY HeldRow DEF TakingTurns

LEMMA RunningStep ==
  ASSUME CallInv, OriginInv, TakingTurns, RunningInv, Never("error")' => Never("error"),
         Settles \/ \E c \in Callers : Kind(c)
  PROVE  RunningInv'
<1>. SUFFICES ASSUME Never("error")'
              PROVE  AtMostOneRunning' /\
                     \A d \in Callers : caller'[d].pc = "start" /\ CallName[d] \in CancelPrevious =>
                       \A j \in JobID : job'[j].status = "RUNNING" /\ job'[j].name = CallName[d] =>
                         j = caller'[d].job
  BY DEF RunningInv
<1>. DEFINE Alone(d) == caller'[d].pc = "start" /\ CallName[d] \in CancelPrevious =>
              \A j \in JobID : job'[j].status = "RUNNING" /\ job'[j].name = CallName[d] =>
                j = caller'[d].job
            Goal == AtMostOneRunning' /\ \A d \in Callers : Alone(d)
<1>. SUFFICES Goal
  OBVIOUS
<1>0. /\ AtMostOneRunning
      /\ \A d \in Callers : caller[d].pc = "start" /\ CallName[d] \in CancelPrevious =>
           \A j \in JobID : job[j].status = "RUNNING" /\ job[j].name = CallName[d] =>
             j = caller[d].job
  BY DEF RunningInv
<1>1. ASSUME \A j \in JobID : job'[j].status = "RUNNING" =>
               job[j].status = "RUNNING" /\ job'[j].name = job[j].name
      PROVE  /\ AtMostOneRunning'
             /\ \A d \in Callers : caller'[d] = caller[d] => Alone(d)
  BY <1>0, <1>1 DEF AtMostOneRunning
<1>2. CASE Settles
  <2>1. \A j \in JobID : job'[j].status = "RUNNING" =>
               job[j].status = "RUNNING" /\ job'[j].name = job[j].name
    BY <1>2 DEF Settles, Updated, TerminalOutcomes
  <2>. QED BY <1>1, <1>2, <2>1 DEF Settles
<1>3. ASSUME NEW c \in Callers, Kind(c) PROVE Goal
  <2>1. ASSUME Others(c), Alone(c),
               \A j \in JobID : job'[j].status = "RUNNING" =>
                 job[j].status = "RUNNING" /\ job'[j].name = job[j].name
        PROVE  Goal
    BY <1>1, <2>1 DEF Others
  <2>2. CASE BeginsNext(c) \/ BeginsAgain(c) \/ Misses(c) \/ \E j \in JobID : Hits(c, j)
    <3>1. job' = job /\ Others(c) /\ caller'[c].pc \in {"find", "split", "findTasks"}
      BY <2>2 DEF BeginsNext, BeginsAgain, Begins, Misses, Hits
    <3>. QED BY <2>1, <3>1
  <2>3. CASE Reads(c)
    BY <2>1, <2>3 DEF Reads, Quiet
  <2>4. CASE Cancels(c)
    <3>1. \A j \in JobID : job'[j].status = "RUNNING" =>
            job[j].status = "RUNNING" /\ job'[j].name = job[j].name
      BY <2>4 DEF Cancels
    <3>2. ~Spend("error")
      BY DEF Never, Spend, CallInv, SharedInv, FaultsTypeOK, FaultKind
    <3>3. caller'[c].job = caller[c].job /\ Others(c)
      BY <2>4 DEF Cancels, Quiet, Holding
    <3>4. Alone(c)
      BY <2>4, <3>1, <3>2, <3>3 DEF Cancels, Quiet, Updated
    <3>. QED BY <2>1, <3>1, <3>3, <3>4
  <2>5. CASE Marks(c) /\ caller[c].pc = "markFailed"
    <3>1. \A j \in JobID : job'[j].status = "RUNNING" => job'[j] = job[j]
      BY <2>5 DEF Marks, SetsStatus
    <3>. QED BY <2>1, <2>5, <3>1 DEF Marks, Quiet
  <2>6. CASE Marks(c) /\ caller[c].pc = "start"
    <3>. DEFINE i == caller[c].job
    <3>1. /\ i \in JobID /\ job'[i].status = "RUNNING" /\ job'[i].name = job[i].name
          /\ \A k \in JobID : k # i => job'[k] = job[k]
          /\ Others(c) /\ caller'[c].pc # "start"
      BY <2>6 DEF Marks, Quiet, SetsStatus, Updated
    <3>2. job[i].name = CallName[c]
      BY <2>6, HeldRow DEF Holding
    <3>3. CallName[c] \in CancelPrevious =>
            \A j \in JobID : job[j].status = "RUNNING" /\ job[j].name = CallName[c] => j = i
      BY <1>0, <2>6
    <3>. HIDE DEF i
    <3>4. AtMostOneRunning'
      <4>. SUFFICES ASSUME NEW n \in CancelPrevious, NEW j \in JobID, NEW k \in JobID,
                           job'[j].name = n, job'[j].status = "RUNNING",
                           job'[k].name = n, job'[k].status = "RUNNING"
                    PROVE  j = k
        BY DEF AtMostOneRunning
      <4>1. CASE j = i \/ k = i
        BY <3>1, <3>2, <3>3, <4>1
      <4>2. CASE j # i /\ k # i
        BY <1>0, <3>1, <4>2 DEF AtMostOneRunning
      <4>. QED BY <4>1, <4>2
    <3>5. ASSUME NEW d \in Callers, d # c PROVE Alone(d)
      <4>1. caller'[d] = caller[d] /\ CallName[d] # CallName[c]
        BY <3>1, <3>5 DEF Others, TakingTurns
      <4>. QED BY <1>0, <3>1, <3>2, <4>1
    <3>. QED BY <3>1, <3>4, <3>5
  <2>7. ASSUME NEW k \in JobID, NEW s, NEW failure, NEW m, Inserts(c, k, s, failure, m) PROVE Goal
    <3>1. /\ job'[k] = NewJob(c, s, failure) /\ s # "RUNNING"
          /\ \A j \in JobID : j # k => job'[j] = job[j]
          /\ Others(c) /\ caller'[c].pc # "start"
      BY <2>7 DEF Inserts, Inserted
    <3>2. job'[k].status # "RUNNING"
      BY <3>1 DEF NewJob
    <3>. QED BY <2>1, <3>1, <3>2
  <2>. HIDE DEF Goal
  <2>. QED BY <1>3, <2>2, <2>3, <2>4, <2>5, <2>6, <2>7 DEF Kind, Marks
<1>. HIDE DEF Goal
<1>. QED BY <1>2, <1>3

\* CancelPrevious: two runs of the name are never RUNNING together, if the
\* calls take turns and no statement fails, although cancelling and starting
\* are two transactions and a crash may come between them.
THEOREM OneRunningRunHolds == Spec => []OneRunningRun
<1>1. Init => RunningInv
  BY DEF Init, NoJobRow, JobExecutorInit, RunningInv, AtMostOneRunning, Absent
<1>2. CallInv /\ OriginInv /\ (TakingTurns => RunningInv) /\ [Next]_vars =>
        (TakingTurns => RunningInv)'
  BY RunningStep, NextKinds DEF TakingTurns, Uses, FaultKind
<1>3. (TakingTurns => RunningInv) => OneRunningRun
  BY DEF OneRunningRun, RunningInv
<1>. QED BY <1>1, <1>2, <1>3, TypeInvariant, OriginInvariant, PTL DEF Spec

-----------------------------------------------------------------------------
(* TriggerFailureIsLast *)

LEMMA FailureStep ==
  ASSUME CallInv, FailureInv, Settles \/ \E c \in Callers : Kind(c)
  PROVE  FailureInv'
<1>. DEFINE Record(j) == job'[j].triggerFailure =>
              job'[j].status = "FAILED" /\ \A t \in TaskID : t[1] = j => ~Exists(task'[t])
            Run(d) == caller'[d].pc \in Holding /\ caller'[d].status = "PENDING" =>
                        ~job'[caller'[d].job].triggerFailure
            Last(d) == caller'[d].pc \in {"recheck", "persist"} => shouldPersistTriggerFailure(d)'
            Goal == /\ \A j \in JobID : Record(j)
                    /\ \A d \in Callers : Run(d) /\ Last(d)
<1>. SUFFICES Goal
  BY DEF FailureInv, TasksOf
<1>0. /\ \A j \in JobID : job[j].triggerFailure =>
           job[j].status = "FAILED" /\ \A t \in TaskID : t[1] = j => ~Exists(task[t])
      /\ \A d \in Callers :
           /\ caller[d].pc \in Holding /\ caller[d].status = "PENDING" =>
                ~job[caller[d].job].triggerFailure
           /\ caller[d].pc \in {"recheck", "persist"} => shouldPersistTriggerFailure(d)
  BY DEF FailureInv, TasksOf
<1>1. \A d \in Callers : caller[d].pc \in Holding =>
        caller[d].job \in JobID /\ Exists(job[caller[d].job])
  BY CallFacts DEF CallerOK
<1>2. ASSUME Updated, NEW j \in JobID, job[j].triggerFailure => job'[j].status = "FAILED"
      PROVE  Record(j)
  BY <1>0, <1>2 DEF Updated
<1>3. ASSUME NEW d \in Callers, caller'[d] = caller[d],
             \A j \in JobID : Exists(job[j]) => job'[j].triggerFailure = job[j].triggerFailure
      PROVE  Run(d) /\ Last(d)
  BY <1>0, <1>1, <1>3 DEF shouldPersistTriggerFailure
<1>4. CASE Settles
  <2>1. \A j \in JobID : Record(j)
    BY <1>0, <1>2, <1>4 DEF Settles
  <2>2. \A d \in Callers : Run(d) /\ Last(d)
    BY <1>3, <1>4 DEF Settles, Updated
  <2>. QED BY <2>1, <2>2
<1>5. ASSUME NEW c \in Callers, Kind(c) PROVE Goal
  <2>1. ASSUME Others(c), Run(c), Last(c), \A j \in JobID : Record(j),
               \A j \in JobID : Exists(job[j]) => job'[j].triggerFailure = job[j].triggerFailure
        PROVE  Goal
    <3>. HIDE DEF Record, Run, Last
    <3>1. ASSUME NEW d \in Callers, d # c PROVE Run(d) /\ Last(d)
      BY <1>3, <2>1, <3>1 DEF Others
    <3>. QED BY <2>1, <3>1
  <2>2. ASSUME Others(c), Run(c), Last(c), Updated,
               \A j \in JobID : job[j].triggerFailure => job'[j].status = "FAILED"
        PROVE  Goal
    <3>1. \A j \in JobID : Record(j)
      BY <1>2, <2>2
    <3>2. \A j \in JobID : Exists(job[j]) => job'[j].triggerFailure = job[j].triggerFailure
      BY <2>2 DEF Updated
    <3>. HIDE DEF Record, Run, Last, Goal
    <3>. QED BY <2>1, <2>2, <3>1, <3>2
  <2>3. CASE BeginsNext(c) \/ BeginsAgain(c)
    <3>1. Updated /\ job' = job /\ Others(c) /\ caller'[c].pc = "find"
      BY <2>3 DEF BeginsNext, BeginsAgain, Begins
    <3>2. Run(c) /\ Last(c)
      BY <3>1 DEF Holding
    <3>. HIDE DEF Run, Last, Goal
    <3>. QED BY <1>0, <2>2, <3>1, <3>2
  <2>4. CASE Misses(c)
    <3>1. Run(c) /\ Last(c)
      BY <2>4 DEF Misses, Holding
    <3>. HIDE DEF Run, Last, Goal
    <3>. QED BY <1>0, <2>2, <2>4, <3>1 DEF Misses
  <2>5. ASSUME NEW j \in JobID, Hits(c, j) PROVE Goal
    <3>1. Run(c) /\ Last(c)
      BY <1>0, <2>5 DEF Hits
    <3>. HIDE DEF Run, Last, Goal
    <3>. QED BY <1>0, <2>2, <2>5, <3>1 DEF Hits
  <2>6. CASE Reads(c) \/ Marks(c) \/ Cancels(c)
    <3>1. Quiet(c)
      BY <2>6 DEF Reads, Marks, Cancels
    <3>2. Run(c)
      BY <1>0, <1>1, <3>1 DEF Quiet, Updated
    <3>3. Last(c)
      BY <1>0, <3>1 DEF Quiet, SameCall, shouldPersistTriggerFailure
    <3>4. \A j \in JobID : job[j].triggerFailure => job'[j].status = "FAILED"
      <4>1. CASE Marks(c)
        <5>1. ~job[caller[c].job].triggerFailure
          BY <1>0, <4>1 DEF Marks, Holding
        <5>. QED BY <1>0, <4>1, <5>1 DEF Marks, SetsStatus
      <4>2. CASE Reads(c) \/ Cancels(c)
        BY <1>0, <4>2 DEF Reads, Cancels
      <4>. QED BY <2>6, <4>1, <4>2
    <3>. HIDE DEF Run, Last, Goal
    <3>. QED BY <2>2, <3>1, <3>2, <3>3, <3>4 DEF Quiet
  <2>7. ASSUME NEW k \in JobID, NEW s, NEW failure \in BOOLEAN, NEW m, Inserts(c, k, s, failure, m)
        PROVE  Goal
    <3>1. /\ ~Exists(job[k]) /\ job'[k] = NewJob(c, s, failure)
          /\ \A j \in JobID : j # k => job'[j] = job[j]
          /\ Others(c) /\ caller'[c].pc \in {"idle", "flow"}
      BY <2>7 DEF Inserts, Inserted
    <3>2. job'[k].status = s /\ job'[k].triggerFailure = failure
      BY <3>1 DEF NewJob
    <3>3. Record(k)
      <4>1. ASSUME failure = TRUE PROVE s = "FAILED" /\ \A t \in TaskID : t[1] = k => ~Exists(task'[t])
        <5>1. m = 0 /\ s = "FAILED"
          BY <2>7, <4>1 DEF Inserts
        <5>2. \A t \in TaskID : ~(t[2] < 0)
          BY TaskBelongs
        <5>. QED BY <2>7, <5>1, <5>2 DEF Inserts, Inserted
      <4>. QED BY <3>2, <4>1
    <3>4. ASSUME NEW j \in JobID, j # k PROVE Record(j)
      <4>1. job'[j] = job[j] /\ \A t \in TaskID : t[1] = j => task'[t] = task[t]
        BY <2>7, <3>4 DEF Inserts, Inserted
      <4>. QED BY <1>0, <4>1
    <3>5. Run(c) /\ Last(c)
      BY <2>7, <3>1, <3>2 DEF Inserts, Holding
    <3>6. \A j \in JobID : Exists(job[j]) => job'[j].triggerFailure = job[j].triggerFailure
      BY <3>1
    <3>. HIDE DEF Record, Run, Last, Goal
    <3>. QED BY <2>1, <3>1, <3>3, <3>4, <3>5, <3>6
  <2>. HIDE DEF Goal
  <2>. QED BY <1>5, <2>3, <2>4, <2>5, <2>6, <2>7 DEF Kind
<1>. HIDE DEF Goal
<1>. QED BY <1>4, <1>5

LEMMA LastStep ==
  ASSUME CallInv, OriginInv, FailureInv, TakingTurns, OwnReferences, LastInv,
         Settles \/ \E c \in Callers : Kind(c)
  PROVE  LastInv'
<1>. DEFINE Late(j, d) == job'[j].triggerFailure /\ caller'[d].turn > 0
                            /\ CallRefs[d][caller'[d].turn] = job'[j].ref
                          => caller'[d].retry >= caller'[d].maxRetry
<1>. SUFFICES \A j \in JobID : \A d \in Callers : Late(j, d)
  BY DEF LastInv
<1>1. ASSUME NEW j \in JobID, job'[j].triggerFailure => job[j].triggerFailure /\ job'[j].ref = job[j].ref,
             NEW d \in Callers, caller'[d].turn = caller[d].turn, caller'[d].retry = caller[d].retry,
             caller'[d].maxRetry = caller[d].maxRetry
      PROVE  Late(j, d)
  BY <1>1 DEF LastInv
<1>2. CASE Settles
  BY <1>1, <1>2 DEF Settles, Updated
<1>3. ASSUME NEW c \in Callers, Kind(c), NEW j \in JobID, NEW d \in Callers PROVE Late(j, d)
  <2>1. ASSUME Updated, Others(c), SameCall(c) PROVE Late(j, d)
    <3>1. /\ caller'[d].turn = caller[d].turn /\ caller'[d].retry = caller[d].retry
          /\ caller'[d].maxRetry = caller[d].maxRetry
      BY <2>1 DEF Others, SameCall
    <3>. QED BY <1>1, <2>1, <3>1 DEF Updated
  <2>2. ASSUME Updated, Others(c), d # c PROVE Late(j, d)
    <3>1. caller'[d] = caller[d]
      BY <2>2 DEF Others
    <3>. QED BY <1>1, <2>2, <3>1 DEF Updated
  <2>3. CASE BeginsNext(c)
    <3>1. Updated /\ Others(c) /\ job' = job /\ caller'[c].turn = caller[c].turn + 1
      BY <2>3 DEF BeginsNext, Begins
    <3>2. ASSUME d = c, job[j].triggerFailure, CallRefs[c][caller[c].turn + 1] = job[j].ref
          PROVE  FALSE
      <4>1. Exists(job[j])
        BY <3>2 DEF FailureInv, Exists, Absent
      <4>2. PICK e \in Callers : \E n \in 1..caller[e].turn : CallRefs[e][n] = job[j].ref
        BY <4>1 DEF OriginInv
      <4>3. PICK n \in 1..caller[e].turn : CallRefs[e][n] = job[j].ref
        BY <4>2
      <4>4. n \in 1..Len(CallRefs[e]) /\ caller[c].turn + 1 \in 1..Len(CallRefs[c])
        BY <2>3, TurnFacts DEF BeginsNext
      <4>5. e = c
        BY <3>2, <4>3, <4>4, OneUser
      <4>6. n = caller[c].turn + 1
        BY <3>2, <4>3, <4>4, <4>5 DEF OwnReferences
      <4>. QED BY <4>5, <4>6, TurnFacts
    <3>. QED BY <2>2, <3>1, <3>2
  <2>4. CASE BeginsAgain(c)
    <3>1. /\ Updated /\ Others(c) /\ job' = job /\ caller'[c].turn = caller[c].turn
          /\ caller[c].retry < caller[c].maxRetry
      BY <2>4 DEF BeginsAgain, Begins
    <3>2. caller[c].retry \in Nat /\ caller[c].maxRetry \in Int
      BY CallFacts DEF CallerState, NoAsynq
    <3>3. ASSUME d = c, job[j].triggerFailure, caller[c].turn > 0,
                 CallRefs[c][caller[c].turn] = job[j].ref
          PROVE  FALSE
      BY <3>1, <3>2, <3>3 DEF LastInv
    <3>. QED BY <2>2, <3>1, <3>3
  <2>5. CASE Reads(c) \/ Marks(c) \/ Cancels(c) \/ Misses(c) \/ \E i \in JobID : Hits(c, i)
    <3>1. Updated /\ Others(c) /\ SameCall(c)
      BY <2>5 DEF Reads, Marks, Cancels, Quiet, Misses, Hits
    <3>. QED BY <2>1, <3>1
  <2>6. ASSUME NEW k \in JobID, NEW s, NEW failure \in BOOLEAN, NEW m, Inserts(c, k, s, failure, m)
        PROVE  Late(j, d)
    <3>1. /\ ~Exists(job[k]) /\ job'[k] = NewJob(c, s, failure)
          /\ \A i \in JobID : i # k => job'[i] = job[i]
          /\ Others(c) /\ SameCall(c) /\ caller[c].pc # "idle"
      BY <2>6 DEF Inserts, Inserted
    <3>2. /\ caller'[d].turn = caller[d].turn /\ caller'[d].retry = caller[d].retry
          /\ caller'[d].maxRetry = caller[d].maxRetry
      BY <3>1 DEF Others, SameCall
    <3>3. CASE j # k
      BY <1>1, <3>1, <3>2, <3>3
    <3>4. CASE j = k
      <4>1. job'[k].triggerFailure = failure /\ job'[k].ref = CallRefs[c][caller[c].turn]
        BY <3>1 DEF NewJob, RefID
      <4>2. ASSUME failure = TRUE, caller[d].turn > 0,
                   CallRefs[d][caller[d].turn] = CallRefs[c][caller[c].turn]
            PROVE  caller[d].retry >= caller[d].maxRetry
        <5>1. d = c
          <6>1. caller[d].turn \in 1..Len(CallRefs[d]) /\ caller[c].turn \in 1..Len(CallRefs[c])
            BY <3>1, <4>2, TurnFacts
          <6>. QED BY <4>2, <6>1, OneUser
        <5>2. shouldPersistTriggerFailure(c)
          BY <2>6, <4>2 DEF Inserts, FailureInv
        <5>3. caller[c].retry \in Nat /\ caller[c].maxRetry \in Int
          BY CallFacts DEF CallerState, NoAsynq
        <5>. QED BY <5>1, <5>2, <5>3 DEF shouldPersistTriggerFailure, NoAsynq
      <4>. QED BY <3>2, <3>4, <4>1, <4>2
    <3>. QED BY <3>3, <3>4
  <2>. HIDE DEF Late
  <2>. QED BY <1>3, <2>3, <2>4, <2>5, <2>6 DEF Kind
<1>. HIDE DEF Late
<1>. QED BY <1>2, <1>3

\* The record of a failed trigger stays FAILED and without tasks under every
\* schedule; and if the calls take turns and asynq's ids are distinct, it is
\* written only by an attempt after which none is left.
THEOREM TriggerFailureIsLastHolds == Spec => []TriggerFailureIsLast
<1>. DEFINE Turns == TakingTurns /\ OwnReferences => LastInv
<1>1. Init => FailureInv /\ Turns
  BY DEF Init, NoJobRow, JobExecutorInit, FailureInv, LastInv, Holding
<1>2. CallInv /\ OriginInv /\ FailureInv /\ Turns /\ [Next]_vars => FailureInv' /\ Turns'
  BY FailureStep, LastStep, NextKinds DEF TakingTurns, Uses, OwnReferences
<1>3. FailureInv /\ Turns => TriggerFailureIsLast
  BY DEF FailureInv, LastInv, TriggerFailureIsLast, RefID
<1>. HIDE DEF Turns
<1>. QED BY <1>1, <1>2, <1>3, TypeInvariant, OriginInvariant, PTL DEF Spec

-----------------------------------------------------------------------------
(* FinalizedOnce *)

\* The parts of AnnounceInv about the next state.
HookOK == \A f \in Finalizers : fin[f].pc = "hook" =>
            job[fin[f].job].status = fin[f].outcome /\ finished[fin[f].job] = <<>>
HookAlone == \A f, g \in Finalizers :
               fin[f].pc = "hook" /\ fin[g].pc = "hook" /\ fin[f].job = fin[g].job => f = g
Announced == \A j \in JobID : \/ finished[j] = <<>>
                              \/ Len(finished[j]) = 1 /\ job[j].status \in TerminalOutcomes
NotRun(c) ==
  caller[c].pc \in Holding \ {"finalize"} /\ caller[c].status = "PENDING" =>
    /\ finished[caller[c].job] = <<>> /\ job[caller[c].job].status # "RUNNING"
    /\ \A f \in Finalizers : fin[f].pc = "hook" => fin[f].job # caller[c].job

LEMMA AnnounceParts ==
  AnnounceInv <=> HookOK /\ HookAlone /\ Announced /\ \A c \in Callers : NotRun(c)
BY DEF AnnounceInv, HookOK, HookAlone, Announced, NotRun

\* Rows that a finalizer hit or is about to announce keep their status, and no
\* finalizer comes to the hook.
LEMMA AnnounceFrame ==
  ASSUME CallInv, HookOK, HookAlone, Announced, finished' = finished,
         \A f \in Finalizers : fin'[f].pc = "hook" => fin'[f] = fin[f],
         \A j \in JobID : \/ job'[j].status = job[j].status
                          \/ /\ finished[j] = <<>>
                             /\ \A f \in Finalizers : fin[f].pc = "hook" => fin[f].job # j
  PROVE  HookOK' /\ HookAlone' /\ Announced'
<1>1. \A f \in Finalizers : fin[f].pc = "hook" => fin[f].job \in JobID
  BY DEF CallInv, SharedInv, FinalizerInv, Visiting
<1>2. HookOK'
  BY <1>1 DEF HookOK
<1>3. HookAlone'
  BY DEF HookAlone
<1>4. Announced'
  BY DEF Announced
<1>. QED BY <1>2, <1>3, <1>4

\* A row that was live or free has not been announced and is not about to be.
LEMMA LiveUnannounced ==
  ASSUME HookOK, Announced, CallInv, NEW j \in JobID,
         job[j].status \in {"PENDING", "RUNNING", Absent}
  PROVE  finished[j] = <<>> /\ \A f \in Finalizers : fin[f].pc = "hook" => fin[f].job # j
BY DEF HookOK, Announced, CallInv, SharedInv, FinalizerInv, Visiting, TerminalOutcomes, Absent

LEMMA AnnounceCaller ==
  ASSUME CallInv, OriginInv, TakingTurns, AnnounceInv, NEW c \in Callers, Kind(c),
         UNCHANGED finalizerVars \/ Restarts(c)
  PROVE  AnnounceInv'
<1>0. HookOK /\ HookAlone /\ Announced /\ \A d \in Callers : NotRun(d)
  BY AnnounceParts
<1>1. finished' = finished /\ \A f \in Finalizers : fin'[f].pc = "hook" => fin'[f] = fin[f]
  BY JobExecutorAssumption DEF finalizerVars, Restarts
<1>2. \A d \in Callers : caller[d].pc \in Holding => caller[d].job \in JobID /\ Exists(job[caller[d].job])
  BY CallFacts DEF CallerOK
\* Callers that keep their row, if it was not started.
<1>3. ASSUME NEW d \in Callers,
             caller'[d].pc \in Holding \ {"finalize"} /\ caller'[d].status = "PENDING" =>
               /\ caller[d].pc \in Holding \ {"finalize"}
               /\ caller'[d].job = caller[d].job /\ caller'[d].status = caller[d].status
               /\ job'[caller[d].job].status = "RUNNING" => job[caller[d].job].status = "RUNNING"
      PROVE  NotRun(d)'
  BY <1>0, <1>1, <1>3 DEF NotRun
<1>. DEFINE Free(j) == finished[j] = <<>> /\ \A f \in Finalizers : fin[f].pc = "hook" => fin[f].job # j
            Goal == /\ \A j \in JobID : job'[j].status = job[j].status \/ Free(j)
                    /\ \A d \in Callers : NotRun(d)'
<1>. SUFFICES Goal
  <2>1. HookOK' /\ HookAlone' /\ Announced'
    BY <1>0, <1>1, AnnounceFrame
  <2>. QED BY <2>1 DEF AnnounceInv, HookOK, HookAlone, Announced, NotRun
<1>4. ASSUME Others(c), NotRun(c)', \A j \in JobID : job'[j].status = job[j].status \/ Free(j),
             \A j \in JobID : Exists(job[j]) /\ job'[j].status = "RUNNING" => job[j].status = "RUNNING"
      PROVE  Goal
  <2>1. ASSUME NEW d \in Callers, d # c PROVE NotRun(d)'
    <3>1. caller'[d] = caller[d]
      BY <1>4, <2>1 DEF Others
    <3>2. caller[d].pc \in Holding \ {"finalize"} =>
            (job'[caller[d].job].status = "RUNNING" => job[caller[d].job].status = "RUNNING")
      BY <1>2, <1>4
    <3>. QED BY <1>3, <3>1, <3>2
  <2>. QED BY <1>4, <2>1
<1>5. CASE BeginsNext(c) \/ BeginsAgain(c) \/ Misses(c)
  <2>1. job' = job /\ Others(c) /\ caller'[c].pc \in {"find", "split"}
    BY <1>5 DEF BeginsNext, BeginsAgain, Begins, Misses
  <2>2. NotRun(c)'
    BY <2>1 DEF NotRun, Holding
  <2>. HIDE DEF Goal
  <2>. QED BY <1>4, <2>1, <2>2
<1>6. ASSUME NEW j \in JobID, Hits(c, j) PROVE Goal
  <2>1. job' = job /\ Others(c) /\ caller'[c].job = j /\ caller'[c].status = job[j].status
    BY <1>6 DEF Hits
  <2>2. job[j].status = "PENDING" => Free(j)
    BY <1>0, LiveUnannounced
  <2>3. NotRun(c)'
    BY <1>1, <2>1, <2>2 DEF NotRun
  <2>. HIDE DEF Goal
  <2>. QED BY <1>4, <2>1, <2>3
<1>7. CASE Reads(c)
  <2>1. job' = job /\ Others(c)
    BY <1>7 DEF Reads, Quiet
  <2>2. NotRun(c)'
    BY <1>3, <1>7, <2>1 DEF Reads, Quiet
  <2>. HIDE DEF Goal
  <2>. QED BY <1>4, <2>1, <2>2
<1>8. CASE Cancels(c)
  <2>1. Others(c) /\ \A j \in JobID : job'[j].status = "RUNNING" => job[j].status = "RUNNING"
    BY <1>8 DEF Cancels, Quiet
  <2>2. \A j \in JobID : job'[j].status = job[j].status \/ Free(j)
    BY <1>0, <1>8, LiveUnannounced DEF Cancels
  <2>3. NotRun(c)'
    BY <1>2, <1>3, <1>8, <2>1 DEF Cancels, Quiet
  <2>. HIDE DEF Goal, Free
  <2>. QED BY <1>4, <2>1, <2>2, <2>3
<1>9. CASE Marks(c)
  <2>1. /\ Others(c) /\ caller'[c].pc \in {"idle", "finalize"} /\ caller[c].job \in JobID
        /\ caller[c].pc \in Holding \ {"finalize"} /\ caller[c].status = "PENDING"
        /\ \A k \in JobID : k # caller[c].job => job'[k] = job[k]
    BY <1>9 DEF Marks, Quiet, SetsStatus, Holding
  <2>2. Free(caller[c].job)
    BY <1>0, <2>1 DEF NotRun
  <2>3. NotRun(c)'
    BY <2>1 DEF NotRun, Holding
  <2>4. ASSUME NEW d \in Callers, d # c PROVE NotRun(d)'
    <3>1. caller'[d] = caller[d]
      BY <2>1, <2>4 DEF Others
    <3>2. caller[d].pc \in Holding => job'[caller[d].job] = job[caller[d].job]
      BY <1>2, <2>1, <2>4, HeldApart
    <3>. QED BY <1>3, <3>1, <3>2
  <2>. HIDE DEF Free
  <2>5. \A j \in JobID : job'[j].status = job[j].status \/ Free(j)
    BY <2>1, <2>2
  <2>. QED BY <2>3, <2>4, <2>5
<1>10. ASSUME NEW k \in JobID, NEW s, NEW failure, NEW m, Inserts(c, k, s, failure, m) PROVE Goal
  <2>1. /\ ~Exists(job[k]) /\ job'[k] = NewJob(c, s, failure)
        /\ \A j \in JobID : j # k => job'[j] = job[j]
        /\ Others(c) /\ s # "RUNNING"
        /\ \/ caller'[c].pc = "idle"
           \/ caller'[c].pc = "flow" /\ caller'[c].job = k
    BY <1>10 DEF Inserts, Inserted
  <2>2. job'[k].status # "RUNNING"
    BY <2>1 DEF NewJob
  <2>3. Free(k)
    BY <1>0, <2>1, LiveUnannounced DEF Exists
  <2>4. NotRun(c)'
    BY <1>1, <2>1, <2>2, <2>3 DEF NotRun, Holding
  <2>. HIDE DEF Goal, Free
  <2>. QED BY <1>4, <2>1, <2>3, <2>4
<1>. HIDE DEF Goal
<1>. QED BY <1>5, <1>6, <1>7, <1>8, <1>9, <1>10 DEF Kind

LEMMA AnnounceFinalizer ==
  ASSUME CallInv, AnnounceInv, NEW f \in Finalizers,
         FinalizerNext(f) \/ \E n \in Registered : Tick(f, n)
  PROVE  AnnounceInv'
<1>0. HookOK /\ HookAlone /\ Announced /\ \A d \in Callers : NotRun(d)
  BY AnnounceParts
<1>1. FinalizerEffects(f) /\ UNCHANGED caller
  BY FinalizerEffect
<1>2. \A g \in Finalizers : g # f => fin'[g] = fin[g]
  BY <1>1 DEF FinalizerEffects
<1>3. \A d \in Callers : caller[d].pc \in Holding => caller[d].job \in JobID
  BY CallFacts DEF CallerOK
<1>. DEFINE Goal == HookOK' /\ HookAlone' /\ Announced' /\ \A d \in Callers : NotRun(d)'
<1>. SUFFICES Goal
  BY DEF AnnounceInv, HookOK, HookAlone, Announced, NotRun
<1>4. CASE FinalizerReads(f)
  <2>1. \A g \in Finalizers : fin'[g].pc = "hook" => fin'[g] = fin[g]
    BY <1>2, <1>4 DEF FinalizerReads
  <2>2. HookOK' /\ HookAlone' /\ Announced'
    BY <1>0, <1>4, <2>1, AnnounceFrame DEF FinalizerReads
  <2>3. \A d \in Callers : NotRun(d)'
    BY <1>0, <1>1, <1>4, <2>1 DEF FinalizerReads, NotRun
  <2>. QED BY <2>2, <2>3
<1>5. CASE FinalizerHits(f)
  <2>. DEFINE i == fin[f].job
  <2>1. /\ i \in JobID /\ job[i].status = "RUNNING" /\ fin[f].outcome \in TerminalOutcomes
        /\ job'[i].status = fin[f].outcome /\ \A j \in JobID : j # i => job'[j] = job[j]
        /\ finished' = finished
        /\ fin'[f].pc = "hook" => fin'[f].job = i /\ fin'[f].outcome = fin[f].outcome
    BY <1>5 DEF FinalizerHits, CallInv, SharedInv, RepositoryTypeOK, JobRow
  <2>2. finished[i] = <<>> /\ \A g \in Finalizers : fin[g].pc = "hook" => fin[g].job # i
    BY <1>0, <2>1, LiveUnannounced
  <2>3. \A g \in Finalizers : fin[g].pc = "hook" => fin[g].job \in JobID
    BY DEF CallInv, SharedInv, FinalizerInv, Visiting
  <2>. HIDE DEF i
  <2>4. HookOK'
    BY <1>0, <1>2, <2>1, <2>2, <2>3 DEF HookOK
  <2>5. HookAlone'
    BY <1>0, <1>2, <2>1, <2>2 DEF HookAlone
  <2>6. Announced'
    BY <1>0, <2>1, <2>2 DEF Announced
  <2>7. ASSUME NEW d \in Callers PROVE NotRun(d)'
    <3>1. caller'[d] = caller[d]
      BY <1>1
    <3>2. CASE caller[d].pc \in Holding \ {"finalize"} /\ caller[d].status = "PENDING"
      <4>1. caller[d].job \in JobID /\ caller[d].job # i
        BY <1>0, <1>3, <2>1, <3>2 DEF NotRun
      <4>. QED BY <1>0, <1>2, <2>1, <3>1, <3>2, <4>1 DEF NotRun
    <3>. QED BY <3>1, <3>2 DEF NotRun
  <2>. QED BY <2>4, <2>5, <2>6, <2>7
<1>6. CASE FinalizerAnnounces(f)
  <2>. DEFINE i == fin[f].job
  <2>0. finished \in [JobID -> Seq(Status)]
    BY DEF CallInv, SharedInv, FinalizerInv, JobFinalizerTypeOK
  <2>1. /\ i \in JobID /\ job' = job /\ fin'[f].pc # "hook" /\ fin[f].pc = "hook"
        /\ job[i].status = fin[f].outcome /\ fin[f].outcome \in TerminalOutcomes
        /\ finished[i] = <<>>
    BY <1>0, <1>6 DEF FinalizerAnnounces, HookOK
  <2>2. finished'[i] = <<fin[f].outcome>> /\ \A j \in JobID : j # i => finished'[j] = finished[j]
    BY <1>6, <2>0, <2>1 DEF FinalizerAnnounces
  <2>3. \A g \in Finalizers : fin'[g].pc = "hook" => fin'[g] = fin[g] /\ fin[g].job # i /\ fin[g].job \in JobID
    BY <1>0, <1>2, <2>1 DEF HookAlone, CallInv, SharedInv, FinalizerInv, Visiting
  <2>4. Len(finished'[i]) = 1
    BY <2>2
  <2>. HIDE DEF i
  <2>5. HookOK'
    BY <1>0, <2>1, <2>2, <2>3 DEF HookOK
  <2>6. HookAlone'
    BY <1>0, <2>3 DEF HookAlone
  <2>7. Announced'
    BY <1>0, <2>1, <2>2, <2>4 DEF Announced
  <2>8. ASSUME NEW d \in Callers PROVE NotRun(d)'
    <3>1. caller'[d] = caller[d]
      BY <1>1
    <3>2. CASE caller[d].pc \in Holding \ {"finalize"} /\ caller[d].status = "PENDING"
      <4>1. caller[d].job \in JobID /\ caller[d].job # i
        BY <1>0, <1>3, <2>1, <3>2 DEF NotRun, i
      <4>. QED BY <1>0, <2>1, <2>2, <2>3, <3>1, <3>2, <4>1 DEF NotRun
    <3>. QED BY <3>1, <3>2 DEF NotRun
  <2>. QED BY <2>5, <2>6, <2>7, <2>8
<1>. HIDE DEF Goal
<1>. QED BY <1>1, <1>4, <1>5, <1>6 DEF FinalizerEffects

\* TerminateJob and stuttering.
LEMMA AnnounceSettles ==
  ASSUME CallInv, AnnounceInv, Settles, UNCHANGED finalizerVars
  PROVE  AnnounceInv'
<1>0. HookOK /\ HookAlone /\ Announced /\ \A d \in Callers : NotRun(d)
  BY AnnounceParts
<1>1. \A j \in JobID : \/ job'[j].status = job[j].status
                       \/ /\ finished[j] = <<>>
                          /\ \A f \in Finalizers : fin[f].pc = "hook" => fin[f].job # j
  BY <1>0, LiveUnannounced DEF Settles
<1>2. HookOK' /\ HookAlone' /\ Announced'
  BY <1>0, <1>1, AnnounceFrame DEF finalizerVars
<1>3. \A d \in Callers : caller[d].pc \in Holding => caller[d].job \in JobID
  BY CallFacts DEF CallerOK
<1>4. \A j \in JobID : job'[j].status = "RUNNING" => job[j].status = "RUNNING"
  BY DEF Settles, TerminalOutcomes
<1>5. \A d \in Callers : NotRun(d)'
  BY <1>0, <1>3, <1>4 DEF Settles, finalizerVars, NotRun
<1>. QED BY <1>2, <1>5 DEF AnnounceInv, HookOK, HookAlone, Announced, NotRun

\* Among calls that take turns the finalizers announce a run at most once:
\* however many ticks, instances and inline calls of maybeFinalizeJob race,
\* OnJobFinished is called by at most one of them per run, since no call starts
\* a run that has run.
THEOREM TriggersFinalizedOnce == Spec => []FinalizedOnce
<1>1. Init => AnnounceInv
  BY DEF Init, JobFinalizerInit, Resting, JobExecutorInit, AnnounceInv, Holding
<1>2. CallInv /\ OriginInv /\ (TakingTurns => AnnounceInv) /\ [Next]_vars =>
        (TakingTurns => AnnounceInv)'
  <2>. SUFFICES ASSUME CallInv, OriginInv, TakingTurns, AnnounceInv, [Next]_vars PROVE AnnounceInv'
    BY DEF TakingTurns, Uses
  <2>1. ASSUME NEW c \in Callers,
               \/ Trigger(c) \/ (\E j \in JobID : RetryTriggerJob(c, j)) \/ Redeliver(c)
               \/ CallerStep(c) \/ CrashCaller(c)
        PROVE  AnnounceInv'
    BY <2>1, CallerKinds, AnnounceCaller
  <2>2. CASE UNCHANGED vars \/ \E j \in JobID : Terminate(j)
    BY <2>2, RestSettles, AnnounceSettles DEF vars, Terminate
  <2>. QED BY <2>1, <2>2, AnnounceFinalizer DEF Next
<1>3. (TakingTurns => AnnounceInv) => FinalizedOnce
  <2>. SUFFICES ASSUME AnnounceInv, NEW j \in JobID PROVE Len(finished[j]) <= 1
    BY DEF FinalizedOnce
  <2>1. finished[j] = <<>> \/ Len(finished[j]) = 1
    BY DEF AnnounceInv
  <2>2. CASE finished[j] = <<>>
    BY <2>2
  <2>3. CASE Len(finished[j]) = 1
    BY <2>3
  <2>. QED BY <2>1, <2>2, <2>3
<1>. QED BY <1>1, <1>2, <1>3, TypeInvariant, OriginInvariant, PTL DEF Spec

=============================================================================
