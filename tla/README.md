# scherry: specifications, model checks and proofs

scherry is a Go library that splits a scheduled job into tasks, hands the tasks
to Kafka consumers, and keeps the state of both in a database. This directory
holds TLA+ specifications of its core, TLC configurations that check them on
small instances, and proofs for TLAPS. Line numbers are those of the repository
this directory was written against; `PROJECT.json` maps each definition to them.

Contents: [inventory](#inventory) · [modules](#modules) · [modelling
conventions](#modelling-conventions) · [runs](#runs) · [disagreements
found](#disagreements-found) · [proofs](#proofs) · [limits](#limits) ·
[plan](#plan)

## Inventory

| Component | State | Operations | What makes it correct |
|---|---|---|---|
| domain (`internal/domain`) | status of a `Job` and of a `Task`, attempt counter | the event tables of the two state machines, `IsTerminal`, `IsExecutionPending` | used by all others |
| repository (`internal/repository`) | the tables `jobs` and `tasks` | find, create, update, the guarded update (`UpdateJobIfStatus`), cancel previous runs, terminate, count, page | each statement or transaction is atomic; nothing spans two of them |
| transport (`internal/transport`) | Kafka topics and offsets (external), the consumers running in this process | publish, fetch, handle, commit; `ConsumerRegistry` | a message is committed only when its handler returned nil |
| task executor (`internal/executor/task_executor.go`) | the handler's copies of the task and of its job | `executeTask`: load, skip, start, execute, complete, fail, retry, send to the DLQ | no task forgotten, bounded retries, one execution at a time |
| job finalizer (`job_finalizer.go`) | the batch of one completion check | `CheckJobCompletions`, `maybeFinalizeJob`, the compare-and-set, `OnJobFinished` | a run ends once, with the right status, and stays ended |
| job executor (`job_executor.go`) | the Job struct and task list of one call | `executeJob`: look up the reference, split, insert, publish, cancel previous runs, start, finalize an empty run | one run per reference, started only when published |
| trigger failure (`trigger_failure.go`) | the record of a trigger that failed | `persistTriggerFailure`, `RetryTriggerJob` | written only when no retry can still create the run |
| job retry (`retry.go`) | the clone of an ended run, a page cursor | `RetryJob`: find or create the clone, stream pages, start | one live clone, all pages in it |
| service and registration (`internal/scheduler`) | the jobs map, shared consumers, asynq entries and handlers | `Register`, `RegisterManual`, `RegisterShared`, `Start`, `Stop`, `Trigger`, `TerminateJob`, asynq handlers | what is in the map can run and its partitions are read; shared consumers stay exclusive; a process accepts its own messages and passes over none |
| job configuration (`internal/jobconfig`) | none | validation, defaults | part of registration |
| console (`internal/console`) | none of its own: each request is several reads of asynq and of the tables | list runs, retry (an asynq task, a failed trigger, a run), terminate, page through tasks; detail, lineage, statistics, schedule preview | the list misses nothing while triggers move from asynq to the tables; the retry button takes the right path; pages are complete |
| logging, aliases, test doubles, example | none | none | not modelled |

How they interact. A cron fire (asynq), `Service.Trigger` or `RetryTriggerJob`
calls `executeJob`, which inserts one `jobs` row and its `tasks` rows in a
transaction, writes one message per task to the task topic and then sets the row
to RUNNING. Consumers, in any number of processes, fetch the messages; each
handler reloads the task and its job from the database, runs the user's
`TaskExecutor` and records the outcome. A failed task goes back to PENDING with
the next attempt and a message on the retry topic, or to MAX_RETRIES_EXHAUSTED
and the dead letter topic. Nobody tells the job that its tasks are through: a
completion cron per job name queries for RUNNING jobs without open tasks and
finalizes them. `TerminateJob` and the CancelPrevious option cancel from the
side. The only thing the actors share is the database, one statement at a time.
The console reads the tables and asynq's inspector, and its buttons call
`TerminateJob`, `RetryJob`, `RetryTriggerJob` and asynq's `RunTask`.

What is hard. Every handler checks its state machine against a struct it read
earlier, and nearly every update of a row is unguarded. Kafka delivers at least
once, in two topics, with rebalances; asynq repeats calls; completion checks
overlap; any call may fail, with or without having had its effect, and many
errors are only logged. `PROJECT.json` lists the resulting hazards under
"hazards", each at its line and with the properties that watch it.

## Modules

```
Domain, Faults                      no state, or a counter of faults
Repository       <- Domain          the database
Broker           <- Faults          Kafka
TaskExecutor     <- Repository, Broker
JobFinalizer     <- Repository, Faults
JobExecutor      <- JobFinalizer, Broker
JobRetry         <- JobFinalizer, Broker
Execution        <- TaskExecutor, JobFinalizer      implements RunLifecycle
Triggering       <- JobExecutor
Scheduling       <- TaskExecutor, JobExecutor
Retrying         <- JobRetry
Console          <- JobExecutor, JobRetry
Registration                        on its own

Components_proofs   <- JobExecutor, JobRetry     lemmas on rows, callers, retriers, finalizers
Consumers_proofs    <- TaskExecutor              lemmas on consumers
Execution_proofs    <- Execution, Consumers_proofs
Triggering_proofs   <- Triggering, Components_proofs
Retrying_proofs     <- Retrying, Components_proofs
Scheduling_proofs   <- Scheduling, Components_proofs, Consumers_proofs
Console_proofs      <- Console, Components_proofs
Registration_proofs <- Registration
```

`<-` is EXTENDS; a component module declares its own variables and a composition
adds the rows it starts from. The MC modules give the compositions their
constants.

| Module | Models | State | Actions |
|---|---|---|---|
| `Domain` | `internal/domain` | none | none: statuses, `jobTransitions`, `taskTransitions`, `CanFire`, the predicates |
| `Repository` | `internal/repository` | `job`, `task`: one row per id | one operator per statement or transaction |
| `Faults` | what goes wrong around the library | `spent`, faults so far by kind | `Spend(kind)` |
| `Broker` | Kafka (external), from its use in `internal/transport` | `log`, `committed`, `position`, `owner` per partition | publish, fetch, commit, rebalance, rejoin |
| `TaskExecutor` | `consumer.go`, `task_executor.go` | `worker[c]`: program counter and what the handler has read; `executed`, `dlq` | one per database or Kafka call of the handler; `CrashConsumer`, `RebalanceGroup` |
| `JobFinalizer` | `job_finalizer.go` | `fin[f]`; `finished`: announcements by job | `CheckJobCompletions`, `FindJob`, `Summarize`, `FinalizeRunningJob`, `FireHook`, `CrashFinalizer` |
| `RunLifecycle` | the abstract promise | `status`, `due`, `announced` | `Move`, `Finish`, `Announce` |
| `Execution` | consumers, completion checks and `TerminateJob` on started runs | the union | the union and `Terminate` |
| `JobExecutor` | `job_executor.go`, `trigger_failure.go` | `caller[c]` | one per call of `executeJob`; `Trigger`, `RetryTriggerJob`, `Redeliver`, `CrashCaller` |
| `Triggering` | callers, completion checks, `TerminateJob`, from an empty database | the union | the union |
| `JobRetry` | `retry.go` | `retrier[r]` | one per call of `RetryJob`; `CrashRetrier` |
| `Retrying` | retries of one ended run, completion checks, `TerminateJob` on the clones | the union | the union |
| `Scheduling` | a whole run: callers, consumers, completion checks, `TerminateJob`, from an empty database | the union | the union, with `Fire`, `Refire` (asynq), `Tick` (cron) and `Fault` apart, for fairness |
| `Registration` | `service.go`, `shared.go`, `jobconfig`, `ConsumerRegistry`, the consumer loop | `jobs`, `consumers`, `left` (readers in a group without a consumer), `starved` (pairs whose partition such a reader has), `shared`, `entries`, `handlers`, `phase`, `call`; `log`, `position`, `committed` and what became of each message | each registration call up to the start of its consumers, then `InsertJob`, `InsertShared`, `AddSchedule`; `Start`, `Stop`, `Trigger`, `Consume`, `Rebalance` (external), `Restart` |
| `Console` | `handler.go`, `store.go`, `asynq.go` of `internal/console`, on `JobExecutor` and `JobRetry` | `web[u]`: where a user's request is and what it has read | one per query or click |

Every module except the MC ones is parameterised by CONSTANTS with named
assumptions. `MaxRetries` is assumed positive: `setupJobInfra` replaces 0 by 3,
and the code does not check for negative values.

## Modelling conventions

*One action per call.* Between two database or Kafka calls of a goroutine
anything may happen elsewhere, so an action ends where the next such call
begins, and what the code keeps in local structs (`task.Status`, `task.Attempt`,
`job.Status`) is in the goroutine's record, not read again from the row. This is
what makes the stale reads of the code visible.

*Errors.* A call that may fail is the same action with a disjunct that spends
"error". Where the code returns the error the handler returns; where it only
logs it the handler goes on as if the call had worked. A statement whose error
is returned may have been applied before the connection was lost. A logged
update that fails is either applied or not; the two differ only in that the
first is indistinguishable from success, so the failing disjunct leaves the row.

*Crashes* reset the goroutine's record. Rows, logs and committed offsets stay; a
consumer that comes back resumes at the committed offset, asynq runs the call
again while retries are left.

*Kafka.* A message is the id of its task, since `executeTask` reloads the row.
The reader runs ahead of the commit. A commit stores the offset of its message,
so the commit of a later message covers an earlier one whose handler failed. A
rebalance moves a partition and leaves the previous owner with the message it
holds; its late commit is accepted or refused.

*Row ids* are handed out in order and bounded by `MaxJobs`; a task id is the job
id with a sequence number below `MaxTasks`. Timestamps, `ProcessAfter`, results
and params decide nothing the properties tell apart. The one metadata flag that
decides something, trigger_failure, is a column.

*Seeded faults.* Definitions commented "Seeded fault" are not used by any
specification. Each is a mutated form of the definition that follows it, listed
in `PROJECT.json` under "mutants" with the property that must fail when it takes
that definition's place: a dropped guard, a boundary off by one, a publish
before the write it depends on. They show that the properties can tell.

## Runs

`tlc -config <cfg> <module>` in this directory. Deadlock is not checked: each
instance has a bounded number of calls and faults and really comes to rest.

| Run | Instance | Checks | States |
|---|---|---|---|
| `errors` | two runs on one topic, one of a name this service does not know, three messages, two completion checks, one failing call anywhere | `TypeOK`, `ExhaustedReachesDLQ`, `ExclusiveExecution`, `OneExecutionPerAttempt`, `CompletedMeansAllCompleted`, `FinalizedOnce`, `ImplementsLifecycle` | 104 000 |
| `redelivery` | one run of two tasks, two interchangeable consumers of one group and a retry consumer, a crash and a rebalance anywhere, `TerminateJob` | `NoTaskForgotten`, `RetryBudget` | 1 800 000 |
| `live` | one run of up to one task, from its trigger by asynq (one retry) to its end, a task and a retry consumer, a completion check, `TerminateJob`, a crash of any of them, `FairSpec` | `TypeOK`, `StartedTasksAttended`, `CompletedMeansExecuted`, `RunsEnd`, `EndedRunsDrain` | 56 000 |
| `turns` | one caller with two references and asynq retries, three rows, two failing calls and a crash | `TypeOK`, `StartedAfterPublish`, `OneRunPerRef`, `TriggerFailureIsLast`, `OneRunningRun`, `FinalizedOnce` | 359 000 |
| `clones` | an ended run of three tasks with every outcome, pages of two, up to three `RetryJob` calls, a failing call and a crash | `TypeOK`, `EveryPageCloned`, `ClonedOnce`, `CloneStartedAfterPublish`, `OneLiveClone` | 495 000 |
| `calls` | five job configurations and four shared ones on one consumer group, valid and not; rebalances; two messages; two processes one after the other | `TypeOK`, `RegisteredJobsRun`, `SharedConsumerExclusive`, `OwnMessagesAccepted`, `OnlyLeftoversPassedOver` | 368 000 |
| `history` | one console user, one trigger of asynq with a retry, a split that fails, is empty or has two tasks, pages of one, a failing call and a crash | `TypeOK`, `ListingIsComplete`, `FailedTriggersAreNotCloned`, `TaskPagesComplete` | 1 240 000 |
| `outcome`, `recorded`, `overlap`, `resume`, `noretry` | the smallest instance that shows it | one property each, violated: see [disagreements](#disagreements-found) | |

What the properties say is in the comment above each. Several carry a condition
on what has gone wrong so far (`Never("error")`, `DeliveredOnce`), because the
code gives no more: for instance a task whose handler returned an error is lost
once a later message of its partition is committed, so `NoTaskForgotten` speaks
of behaviours without failing calls, and of crashes or rebalances but not both,
since a consumer that dies after it lost its partition strands what it held. The
conditions are on the history, not on the model: the same run contains the other
behaviours and checks its other properties in them.

*Bounds.* `MaxRetries = 2` gives a first attempt, a retry and an exhaustion. Two
tasks are the least for a mixed outcome, and for a commit that covers an
uncommitted message; two runs for a message of a foreign job in between. Two
finalizers race for one compare-and-set; `BatchSize = 1` makes a check take a
part of what is completable. In `clones`, three tasks with pages of two give a
full page and a short one, and outcomes with two exhausted tasks give a page
that is exactly full, with an empty one after it. In `turns`, two references,
one of which asynq may repeat, and three rows leave room for a second row
under one reference, which `OneRunPerRef` denies. In `redelivery` the completion
checks are left out: they write job rows only, which `errors` and `live` cover,
and without them two consumers of one group fit beside two tasks. In `calls` the
configurations share one group so that calls may collide, on one pair or on its
retry pair, and one job has pairs of its own; two messages are the least for a commit that covers a refused message, and two
processes for a message that is older than the map. In `live` one task is enough
for every order of publish, execution, start, crash and repeated trigger; more
tasks multiply the states of the liveness check and add the interplay of tasks
that `redelivery` and `errors` look at. In `history` one trigger and one user
meet every path from asynq to the tables and every button.

*Fairness* (`FairSpec` of `Scheduling`, runs `live` and `noretry`). Weak fairness
of each caller's steps and of asynq's retry of a call that failed or died, of
each consumer's loop, of each finalizer and of the completion cron. A Go
goroutine that can run eventually does; `Execute` is assumed to return, as the
library has no timeout for it; asynq keeps a task until its retries are used up;
the cron of a registered job keeps firing. Nothing is assumed of the first
trigger, of `TerminateJob` or of faults, and the outcome of `Execute` is free: a
task may fail on every attempt. Weak fairness of the cron is enough because the
query's guard, a RUNNING run without open tasks, stays true until a check takes
it. `RunsEnd` excepts a run whose trigger died with no retry left
(`Abandoned`): it stays PENDING, completion checks look at RUNNING runs only,
and nothing in the library starts it. Both properties except behaviours with a
failing call, which the code may answer with a lost task.

## Disagreements found

Each of the first five below is a run that TLC ends with a counterexample. The quoted
lines are in `PROJECT.json` under "findings".

1. `outcome`: `handleTaskFailure` writes FAILED and then decides on a retry. A
   completion check in between counts FAILED as finished and ends the run; the
   task then goes back to PENDING and may even complete (its message is
   skipped if the job is seen to have ended). The run's status does not match
   its tasks.
2. `recorded`: a message delivered again after its run ended reaches the write
   of the job's status over the task before the check that makes a settled task
   a no-op. A COMPLETED task becomes CANCELLED or FAILED.
3. `overlap`: `transitionJob` updates the row without a guard. A run that another
   trigger cancelled between its own `CancelPreviousJobs` and its start, or
   before, is started anyway, beside the run that cancelled it.
4. `resume`: `RetryJob` dies while it streams pages. The next call finds the
   clone and starts it with the tasks it has; a clone with none is COMPLETED.
5. `noretry`: the retry topic is optional, but without it `retryTask` still sets
   a failed task with attempts left to PENDING, and nobody runs it again. The
   run stays RUNNING for ever.

Without a run of their own, visible in the code and in the models:

- `setupJobInfra` and `RegisterShared` make their readers before they know that
  the pair has no consumer and that the call succeeds. A reader joins its group
  when it is made; one that gets no consumer is dropped unclosed and keeps its
  share of the partitions, which nobody reads (`left` and `starved` of
  `Registration`: repeat a registration whose completion cron was refused,
  register two plain jobs on one pair, or let `RegisterShared` fail half-way,
  and let `Rebalance` follow);
- two overlapping triggers with one reference, of a run without tasks: the
  slower one holds the row as PENDING and starts it again after the faster one
  has finished it, so it is announced twice, against the "exactly-once" of the
  comment in `job_finalizer.go` (the cause is that of `overlap`; `FinalizedOnce`
  without `TakingTurns` fails with two callers on one reference);
- the console lists archived asynq tasks, then those waiting for a retry. A
  trigger whose last attempt fails in between is in neither answer, and if that
  attempt could not write its record it has no row either (`ListingIsComplete`
  with the references of `begin.failing` and `still` compared without their
  attempts fails with one trigger and one failing call);
- a trigger with the reference of a run that has ended writes the run's status
  over the outcomes of all its tasks (`SyncTasks`);
- entries of a `RegisterShared` that failed half-way stay behind;
- two plain registrations with one group and topic are accepted, though a
  comment says that the second is rejected;
- a partial retry takes exhausted tasks but not FAILED ones;
- `OnJobFinished` is also called when a trigger returns, with RUNNING;
- a retry task that asynq delivers again after its clone has ended makes a
  second clone with the same reference;
- the console's list ends with the newest 200 runs, its lineage with the direct
  neighbours, and it reads Redis as well as Postgres.

## Proofs

`tlapm <module>.tla` for each module whose name ends in `_proofs`. Every
theorem is about the specification the runs check, for any number of jobs,
tasks, partitions, consumers, callers, finalizers, configurations and faults,
under the assumptions named in the modules: disjoint topics and groups, a
consumer for each topic that has partitions, positive `MaxRetries` and
`BatchSize`, callers that are finalizers too (`executeJob` finalizes inline),
retriers too, configurations of the right type, a retry group for each consumer
group, a job known to the process that retries. TLC
evaluates the assumptions on the instances, and checked each inductive
invariant on one before it was proved.

Lemmas about a component are proved once, over the component's own module, and
used by every composition it is part of. `Components_proofs` says what each
statement of the repository does to the rows, which kinds of step a caller, a
retrier and a finalizer can take, and that each keeps its own part of the typing
(`CallInv`, `RetryInv`), and that a clone is filled in order by one retrier
(`FillInv`); `Consumers_proofs` says the same of the consumers
(`WorkInv`), and which steps keep a message or a handler that will come back to
a task (`Reached`), whoever else writes to the log.

### Execution

| Theorem | States | Inductive invariant, and why it is needed |
|---|---|---|
| `TypeCorrect` | `Spec => []TypeOK` | `TypeInv` = `TypeOK` and: a consumer past its fetch holds the task of a message (`HoldsMessage`), a finalizer past its first read visits a job (`VisitsJob`). Without these the handlers' reads of `task[worker[c].task]` are not typed. |
| `RetryBudgetHolds` | `Spec => []RetryBudget` | `BudgetInv` adds that every handler's copy of the attempt is within the budget and, where the handler is about to increment it, below it. The column is written from the copy, never incremented, which is why duplicates cannot push it over. |
| `FinalizedOnceHolds` | `Spec => []FinalizedOnce` | `EndInv`: a finalizer at the hook holds the status its row has, and the run is not announced yet (`HookOwned`); no two finalizers are at the hook of one job (`HookExclusive`); what was announced is the terminal status of the row (`AnnouncedStatus`). |
| `LifecycleImplemented` | `Spec => ImplementsLifecycle` | a refinement step by step under `TypeInv` and `EndInv`: `Terminate` is a `Move`, the compare-and-set a `Finish`, the hook an `Announce` (as is a crash at the hook, which loses the announcement), everything else a stutter. |
| `ExclusiveExecutionHolds` | `Spec => []ExclusiveExecution` | `TokenInv`: while `DeliveredOnce` holds a task has one token, which is a message not yet fetched or the handler that holds it and has not published it again. Two messages of one task, two handlers, or a message beside a handler would each be a second token. |
| `OneExecutionPerAttemptHolds` | `Spec => []OneExecutionPerAttempt` | `AttemptInv`, on top of `TokenInv`: the row has an attempt to spare for every task whose token has still to be executed, and a handler's copy of the attempt is that of the row. |
| `ExhaustedReachesDLQHolds` | `Spec => []ExhaustedReachesDLQ` | inductive as it stands, given `TypeInv`: only `sendTaskToDLQ` writes the status, and its next step is the message. |
| `CompletedMeansAllCompletedHolds` | `Spec => []CompletedMeansAllCompleted` | `DoneInv`, with `TokenInv` and `OriginInv`: what a finalizer has counted stays true until its update, because a COMPLETED task has no token left that anyone could write it from. |
| `NoTaskForgottenHolds` | `Spec => []NoTaskForgotten` | `ReachInv` (no offset read, committed or held lies beyond the end of its partition), `HeldInv` (while partitions stay put, a handler's message is in a partition of its consumer, fetched and not committed, so a crash brings it back), `EndedInv` (a run a handler saw ended is still ended when it skips the task) and `AttendedInv`: an open task is in a message beyond everything fetched, committed or in hand, which no commit and no rebalance can skip (`Fresh`), or with a handler that is going to write its row (`Acts`). The property alone lets a later commit cover the one message left. |

`DeliveredOnce` says that `executeJobFlow` wrote one message per task
(`PublishedOnce`, of the messages an instance starts from: a trigger that is
repeated after a crash writes them twice), and of the history that no consumer
crashed and no partition moved.
`NoTaskForgotten` supposes a retry topic: without one `noretry` shows that tasks
are forgotten.

### Triggering

| Theorem | States | Inductive invariant, and why it is needed |
|---|---|---|
| `TriggeringTypeCorrect` | `Spec => []TypeOK` | `TypeInv` adds `CallerInv`, what each program counter of `executeJob` may rely on (a caller in a call is in one of its turns, past the lookup it works on a row that exists, what it starts it read as PENDING), that finalizers past their first read visit a row (`Visiting`), and that tasks have job rows (`OwnTasks`). |
| `StartedAfterPublishHolds` | `Spec => []StartedAfterPublish` | `PublishInv`: what a caller has still to write, with what is written, covers the tasks of its row, from the read or the insert of the tasks to the start. Holds for overlapping calls too. |
| `OneRunPerRefHolds` | `Spec => []OneRunPerRef` | `RefInv`: a caller that looked its reference up in vain is still right when it inserts; as no other caller uses the reference, no row appears in between. |
| `OneRunningRunHolds` | `Spec => []OneRunningRun` | `OriginInv` (a row carries the name and a reference of one of its caller's turns; a caller works on a row of its own reference) and `RunningInv`: between the cancelling transaction and the start no other row of the name is RUNNING. |
| `TriggerFailureIsLastHolds` | `Spec => []TriggerFailureIsLast` | `FailureInv` (a trigger-failure row is FAILED and empty, no caller takes it for a PENDING run, and one about to write it has no retry left) for every schedule, and `LastInv` (it is written in the last attempt of the turn that has its reference) for calls that take turns. |
| `TriggersFinalizedOnce` | `Spec => []FinalizedOnce` | `AnnounceInv`, under `TakingTurns`, which the property supposes: the analogue of `EndInv`, and: a caller that holds a PENDING copy of a row holds one that was never RUNNING, announced or at a hook. Without the last part the unguarded start could revive a run that has ended. |

The steps of callers are first sorted into a few kinds by what they do to the
rows (`Kind`, `Settles`), so each invariant is proved against the kinds and not
against every program counter.

`TakingTurns` says that calls which share a name or a reference are made by one
caller, one after the other, as an asynq task and its retries are; it speaks of
the constants only, and the instance of `turns` satisfies it. The run
`overlap` shows what the code does without it.
`OwnReferences`, a hypothesis of the second half of `TriggerFailureIsLast`, says
that one caller does not use a reference for two triggers, as asynq's task ids
are never used twice: a client that triggers again with the reference of a
failed trigger finds its record while attempts are left, which the proof attempt
brought to light.

### Retrying

| Theorem | States | Inductive invariant, and why it is needed |
|---|---|---|
| `RetryingTypeCorrect` | `Spec => []TypeOK` | `TypeInv` adds `RetrierInv`, what each program counter of `RetryJob` may rely on (the original has a row, so has the clone, which was live when it was read or created; a page is of the clone), and `Visiting` and `OwnTasks` as above. |
| `CloneStartedAfterPublishHolds` | `Spec => []CloneStartedAfterPublish` | `PublishInv`: of a clone it creates a retrier has published all but the page at hand, and the clone does not run yet; of a clone it found, all up to its cursor but for the page at hand, and everything if the page is the last. So a clone that an earlier call left half published is published whole before it is started. |
| `OneLiveCloneHolds` | `Spec => []OneLiveClone` | `CloneInv`: the clone a retrier works on is of its original and no other clone of it is live, although the clone may be cancelled meanwhile and the unguarded start revives it; a job that has a clone has ended and stays so (`OriginalsEnded`), as the only job that can be revived is a clone in somebody's hands, which nobody has cloned. |
| `EveryPageClonedHolds` | `Spec => []EveryPageCloned` | `PageInv`: the selected tasks up to the cursor have been cloned, and all of them after the last page; a clone is complete or still streamed by the call that created it. It rests on `CloneInv`, by which the tasks of the original do not change while they are paged through (`SourceKept`), and on `PageFacts`: a page is an initial part of the rows after the cursor, and all of them if it is not full. |
| `ClonedOnceHolds` | `Spec => []ClonedOnce` | `FillInv`: a clone that is being filled is in the hands of one retrier, and every task in it has a lower sequence number than those the retrier has in its page and those still to come. Clones are keyed by their original's sequence number here and by a new UUID in the code, which would take a second clone of a task without complaint; the property is that none is ever about to be inserted. |

`TypeOK` and `ClonedOnce` hold for any calls; the other three are for calls one
by one (`OneByOne`, a client that waits for the answer or an asynq task and its
retries), as the properties say. `EveryPageCloned` speaks of histories without errors and
crashes: `resume` shows what the code does after one.

### Registration

`RegInv` is inductive and implies `RegistrationTypeCorrect`,
`RegisteredJobsRunHolds`, `SharedConsumerExclusiveHolds`,
`OwnMessagesAcceptedHolds` and `OnlyLeftoversPassedOverHolds`. Its registry part
(`RegistryInv`) says of the call in progress what it has done so far (consumers
started, its names not in the map, nobody else on the pair `RegisterShared` is
about to reserve), since between the checks of a call and its inserts the
properties rest on those; of the map, that each job in it has its consumers and
its completion cron; of the handlers, that they belong to jobs of the map. Its reader part
(`ReaderInv`) is about a pair that one configuration names and no other, one
that asynq accepts (`Uncontested`): no reader of it is without a consumer, and
if it has a consumer then a job of that configuration is in the map or about to
be, so that the configuration cannot be set up a second time. Without the second
half a repeated call could leave a reader behind. Nothing of the kind holds of
the other pairs. Its message part (`MessageInv`) says that the
names this process has published for are in its map, that nothing is committed
past what was read, and (`PassedInv`) that everything fetched was executed or
was refused as a message of an earlier process: the committed offset only ever
moves to a position that has this behind it.

### Scheduling

| Theorem | States | Inductive invariant, and why it is needed |
|---|---|---|
| `SchedulingTypeCorrect` | `Spec => []TypeOK` | `TypeInv`: the callers' part and the consumers' part, and `KnownTasks`, which neither has: a message, a handler and a caller that publishes only name tasks that have a row. In `Execution` the rows are there from the start; here they appear while consumers run. |
| `CompletedMeansExecutedHolds` | `Spec => []CompletedMeansExecuted` | `ExecutedInv`: whoever has read that a run or a task is COMPLETED, or is about to write it, has it from an execution. COMPLETED travels: from the handler to the task, from the tasks to a finalizer's outcome and the run, from the run back over its tasks by a handler that finds the run ended or by a trigger with its reference. The invariant follows it through all the copies. |
| `StartedTasksAttendedHolds` | `RetryPartitions # {} /\ OwnRefs /\ Spec => []StartedTasksAttended` | `AttendInv`: a PENDING or RUNNING task whose run is RUNNING, or about to be started by a caller that has no message of it left to write, is `Reached` as in `Execution`. The promise begins with the message, before the run is started, because consumers may take it, execute it and retry it meanwhile. It needs `OwnInv` (a caller works on the row of its own reference, and one it read as PENDING has not been started since), `PartialInv` (the job status PARTIAL_FAILED stands on a task only while the run has it: it is not among the finished task states, so a run started again over such a task would never end) and `EmptyInv`. |

The first two hold without a condition: any call may fail, any actor may crash,
messages may be delivered again, and callers may overlap on one reference. The
third supposes a retry topic (without one it fails as `noretry` does) and
`OwnRefs`: triggers that share a reference are fired by one caller, one after
the other, as an asynq task and its retries are. Without it, of two overlapping
calls the one with the older copy can start a run again that has ended
PARTIAL_FAILED. The property itself speaks of histories without a failing call,
and with crashes or with rebalances but not both.

### Console

| Theorem | States | Inductive invariant, and why it is needed |
|---|---|---|
| `ConsoleTypeCorrect` | `Spec => []TypeOK` | `TypeInv`: the callers' part, the retriers' part and `WebInv`, what each page of a user may rely on. A row that was shown is still there. |
| `FailedTriggersAreNotClonedHolds` | `Spec => []FailedTriggersAreNotCloned` | `RecordInv`: the flag and the reference of a row never change; a retrier works on rows without the flag, and so does a user who has been offered the retry of a run. |
| `ListingIsCompleteHolds` | `DistinctTriggers /\ Spec => []ListingIsComplete` | `ShownInv` (a task that was found in asynq and is left out of the answer has a row, and rows stay) and `FailingInv`: a trigger that was failing when the request began is at the same attempt or past it, and while it is at the same attempt the request has found it or has still to ask for the tasks it is among. So it cannot slip from one of asynq's lists, or from asynq to the table, between two reads. `StillFound` brings this to the end of the request: what was failing at the same attempt at both reads was found. A trigger that makes an attempt between the reads is not covered and may be missed. |
| `TaskPagesCompleteHolds` | `Spec => []TaskPagesComplete` | `FillInv` (a clone is filled by one retrier, in the order of sequence numbers, and every task in it lies before those still to come) and `WalkInv`: the pages read so far are the tasks at the first offsets of that order. A task's position in the order is the number of tasks before it; the lemmas on ranks (`RankStable`, `WalkedKept`) show that appending tasks changes no position, so an offset means the same task in every page. |

`DistinctTriggers` says that asynq's tasks carry references of their own:
`service.go:310` takes the reference from asynq's task id, which asynq never
gives twice. Without it the property is false: of two failing tasks with one
reference one may be at the attempt the other was at when the request began.

### Only model-checked

- Liveness (`RunsEnd`, `EndedRunsDrain` and the violated one of `noretry`): the
  prover does not handle fairness or ENABLED.

## Limits

- Consumers are not part of `Triggering`, `Retrying` and `Console`: a published
  task stays as it was created there. `Scheduling` has them all, on one task;
  `Execution` starts from runs that were started, a state that
  `StartedTasksAttended` shows of `Scheduling`.
- Registration calls are made by one goroutine and none follows `Stop`. The
  unlocked jobs map is modelled by atomic inserts and lookups in any order, and
  by a restart at any point for the end of the process that the Go runtime
  makes of a detected race. In `Registration` a message that is accepted is
  executed without failure. A topic has one partition there, so a reader without
  a consumer gets all of a topic or nothing, where in a real group it gets a
  share; readers that the caller brings are the caller's to close. A job
  registered after `Start` has entries but no handlers. The service's own
  configuration is not modelled.
- `Publish` of `Broker` takes a nil return for written messages. That is what the
  code takes it for, but the default `kafkago.Writer` (`transport.go:79-84`)
  leaves `RequiredAcks` at none, so a broker that loses a batch it was sent is
  not noticed: `StartedAfterPublish`, `NoTaskForgotten` and what rests on them
  suppose a writer configured with acknowledgements (`WriterConfig`). A task
  whose message cannot be marshalled, which `publisher.go` logs and skips with
  a nil return, is not modelled either.
- `Console` requests carry no filter and ask for a first page that is not full;
  the detail view, lineage, statistics, schedule preview and the encoding of
  answers are not modelled. Triggers are supposed to be in asynq's queue
  "default" and fewer than a page: `listAsynqTriggers` lists no other queue
  (`asynq.go:53`), though a job's `AsynqOptions` may name one. A click on an asynq task that has got its row in the
  meantime runs `executeJob` again, which finds the row and does nothing.
- `executeJob` calls `OnJobFinished` itself with what it returns
  (`job_executor.go:39` and `50`); `finished` records the calls of the
  finalizers only, and `FinalizedOnce` is about those.
- A run is identified by its row id; `FindJobByRef` returns the newest row of a
  reference, as the query orders.
- Logging, timing columns and metrics carry no state of the scheduler.
- Delays (`ProcessAfter`, backoff) are left out: a message may be handled at any
  time after it was published, early ones included. The code waits before it
  handles the message, so this adds orders and removes none.

## Plan

Done, in this order: domain, repository, broker; the task executor and the
finalizer, composed in `Execution`, with the abstract `RunLifecycle`; the job
executor and trigger failures (`Triggering`); retries (`Retrying`);
registration; the type, budget and finalization proofs and the refinement; the
whole run with liveness under a crash (`Scheduling`); registration step by step
against consumers and restarts; the console.

Then the proofs of the safety properties: `Execution`, `Triggering`, `Retrying`
and `Registration`; then, with the lemmas restated for the components they are
about, `Scheduling` and `Console`.

What could follow: `JobRetry` with consumers, where the tasks of a clone finish
while later pages are still inserted.
