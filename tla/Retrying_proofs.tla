--------------------------- MODULE Retrying_proofs --------------------------
(***************************************************************************)
(* Proofs about Retrying, for any number of rows, tasks, page sizes,       *)
(* retriers, calls, finalizers and faults.                                 *)
(***************************************************************************)
EXTENDS Retrying, Components_proofs

-----------------------------------------------------------------------------
(* What TerminateJob does to the rows *)

LEMMA TerminateEffect ==
  ASSUME RetryInv, NEW j \in JobID, Terminate(j)
  PROVE  /\ UNCHANGED <<spent, brokerVars, finalizerVars, retrier>> /\ Updated
         /\ \A k \in JobID : \/ job'[k] = job[k]
                             \/ /\ job[k].status \in {"PENDING", "RUNNING"}
                                /\ job'[k].status = "CANCELLED"
         /\ job[j].status \in {"PENDING", "RUNNING"}
         /\ \A t \in TaskID : t[1] # j => task'[t] = task[t]
<1>1. RepositoryTypeOK /\ OwnTasks /\ TerminateJob(j)
  BY DEF Terminate, RetryInv, SharedInv
<1>2. \A t \in TaskID : t[1] # j => task'[t] = task[t]
  BY <1>1 DEF TerminateJob
<1>. QED BY <1>1, <1>2, CancelRows DEF Terminate, TerminateJob

LEMMA FinalizerEffect ==
  ASSUME RetryInv, NEW f \in Finalizers, FinalizerNext(f) \/ \E n \in Registered : Tick(f, n)
  PROVE  FinalizerEffects(f) /\ UNCHANGED <<brokerVars, retrier>> /\ Updated
<1>1. FaultsTypeOK /\ RepositoryTypeOK /\ FinalizerInv /\ OwnTasks
  BY DEF RetryInv, SharedInv, FinalizerInv
<1>2. \/ FinalizerStep(f) \/ CrashFinalizer(f)
      \/ \E n \in Registered : CheckJobCompletions(f, n)
  BY DEF FinalizerNext, Tick
<1>3. FinalizerEffects(f)
  BY <1>1, <1>2, FinalizerSteps
<1>4. Updated
  BY <1>1, <1>3, FinalizerUpdates
<1>. QED BY <1>3, <1>4 DEF FinalizerNext, Tick

-----------------------------------------------------------------------------
(* Type correctness *)

\* The original has ended.
LEMMA InitOutcome ==
  ASSUME NEW outcome
  PROVE  resolveJobTerminalStatusFromSummary(OutcomeCounts(outcome)) \in TerminalOutcomes
BY DEF resolveJobTerminalStatusFromSummary, OutcomeCounts, TerminalOutcomes

LEMMA InitRows ==
  ASSUME Init
  PROVE  /\ RepositoryTypeOK /\ OwnTasks
         /\ \A j \in JobID : job[j].status \in TerminalOutcomes \cup {Absent} /\ job[j].parent = NoParent
<1>1. PICK outcome \in Outcomes :
        /\ job = [j \in JobID |->
                    [status |-> IF j = Original
                                THEN resolveJobTerminalStatusFromSummary(OutcomeCounts(outcome))
                                ELSE Absent,
                     name |-> CHOOSE n \in Registered : TRUE, ref |-> CHOOSE r \in Refs : TRUE,
                     parent |-> NoParent, triggerFailure |-> FALSE]]
        /\ task = [t \in TaskID |-> IF t[1] = Original THEN [status |-> outcome[t[2]], attempt |-> 1]
                                                       ELSE [status |-> Absent, attempt |-> 0]]
  BY DEF Init
<1>2. (CHOOSE n \in Registered : TRUE) \in Names /\ (CHOOSE r \in Refs : TRUE) \in Refs
  BY RetryingAssumption, RepositoryAssumption
<1>3. PICK o \in TerminalOutcomes : o = resolveJobTerminalStatusFromSummary(OutcomeCounts(outcome))
  BY InitOutcome
<1>4. TerminalOutcomes \subseteq Status /\ Absent \notin TerminalOutcomes /\ Absent \notin Status
  BY DEF TerminalOutcomes, Status, JobStatus, TaskStatus, Absent
<1>5. PICK name \in Names : name = CHOOSE n \in Registered : TRUE
  BY <1>2
<1>6. PICK ref \in Refs : ref = CHOOSE r \in Refs : TRUE
  BY <1>2
<1>7. \A j \in JobID : job[j] = [status |-> IF j = Original THEN o ELSE Absent, name |-> name, ref |-> ref,
                                 parent |-> NoParent, triggerFailure |-> FALSE]
  BY <1>1, <1>3, <1>5, <1>6
<1>8. ASSUME NEW j \in JobID
      PROVE  /\ job[j] \in JobRow /\ job[j].parent = NoParent
             /\ job[j].status = IF j = Original THEN o ELSE Absent
  <2>1. PICK s \in Status \cup {Absent} : s = IF j = Original THEN o ELSE Absent
    BY <1>4
  <2>2. NoParent \in JobID \cup {NoParent} /\ FALSE \in BOOLEAN
    OBVIOUS
  <2>3. job[j] = [status |-> s, name |-> name, ref |-> ref, parent |-> NoParent,
                  triggerFailure |-> FALSE]
    BY <1>7, <2>1
  <2>4. job[j] \in JobRow
    BY <2>2, <2>3 DEF JobRow
  <2>5. job[j].parent = NoParent /\ job[j].status = s
    BY <2>3
  <2>. QED BY <2>1, <2>4, <2>5
<1>9. /\ task \in [TaskID -> TaskRow]
      /\ \A t \in TaskID : Exists(task[t]) => t[1] = Original
  <2>1. \A t \in TaskID : outcome[t[2]] \in Status
    <3>1. \A n \in 0..(MaxTasks - 1) : outcome[n] \in Status
      BY DEF Outcomes, Status, JobStatus, TaskStatus
    <3>. QED BY <3>1, TaskBelongs
  <2>2. \A t \in TaskID : task[t] \in TaskRow /\ (Exists(task[t]) => t[1] = Original)
    BY <1>1, <2>1 DEF TaskRow, Exists
  <2>. QED BY <1>1, <2>2
<1>10. OwnTasks
  BY <1>4, <1>8, <1>9, TaskBelongs DEF OwnTasks, Exists
<1>11. \A j \in JobID : job[j].status \in TerminalOutcomes \cup {Absent} /\ job[j].parent = NoParent
  BY <1>8
<1>12. job \in [JobID -> JobRow]
  BY <1>1, <1>8
<1>. QED BY <1>9, <1>10, <1>11, <1>12 DEF RepositoryTypeOK

LEMMA InitIdle == ASSUME Init PROVE \A r \in Retriers : retrier[r].pc = "idle"
BY DEF Init, JobRetryInit, NotRetrying

LEMMA InitType == Init => RetryInv
<1>. SUFFICES ASSUME Init PROVE RetryInv
  OBVIOUS
<1>1. FaultsTypeOK
  BY DEF Init, FaultsInit, FaultsTypeOK
<1>2. BrokerTypeOK(TaskID)
  <2>1. <<>> \in Seq(TaskID)
    OBVIOUS
  <2>2. log \in [Partitions -> Seq(TaskID)]
    BY <2>1 DEF Init
  <2>. QED BY <2>2 DEF Init, BrokerTypeOK
<1>3. JobFinalizerTypeOK /\ Visiting
  BY DEF Init, JobFinalizerInit, JobFinalizerTypeOK, Visiting, Resting, FinalizerState, FinalizerPC
<1>4. JobRetryTypeOK
  BY NotRetryingType DEF Init, JobRetryInit, JobRetryTypeOK
<1>5. RetrierInv
  BY InitIdle DEF RetrierInv, RetrierOK, OnClone, Streaming
<1>. QED BY <1>1, <1>2, <1>3, <1>4, <1>5, InitRows DEF RetryInv, SharedInv, FinalizerInv

LEMMA TypeStep == ASSUME RetryInv, [Next]_vars PROVE RetryInv'
<1>1. ASSUME NEW r \in Retriers,
             (\E j \in JobID : RetryJob(r, j)) \/ RetrierStep(r) \/ CrashRetrier(r)
      PROVE  RetryInv'
  BY <1>1, RetrierTypeStep
<1>2. ASSUME Updated, UNCHANGED <<brokerVars, retrier>>, FinalizerInv', FaultsTypeOK'
      PROVE  RetryInv'
  <2>1. JobRetryTypeOK' /\ BrokerTypeOK(TaskID)'
    BY <1>2, KeptTypes DEF RetryInv, SharedInv, JobRetryTypeOK
  <2>2. RetrierInv'
    BY <1>2 DEF RetryInv, RetrierInv, RetrierOK, Updated
  <2>. QED BY <1>2, <2>1, <2>2 DEF RetryInv, SharedInv, FinalizerInv, Updated
<1>3. ASSUME NEW f \in Finalizers, FinalizerNext(f) \/ \E n \in Registered : Tick(f, n)
      PROVE  RetryInv'
  BY <1>2, <1>3, FinalizerEffect DEF FinalizerEffects
<1>4. ASSUME NEW j \in JobID, Terminate(j) PROVE RetryInv'
  <2>1. FaultsTypeOK'
    BY <1>4, TerminateEffect DEF RetryInv, SharedInv, FaultsTypeOK
  <2>. QED BY <1>2, <1>4, <2>1, TerminateEffect, KeptTypes
<1>5. CASE UNCHANGED vars
  <2>1. UNCHANGED repositoryVars /\ UNCHANGED <<brokerVars, retrier>> /\ UNCHANGED finalizerVars
    BY <1>5 DEF vars
  <2>2. Updated
    BY <2>1, UnchangedRows DEF RetryInv, SharedInv
  <2>3. FaultsTypeOK'
    BY <1>5 DEF vars, RetryInv, SharedInv, FaultsTypeOK
  <2>. QED BY <1>2, <2>1, <2>2, <2>3, KeptTypes
<1>. QED BY <1>1, <1>3, <1>4, <1>5 DEF Next

LEMMA TypeInvariant == Spec => []RetryInv
BY InitType, TypeStep, PTL DEF Spec

\* The rows, the log, the finalizers and the retriers keep their types, for
\* any number of calls, tasks and faults.
THEOREM RetryingTypeCorrect == Spec => []TypeOK
<1>1. RetryInv => TypeOK
  BY DEF RetryInv, SharedInv, FinalizerInv, TypeOK
<1>. QED BY <1>1, TypeInvariant, PTL

-----------------------------------------------------------------------------
(* CloneStartedAfterPublish *)

\* A single retrier.
LEMMA OnlyRetrier == ASSUME OneByOne, NEW r \in Retriers PROVE \A q \in Retriers : q = r
BY DEF OneByOne

AllWritten(j) == \A t \in TasksOf(j) : Written(t)

\* What a retrier has published of its clone: everything it has inserted, but
\* for the page at hand; of a clone it has found, everything up to its cursor,
\* but for the page at hand.  A clone it has created does not run yet.
PublishOK(r) ==
  /\ retrier[r].pc \in Streaming /\ ~retrier[r].reuse => job[retrier[r].clone].status # "RUNNING"
  /\ retrier[r].pc \in {"read", "insert", "summary", "start"} => AllWritten(retrier[r].clone)
  /\ retrier[r].pc = "publish" =>
       \A t \in TasksOf(retrier[r].clone) :
         ~retrier[r].reuse \/ retrier[r].last \/ t[2] <= retrier[r].afterSeq =>
           t \in retrier[r].batch \/ Written(t)
  /\ retrier[r].pc = "reread" =>
       \A t \in TasksOf(retrier[r].clone) : t[2] <= retrier[r].afterSeq => Written(t)

RunsPublished == \A j \in JobID : job[j].status = "RUNNING" => AllWritten(j)

PublishInv == RunsPublished /\ \A r \in Retriers : PublishOK(r)

\* No message is lost, no task is added and no run started.
QuietStep ==
  /\ \A t \in TaskID : Written(t) => Written(t)'
  /\ \A t \in TaskID : Exists(task'[t]) => Exists(task[t])
  /\ \A j \in JobID : job'[j].status = "RUNNING" => job[j].status = "RUNNING"

LEMMA QuietRuns == ASSUME RunsPublished, QuietStep PROVE RunsPublished'
BY DEF RunsPublished, QuietStep, AllWritten, TasksOf

LEMMA SameLog == ASSUME UNCHANGED brokerVars PROVE \A t \in TaskID : Written(t) => Written(t)'
BY DEF brokerVars, Written

LEMMA SameRowsQuiet ==
  ASSUME UNCHANGED repositoryVars, \A t \in TaskID : Written(t) => Written(t)'
  PROVE  QuietStep
BY DEF repositoryVars, QuietStep

LEMMA EndsPublishOK == ASSUME NEW r, RetryEnds(r) PROVE PublishOK(r)'
BY DEF RetryEnds, PublishOK, Streaming

\* Only the pc of the record moves, among the places where all is published.
LEMMA MovesPublishOK ==
  ASSUME RetryInv, NEW r \in Retriers, PublishOK(r), QuietStep, NEW pc \in {"summary", "start"},
         SameJobs(r), retrier'[r].pc = pc, retrier[r].pc \in Streaming, AllWritten(retrier[r].clone)
  PROVE  PublishOK(r)'
<1>1. PICK k \in JobID : k = retrier[r].clone
  BY RetrierFacts DEF RetrierOK, OnClone
<1>2. retrier'[r].clone = k /\ (retrier'[r].reuse <=> retrier[r].reuse)
  BY <1>1 DEF SameJobs
<1>3. AllWritten(k)'
  BY <1>1 DEF AllWritten, TasksOf, QuietStep
<1>4. ~retrier[r].reuse => job'[k].status # "RUNNING"
  BY <1>1 DEF PublishOK, QuietStep
<1>. QED BY <1>2, <1>3, <1>4 DEF PublishOK

LEMMA RetrierPublishStep ==
  ASSUME RetryInv, RetryInv', OneByOne, PublishInv, NEW r \in Retriers,
         (\E j \in JobID : RetryJob(r, j)) \/ RetrierStep(r) \/ CrashRetrier(r)
  PROVE  RunsPublished' /\ PublishOK(r)'
<1>0. /\ RetrierOK(r) /\ retrier[r] \in RetrierState /\ PublishOK(r) /\ RunsPublished
      /\ RepositoryTypeOK
  BY RetrierFacts DEF PublishInv
<1>01. \A t \in TaskID : t[2] \in Nat
  BY TaskBelongs, RepositoryAssumption
<1>1. ASSUME NEW j \in JobID, RetryJob(r, j) PROVE RunsPublished' /\ PublishOK(r)'
  <2>1. UNCHANGED repositoryVars /\ UNCHANGED brokerVars /\ RetryBegins(r, j)
    BY <1>1, RetryJobEffect
  <2>2. PublishOK(r)'
    BY <2>1 DEF RetryBegins, PublishOK, Streaming
  <2>. QED BY <1>0, <2>1, <2>2, SameLog, SameRowsQuiet, QuietRuns
<1>2. CASE FindClone(r)
  <2>1. retrier[r].pc = "findClone" /\ UNCHANGED <<repositoryVars, brokerVars>>
    BY <1>2, FindCloneEffect
  <2>2. RunsPublished'
    BY <1>0, <2>1, SameLog, SameRowsQuiet, QuietRuns
  <2>3. CASE RetryEnds(r)
    BY <2>2, <2>3, EndsPublishOK
  <2>4. CASE RetryMoves(r, "create")
    BY <2>2, <2>4 DEF RetryMoves, PublishOK, Streaming
  <2>5. ASSUME NEW k \in JobID, Reuses(r, k) PROVE RunsPublished' /\ PublishOK(r)'
    <3>1. retrier'[r].afterSeq = -1 /\ retrier'[r].pc = "reread" /\ retrier'[r].reuse
      BY <1>0, <2>1, <2>5 DEF Reuses, RetrierOK
    <3>2. \A t \in TaskID : ~(t[2] <= -1)
      BY <1>01
    <3>3. PublishOK(r)'
      BY <3>1, <3>2 DEF PublishOK, TasksOf
    <3>. QED BY <2>2, <3>3
  <2>. QED BY <1>2, <2>3, <2>4, <2>5, FindCloneEffect
<1>3. CASE CreateClone(r)
  <2>1. retrier[r].pc = "create" /\ UNCHANGED brokerVars
    BY <1>3, CreateCloneEffect
  <2>2. CASE UNCHANGED repositoryVars /\ RetryEnds(r)
    BY <1>0, <2>1, <2>2, SameLog, SameRowsQuiet, QuietRuns, EndsPublishOK
  <2>3. ASSUME NEW k \in JobID, NEW row \in JobRow, Inserted(k, row, 0), row.status = "PENDING",
               RetryEnds(r) \/ CreatesClone(r, k)
        PROVE  RunsPublished' /\ PublishOK(r)'
    <3>1. \A t \in TaskID : t[1] = k => ~Exists(task'[t])
      BY <1>01, <2>3 DEF Inserted
    <3>2. job'[k].status = "PENDING"
      BY <2>3 DEF Inserted
    <3>3. QuietStep
      <4>1. \A t \in TaskID : Exists(task'[t]) => Exists(task[t])
        BY <2>3, <3>1 DEF Inserted
      <4>2. \A j \in JobID : job'[j].status = "RUNNING" => job[j].status = "RUNNING"
        BY <2>3, <3>2 DEF Inserted
      <4>. QED BY <2>1, <4>1, <4>2, SameLog DEF QuietStep
    <3>4. CASE RetryEnds(r)
      BY <1>0, <3>3, <3>4, QuietRuns, EndsPublishOK
    <3>5. CASE CreatesClone(r, k)
      <4>1. AllWritten(k)'
        BY <3>1 DEF AllWritten, TasksOf
      <4>2. PublishOK(r)'
        BY <3>2, <3>5, <4>1 DEF CreatesClone, PublishOK
      <4>. QED BY <1>0, <3>3, <4>2, QuietRuns
    <3>. QED BY <2>3, <3>4, <3>5
  <2>. QED BY <1>3, <2>2, <2>3, CreateCloneEffect
<1>4. CASE ReadSource(r)
  <2>1. retrier[r].pc = "read" /\ UNCHANGED <<repositoryVars, brokerVars>>
    BY <1>4, ReadSourceEffect
  <2>2. QuietStep /\ RunsPublished'
    BY <1>0, <2>1, SameLog, SameRowsQuiet, QuietRuns
  <2>3. AllWritten(retrier[r].clone) /\ retrier[r].pc \in Streaming
    BY <1>0, <2>1 DEF PublishOK, Streaming
  <2>4. CASE RetryEnds(r)
    BY <2>2, <2>4, EndsPublishOK
  <2>5. CASE RetryMoves(r, "start")
    BY <1>0, <2>2, <2>3, <2>5, MovesPublishOK DEF RetryMoves
  <2>6. ASSUME NEW page \in SUBSET TaskID, TurnsPage(r, SourceRows(r), page, "insert")
        PROVE  PublishOK(r)'
    <3>1. PICK k \in JobID : k = retrier[r].clone
      BY <1>0, <2>3 DEF RetrierOK, OnClone
    <3>2. AllWritten(k)'
      BY <2>2, <2>3, <3>1 DEF AllWritten, TasksOf, QuietStep
    <3>3. retrier'[r].clone = k /\ retrier'[r].pc = "insert" /\ job'[k].status # "RUNNING"
      BY <1>0, <2>1, <2>2, <2>3, <2>6, <3>1
      DEF TurnsPage, SameJobs, RetrierOK, PublishOK, QuietStep
    <3>. QED BY <3>2, <3>3 DEF PublishOK
  <2>. QED BY <1>4, <2>2, <2>4, <2>5, <2>6, ReadSourceEffect
<1>5. CASE ReadClone(r)
  <2>1. retrier[r].pc = "reread" /\ UNCHANGED <<repositoryVars, brokerVars>>
    BY <1>5, ReadCloneEffect
  <2>2. QuietStep /\ RunsPublished'
    BY <1>0, <2>1, SameLog, SameRowsQuiet, QuietRuns
  <2>3. PICK k \in JobID : k = retrier[r].clone
    BY <1>0, <2>1 DEF RetrierOK, OnClone, Streaming
  <2>4. /\ retrier[r].afterSeq \in Int
        /\ \A t \in TasksOf(k) : t[2] <= retrier[r].afterSeq => Written(t)
    BY <1>0, <2>1, <2>3 DEF PublishOK, RetrierState
  <2>5. \A t \in TasksOf(k) : t[2] <= retrier[r].afterSeq \/ t \in CloneRows(r)
    <3>1. \A t \in TasksOf(k) : task[t].status \in Status /\ t[2] \in Nat
      BY <1>0, <1>01 DEF RepositoryTypeOK, TaskRow, TasksOf, Exists
    <3>2. \A t \in TasksOf(k) : t[2] <= retrier[r].afterSeq \/ t[2] > retrier[r].afterSeq
      BY <2>4, <3>1
    <3>. QED BY <2>3, <3>1, <3>2 DEF CloneRows, PageRows
  <2>6. CASE RetryEnds(r)
    BY <2>2, <2>6, EndsPublishOK
  <2>7. CASE RetryMoves(r, "summary") /\ CloneRows(r) = {}
    <3>1. AllWritten(retrier[r].clone)
      BY <2>3, <2>4, <2>5, <2>7 DEF AllWritten
    <3>. QED BY <1>0, <2>1, <2>2, <2>7, <3>1, MovesPublishOK DEF RetryMoves, Streaming
  <2>8. ASSUME NEW page \in SUBSET TaskID, TurnsPage(r, CloneRows(r), page, "publish"),
               retrier'[r].batch = page
        PROVE  PublishOK(r)'
    <3>1. /\ retrier'[r].clone = k /\ retrier'[r].pc = "publish" /\ retrier'[r].reuse
      BY <1>0, <2>1, <2>3, <2>8 DEF TurnsPage, SameJobs, RetrierOK
    <3>2. ASSUME NEW t \in TaskID, t \in TasksOf(k)',
                 retrier'[r].last \/ t[2] <= retrier'[r].afterSeq
          PROVE  t \in page \/ Written(t)'
      <4>1. t \in TasksOf(k)
        BY <2>1, <3>2 DEF TasksOf, repositoryVars
      <4>2. CASE t[2] <= retrier[r].afterSeq
        BY <2>2, <2>4, <4>1, <4>2 DEF QuietStep
      <4>3. CASE t \in CloneRows(r)
        BY <2>8, <3>2, <4>3 DEF TurnsPage
      <4>. QED BY <2>5, <4>1, <4>2, <4>3
    <3>. QED BY <2>8, <3>1, <3>2 DEF PublishOK, TasksOf
  <2>. QED BY <1>5, <2>2, <2>6, <2>7, <2>8, ReadCloneEffect
<1>6. CASE InsertClones(r)
  <2>1. /\ retrier[r].pc = "insert" /\ UNCHANGED <<job, brokerVars>>
        /\ (Filled(retrier[r].batch) /\ RetryMoves(r, "publish"))
           \/ ((Filled(retrier[r].batch) \/ task' = task) /\ RetryEnds(r))
    BY <1>6, InsertEffect
  <2>2. PICK k \in JobID : k = retrier[r].clone
    BY <1>0, <2>1 DEF RetrierOK, OnClone, Streaming
  <2>3. /\ job'[k].status # "RUNNING" /\ ~retrier[r].reuse /\ AllWritten(k)
        /\ \A t \in retrier[r].batch : t[1] = k
    BY <1>0, <2>1, <2>2 DEF PublishOK, Streaming, RetrierOK
  <2>4. \A t \in TaskID : t \in retrier[r].batch \/ task'[t] = task[t]
    BY <2>1 DEF Filled
  <2>5. RunsPublished'
    <3>. SUFFICES ASSUME NEW j \in JobID, job'[j].status = "RUNNING", NEW t \in TaskID,
                         t[1] = j, Exists(task'[t])
                  PROVE  Written(t)'
      BY DEF RunsPublished, AllWritten, TasksOf
    <3>1. task'[t] = task[t] /\ job[j].status = "RUNNING"
      BY <2>1, <2>3, <2>4
    <3>. QED BY <1>0, <2>1, <3>1, SameLog DEF RunsPublished, AllWritten, TasksOf
  <2>6. CASE RetryEnds(r)
    BY <2>5, <2>6, EndsPublishOK
  <2>7. CASE RetryMoves(r, "publish")
    <3>1. ASSUME NEW t \in TaskID, t \in TasksOf(k)'
          PROVE  t \in retrier[r].batch \/ Written(t)'
      BY <2>1, <2>3, <2>4, <3>1, SameLog DEF AllWritten, TasksOf
    <3>2. /\ retrier'[r].pc = "publish" /\ retrier'[r].clone = k
          /\ retrier'[r].batch = retrier[r].batch
      BY <2>2, <2>7 DEF RetryMoves, SameJobs
    <3>3. PublishOK(r)'
      BY <2>3, <3>1, <3>2 DEF PublishOK, TasksOf
    <3>. QED BY <2>5, <3>3
  <2>. QED BY <2>1, <2>6, <2>7
<1>7. CASE PublishClone(r)
  <2>1. /\ retrier[r].pc = "publish" /\ UNCHANGED repositoryVars
        /\ \A u \in TaskID : Written(u) => Written(u)'
        /\ (\E t \in TaskID : PublishesOne(r, t)) \/ RetryEnds(r)
    BY <1>7, PublishCloneEffect
  <2>2. QuietStep /\ RunsPublished'
    BY <1>0, <2>1, SameRowsQuiet, QuietRuns
  <2>3. CASE RetryEnds(r)
    BY <2>2, <2>3, EndsPublishOK
  <2>4. ASSUME NEW t \in TaskID, PublishesOne(r, t) PROVE PublishOK(r)'
    <3>1. PICK k \in JobID : k = retrier[r].clone
      BY <1>0, <2>1 DEF RetrierOK, OnClone, Streaming
    <3>2. \A u \in TaskID : u \in TasksOf(k)' =>
            (~retrier[r].reuse \/ retrier[r].last \/ u[2] <= retrier[r].afterSeq =>
               u \in retrier[r].batch \ {t} \/ Written(u)')
      <4>1. \A u \in TaskID : u \in TasksOf(k)' => u \in TasksOf(k)
        BY <2>1 DEF repositoryVars, TasksOf
      <4>2. \A u \in TasksOf(k) : ~retrier[r].reuse \/ retrier[r].last \/ u[2] <= retrier[r].afterSeq =>
              u \in retrier[r].batch \/ Written(u)
        BY <1>0, <2>1, <3>1 DEF PublishOK
      <4>3. Written(t)'
        BY <2>4 DEF PublishesOne
      <4>. QED BY <2>1, <4>1, <4>2, <4>3
    <3>3. /\ retrier'[r].clone = k /\ (retrier'[r].reuse <=> retrier[r].reuse)
          /\ retrier'[r].afterSeq = retrier[r].afterSeq /\ (retrier'[r].last <=> retrier[r].last)
          /\ retrier'[r].batch = retrier[r].batch \ {t}
          /\ ~retrier[r].reuse => job'[k].status # "RUNNING"
      BY <1>0, <2>1, <2>2, <2>4, <3>1 DEF PublishesOne, SameJobs, PublishOK, QuietStep, Streaming
    <3>4. \/ retrier'[r].pc = "publish"
          \/ retrier'[r].pc = "reread" /\ retrier[r].batch \ {t} = {}
          \/ /\ retrier'[r].pc \in {"summary", "start", "read"} /\ retrier[r].batch \ {t} = {}
             /\ ~retrier[r].reuse \/ retrier[r].last
      BY <2>4 DEF PublishesOne
    <3>5. CASE retrier'[r].pc = "publish"
      BY <3>2, <3>3, <3>5 DEF PublishOK, TasksOf
    <3>6. CASE retrier'[r].pc = "reread" /\ retrier[r].batch \ {t} = {}
      BY <3>2, <3>3, <3>6 DEF PublishOK, TasksOf
    <3>7. CASE /\ retrier'[r].pc \in {"summary", "start", "read"} /\ retrier[r].batch \ {t} = {}
               /\ ~retrier[r].reuse \/ retrier[r].last
      <4>1. AllWritten(k)'
        BY <3>2, <3>7 DEF AllWritten, TasksOf
      <4>. QED BY <3>3, <3>7, <4>1 DEF PublishOK
    <3>. QED BY <3>4, <3>5, <3>6, <3>7
  <2>. QED BY <2>1, <2>2, <2>3, <2>4
<1>8. CASE CountClone(r)
  <2>1. /\ retrier[r].pc = "summary" /\ UNCHANGED <<repositoryVars, brokerVars>>
        /\ RetryMoves(r, "start") \/ RetryEnds(r)
    BY <1>8, CountEffect
  <2>2. QuietStep /\ RunsPublished'
    BY <1>0, <2>1, SameLog, SameRowsQuiet, QuietRuns
  <2>3. AllWritten(retrier[r].clone) /\ retrier[r].pc \in Streaming
    BY <1>0, <2>1 DEF PublishOK, Streaming
  <2>4. RetryMoves(r, "start") => PublishOK(r)'
    BY <1>0, <2>2, <2>3, MovesPublishOK DEF RetryMoves
  <2>. QED BY <2>1, <2>2, <2>4, EndsPublishOK
<1>9. CASE CloneAlreadyRunning(r) \/ EndRetry(r) \/ CrashRetrier(r)
  <2>1. UNCHANGED <<repositoryVars, brokerVars>> /\ RetryEnds(r)
    BY <1>9, CloneAlreadyRunningEffect, EndRetryEffect, CrashRetrierEffect
  <2>. QED BY <1>0, <2>1, SameLog, SameRowsQuiet, QuietRuns, EndsPublishOK
<1>10. CASE StartClonedJob(r)
  <2>1. /\ retrier[r].pc = "start" /\ UNCHANGED <<task, brokerVars>>
        /\ RetryEnds(r) \/ RetryMoves(r, "finalize")
        /\ job' = job \/ SetsStatus(retrier[r].clone, "RUNNING")
    BY <1>10, StartClonedEffect
  <2>2. PublishOK(r)'
    BY <2>1, EndsPublishOK DEF RetryMoves, PublishOK, Streaming
  <2>3. PICK k \in JobID : k = retrier[r].clone
    BY <1>0, <2>1 DEF RetrierOK, OnClone, Streaming
  <2>4. AllWritten(k) /\ \A j \in JobID : j # k => job'[j] = job[j]
    BY <1>0, <2>1, <2>3 DEF PublishOK, SetsStatus
  <2>5. RunsPublished'
    BY <1>0, <2>1, <2>4, SameLog DEF RunsPublished, AllWritten, TasksOf
  <2>. QED BY <2>2, <2>5
<1>. QED BY <1>1, <1>2, <1>3, <1>4, <1>5, <1>6, <1>7, <1>8, <1>9, <1>10 DEF RetrierStep

\* What the finalizers and TerminateJob do to the rows: they end live runs, and
\* touch the tasks of no other.
EndsRuns ==
  /\ UNCHANGED <<brokerVars, retrier>> /\ Updated
  /\ \A j \in JobID : \/ job'[j] = job[j]
                      \/ IsExecutionPending(job[j].status) /\ ~IsExecutionPending(job'[j].status)
  /\ \A t \in TaskID : task'[t] = task[t] \/ IsExecutionPending(job[t[1]].status)
  /\ \A k \in FaultKind : Never(k)' => Never(k)

\* Every step is one of a retrier or ends runs.
LEMMA Steps ==
  ASSUME RetryInv, [Next]_vars
  PROVE  \/ EndsRuns
         \/ \E r \in Retriers :
              (\E j \in JobID : RetryJob(r, j)) \/ RetrierStep(r) \/ CrashRetrier(r)
<1>0. RepositoryTypeOK /\ OwnTasks /\ "RUNNING" \in NonTerminalJobStates
      /\ {"PENDING", "RUNNING"} \subseteq NonTerminalJobStates
      /\ "CANCELLED" \notin NonTerminalJobStates
      /\ \A o \in TerminalOutcomes : o \notin NonTerminalJobStates
  BY DEF RetryInv, SharedInv, NonTerminalJobStates, TerminalOutcomes
<1>1. ASSUME NEW f \in Finalizers, FinalizerNext(f) \/ \E n \in Registered : Tick(f, n)
      PROVE  EndsRuns
  <2>1. FinalizerEffects(f) /\ UNCHANGED <<brokerVars, retrier>> /\ Updated
    BY <1>1, FinalizerEffect
  <2>2. task' = task /\ \A k \in FaultKind : Never(k)' => Never(k)
    BY <2>1 DEF FinalizerEffects
  <2>3. \A j \in JobID : \/ job'[j] = job[j]
                         \/ IsExecutionPending(job[j].status) /\ ~IsExecutionPending(job'[j].status)
    <3>1. job' = job \/ FinalizerHits(f)
      BY <2>1 DEF FinalizerEffects, FinalizerReads, FinalizerAnnounces
    <3>2. CASE FinalizerHits(f)
      <4>1. PICK j \in JobID : j = fin[f].job
        BY <3>2 DEF FinalizerHits
      <4>2. /\ job[j].status = "RUNNING" /\ job'[j].status \in TerminalOutcomes
            /\ \A k \in JobID : k # j => job'[k] = job[k]
        BY <1>0, <3>2, <4>1 DEF FinalizerHits, RepositoryTypeOK, JobRow
      <4>. QED BY <1>0, <4>2 DEF IsExecutionPending
    <3>. QED BY <3>1, <3>2
  <2>. QED BY <2>1, <2>2, <2>3 DEF EndsRuns
<1>2. ASSUME NEW j \in JobID, Terminate(j) PROVE EndsRuns
  <2>1. /\ UNCHANGED <<spent, brokerVars, retrier>> /\ Updated
        /\ \A k \in JobID : \/ job'[k] = job[k]
                            \/ /\ job[k].status \in {"PENDING", "RUNNING"}
                               /\ job'[k].status = "CANCELLED"
        /\ job[j].status \in {"PENDING", "RUNNING"}
        /\ \A t \in TaskID : t[1] # j => task'[t] = task[t]
    BY <1>2, TerminateEffect
  <2>. QED BY <1>0, <2>1 DEF EndsRuns, IsExecutionPending, Never
<1>3. CASE UNCHANGED vars
  <2>1. UNCHANGED repositoryVars /\ UNCHANGED <<spent, brokerVars, retrier>>
    BY <1>3 DEF vars
  <2>. QED BY <1>0, <2>1, UnchangedRows DEF EndsRuns, Never, repositoryVars
<1>. QED BY <1>1, <1>2, <1>3 DEF Next

LEMMA EndsRunsPublish == ASSUME RetryInv, PublishInv, EndsRuns PROVE PublishInv'
<1>1. QuietStep
  <2>1. \A j \in JobID : job'[j].status = "RUNNING" => job[j].status = "RUNNING"
    BY DEF EndsRuns, IsExecutionPending, NonTerminalJobStates
  <2>2. \A t \in TaskID : Exists(task'[t]) => Exists(task[t])
    BY DEF EndsRuns, Updated
  <2>. QED BY <2>1, <2>2, SameLog DEF EndsRuns, QuietStep
<1>2. RunsPublished'
  BY <1>1, QuietRuns DEF PublishInv
<1>3. ASSUME NEW r \in Retriers PROVE PublishOK(r)'
  <2>1. retrier' = retrier /\ PublishOK(r) /\ RetrierOK(r)
    BY RetrierFacts DEF EndsRuns, PublishInv
  <2>2. CASE retrier[r].pc \in Streaming
    <3>1. PICK k \in JobID : k = retrier[r].clone
      BY <2>1, <2>2 DEF RetrierOK, OnClone
    <3>. QED BY <1>1, <2>1, <3>1 DEF PublishOK, AllWritten, TasksOf, QuietStep
  <2>3. CASE retrier[r].pc \notin Streaming
    BY <2>1, <2>3 DEF PublishOK, Streaming
  <2>. QED BY <2>2, <2>3
<1>. QED BY <1>2, <1>3 DEF PublishInv

LEMMA PublishStep == ASSUME RetryInv, RetryInv', OneByOne, PublishInv, [Next]_vars PROVE PublishInv'
<1>1. CASE EndsRuns
  BY <1>1, EndsRunsPublish
<1>2. ASSUME NEW r \in Retriers,
             (\E j \in JobID : RetryJob(r, j)) \/ RetrierStep(r) \/ CrashRetrier(r)
      PROVE  PublishInv'
  <2>1. RunsPublished' /\ PublishOK(r)'
    BY <1>2, RetrierPublishStep
  <2>. QED BY <2>1, OnlyRetrier DEF PublishInv
<1>. QED BY <1>1, <1>2, Steps

LEMMA PublishInvariant == Spec => [](OneByOne => PublishInv)
<1>1. Init => (OneByOne => PublishInv)
  <2>. SUFFICES ASSUME Init PROVE PublishInv
    OBVIOUS
  <2>1. RunsPublished
    BY InitRows DEF RunsPublished, TerminalOutcomes, Absent
  <2>. QED BY <2>1, InitIdle DEF PublishInv, PublishOK, Streaming
<1>2. RetryInv /\ RetryInv' /\ (OneByOne => PublishInv) /\ [Next]_vars => (OneByOne => PublishInv)'
  BY PublishStep DEF OneByOne
<1>. QED BY <1>1, <1>2, TypeInvariant, PTL DEF Spec

\* A clone runs only when all its tasks are in Kafka.  Calls one by one, any
\* number of pages, of errors and of crashes on the way.
THEOREM CloneStartedAfterPublishHolds == Spec => []CloneStartedAfterPublish
<1>1. (OneByOne => PublishInv) => CloneStartedAfterPublish
  BY DEF CloneStartedAfterPublish, PublishInv, RunsPublished, AllWritten, Clones
<1>. QED BY <1>1, PublishInvariant, PTL

-----------------------------------------------------------------------------
(* OneLiveClone *)

Live(j) == IsExecutionPending(job[j].status)

\* What a retrier may rely on: the original has ended; it is about to create a
\* clone only if there is no live one; the clone it works on is of the original,
\* is cloned by nobody, and no other clone is live.
CloneOK(r) ==
  /\ retrier[r].pc \in Streaming \cup {"findClone", "create"} => ~Live(retrier[r].source)
  /\ retrier[r].pc = "create" => \A k \in JobID : Live(k) => job[k].parent # retrier[r].source
  /\ retrier[r].pc \in Streaming =>
       /\ retrier[r].clone # retrier[r].source
       /\ job[retrier[r].clone].parent = retrier[r].source
       /\ \A k \in JobID : Live(k) /\ job[k].parent = retrier[r].source => k = retrier[r].clone
       /\ \A k \in JobID : Exists(job[k]) => job[k].parent # retrier[r].clone

\* A job that has a clone has ended, and stays so.
OriginalsEnded ==
  \A k \in JobID : Exists(job[k]) /\ job[k].parent \in JobID =>
    Exists(job[job[k].parent]) /\ ~Live(job[k].parent)

OneLive ==
  \A k, l \in JobID : Live(k) /\ Live(l) /\ job[k].parent = job[l].parent /\ job[k].parent \in JobID =>
    k = l

CloneInv == OneLive /\ OriginalsEnded /\ \A r \in Retriers : CloneOK(r)

\* A step that leaves the job table alone and ends the call or goes on with the
\* same two jobs.
Carries(r) ==
  /\ job' = job
  /\ \/ retrier'[r].pc = "idle"
     \/ /\ retrier[r].pc \in Streaming /\ retrier'[r].pc \in Streaming
        /\ retrier'[r].source = retrier[r].source /\ retrier'[r].clone = retrier[r].clone

LEMMA CarriesSteps ==
  ASSUME RetryInv, NEW r \in Retriers,
         \/ ReadSource(r) \/ InsertClones(r) \/ ReadClone(r) \/ PublishClone(r) \/ CountClone(r)
         \/ CloneAlreadyRunning(r) \/ EndRetry(r) \/ CrashRetrier(r)
  PROVE  Carries(r)
<1>. USE DEF Carries, Streaming, SameJobs, repositoryVars
<1>1. CASE ReadSource(r)
  BY <1>1, ReadSourceEffect DEF RetryEnds, RetryMoves, TurnsPage
<1>2. CASE InsertClones(r)
  BY <1>2, InsertEffect DEF RetryEnds, RetryMoves
<1>3. CASE ReadClone(r)
  BY <1>3, ReadCloneEffect DEF RetryEnds, RetryMoves, TurnsPage
<1>4. CASE PublishClone(r)
  BY <1>4, PublishCloneEffect DEF RetryEnds, PublishesOne
<1>5. CASE CountClone(r)
  BY <1>5, CountEffect DEF RetryEnds, RetryMoves
<1>6. CASE CloneAlreadyRunning(r) \/ EndRetry(r) \/ CrashRetrier(r)
  BY <1>6, CloneAlreadyRunningEffect, EndRetryEffect, CrashRetrierEffect DEF RetryEnds
<1>. QED BY <1>1, <1>2, <1>3, <1>4, <1>5, <1>6

LEMMA SameJobTable == ASSUME OneLive, OriginalsEnded, job' = job PROVE OneLive' /\ OriginalsEnded'
BY DEF OneLive, OriginalsEnded, Live

LEMMA RetrierCloneStep ==
  ASSUME RetryInv, RetryInv', OneByOne, CloneInv, NEW r \in Retriers,
         (\E j \in JobID : RetryJob(r, j)) \/ RetrierStep(r) \/ CrashRetrier(r)
  PROVE  OneLive' /\ OriginalsEnded' /\ CloneOK(r)'
<1>0. RetrierOK(r) /\ CloneOK(r) /\ OneLive /\ OriginalsEnded
  BY RetrierFacts DEF CloneInv
<1>00. \A j : Live(j) => Exists(job[j])
  BY DEF Live, IsExecutionPending, NonTerminalJobStates, Exists, Absent
<1>1. ASSUME NEW j \in JobID, RetryJob(r, j) PROVE OneLive' /\ OriginalsEnded' /\ CloneOK(r)'
  <2>1. job' = job /\ RetryBegins(r, j) /\ ~Live(j)
    BY <1>1, RetryJobEffect DEF repositoryVars, Live
  <2>2. CloneOK(r)'
    BY <2>1 DEF RetryBegins, CloneOK, Live, Streaming
  <2>. QED BY <1>0, <2>1, <2>2, SameJobTable
<1>2. CASE FindClone(r)
  <2>1. retrier[r].pc = "findClone" /\ job' = job
    BY <1>2, FindCloneEffect DEF repositoryVars
  <2>2. PICK j \in JobID : j = retrier[r].source /\ ~Live(j)
    BY <1>0, <2>1 DEF RetrierOK, CloneOK
  <2>3. CASE RetryEnds(r)
    BY <1>0, <2>1, <2>3, SameJobTable DEF RetryEnds, CloneOK, Streaming
  <2>4. CASE /\ RetryMoves(r, "create")
             /\ \A k \in JobID : job[k].status \in NonTerminalJobStates => job[k].parent # retrier[r].source
    <3>1. CloneOK(r)'
      BY <2>1, <2>2, <2>4 DEF RetryMoves, SameJobs, CloneOK, Live, IsExecutionPending, Streaming
    <3>. QED BY <1>0, <2>1, <3>1, SameJobTable
  <2>5. ASSUME NEW k \in JobID, job[k].status \in NonTerminalJobStates,
               job[k].parent = retrier[r].source, Reuses(r, k)
        PROVE  OneLive' /\ OriginalsEnded' /\ CloneOK(r)'
    <3>1. Live(k) /\ job[k].parent = j
      BY <2>2, <2>5 DEF Live, IsExecutionPending
    <3>2. k # j /\ \A l \in JobID : Live(l) /\ job[l].parent = j => l = k
      BY <1>0, <2>2, <3>1 DEF OneLive
    <3>3. \A l \in JobID : Exists(job[l]) => job[l].parent # k
      BY <1>0, <3>1 DEF OriginalsEnded
    <3>4. CloneOK(r)'
      BY <2>1, <2>2, <2>5, <3>1, <3>2, <3>3 DEF Reuses, CloneOK, Live
    <3>. QED BY <1>0, <2>1, <3>4, SameJobTable
  <2>. QED BY <1>2, <2>3, <2>4, <2>5, FindCloneEffect
<1>3. CASE CreateClone(r)
  <2>1. retrier[r].pc = "create"
    BY <1>3, CreateCloneEffect
  <2>2. PICK j \in JobID : j = retrier[r].source /\ ~Live(j) /\ Exists(job[j])
    BY <1>0, <2>1 DEF RetrierOK, CloneOK
  <2>3. CASE UNCHANGED repositoryVars /\ RetryEnds(r)
    BY <1>0, <2>3, SameJobTable DEF RetryEnds, CloneOK, Streaming, repositoryVars
  <2>4. ASSUME NEW k \in JobID, NEW row \in JobRow, Inserted(k, row, 0), row.status = "PENDING",
               row.parent = retrier[r].source, RetryEnds(r) \/ CreatesClone(r, k)
        PROVE  OneLive' /\ OriginalsEnded' /\ CloneOK(r)'
    <3>1. /\ ~Exists(job[k]) /\ job'[k].parent = j /\ k # j
          /\ \A l \in JobID : l # k => job'[l] = job[l]
      BY <2>2, <2>4 DEF Inserted
    <3>2. \A l \in JobID : l # k => (Live(l)' <=> Live(l)) /\ (Exists(job'[l]) <=> Exists(job[l]))
      BY <3>1 DEF Live
    <3>3. \A l \in JobID : Live(l) => job[l].parent # j
      BY <1>0, <2>1, <2>2 DEF CloneOK
    <3>4. OneLive'
      BY <1>0, <3>1, <3>2, <3>3 DEF OneLive
    <3>5. \A l \in JobID : Exists(job[l]) => job[l].parent # k
      BY <1>0, <3>1 DEF OriginalsEnded
    <3>6. OriginalsEnded'
      <4>. SUFFICES ASSUME NEW l \in JobID, Exists(job'[l]), NEW m \in JobID, m = job'[l].parent
                    PROVE  Exists(job'[m]) /\ ~IsExecutionPending(job'[m].status)
        BY DEF OriginalsEnded, Live
      <4>1. CASE l = k
        BY <2>2, <3>1, <3>2, <4>1 DEF Live
      <4>2. CASE l # k
        <5>1. m = job[l].parent /\ Exists(job[l])
          BY <3>1, <4>2
        <5>2. Exists(job[m]) /\ ~Live(m) /\ m # k
          BY <1>0, <3>5, <5>1 DEF OriginalsEnded
        <5>. QED BY <3>1, <5>2 DEF Live
      <4>. QED BY <4>1, <4>2
    <3>7. CASE RetryEnds(r)
      BY <3>4, <3>6, <3>7 DEF RetryEnds, CloneOK, Streaming
    <3>8. CASE CreatesClone(r, k)
      <4>1. \A l \in JobID : Live(l)' /\ job'[l].parent = j => l = k
        BY <3>1, <3>2, <3>3
      <4>2. \A l \in JobID : Exists(job'[l]) => job'[l].parent # k
        BY <3>1, <3>2, <3>5
      <4>3. CloneOK(r)'
        BY <2>2, <3>1, <3>2, <3>8, <4>1, <4>2 DEF CreatesClone, CloneOK, Live
      <4>. QED BY <3>4, <3>6, <4>3
    <3>. QED BY <2>4, <3>7, <3>8
  <2>. QED BY <1>3, <2>3, <2>4, CreateCloneEffect
<1>4. CASE StartClonedJob(r)
  <2>1. /\ retrier[r].pc = "start"
        /\ RetryEnds(r) \/ RetryMoves(r, "finalize")
        /\ Updated /\ (job' = job \/ SetsStatus(retrier[r].clone, "RUNNING"))
    BY <1>4, StartClonedEffect
  <2>2. CloneOK(r)'
    BY <2>1 DEF RetryEnds, RetryMoves, CloneOK, Streaming
  <2>3. PICK k \in JobID : k = retrier[r].clone
    BY <1>0, <2>1 DEF RetrierOK, OnClone, Streaming
  <2>4. PICK j \in JobID : j = retrier[r].source
    BY <1>0, <2>1 DEF RetrierOK
  <2>5. /\ k # j /\ job[k].parent = j /\ \A l \in JobID : Live(l) /\ job[l].parent = j => l = k
        /\ \A l \in JobID : Exists(job[l]) => job[l].parent # k
    BY <1>0, <2>1, <2>3, <2>4 DEF CloneOK, Streaming
  <2>6. \A l \in JobID : (Exists(job'[l]) <=> Exists(job[l])) /\ job'[l].parent = job[l].parent
    BY <2>1 DEF Updated
  <2>7. \A l \in JobID : l # k => (Live(l)' <=> Live(l))
    BY <2>1, <2>3 DEF SetsStatus, Live
  <2>8. OneLive'
    BY <1>0, <2>5, <2>6, <2>7 DEF OneLive
  <2>9. OriginalsEnded'
    <3>. SUFFICES ASSUME NEW l \in JobID, Exists(job'[l]), NEW m \in JobID, m = job'[l].parent
                  PROVE  Exists(job'[m]) /\ ~IsExecutionPending(job'[m].status)
      BY DEF OriginalsEnded, Live
    <3>1. m = job[l].parent /\ m # k /\ Exists(job[m]) /\ ~Live(m)
      BY <1>0, <2>5, <2>6 DEF OriginalsEnded
    <3>. QED BY <2>6, <2>7, <3>1 DEF Live
  <2>. QED BY <2>2, <2>8, <2>9
<1>5. CASE Carries(r)
  <2>1. CloneOK(r)'
    BY <1>0, <1>5 DEF Carries, CloneOK, Live, Streaming
  <2>. QED BY <1>0, <1>5, <2>1, SameJobTable DEF Carries
<1>. QED BY <1>1, <1>2, <1>3, <1>4, <1>5, CarriesSteps DEF RetrierStep

LEMMA EndsRunsClones == ASSUME RetryInv, CloneInv, EndsRuns PROVE CloneInv'
<1>1. \A k \in JobID : /\ Live(k)' => Live(k) /\ job'[k].parent = job[k].parent
                       /\ job'[k].parent = job[k].parent /\ (Exists(job'[k]) <=> Exists(job[k]))
  BY DEF EndsRuns, Updated, Live
<1>2. OneLive'
  BY <1>1 DEF CloneInv, OneLive
<1>3. OriginalsEnded'
  <2>. SUFFICES ASSUME NEW l \in JobID, Exists(job'[l]), NEW m \in JobID, m = job'[l].parent
                PROVE  Exists(job'[m]) /\ ~IsExecutionPending(job'[m].status)
    BY DEF OriginalsEnded, Live
  <2>. QED BY <1>1 DEF CloneInv, OriginalsEnded, Live
<1>4. ASSUME NEW r \in Retriers PROVE CloneOK(r)'
  <2>1. retrier' = retrier /\ CloneOK(r) /\ RetrierOK(r)
    BY RetrierFacts DEF EndsRuns, CloneInv
  <2>2. CASE retrier[r].pc \in Streaming \cup {"findClone", "create"}
    <3>1. PICK j \in JobID : j = retrier[r].source
      BY <2>1, <2>2 DEF RetrierOK, Streaming
    <3>2. ~Live(j)'
      BY <1>1, <2>1, <2>2, <3>1 DEF CloneOK
    <3>3. retrier[r].pc = "create" => \A k \in JobID : Live(k)' => job'[k].parent # j
      BY <1>1, <2>1, <3>1 DEF CloneOK
    <3>4. CASE retrier[r].pc \in Streaming
      <4>1. PICK k \in JobID : k = retrier[r].clone
        BY <2>1, <3>4 DEF RetrierOK, OnClone
      <4>2. /\ k # j /\ job'[k].parent = j
            /\ \A l \in JobID : Live(l)' /\ job'[l].parent = j => l = k
            /\ \A l \in JobID : Exists(job'[l]) => job'[l].parent # k
        BY <1>1, <2>1, <3>1, <3>4, <4>1 DEF CloneOK
      <4>. QED BY <2>1, <3>1, <3>2, <3>3, <4>1, <4>2 DEF CloneOK, Live
    <3>5. CASE retrier[r].pc \notin Streaming
      BY <2>1, <3>1, <3>2, <3>3, <3>5 DEF CloneOK, Live
    <3>. QED BY <3>4, <3>5
  <2>3. CASE retrier[r].pc \notin Streaming \cup {"findClone", "create"}
    BY <2>1, <2>3 DEF CloneOK
  <2>. QED BY <2>2, <2>3
<1>. QED BY <1>2, <1>3, <1>4 DEF CloneInv

LEMMA CloneStep == ASSUME RetryInv, RetryInv', OneByOne, CloneInv, [Next]_vars PROVE CloneInv'
<1>1. CASE EndsRuns
  BY <1>1, EndsRunsClones
<1>2. ASSUME NEW r \in Retriers,
             (\E j \in JobID : RetryJob(r, j)) \/ RetrierStep(r) \/ CrashRetrier(r)
      PROVE  CloneInv'
  <2>1. OneLive' /\ OriginalsEnded' /\ CloneOK(r)'
    BY <1>2, RetrierCloneStep
  <2>. QED BY <2>1, OnlyRetrier DEF CloneInv
<1>. QED BY <1>1, <1>2, Steps

LEMMA CloneInvariant == Spec => [](OneByOne => CloneInv)
<1>1. Init => (OneByOne => CloneInv)
  <2>. SUFFICES ASSUME Init PROVE CloneInv
    OBVIOUS
  <2>1. \A j \in JobID : ~Live(j) /\ job[j].parent \notin JobID
    BY InitRows DEF Live, IsExecutionPending, NonTerminalJobStates, TerminalOutcomes, Absent,
                    NoParent, JobID
  <2>. QED BY <2>1, InitIdle DEF CloneInv, OneLive, OriginalsEnded, CloneOK, Streaming
<1>2. RetryInv /\ RetryInv' /\ (OneByOne => CloneInv) /\ [Next]_vars => (OneByOne => CloneInv)'
  BY CloneStep DEF OneByOne
<1>. QED BY <1>1, <1>2, TypeInvariant, PTL DEF Spec

\* Calls one by one, which may crash and be repeated, never leave two live
\* clones of one job.
THEOREM OneLiveCloneHolds == Spec => []OneLiveClone
<1>1. (OneByOne => CloneInv) => OneLiveClone
  BY DEF OneLiveClone, CloneInv, OneLive, Live, Clones
<1>. QED BY <1>1, CloneInvariant, PTL

-----------------------------------------------------------------------------
(* EveryPageCloned *)

\* The tasks of the original that the retry selects, and those of the clone.
Chosen(r, j) == {t \in TasksOf(j) : task[t].status \in retryStatuses(FullRetry[r])}
Cloned(t, k) == Exists(task[<<k, t[2]>>])
Covers(r, j, k) == \A t \in Chosen(r, j) : Cloned(t, k)

\* How far a retrier has cloned: every selected task up to its cursor, and all
\* after the last page.
PageOK(r) ==
  ~retrier[r].reuse =>
    \A t \in Chosen(r, retrier[r].source) :
      /\ retrier[r].pc = "read" /\ t[2] <= retrier[r].afterSeq => Cloned(t, retrier[r].clone)
      /\ retrier[r].pc = "insert" /\ (retrier[r].last \/ t[2] <= retrier[r].afterSeq) =>
           Cloned(t, retrier[r].clone) \/ <<retrier[r].clone, t[2]>> \in retrier[r].batch
      /\ retrier[r].pc = "publish" /\ (retrier[r].last \/ t[2] <= retrier[r].afterSeq) =>
           Cloned(t, retrier[r].clone)
      /\ retrier[r].pc = "start" => Cloned(t, retrier[r].clone)

\* A retrier that created the clone is at work on it.
Streamed(k) ==
  \E r \in Retriers : retrier[r].pc \in Streaming /\ ~retrier[r].reuse /\ retrier[r].clone = k

ClonesComplete ==
  \A j, k \in JobID : Exists(job[k]) /\ job[k].parent = j =>
    Streamed(k) \/ \E r \in Retriers : Covers(r, j, k)

PageInv == ClonesComplete /\ \A r \in Retriers : PageOK(r)

\* No task is removed, no row either, and the tasks of a job that has ended
\* change only at the hands of a retrier that fills it.
Keeps(j) == \A t \in TaskID : t[1] = j => task'[t] = task[t]

KeepsEnded ==
  /\ \A t \in TaskID : Exists(task[t]) => Exists(task'[t])
  /\ \A j \in JobID : Exists(job[j]) => Exists(job'[j]) /\ job'[j].parent = job[j].parent
  /\ \A j \in JobID : /\ Exists(job[j]) /\ ~Live(j)
                      /\ \A r \in Retriers : retrier[r].pc = "insert" => retrier[r].clone # j
                      => Keeps(j)

LEMMA SameRowsKept == ASSUME UNCHANGED repositoryVars PROVE KeepsEnded
BY DEF repositoryVars, KeepsEnded, Keeps

LEMMA KeepsEndedStep == ASSUME RetryInv, [Next]_vars PROVE KeepsEnded
<1>1. CASE EndsRuns
  BY <1>1, TaskBelongs DEF EndsRuns, Updated, KeepsEnded, Keeps, Live
<1>2. ASSUME NEW r \in Retriers,
             (\E j \in JobID : RetryJob(r, j)) \/ RetrierStep(r) \/ CrashRetrier(r)
      PROVE  KeepsEnded
  <2>1. CASE InsertClones(r)
    <3>1. /\ retrier[r].pc = "insert" /\ job' = job
          /\ Filled(retrier[r].batch) \/ task' = task
      BY <2>1, InsertEffect
    <3>2. \A t \in retrier[r].batch : t[1] = retrier[r].clone
      BY <3>1, RetrierFacts DEF RetrierOK
    <3>3. /\ \A t \in TaskID : Exists(task[t]) => Exists(task'[t])
          /\ \A t \in TaskID : t[1] # retrier[r].clone => task'[t] = task[t]
      BY <3>1, <3>2 DEF Filled
    <3>. QED BY <3>1, <3>3 DEF KeepsEnded, Keeps
  <2>2. CASE CreateClone(r)
    <3>1. \/ UNCHANGED repositoryVars
          \/ \E k \in JobID : \E row \in JobRow : Inserted(k, row, 0) /\ row.status = "PENDING"
      BY <2>2, CreateCloneEffect
    <3>2. ASSUME NEW k \in JobID, NEW row \in JobRow, Inserted(k, row, 0) PROVE KeepsEnded
      <4>1. /\ ~Exists(job[k]) /\ \A j \in JobID : j # k => job'[j] = job[j]
            /\ \A t \in TaskID : t[1] # k => task'[t] = task[t]
            /\ \A t \in TaskID : t[1] = k => ~Exists(task[t])
        BY <3>2 DEF Inserted
      <4>. QED BY <4>1 DEF KeepsEnded, Keeps
    <3>. QED BY <3>1, <3>2, SameRowsKept
  <2>3. CASE StartClonedJob(r)
    BY <2>3, StartClonedEffect DEF Updated, KeepsEnded, Keeps
  <2>4. CASE UNCHANGED repositoryVars
    BY <2>4, SameRowsKept
  <2>5. \/ InsertClones(r) \/ CreateClone(r) \/ StartClonedJob(r) \/ UNCHANGED repositoryVars
    BY <1>2, RetryJobEffect, FindCloneEffect, ReadSourceEffect, ReadCloneEffect, PublishCloneEffect,
       CountEffect, CloneAlreadyRunningEffect, EndRetryEffect, CrashRetrierEffect DEF RetrierStep
  <2>. QED BY <2>1, <2>2, <2>3, <2>4, <2>5
<1>. QED BY <1>1, <1>2, Steps

LEMMA ChosenKept ==
  ASSUME NEW r, NEW j, Keeps(j)
  PROVE  Chosen(r, j)' = Chosen(r, j)
BY DEF Keeps, Chosen, TasksOf

LEMMA ClonedKept ==
  ASSUME KeepsEnded, NEW k \in JobID, NEW t \in TaskID, Cloned(t, k)
  PROVE  Cloned(t, k)'
<1>1. <<k, t[2]>> \in TaskID
  BY TaskBelongs DEF TaskID
<1>. QED BY <1>1 DEF KeepsEnded, Cloned

LEMMA CoversKept ==
  ASSUME KeepsEnded, NEW r, NEW j \in JobID, NEW k \in JobID, Keeps(j), Covers(r, j, k)
  PROVE  Covers(r, j, k)'
<1>1. Chosen(r, j)' = Chosen(r, j) /\ Chosen(r, j) \subseteq TaskID
  BY ChosenKept DEF Chosen, TasksOf
<1>. QED BY <1>1, ClonedKept DEF Covers

\* The original of a streaming retrier keeps its tasks.
LEMMA SourceKept ==
  ASSUME RetryInv, OneByOne, CloneInv, KeepsEnded, NEW r \in Retriers, retrier[r].pc \in Streaming
  PROVE  \E j, k \in JobID : /\ j = retrier[r].source /\ k = retrier[r].clone
                             /\ j # k /\ Keeps(j) /\ job[k].parent = j /\ Exists(job[k])
<1>1. PICK j \in JobID : j = retrier[r].source
  BY RetrierFacts DEF RetrierOK, Streaming
<1>2. PICK k \in JobID : k = retrier[r].clone
  BY RetrierFacts DEF RetrierOK, OnClone
<1>3. j # k /\ ~Live(j) /\ Exists(job[j]) /\ job[k].parent = j /\ Exists(job[k])
  BY <1>1, <1>2, RetrierFacts DEF CloneInv, CloneOK, RetrierOK, Streaming, OnClone
<1>4. \A q \in Retriers : retrier[q].pc = "insert" => retrier[q].clone # j
  BY <1>2, <1>3, OnlyRetrier
<1>. QED BY <1>1, <1>2, <1>3, <1>4 DEF KeepsEnded

\* While nothing fails, a call goes on until it starts the clone.
LEMMA StreamsOn ==
  ASSUME RetryInv, NEW r \in Retriers, retrier[r].pc \in Streaming, retrier[r].pc # "start", ~Fails,
         (\E j \in JobID : RetryJob(r, j)) \/ RetrierStep(r) \/ CrashRetrier(r)
  PROVE  SameJobs(r) /\ retrier'[r].pc \in Streaming
<1>. USE DEF Streaming
<1>1. ~(\E j \in JobID : RetryJob(r, j))
  BY DEF RetryJob, RetryAt
<1>2. ~FindClone(r) /\ ~CreateClone(r) /\ ~CloneAlreadyRunning(r) /\ ~StartClonedJob(r) /\ ~EndRetry(r)
  BY DEF FindClone, CreateClone, CloneAlreadyRunning, StartClonedJob, EndRetry, RetryAt
<1>3. CASE ReadSource(r)
  BY <1>3, ReadSourceEffect DEF RetryMoves, TurnsPage
<1>4. CASE InsertClones(r)
  BY <1>4, InsertEffect DEF RetryMoves
<1>5. CASE ReadClone(r)
  BY <1>5, ReadCloneEffect DEF RetryMoves, TurnsPage
<1>6. CASE PublishClone(r)
  BY <1>6, PublishCloneEffect DEF PublishesOne
<1>7. CASE CountClone(r)
  BY <1>7, CountEffect DEF RetryMoves
<1>8. CASE CrashRetrier(r)
  BY <1>8, CrashRetrierEffect
<1>. QED BY <1>1, <1>2, <1>3, <1>4, <1>5, <1>6, <1>7, <1>8 DEF RetrierStep

\* PageOK of the next state, for the two jobs of the call.
LEMMA NextPage ==
  ASSUME NEW r, NEW j, NEW k, retrier'[r].source = j, retrier'[r].clone = k,
         \A t \in Chosen(r, j)' :
           /\ retrier'[r].pc = "read" /\ t[2] <= retrier'[r].afterSeq => Cloned(t, k)'
           /\ retrier'[r].pc = "insert" /\ (retrier'[r].last \/ t[2] <= retrier'[r].afterSeq) =>
                Cloned(t, k)' \/ <<k, t[2]>> \in retrier'[r].batch
           /\ retrier'[r].pc = "publish" /\ (retrier'[r].last \/ t[2] <= retrier'[r].afterSeq) =>
                Cloned(t, k)'
           /\ retrier'[r].pc = "start" => Cloned(t, k)'
  PROVE  PageOK(r)'
BY DEF PageOK, Chosen, TasksOf, Cloned

LEMMA RetrierPageStep ==
  ASSUME RetryInv, OneByOne, CloneInv, KeepsEnded, NEW r \in Retriers, PageOK(r), ~Fails,
         (\E j \in JobID : RetryJob(r, j)) \/ RetrierStep(r) \/ CrashRetrier(r)
  PROVE  PageOK(r)'
<1>0. RetrierOK(r) /\ retrier[r] \in RetrierState
  BY RetrierFacts
<1>00. \A t \in TaskID : t[2] \in Nat
  BY TaskBelongs, RepositoryAssumption
<1>1. CASE retrier'[r].reuse \/ retrier'[r].pc \notin {"read", "insert", "publish", "start"}
  BY <1>1 DEF PageOK
<1>2. ASSUME retrier[r].pc \in Streaming, ~retrier[r].reuse, SameJobs(r),
             NEW j \in JobID, NEW k \in JobID, j = retrier[r].source, k = retrier[r].clone, Keeps(j),
             retrier[r].pc \in {"read", "insert", "publish"}
      PROVE  PageOK(r)'
  <2>1. /\ retrier'[r].source = j /\ retrier'[r].clone = k
        /\ Chosen(r, j)' = Chosen(r, j) /\ Chosen(r, j) \subseteq TaskID
    BY <1>2, ChosenKept DEF SameJobs, Chosen, TasksOf
  <2>2. \A t \in Chosen(r, j) : Cloned(t, k) => Cloned(t, k)'
    BY <1>2, <2>1, ClonedKept
  <2>3. CASE ReadSource(r)
    <3>1. retrier[r].pc = "read" /\ retrier[r].afterSeq \in Int
      BY <1>0, <2>3, ReadSourceEffect DEF RetrierState
    <3>2. \A t \in Chosen(r, j) : t[2] <= retrier[r].afterSeq => Cloned(t, k)
      BY <1>2, <3>1 DEF PageOK
    <3>3. \A t \in Chosen(r, j) : t[2] <= retrier[r].afterSeq \/ t \in SourceRows(r)
      <4>1. \A t \in Chosen(r, j) : t[2] <= retrier[r].afterSeq \/ t[2] > retrier[r].afterSeq
        BY <1>00, <2>1, <3>1
      <4>. QED BY <1>2, <4>1 DEF SourceRows, PageRows, Chosen
    <3>4. CASE RetryMoves(r, "start") /\ SourceRows(r) = {}
      <4>1. \A t \in Chosen(r, j) : Cloned(t, k)'
        BY <2>2, <3>2, <3>3, <3>4
      <4>2. retrier'[r].pc = "start"
        BY <3>4 DEF RetryMoves
      <4>. QED BY <2>1, <4>1, <4>2, NextPage
    <3>5. ASSUME NEW page \in SUBSET TaskID, TurnsPage(r, SourceRows(r), page, "insert"),
                 retrier'[r].batch = {<<retrier[r].clone, t[2]>> : t \in page}
          PROVE  PageOK(r)'
      <4>1. retrier'[r].pc = "insert" /\ \A t \in page : <<k, t[2]>> \in retrier'[r].batch
        BY <1>2, <3>5 DEF TurnsPage
      <4>2. \A t \in Chosen(r, j) : retrier'[r].last \/ t[2] <= retrier'[r].afterSeq =>
              Cloned(t, k)' \/ t \in page
        BY <2>2, <3>2, <3>3, <3>5 DEF TurnsPage
      <4>. QED BY <2>1, <4>1, <4>2, NextPage
    <3>. QED BY <2>3, <3>4, <3>5, ReadSourceEffect DEF RetryEnds
  <2>4. CASE InsertClones(r)
    <3>1. retrier[r].pc = "insert" /\ Filled(retrier[r].batch) /\ RetryMoves(r, "publish")
      BY <2>4, InsertEffect
    <3>2. /\ retrier'[r].pc = "publish" /\ retrier'[r].afterSeq = retrier[r].afterSeq
          /\ retrier'[r].last = retrier[r].last
      BY <3>1 DEF RetryMoves
    <3>3. \A t \in Chosen(r, j) : retrier[r].last \/ t[2] <= retrier[r].afterSeq =>
            Cloned(t, k) \/ <<k, t[2]>> \in retrier[r].batch
      BY <1>2, <3>1 DEF PageOK
    <3>4. \A t \in TaskID : <<k, t[2]>> \in retrier[r].batch => Cloned(t, k)'
      BY <1>0, <3>1 DEF Filled, Cloned, RetrierState
    <3>. QED BY <2>1, <2>2, <3>2, <3>3, <3>4, NextPage
  <2>5. CASE PublishClone(r)
    <3>1. PICK t \in TaskID : retrier[r].pc = "publish" /\ PublishesOne(r, t)
      BY <2>5, PublishCloneEffect
    <3>2. /\ retrier'[r].afterSeq = retrier[r].afterSeq /\ (retrier'[r].last <=> retrier[r].last)
          /\ \/ retrier'[r].pc \in {"publish", "read"}
             \/ retrier'[r].pc = "start" /\ retrier[r].last
      BY <1>2, <3>1 DEF PublishesOne
    <3>3. \A u \in Chosen(r, j) : retrier[r].last \/ u[2] <= retrier[r].afterSeq => Cloned(u, k)'
      BY <1>2, <2>2, <3>1 DEF PageOK
    <3>. QED BY <2>1, <3>2, <3>3, NextPage
  <2>6. ~CrashRetrier(r)
    BY CrashRetrierEffect
  <2>7. RetrierStep(r)
    BY <1>2, <2>6 DEF RetryJob, RetryAt
  <2>. QED BY <1>2, <2>3, <2>4, <2>5, <2>7
       DEF RetrierStep, FindClone, CreateClone, ReadClone, CountClone, CloneAlreadyRunning,
           StartClonedJob, EndRetry, RetryAt
<1>3. CASE retrier[r].pc \in {"read", "insert", "publish"} /\ ~retrier[r].reuse
  <2>1. retrier[r].pc \in Streaming /\ retrier[r].pc # "start"
    BY <1>3 DEF Streaming
  <2>2. SameJobs(r)
    BY <2>1, StreamsOn
  <2>. QED BY <1>2, <1>3, <2>1, <2>2, SourceKept
<1>4. CASE retrier[r].pc \in Streaming /\ retrier[r].reuse /\ retrier[r].pc # "start"
  BY <1>1, <1>4, StreamsOn DEF SameJobs
<1>5. CASE retrier[r].pc = "start"
  <2>1. RetryEnds(r) \/ RetryMoves(r, "finalize")
    <3>1. ~CrashRetrier(r) /\ RetrierStep(r)
      BY <1>5, CrashRetrierEffect DEF RetryJob, RetryAt
    <3>2. CloneAlreadyRunning(r) \/ StartClonedJob(r)
      BY <1>5, <3>1 DEF RetrierStep, FindClone, CreateClone, ReadSource, InsertClones, ReadClone,
                        PublishClone, CountClone, EndRetry, RetryAt
    <3>. QED BY <3>2, CloneAlreadyRunningEffect, StartClonedEffect
  <2>. QED BY <1>1, <2>1 DEF RetryEnds, RetryMoves
<1>6. CASE retrier[r].pc = "create"
  <2>1. CreateClone(r)
    BY <1>6, CrashRetrierEffect DEF RetryJob, RetrierStep, FindClone, CloneAlreadyRunning, ReadSource, InsertClones,
       ReadClone, PublishClone, CountClone, StartClonedJob, EndRetry, RetryAt
  <2>2. RetryEnds(r) \/ \E k \in JobID : CreatesClone(r, k)
    BY <2>1, CreateCloneEffect
  <2>3. ASSUME NEW k \in JobID, CreatesClone(r, k) PROVE PageOK(r)'
    <3>1. PICK j : j = retrier'[r].source
      OBVIOUS
    <3>2. retrier'[r].pc = "read" /\ retrier'[r].clone = k /\ retrier'[r].afterSeq = -1
      BY <1>0, <1>6, <2>3 DEF CreatesClone, RetrierOK
    <3>3. \A t \in Chosen(r, j)' : ~(t[2] <= -1)
      <4>1. \A t \in Chosen(r, j)' : t \in TaskID
        BY DEF Chosen, TasksOf
      <4>. QED BY <1>00, <4>1
    <3>. QED BY <3>1, <3>2, <3>3, NextPage
  <2>. QED BY <1>1, <2>2, <2>3 DEF RetryEnds
<1>7. CASE retrier[r].pc \in {"idle", "findClone", "finalize"}
  <2>1. (\E j \in JobID : RetryJob(r, j)) \/ FindClone(r) \/ EndRetry(r)
    BY <1>7, CrashRetrierEffect DEF RetrierStep, CreateClone, CloneAlreadyRunning, ReadSource,
       InsertClones, ReadClone, PublishClone, CountClone, StartClonedJob, RetryAt
  <2>2. (\E j \in JobID : RetryJob(r, j)) => retrier'[r].pc = "findClone"
    BY RetryJobEffect DEF RetryBegins
  <2>3. FindClone(r) => retrier'[r].pc \in {"idle", "create", "reread"}
    BY FindCloneEffect DEF RetryEnds, RetryMoves, Reuses
  <2>4. EndRetry(r) => retrier'[r].pc = "idle"
    BY EndRetryEffect DEF RetryEnds
  <2>. QED BY <1>1, <2>1, <2>2, <2>3, <2>4
<1>8. retrier[r].pc \in Streaming \cup {"idle", "findClone", "create", "finalize"}
  BY <1>0 DEF RetrierState, RetrierPC, Streaming
<1>. QED BY <1>0, <1>3, <1>4, <1>5, <1>6, <1>7, <1>8 DEF Streaming, RetrierOK

\* A clone that was complete stays so: the original has ended and is filled by
\* nobody.
LEMMA CompleteKept ==
  ASSUME RetryInv, CloneInv, KeepsEnded, NEW j \in JobID, NEW k \in JobID,
         Exists(job[k]), job[k].parent = j, NEW r \in Retriers, Covers(r, j, k)
  PROVE  Covers(r, j, k)'
<1>1. Exists(job[j]) /\ ~Live(j)
  BY DEF CloneInv, OriginalsEnded
<1>2. \A q \in Retriers : retrier[q].pc = "insert" => retrier[q].clone # j
  BY DEF CloneInv, CloneOK, Streaming
<1>. QED BY <1>1, <1>2, CoversKept DEF KeepsEnded

\* At the last place the clone is complete.
LEMMA StartCovers ==
  ASSUME NEW r \in Retriers, PageOK(r), CloneOK(r), retrier[r].pc = "start", ~retrier[r].reuse,
         NEW j \in JobID, NEW k \in JobID, retrier[r].clone = k, job[k].parent = j
  PROVE  Covers(r, j, k)
<1>1. retrier[r].source = j
  BY DEF CloneOK, Streaming
<1>. QED BY <1>1 DEF PageOK, Covers

LEMMA RetrierCompleteStep ==
  ASSUME RetryInv, OneByOne, CloneInv, KeepsEnded, PageInv, NEW r \in Retriers, ~Fails,
         (\E j \in JobID : RetryJob(r, j)) \/ RetrierStep(r) \/ CrashRetrier(r)
  PROVE  ClonesComplete'
<1>. SUFFICES ASSUME NEW j \in JobID, NEW k \in JobID, Exists(job'[k]), job'[k].parent = j
              PROVE  Streamed(k)' \/ \E q \in Retriers : Covers(q, j, k)'
  BY DEF ClonesComplete
<1>1. CASE Exists(job[k])
  <2>1. job[k].parent = j
    BY <1>1 DEF KeepsEnded
  <2>2. ASSUME NEW q \in Retriers, Covers(q, j, k) PROVE \E s \in Retriers : Covers(s, j, k)'
    BY <1>1, <2>1, <2>2, CompleteKept
  <2>3. CASE Streamed(k)
    <3>1. retrier[r].pc \in Streaming /\ ~retrier[r].reuse /\ retrier[r].clone = k
      BY <2>3, OnlyRetrier DEF Streamed
    <3>2. CASE retrier[r].pc = "start"
      BY <2>1, <2>2, <3>1, <3>2, StartCovers DEF PageInv, CloneInv
    <3>3. CASE retrier[r].pc # "start"
      <4>1. SameJobs(r) /\ retrier'[r].pc \in Streaming
        BY <3>1, <3>3, StreamsOn
      <4>. QED BY <3>1, <4>1 DEF SameJobs, Streamed
    <3>. QED BY <3>2, <3>3
  <2>. QED BY <1>1, <2>1, <2>2, <2>3 DEF PageInv, ClonesComplete
<1>2. CASE ~Exists(job[k])
  <2>1. CreateClone(r)
    <3>1. ASSUME ~CreateClone(r) PROVE Exists(job'[k]) <=> Exists(job[k])
      <4>1. CASE \E i \in JobID : RetryJob(r, i)
        BY <4>1, RetryJobEffect DEF repositoryVars
      <4>2. CASE FindClone(r)
        BY <4>2, FindCloneEffect DEF repositoryVars
      <4>3. CASE StartClonedJob(r)
        BY <4>3, StartClonedEffect DEF Updated
      <4>4. CASE Carries(r)
        BY <4>4 DEF Carries
      <4>. QED BY <3>1, <4>1, <4>2, <4>3, <4>4, CarriesSteps DEF RetrierStep
    <3>. QED BY <1>2, <3>1
  <2>2. PICK i \in JobID : \E row \in JobRow : Inserted(i, row, 0) /\ CreatesClone(r, i)
    <3>1. ~UNCHANGED repositoryVars
      BY <1>2 DEF repositoryVars
    <3>. QED BY <2>1, <3>1, CreateCloneEffect
  <2>3. i = k
    BY <1>2, <2>2 DEF Inserted
  <2>4. ~retrier[r].reuse
    BY <2>1, CreateCloneEffect, RetrierFacts DEF RetrierOK
  <2>5. Streamed(k)'
    BY <2>2, <2>3, <2>4 DEF CreatesClone, Streamed, Streaming
  <2>. QED BY <2>5
<1>. QED BY <1>1, <1>2

LEMMA EndsRunsPages ==
  ASSUME RetryInv, OneByOne, CloneInv, KeepsEnded, PageInv, EndsRuns
  PROVE  PageInv'
<1>0. retrier' = retrier
  BY DEF EndsRuns
<1>1. ClonesComplete'
  <2>. SUFFICES ASSUME NEW j \in JobID, NEW k \in JobID, Exists(job'[k]), job'[k].parent = j
                PROVE  Streamed(k)' \/ \E q \in Retriers : Covers(q, j, k)'
    BY DEF ClonesComplete
  <2>1. Exists(job[k]) /\ job[k].parent = j
    BY DEF EndsRuns, Updated
  <2>2. Streamed(k) => Streamed(k)'
    BY <1>0 DEF Streamed
  <2>3. ASSUME NEW q \in Retriers, Covers(q, j, k) PROVE \E s \in Retriers : Covers(s, j, k)'
    BY <2>1, <2>3, CompleteKept
  <2>. QED BY <2>1, <2>2, <2>3 DEF PageInv, ClonesComplete
<1>2. ASSUME NEW r \in Retriers PROVE PageOK(r)'
  <2>1. CASE retrier[r].pc \notin Streaming
    BY <1>0, <2>1 DEF PageOK, Streaming
  <2>2. CASE retrier[r].pc \in Streaming
    <3>1. PICK j, k \in JobID : j = retrier[r].source /\ k = retrier[r].clone /\ Keeps(j)
      BY <2>2, SourceKept
    <3>2. Chosen(r, j)' = Chosen(r, j) /\ Chosen(r, j) \subseteq TaskID
      BY <3>1, ChosenKept DEF Chosen, TasksOf
    <3>3. \A t \in Chosen(r, j) : Cloned(t, k) => Cloned(t, k)'
      BY <3>2, ClonedKept
    <3>4. CASE retrier[r].reuse
      BY <1>0, <3>4 DEF PageOK
    <3>5. CASE ~retrier[r].reuse
      <4>1. \A t \in Chosen(r, j) :
              /\ retrier[r].pc = "read" /\ t[2] <= retrier[r].afterSeq => Cloned(t, k)
              /\ retrier[r].pc = "insert" /\ (retrier[r].last \/ t[2] <= retrier[r].afterSeq) =>
                   Cloned(t, k) \/ <<k, t[2]>> \in retrier[r].batch
              /\ retrier[r].pc = "publish" /\ (retrier[r].last \/ t[2] <= retrier[r].afterSeq) =>
                   Cloned(t, k)
              /\ retrier[r].pc = "start" => Cloned(t, k)
        BY <3>1, <3>5 DEF PageInv, PageOK
      <4>. QED BY <1>0, <3>1, <3>2, <3>3, <4>1, NextPage
    <3>. QED BY <3>4, <3>5
  <2>. QED BY <2>1, <2>2
<1>. QED BY <1>1, <1>2 DEF PageInv

NoFaults == OneByOne /\ Never("error") /\ Never("crash")

LEMMA PageStep ==
  ASSUME RetryInv, OneByOne => CloneInv, NoFaults => PageInv, NoFaults', [Next]_vars
  PROVE  PageInv'
<1>1. OneByOne /\ ~Fails
  BY DEF NoFaults, OneByOne, Fails
<1>2. CloneInv /\ KeepsEnded
  BY <1>1, KeepsEndedStep
<1>3. CASE EndsRuns
  <2>1. NoFaults
    BY <1>1, <1>3 DEF EndsRuns, NoFaults, FaultKind
  <2>. QED BY <1>1, <1>2, <1>3, <2>1, EndsRunsPages
<1>4. ASSUME NEW r \in Retriers,
             (\E j \in JobID : RetryJob(r, j)) \/ RetrierStep(r) \/ CrashRetrier(r)
      PROVE  PageInv'
  <2>1. NoFaults
    BY <1>1, <1>4, RetrierFaults DEF NoFaults, FaultKind
  <2>2. PageOK(r)'
    BY <1>1, <1>2, <1>4, <2>1, RetrierPageStep DEF PageInv
  <2>3. ClonesComplete'
    BY <1>1, <1>2, <1>4, <2>1, RetrierCompleteStep
  <2>. QED BY <1>1, <2>2, <2>3, OnlyRetrier DEF PageInv
<1>. QED BY <1>3, <1>4, Steps

\* The page cursor neither skips a task nor stops early: with no fault on the
\* way, a clone that runs has every task that the retry selected, whatever the
\* number of tasks and the page size.
THEOREM EveryPageClonedHolds == Spec => []EveryPageCloned
<1>1. Init => (NoFaults => PageInv)
  <2>. SUFFICES ASSUME Init PROVE PageInv
    OBVIOUS
  <2>1. \A j \in JobID : job[j].parent \notin JobID
    BY InitRows DEF NoParent, JobID
  <2>. QED BY <2>1, InitIdle DEF PageInv, ClonesComplete, PageOK
<1>2. RetryInv /\ (OneByOne => CloneInv) /\ (NoFaults => PageInv) /\ [Next]_vars =>
        (NoFaults => PageInv)'
  BY PageStep
<1>3. (NoFaults => PageInv) /\ (OneByOne => PublishInv) => EveryPageCloned
  <2>. SUFFICES ASSUME NoFaults, PageInv, PublishInv, NEW j \in JobID, NEW k \in Clones(j),
                       job[k].status = "RUNNING"
                PROVE  \E r \in Retriers : Selected(r, j) \subseteq {t[2] : t \in TasksOf(k)}
    BY DEF EveryPageCloned, CloneIsComplete, NoFaults
  <2>1. k \in JobID /\ Exists(job[k]) /\ job[k].parent = j
    BY DEF Clones
  <2>2. ~Streamed(k)
    BY DEF Streamed, PublishInv, PublishOK
  <2>3. PICK r \in Retriers : Covers(r, j, k)
    BY <2>1, <2>2 DEF PageInv, ClonesComplete
  <2>4. ASSUME NEW t \in Chosen(r, j) PROVE t[2] \in {u[2] : u \in TasksOf(k)}
    <3>1. t \in TaskID /\ Cloned(t, k)
      BY <2>3 DEF Covers, Chosen, TasksOf
    <3>2. <<k, t[2]>> \in TasksOf(k)
      BY <2>1, <3>1, TaskBelongs DEF TasksOf, TaskID, Cloned
    <3>3. <<k, t[2]>>[2] = t[2]
      OBVIOUS
    <3>. QED BY <3>2, <3>3
  <2>. QED BY <2>4 DEF Selected, Chosen
<1>. QED BY <1>1, <1>2, <1>3, TypeInvariant, CloneInvariant, PublishInvariant, PTL DEF Spec

-----------------------------------------------------------------------------
(* ClonedOnce *)

LEMMA FillInvariant == Spec => []FillInv
<1>1. Init => FillInv
  BY InitIdle DEF FillInv, Filling
<1>2. ASSUME RetryInv, FillInv, [Next]_vars PROVE FillInv'
  <2>1. CASE EndsRuns
    BY <1>2, <2>1, KeepingTasks, FillKept DEF EndsRuns
  <2>. QED BY <1>2, <2>1, Steps, RetrierFillStep
<1>. QED BY <1>1, <1>2, TypeInvariant, PTL DEF Spec

\* streamCloneAndPublish never inserts a clone of a task twice: its cursor
\* passes every task it has read, and only the call that created a clone
\* inserts into it.
THEOREM ClonedOnceHolds == Spec => []ClonedOnce
<1>1. ASSUME RetryInv, FillInv PROVE ClonedOnce
  <2>1. ASSUME NEW r \in Retriers, retrier[r].pc = "insert", NEW t \in retrier[r].batch, Exists(task[t])
        PROVE  FALSE
    <3>1. Ahead(r) /\ RetrierOK(r) /\ retrier[r] \in RetrierState
      BY <1>1, <2>1, RetrierFacts DEF FillInv, Filling
    <3>2. t \in TaskID /\ t[1] = retrier[r].clone /\ t[2] \in Nat
      BY <2>1, <3>1, TaskBelongs DEF RetrierOK, RetrierState
    <3>3. t[2] < t[2]
      BY <2>1, <3>1, <3>2 DEF Ahead
    <3>. QED BY <3>2, <3>3
  <2>. QED BY <2>1 DEF ClonedOnce, RetryAt
<1>. QED BY <1>1, FillInvariant, TypeInvariant, PTL

=============================================================================
