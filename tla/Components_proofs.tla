-------------------------- MODULE Components_proofs -------------------------
(***************************************************************************)
(* What the queries and statements of Repository do, what publishing does, *)
(* and what a step of a finalizer, of a caller or of a retrier does, for   *)
(* every value of the constants: the lemmas that the proofs about the      *)
(* composed modules share.                                                 *)
(***************************************************************************)
EXTENDS JobExecutor, JobRetry, FiniteSetTheorems, WellFoundedInduction, TLAPS

-----------------------------------------------------------------------------
(* Repository *)

LEMMA TaskBelongs == ASSUME NEW t \in TaskID PROVE t[1] \in JobID /\ t[2] \in 0..(MaxTasks - 1)
BY DEF TaskID

\* A job has at most MaxTasks tasks.
LEMMA TasksBounded ==
  ASSUME NEW j \in JobID
  PROVE  /\ IsFiniteSet(TasksOf(j)) /\ Cardinality(TasksOf(j)) \in 0..MaxTasks
         /\ Cardinality(TasksOf(j)) = 0 => TasksOf(j) = {}
<1>. DEFINE ids == {j} \X (0..(MaxTasks - 1))
<1>1. IsFiniteSet(0..(MaxTasks - 1)) /\ Cardinality(0..(MaxTasks - 1)) = MaxTasks
  <2>1. MaxTasks \in Nat /\ 0 \in Int /\ MaxTasks - 1 \in Int
    BY RepositoryAssumption
  <2>2. /\ IsFiniteSet(0..(MaxTasks - 1))
        /\ Cardinality(0..(MaxTasks - 1)) = IF 0 > MaxTasks - 1 THEN 0 ELSE (MaxTasks - 1) - 0 + 1
    BY <2>1, FS_Interval
  <2>. QED BY <2>1, <2>2
<1>2. IsFiniteSet({j}) /\ Cardinality({j}) = 1
  BY FS_Singleton
<1>3. IsFiniteSet(ids) /\ Cardinality(ids) = Cardinality({j}) * Cardinality(0..(MaxTasks - 1))
  BY <1>1, <1>2, FS_Product
<1>4. Cardinality(ids) = MaxTasks
  BY <1>1, <1>2, <1>3, RepositoryAssumption
<1>5. TasksOf(j) \subseteq ids
  BY DEF TasksOf, TaskID
<1>. HIDE DEF ids
<1>6. IsFiniteSet(TasksOf(j)) /\ Cardinality(TasksOf(j)) <= MaxTasks
  BY <1>3, <1>4, <1>5, FS_Subset
<1>7. Cardinality(TasksOf(j)) \in Nat
  BY <1>6, FS_CardinalityType
<1>8. Cardinality(TasksOf(j)) = 0 => TasksOf(j) = {}
  BY <1>6, FS_EmptySet
<1>. QED BY <1>6, <1>7, <1>8, RepositoryAssumption

\* A set of natural numbers has a least element.
LEMMA LeastNat ==
  ASSUME NEW S, S \subseteq Nat, S # {}
  PROVE  \E n \in S : \A m \in S : n <= m
<1>. DEFINE less == OpToRel(<, Nat)
<1>1. IsWellFoundedOn(less, Nat)
  BY NatLessThanWellFounded
<1>2. \A n, m \in Nat : m < n => <<m, n>> \in less
  BY DEF OpToRel
<1>. HIDE DEF less
<1>3. \E n \in S : \A m \in S : ~ (<<m, n>> \in less)
  BY <1>1, WFMin, Zenon
<1>4. PICK n \in S : \A m \in S : ~ (<<m, n>> \in less)
  BY <1>3
<1>5. ASSUME NEW m \in S PROVE n <= m
  <2>1. n \in Nat /\ m \in Nat
    OBVIOUS
  <2>2. ~(m < n)
    BY <1>2, <1>4, <2>1, Zenon
  <2>. QED BY <2>1, <2>2
<1>. QED BY <1>5

\* The next INSERT gets an id that is free.
LEMMA NextIDFree == ASSUME FreeIDs # {} PROVE NextID \in FreeIDs
<1>1. FreeIDs \subseteq Nat
  BY DEF FreeIDs, JobID
<1>2. \E j \in FreeIDs : \A k \in FreeIDs : j <= k
  BY <1>1, LeastNat
<1>. QED BY <1>2 DEF NextID

\* A bounded set of natural numbers has a greatest element.
LEMMA GreatestNat ==
  ASSUME NEW max \in Nat, NEW S \in SUBSET (0..max), S # {}
  PROVE  \E n \in S : \A m \in S : m <= n
<1>. DEFINE D == {d \in Nat : \E n \in S : d = max - n}
<1>0. \A n \in S : n \in Nat /\ n <= max
  OBVIOUS
<1>1. D \subseteq Nat /\ D # {}
  <2>1. PICK n \in S : TRUE
    OBVIOUS
  <2>2. max - n \in Nat
    BY <1>0
  <2>3. max - n \in D
    BY <2>2
  <2>. QED BY <2>3
<1>2. PICK d \in D : \A e \in D : d <= e
  BY <1>1, LeastNat
<1>3. PICK n \in S : d = max - n
  BY <1>2
<1>4. ASSUME NEW m \in S PROVE m <= n
  <2>1. max - m \in D
    BY <1>0
  <2>2. d <= max - m
    BY <1>2, <2>1
  <2>. QED BY <1>0, <1>3, <2>2
<1>. QED BY <1>4

\* A set of job ids has a last one.
LEMMA LastJob ==
  ASSUME NEW S \in SUBSET JobID, S # {}
  PROVE  \E j \in S : \A k \in S : k <= j
<1>1. MaxJobs \in Nat /\ S \in SUBSET (0..MaxJobs)
  BY RepositoryAssumption DEF JobID
<1>. QED BY <1>1, GreatestNat

\* The lookup by reference finds a row if there is one.
LEMMA FindJobByRefFacts ==
  ASSUME NEW ref
  PROVE  /\ FindJobByRef(ref) \in JobID \cup {0}
         /\ FindJobByRef(ref) # 0 =>
              Exists(job[FindJobByRef(ref)]) /\ job[FindJobByRef(ref)].ref = ref
         /\ FindJobByRef(ref) = 0 => \A j \in JobID : Exists(job[j]) => job[j].ref # ref
<1>. DEFINE rows == {j \in JobID : Exists(job[j]) /\ job[j].ref = ref}
            last == CHOOSE j \in rows : \A k \in rows : k <= j
<1>1. CASE rows = {}
  <2>1. FindJobByRef(ref) = 0
    BY <1>1 DEF FindJobByRef
  <2>. QED BY <1>1, <2>1
<1>2. CASE rows # {}
  <2>1. \E j \in rows : \A k \in rows : k <= j
    BY <1>2, LastJob
  <2>2. FindJobByRef(ref) = last
    BY <1>2 DEF FindJobByRef
  <2>3. last \in rows
    BY <2>1
  <2>4. last \in JobID /\ Exists(job[last]) /\ job[last].ref = ref
    BY <2>3
  <2>5. 0 \notin JobID
    BY DEF JobID
  <2>. QED BY <2>2, <2>4, <2>5
<1>. QED BY <1>1, <1>2

\* The most recent live clone, if there is one.
LEMMA FindPendingJobByParentIDFacts ==
  ASSUME NEW j
  PROVE  LET k == FindPendingJobByParentID(j) IN
         /\ k \in JobID \cup {0}
         /\ k # 0 => job[k].status \in NonTerminalJobStates /\ job[k].parent = j
         /\ k = 0 => \A l \in JobID : job[l].status \in NonTerminalJobStates => job[l].parent # j
<1>. DEFINE rows == {k \in JobID : job[k].status \in NonTerminalJobStates /\ job[k].parent = j}
            last == CHOOSE k \in rows : \A l \in rows : l <= k
<1>1. CASE rows = {}
  <2>1. FindPendingJobByParentID(j) = 0
    BY <1>1 DEF FindPendingJobByParentID
  <2>. QED BY <1>1, <2>1
<1>2. CASE rows # {}
  <2>1. \E k \in rows : \A l \in rows : l <= k
    BY <1>2, LastJob
  <2>2. FindPendingJobByParentID(j) = last
    BY <1>2 DEF FindPendingJobByParentID
  <2>3. last \in rows
    BY <2>1
  <2>4. last \in JobID /\ job[last].status \in NonTerminalJobStates /\ job[last].parent = j
    BY <2>3
  <2>5. 0 \notin JobID
    BY DEF JobID
  <2>. QED BY <2>2, <2>4, <2>5
<1>. QED BY <1>1, <1>2

\* The tasks a page is taken from.
PageRows(j, statuses, afterSeq) ==
  {t \in TasksOf(j) : t[2] > afterSeq /\ task[t].status \in statuses}

\* A page is a first part of the rows after the cursor, and all of them if it
\* is not full.
LEMMA PageFacts ==
  ASSUME NEW j \in JobID, NEW statuses, NEW afterSeq \in Int, NEW limit \in Nat \ {0}
  PROVE  LET rows == PageRows(j, statuses, afterSeq)
             page == FindTasksBatch(j, statuses, afterSeq, limit)
         IN /\ page \subseteq rows /\ Cardinality(page) \in Nat
            /\ \A t \in page : \A u \in rows : u[2] <= t[2] => u \in page
            /\ Cardinality(page) < limit => page = rows
            /\ page = {} => rows = {}
<1>. DEFINE rows == PageRows(j, statuses, afterSeq)
            page == FindTasksBatch(j, statuses, afterSeq, limit)
            Below(t) == {u \in rows : u[2] < t[2]}
<1>1. page = {t \in rows : Cardinality(Below(t)) < limit}
  BY DEF FindTasksBatch, PageRows
<1>2. IsFiniteSet(rows) /\ \A t \in rows : t[2] \in Nat
  <2>1. rows \subseteq TasksOf(j) /\ IsFiniteSet(TasksOf(j))
    BY TasksBounded DEF PageRows
  <2>2. \A t \in TasksOf(j) : t[2] \in Nat
    BY DEF TasksOf, TaskID
  <2>. QED BY <2>1, <2>2, FS_Subset
<1>. HIDE DEF rows
<1>3. ASSUME NEW S \in SUBSET rows
      PROVE  IsFiniteSet(S) /\ Cardinality(S) \in Nat
  BY <1>2, FS_Subset, FS_CardinalityType
<1>4. ASSUME NEW S \in SUBSET rows, NEW T \in SUBSET S
      PROVE  Cardinality(T) <= Cardinality(S)
  BY <1>3, FS_Subset
<1>5. page \subseteq rows
  BY <1>1
<1>6. \A t \in rows : Below(t) \in SUBSET rows
  OBVIOUS
<1>7. ASSUME NEW t \in page, NEW u \in rows, u[2] <= t[2] PROVE u \in page
  <2>1. Below(u) \in SUBSET Below(t)
    BY <1>2, <1>5, <1>7
  <2>2. Cardinality(Below(u)) <= Cardinality(Below(t)) /\ Cardinality(Below(t)) < limit
    BY <1>1, <1>4, <1>5, <1>6, <2>1
  <2>3. Cardinality(Below(u)) \in Nat /\ Cardinality(Below(t)) \in Nat
    BY <1>3, <1>5, <1>6
  <2>. QED BY <1>1, <2>2, <2>3
<1>8. ASSUME Cardinality(page) < limit PROVE page = rows
  <2>. DEFINE D == {n \in Nat : \E t \in rows \ page : n = t[2]}
  <2>. SUFFICES ASSUME page # rows PROVE FALSE
    OBVIOUS
  <2>1. D # {} /\ D \subseteq Nat
    BY <1>2, <1>5
  <2>2. PICK n \in D : \A m \in D : n <= m
    BY <2>1, LeastNat
  <2>3. PICK t \in rows \ page : n = t[2]
    BY <2>2
  <2>4. Below(t) \in SUBSET page
    <3>. SUFFICES ASSUME NEW u \in rows, u[2] < t[2], u \notin page PROVE FALSE
      OBVIOUS
    <3>1. u[2] \in D
      BY <1>2
    <3>. QED BY <1>2, <2>2, <2>3, <3>1
  <2>5. Cardinality(Below(t)) <= Cardinality(page)
    BY <1>4, <1>5, <2>4
  <2>6. Cardinality(Below(t)) \in Nat /\ Cardinality(page) \in Nat
    BY <1>3, <1>5, <1>6, <2>3
  <2>7. Cardinality(Below(t)) < limit
    BY <1>8, <2>5, <2>6
  <2>. QED BY <1>1, <2>3, <2>7
<1>9. page = {} => rows = {}
  <2>1. Cardinality({}) = 0
    BY FS_EmptySet
  <2>. QED BY <1>8, <2>1
<1>10. Cardinality(page) \in Nat
  BY <1>3, <1>5
<1>. HIDE DEF page
<1>11. /\ page \subseteq rows /\ Cardinality(page) \in Nat
       /\ \A t \in page : \A u \in rows : u[2] <= t[2] => u \in page
       /\ Cardinality(page) < limit => page = rows
       /\ page = {} => rows = {}
  BY <1>5, <1>7, <1>8, <1>9, <1>10
<1>. QED BY <1>11 DEF rows, page

-----------------------------------------------------------------------------
(* How the rows change *)

\* A task belongs to a row of the job table.
OwnTasks == \A t \in TaskID : Exists(task[t]) => Exists(job[t[1]])

\* Rows are updated: no row comes or goes, a run keeps its name, its reference,
\* its parent and its tasks.
Updated ==
  /\ RepositoryTypeOK' /\ OwnTasks'
  /\ \A j \in JobID :
       /\ Exists(job'[j]) <=> Exists(job[j])
       /\ job'[j].name = job[j].name /\ job'[j].ref = job[j].ref
       /\ job'[j].parent = job[j].parent /\ job'[j].triggerFailure = job[j].triggerFailure
  /\ \A t \in TaskID : Exists(task'[t]) <=> Exists(task[t])

LEMMA UnchangedRows ==
  ASSUME RepositoryTypeOK, OwnTasks, UNCHANGED repositoryVars
  PROVE  Updated /\ job' = job
BY DEF repositoryVars, RepositoryTypeOK, OwnTasks, Updated

LEMMA UpdateJobRows ==
  ASSUME RepositoryTypeOK, OwnTasks, NEW j \in JobID, Exists(job[j]), NEW s \in Status,
         UpdateJob(j, s), task' = task
  PROVE  Updated /\ job'[j].status = s /\ \A k \in JobID : k # j => job'[k] = job[k]
<1>1. s # Absent
  BY DEF Status, JobStatus, TaskStatus, Absent
<1>2. job' \in [JobID -> JobRow] /\ job'[j].status = s
      /\ \A k \in JobID : k # j => job'[k] = job[k]
  BY DEF UpdateJob, RepositoryTypeOK, JobRow
<1>3. /\ job'[j].name = job[j].name /\ job'[j].ref = job[j].ref
      /\ job'[j].parent = job[j].parent /\ job'[j].triggerFailure = job[j].triggerFailure
  BY DEF UpdateJob, RepositoryTypeOK, JobRow
<1>4. \A k \in JobID : Exists(job'[k]) <=> Exists(job[k])
  BY <1>1, <1>2 DEF Exists
<1>5. RepositoryTypeOK'
  BY <1>2 DEF RepositoryTypeOK
<1>6. OwnTasks'
  BY <1>4, TaskBelongs DEF OwnTasks
<1>7. \A k \in JobID : /\ job'[k].name = job[k].name /\ job'[k].ref = job[k].ref
                       /\ job'[k].parent = job[k].parent /\ job'[k].triggerFailure = job[k].triggerFailure
  BY <1>2, <1>3
<1>. QED BY <1>2, <1>4, <1>5, <1>6, <1>7 DEF Updated

LEMMA CancelRows ==
  ASSUME RepositoryTypeOK, OwnTasks,
         \/ \E j \in JobID : TerminateJob(j)
         \/ \E n \in Names : \E k \in JobID : CancelPreviousJobs(n, k)
  PROVE  /\ Updated
         /\ \A j \in JobID : \/ job'[j] = job[j]
                             \/ /\ job[j].status \in {"PENDING", "RUNNING"}
                                /\ job'[j].status = "CANCELLED"
<1>1. "CANCELLED" \in Status /\ "CANCELLED" # Absent /\ "PENDING" # Absent /\ "RUNNING" # Absent
  BY DEF Status, JobStatus, Absent
<1>2. /\ job' \in [JobID -> JobRow]
      /\ \A j \in JobID : \/ job'[j] = job[j]
                          \/ /\ job[j].status \in {"PENDING", "RUNNING"}
                             /\ job'[j] = [job[j] EXCEPT !.status = "CANCELLED"]
  BY <1>1 DEF TerminateJob, CancelPreviousJobs, RepositoryTypeOK, JobRow
<1>3. /\ task' \in [TaskID -> TaskRow]
      /\ \A t \in TaskID : \/ task'[t] = task[t]
                           \/ /\ task[t].status \in {"PENDING", "RUNNING", "FAILED"}
                              /\ task'[t] = [task[t] EXCEPT !.status = "CANCELLED"]
  BY <1>1 DEF TerminateJob, CancelPreviousJobs, RepositoryTypeOK, TaskRow
<1>4. \A j \in JobID :
        /\ Exists(job'[j]) <=> Exists(job[j])
        /\ job'[j].name = job[j].name /\ job'[j].ref = job[j].ref
        /\ job'[j].parent = job[j].parent /\ job'[j].triggerFailure = job[j].triggerFailure
        /\ \/ job'[j] = job[j]
           \/ job[j].status \in {"PENDING", "RUNNING"} /\ job'[j].status = "CANCELLED"
  BY <1>1, <1>2 DEF RepositoryTypeOK, JobRow, Exists
<1>5. \A t \in TaskID : Exists(task'[t]) <=> Exists(task[t])
  BY <1>1, <1>3 DEF RepositoryTypeOK, TaskRow, Exists, Absent
<1>6. RepositoryTypeOK'
  BY <1>2, <1>3 DEF RepositoryTypeOK
<1>7. OwnTasks'
  BY <1>4, <1>5, TaskBelongs DEF OwnTasks
<1>. QED BY <1>4, <1>5, <1>6, <1>7 DEF Updated

LEMMA SyncRows ==
  ASSUME RepositoryTypeOK, OwnTasks, NEW j \in JobID, NEW s \in Status,
         UpdateTasksStatus(TasksOf(j), s), job' = job
  PROVE  Updated
<1>1. s # Absent
  BY DEF Status, JobStatus, TaskStatus, Absent
<1>2. /\ task' \in [TaskID -> TaskRow]
      /\ \A t \in TaskID : \/ task'[t] = task[t]
                           \/ Exists(task[t]) /\ task'[t].status = s
  BY DEF UpdateTasksStatus, TasksOf, RepositoryTypeOK, TaskRow
<1>3. \A t \in TaskID : Exists(task'[t]) <=> Exists(task[t])
  BY <1>1, <1>2 DEF Exists
<1>4. RepositoryTypeOK' /\ OwnTasks'
  BY <1>2, <1>3 DEF RepositoryTypeOK, OwnTasks
<1>. QED BY <1>3, <1>4 DEF Updated

\* A row is inserted at a free id, with its first n tasks.
Inserted(k, row, n) ==
  /\ RepositoryTypeOK' /\ OwnTasks'
  /\ ~Exists(job[k]) /\ job'[k] = row
  /\ \A j \in JobID : j # k => job'[j] = job[j]
  /\ \A t \in TaskID : t[1] # k => task'[t] = task[t]
  /\ \A t \in TaskID : t[1] = k => ~Exists(task[t]) /\ (Exists(task'[t]) <=> t[2] < n)

LEMMA InsertRows ==
  ASSUME RepositoryTypeOK, OwnTasks, NEW k \in FreeIDs, NEW row \in JobRow, Exists(row),
         NEW n \in 0..MaxTasks, NEW s \in Status \cup {Absent}, n = 0 \/ s # Absent,
         CreateJobAndTasks(k, row, n, s)
  PROVE  Inserted(k, row, n)
<1>1. k \in JobID /\ ~Exists(job[k])
  BY DEF FreeIDs
<1>2. job' \in [JobID -> JobRow] /\ job'[k] = row /\ \A j \in JobID : j # k => job'[j] = job[j]
  BY <1>1 DEF CreateJobAndTasks, RepositoryTypeOK
<1>3. [status |-> s, attempt |-> 1] \in TaskRow
  BY DEF TaskRow
<1>4. \A t \in TaskID : t[1] = k => ~Exists(task[t])
  BY <1>1 DEF OwnTasks
<1>5. \A t \in TaskID : t[2] \in Nat
  BY DEF TaskID
<1>6. /\ task' \in [TaskID -> TaskRow]
      /\ \A t \in TaskID : t[1] # k => task'[t] = task[t]
  BY <1>3 DEF CreateJobAndTasks, RepositoryTypeOK
<1>7. ASSUME NEW t \in TaskID, t[1] = k PROVE Exists(task'[t]) <=> t[2] < n
  <2>1. CASE t[2] < n
    <3>1. task'[t] = [status |-> s, attempt |-> 1]
      BY <1>7, <2>1 DEF CreateJobAndTasks
    <3>2. s # Absent
      BY <1>5, <2>1
    <3>. QED BY <2>1, <3>1, <3>2 DEF Exists
  <2>2. CASE ~(t[2] < n)
    <3>1. task'[t] = task[t]
      BY <1>7, <2>2 DEF CreateJobAndTasks
    <3>. QED BY <1>4, <1>7, <2>2, <3>1
  <2>. QED BY <2>1, <2>2
<1>8. RepositoryTypeOK'
  BY <1>2, <1>6 DEF RepositoryTypeOK
<1>9. OwnTasks'
  <2>. SUFFICES ASSUME NEW t \in TaskID, Exists(task'[t]) PROVE Exists(job'[t[1]])
    BY DEF OwnTasks
  <2>1. CASE t[1] = k
    BY <1>2, <2>1
  <2>2. CASE t[1] # k
    BY <1>2, <1>6, <2>2, TaskBelongs DEF OwnTasks
  <2>. QED BY <2>1, <2>2
<1>. QED BY <1>1, <1>2, <1>4, <1>6, <1>7, <1>8, <1>9 DEF Inserted

\* The status of one row is set.
SetsStatus(j, s) ==
  Updated /\ job'[j].status = s /\ \A k \in JobID : k # j => job'[k] = job[k]

-----------------------------------------------------------------------------
(* Broker *)

\* Publishing adds a message and loses none.
LEMMA PublishLog ==
  ASSUME BrokerTypeOK(TaskID), NEW t \in TaskID, Publish(t, TaskPartitions)
  PROVE  /\ BrokerTypeOK(TaskID)' /\ Written(t)'
         /\ \A u \in TaskID : Written(u) => Written(u)'
<1>1. PICK p \in TaskPartitions : log' = [log EXCEPT ![p] = Append(@, t)]
  BY DEF Publish
<1>2. p \in Partitions /\ log \in [Partitions -> Seq(TaskID)]
  BY DEF Partitions, BrokerTypeOK
<1>3. /\ log' \in [Partitions -> Seq(TaskID)]
      /\ log'[p] = Append(log[p], t)
      /\ \A q \in Partitions : q # p => log'[q] = log[q]
  BY <1>1, <1>2
<1>4. log[p] \in Seq(TaskID) /\ Len(log[p]) \in Nat
  BY <1>2
<1>5. /\ Len(log'[p]) = Len(log[p]) + 1 /\ log'[p][Len(log[p]) + 1] = t
      /\ \A i \in 1..Len(log[p]) : log'[p][i] = log[p][i]
  BY <1>3, <1>4
<1>6. Written(t)'
  <2>1. Len(log[p]) + 1 \in 1..Len(log'[p])
    BY <1>4, <1>5
  <2>. QED BY <1>2, <1>5, <2>1 DEF Written
<1>7. ASSUME NEW u \in TaskID, Written(u) PROVE Written(u)'
  <2>1. PICK q \in Partitions : \E i \in 1..Len(log[q]) : log[q][i] = u
    BY <1>7 DEF Written
  <2>2. PICK i \in 1..Len(log[q]) : log[q][i] = u
    BY <2>1
  <2>3. i \in 1..Len(log'[q]) /\ log'[q][i] = u
    <3>1. CASE q = p
      BY <1>4, <1>5, <2>2, <3>1
    <3>2. CASE q # p
      BY <1>3, <2>2, <3>2
    <3>. QED BY <3>1, <3>2
  <2>. QED BY <2>3 DEF Written
<1>8. BrokerTypeOK(TaskID)'
  BY <1>3 DEF Publish, BrokerTypeOK
<1>. QED BY <1>6, <1>7, <1>8

-----------------------------------------------------------------------------
(* JobFinalizer *)

TerminalOutcomes == {"COMPLETED", "FAILED", "PARTIAL_FAILED"}

\* A finalizer past its first read visits a job, past its second it has an
\* outcome for it.
Visiting ==
  \A f \in Finalizers :
    /\ fin[f].pc \in {"summary", "cas", "hook"} => fin[f].job \in JobID
    /\ fin[f].pc \in {"cas", "hook"} => fin[f].outcome \in TerminalOutcomes

FinalizerInv == JobFinalizerTypeOK /\ Visiting

\* resolveJobTerminalStatusFromSummary and jobStatusToAction agree.
LEMMA OutcomeResolved ==
  ASSUME NEW s, resolveJobTerminalStatusFromSummary(s) # NotReady
  PROVE  jobStatusToAction(resolveJobTerminalStatusFromSummary(s)).dst \in TerminalOutcomes
<1>1. resolveJobTerminalStatusFromSummary(s) \in TerminalOutcomes \cup {NotReady}
  BY DEF resolveJobTerminalStatusFromSummary, TerminalOutcomes
<1>2. ASSUME NEW o \in TerminalOutcomes PROVE jobStatusToAction(o).dst \in TerminalOutcomes
  BY <1>2 DEF TerminalOutcomes, jobStatusToAction, jobTransitions
<1>. QED BY <1>1, <1>2

LEMMA RestingType == Resting \in FinalizerState /\ Resting.pc = "idle"
BY DEF Resting, FinalizerState, FinalizerPC

LEMMA BatchType ==
  ASSUME NEW batch \in SUBSET JobID
  PROVE  /\ [Resting EXCEPT !.pc = "next", !.todo = batch] \in FinalizerState
         /\ [Resting EXCEPT !.pc = "next", !.todo = batch].pc = "next"
BY DEF Resting, FinalizerState, FinalizerPC

\* One finalizer moved on.
LEMMA FinMoves ==
  ASSUME FinalizerInv, finished' \in [JobID -> Seq(Status)], NEW f \in Finalizers,
         NEW w \in FinalizerState, fin' = [fin EXCEPT ![f] = w],
         w.pc \in {"summary", "cas", "hook"} => w.job \in JobID,
         w.pc \in {"cas", "hook"} => w.outcome \in TerminalOutcomes
  PROVE  FinalizerInv' /\ fin'[f] = w /\ \A g \in Finalizers : g # f => fin'[g] = fin[g]
<1>1. fin' \in [Finalizers -> FinalizerState] /\ fin'[f] = w
      /\ \A g \in Finalizers : g # f => fin'[g] = fin[g]
  BY DEF FinalizerInv, JobFinalizerTypeOK
<1>2. Visiting'
  BY <1>1 DEF FinalizerInv, Visiting
<1>. QED BY <1>1, <1>2 DEF FinalizerInv, JobFinalizerTypeOK

\* Moving on to the next id of the batch.
LEMMA VisitedMoves ==
  ASSUME FinalizerInv, finished' \in [JobID -> Seq(Status)], NEW f \in Finalizers, Visited(f)
  PROVE  /\ FinalizerInv' /\ fin'[f].pc \in {"idle", "next"}
         /\ \A g \in Finalizers : g # f => fin'[g] = fin[g]
<1>. DEFINE w == IF fin[f].todo = {} THEN Resting
                 ELSE [Resting EXCEPT !.pc = "next", !.todo = fin[f].todo]
<1>1. fin[f].todo \in SUBSET JobID
  BY DEF FinalizerInv, JobFinalizerTypeOK, FinalizerState
<1>2. w \in FinalizerState /\ w.pc \in {"idle", "next"}
  BY <1>1, RestingType, BatchType
<1>3. fin' = [fin EXCEPT ![f] = w]
  BY DEF Visited
<1>. HIDE DEF w
<1>. QED BY <1>2, <1>3, FinMoves

LEMMA SpendKeeps ==
  ASSUME FaultsTypeOK, UNCHANGED spent \/ Spend("error") \/ Spend("crash")
  PROVE  FaultsTypeOK' /\ \A k \in FaultKind : Never(k)' => Never(k)
BY DEF FaultsTypeOK, FaultKind, Spend, Never

\* What a step of a finalizer may do: read; hit a RUNNING row with the
\* compare-and-set; or announce the outcome of a row it hit.
FinalizerReads(f) == UNCHANGED <<job, finished>> /\ fin'[f].pc # "hook"

FinalizerHits(f) ==
  /\ fin[f].pc = "cas" /\ fin[f].job \in JobID /\ fin[f].outcome \in TerminalOutcomes
  /\ job[fin[f].job].status = "RUNNING"
  /\ job' = [job EXCEPT ![fin[f].job].status = fin[f].outcome]
  /\ finished' = finished
  /\ fin'[f].pc = "hook" => fin'[f].job = fin[f].job /\ fin'[f].outcome = fin[f].outcome

FinalizerAnnounces(f) ==
  /\ fin[f].pc = "hook" /\ fin[f].job \in JobID /\ fin[f].outcome \in TerminalOutcomes
  /\ job' = job /\ fin'[f].pc # "hook"
  /\ finished' = [finished EXCEPT ![fin[f].job] = Append(@, fin[f].outcome)]

FinalizerEffects(f) ==
  /\ FinalizerInv' /\ RepositoryTypeOK' /\ FaultsTypeOK'
  /\ task' = task
  /\ \A k \in FaultKind : Never(k)' => Never(k)
  /\ \A g \in Finalizers : g # f => fin'[g] = fin[g]
  /\ FinalizerReads(f) \/ FinalizerHits(f) \/ FinalizerAnnounces(f)

\* A step that only moves the finalizer.
LEMMA ReadEffects ==
  ASSUME FaultsTypeOK, RepositoryTypeOK, FinalizerInv, NEW f \in Finalizers,
         UNCHANGED repositoryVars, finished' = finished,
         UNCHANGED spent \/ Spend("error") \/ Spend("crash"),
         NEW w \in FinalizerState, fin' = [fin EXCEPT ![f] = w], w.pc # "hook",
         w.pc \in {"summary", "cas", "hook"} => w.job \in JobID,
         w.pc \in {"cas", "hook"} => w.outcome \in TerminalOutcomes
  PROVE  FinalizerEffects(f)
<1>1. FinalizerInv' /\ fin'[f] = w /\ \A g \in Finalizers : g # f => fin'[g] = fin[g]
  BY FinMoves DEF FinalizerInv, JobFinalizerTypeOK
<1>2. RepositoryTypeOK' /\ task' = task /\ job' = job
  BY DEF RepositoryTypeOK, repositoryVars
<1>3. FaultsTypeOK' /\ \A k \in FaultKind : Never(k)' => Never(k)
  BY SpendKeeps
<1>. QED BY <1>1, <1>2, <1>3 DEF FinalizerEffects, FinalizerReads

LEMMA VisitedEffects ==
  ASSUME FaultsTypeOK, RepositoryTypeOK, FinalizerInv, NEW f \in Finalizers,
         UNCHANGED repositoryVars, finished' = finished,
         UNCHANGED spent \/ Spend("error") \/ Spend("crash"), Visited(f)
  PROVE  FinalizerEffects(f)
<1>1. FinalizerInv' /\ fin'[f].pc # "hook" /\ \A g \in Finalizers : g # f => fin'[g] = fin[g]
  BY VisitedMoves DEF FinalizerInv, JobFinalizerTypeOK
<1>2. RepositoryTypeOK' /\ task' = task /\ job' = job
  BY DEF RepositoryTypeOK, repositoryVars
<1>3. FaultsTypeOK' /\ \A k \in FaultKind : Never(k)' => Never(k)
  BY SpendKeeps
<1>. QED BY <1>1, <1>2, <1>3 DEF FinalizerEffects, FinalizerReads

LEMMA FindJobEffects ==
  ASSUME FaultsTypeOK, RepositoryTypeOK, FinalizerInv, NEW f \in Finalizers, FindJob(f)
  PROVE  FinalizerEffects(f)
<1>0. fin[f] \in FinalizerState /\ fin[f].pc = "next"
  BY DEF FindJob, FinAt, FinalizerInv, JobFinalizerTypeOK
<1>1. PICK j \in fin[f].todo :
        LET rest == [fin[f] EXCEPT !.todo = @ \ {j}] IN
        \/ /\ fin' = [fin EXCEPT ![f] = [rest EXCEPT !.pc = "summary", !.job = j]]
           /\ UNCHANGED spent
        \/ /\ UNCHANGED spent \/ Spend("error")
           /\ fin' = [fin EXCEPT ![f] = IF rest.todo = {} THEN Resting ELSE rest]
  BY DEF FindJob
<1>. DEFINE rest == [fin[f] EXCEPT !.todo = @ \ {j}]
            found == [rest EXCEPT !.pc = "summary", !.job = j]
            skip == IF rest.todo = {} THEN Resting ELSE rest
<1>2. j \in JobID
  BY <1>0 DEF FinalizerState
<1>3. rest \in FinalizerState /\ rest.pc = "next"
  BY <1>0, <1>2 DEF FinalizerState
<1>4. found \in FinalizerState /\ found.pc = "summary" /\ found.job \in JobID
  <2>. HIDE DEF rest
  <2>. QED BY <1>2, <1>3 DEF FinalizerState, FinalizerPC
<1>5. skip \in FinalizerState /\ skip.pc \in {"idle", "next"}
  <2>. HIDE DEF rest
  <2>. QED BY <1>3, RestingType
<1>6. fin' = [fin EXCEPT ![f] = found] \/ fin' = [fin EXCEPT ![f] = skip]
  BY <1>1
<1>7. (UNCHANGED spent \/ Spend("error")) /\ UNCHANGED repositoryVars /\ finished' = finished
  BY <1>1 DEF FindJob
<1>. HIDE DEF found, skip
<1>8. CASE fin' = [fin EXCEPT ![f] = found]
  BY <1>4, <1>7, <1>8, ReadEffects
<1>9. CASE fin' = [fin EXCEPT ![f] = skip]
  BY <1>5, <1>7, <1>9, ReadEffects
<1>. QED BY <1>6, <1>8, <1>9

LEMMA SummarizeEffects ==
  ASSUME FaultsTypeOK, RepositoryTypeOK, FinalizerInv, NEW f \in Finalizers, Summarize(f)
  PROVE  FinalizerEffects(f)
<1>. DEFINE outcome == resolveJobTerminalStatusFromSummary(GetTaskStatusSummary(fin[f].job))
            act == jobStatusToAction(outcome).dst
<1>0. fin[f] \in FinalizerState /\ fin[f].pc = "summary" /\ fin[f].job \in JobID
  BY DEF Summarize, FinAt, FinalizerInv, JobFinalizerTypeOK, Visiting
<1>1. outcome # NotReady => act \in TerminalOutcomes
  BY OutcomeResolved
<1>2. /\ UNCHANGED repositoryVars /\ finished' = finished /\ (UNCHANGED spent \/ Spend("error"))
      /\ \/ outcome # NotReady /\ fin' = [fin EXCEPT ![f].pc = "cas", ![f].outcome = act]
         \/ Visited(f)
  BY DEF Summarize
<1>. HIDE DEF act, outcome
<1>3. CASE outcome # NotReady /\ fin' = [fin EXCEPT ![f].pc = "cas", ![f].outcome = act]
  <2>. DEFINE w == [fin[f] EXCEPT !.pc = "cas", !.outcome = act]
  <2>1. w \in FinalizerState /\ w.pc = "cas" /\ w.job \in JobID /\ w.outcome \in TerminalOutcomes
    BY <1>0, <1>1, <1>3 DEF FinalizerState, FinalizerPC, TerminalOutcomes, Status, JobStatus
  <2>2. fin' = [fin EXCEPT ![f] = w]
    BY <1>3, <1>0 DEF FinalizerInv, JobFinalizerTypeOK
  <2>. HIDE DEF w
  <2>. QED BY <1>2, <2>1, <2>2, ReadEffects
<1>4. CASE Visited(f)
  BY <1>2, <1>4, VisitedEffects
<1>. QED BY <1>2, <1>3, <1>4

LEMMA FinalizeEffects ==
  ASSUME FaultsTypeOK, RepositoryTypeOK, FinalizerInv, NEW f \in Finalizers, FinalizeRunningJob(f)
  PROVE  FinalizerEffects(f)
<1>. DEFINE j == fin[f].job
            w == [fin[f] EXCEPT !.pc = "hook"]
<1>0. /\ fin[f] \in FinalizerState /\ fin[f].pc = "cas"
      /\ fin[f].job \in JobID /\ fin[f].outcome \in TerminalOutcomes
  BY DEF FinalizeRunningJob, FinAt, FinalizerInv, JobFinalizerTypeOK, Visiting
<1>1. finished' \in [JobID -> Seq(Status)] /\ finished' = finished /\ task' = task
  BY DEF FinalizeRunningJob, FinalizerInv, JobFinalizerTypeOK
<1>2. FaultsTypeOK' /\ \A k \in FaultKind : Never(k)' => Never(k)
  BY SpendKeeps DEF FinalizeRunningJob
<1>3. /\ w \in FinalizerState /\ w.pc = "hook" /\ w.job = fin[f].job
      /\ w.outcome = fin[f].outcome
  BY <1>0 DEF FinalizerState, FinalizerPC
<1>4. \/ job[j].status = "RUNNING" /\ fin' = [fin EXCEPT ![f] = w]
      \/ Visited(f)
  BY <1>0 DEF FinalizeRunningJob, FinalizerInv, JobFinalizerTypeOK
<1>. HIDE DEF w
<1>5. /\ FinalizerInv' /\ \A g \in Finalizers : g # f => fin'[g] = fin[g]
      /\ \/ fin'[f].pc # "hook"
         \/ fin'[f] = w /\ job[j].status = "RUNNING"
  BY <1>0, <1>1, <1>3, <1>4, FinMoves, VisitedMoves
<1>6. UpdateJobIfStatus(j, "RUNNING", fin[f].outcome) \/ (job' = job /\ Visited(f))
  BY DEF FinalizeRunningJob
<1>7. \/ job[j].status = "RUNNING" /\ job' = [job EXCEPT ![j].status = fin[f].outcome]
      \/ job' = job /\ Visited(f)
  <2>1. job[j].status # "RUNNING" /\ UpdateJobIfStatus(j, "RUNNING", fin[f].outcome) =>
          job' = job /\ Visited(f)
    BY <1>3, <1>4, VisitedMoves DEF FinalizeRunningJob, UpdateJobIfStatus
  <2>. QED BY <1>6, <2>1 DEF UpdateJobIfStatus
<1>8. fin[f].outcome \in Status
  BY <1>0 DEF TerminalOutcomes, Status, JobStatus
<1>9. RepositoryTypeOK'
  BY <1>0, <1>1, <1>7, <1>8, ZenonT(60) DEF RepositoryTypeOK, JobRow
<1>10. CASE job[j].status = "RUNNING" /\ job' = [job EXCEPT ![j].status = fin[f].outcome]
  BY <1>0, <1>1, <1>2, <1>3, <1>5, <1>9, <1>10 DEF FinalizerEffects, FinalizerHits
<1>11. CASE job' = job /\ Visited(f)
  <2>1. fin'[f].pc # "hook"
    BY <1>1, <1>11, VisitedMoves
  <2>. QED BY <1>1, <1>2, <1>5, <1>9, <1>11, <2>1 DEF FinalizerEffects, FinalizerReads
<1>. QED BY <1>7, <1>10, <1>11

LEMMA FireHookEffects ==
  ASSUME FaultsTypeOK, RepositoryTypeOK, FinalizerInv, NEW f \in Finalizers, FireHook(f)
  PROVE  FinalizerEffects(f)
<1>0. /\ fin[f] \in FinalizerState /\ fin[f].pc = "hook"
      /\ fin[f].job \in JobID /\ fin[f].outcome \in TerminalOutcomes
      /\ finished \in [JobID -> Seq(Status)]
  BY DEF FireHook, FinAt, FinalizerInv, JobFinalizerTypeOK, Visiting
<1>1. /\ \/ finished' = finished
         \/ finished' = [finished EXCEPT ![fin[f].job] = Append(@, fin[f].outcome)]
      /\ Visited(f) /\ UNCHANGED repositoryVars /\ UNCHANGED spent
  BY DEF FireHook
<1>2. fin[f].outcome \in Status
  BY <1>0 DEF TerminalOutcomes, Status, JobStatus
<1>3. finished' \in [JobID -> Seq(Status)]
  <2>1. Append(finished[fin[f].job], fin[f].outcome) \in Seq(Status)
    BY <1>0, <1>2
  <2>. QED BY <1>0, <1>1, <2>1
<1>4. FinalizerInv' /\ fin'[f].pc # "hook" /\ \A g \in Finalizers : g # f => fin'[g] = fin[g]
  BY <1>1, <1>3, VisitedMoves
<1>5. RepositoryTypeOK' /\ task' = task /\ job' = job
  BY <1>1 DEF RepositoryTypeOK, repositoryVars
<1>6. FaultsTypeOK' /\ \A k \in FaultKind : Never(k)' => Never(k)
  BY <1>1, SpendKeeps
<1>. QED
  BY <1>0, <1>1, <1>4, <1>5, <1>6 DEF FinalizerEffects, FinalizerReads, FinalizerAnnounces

\* Every action of a finalizer.
LEMMA FinalizerSteps ==
  ASSUME FaultsTypeOK, RepositoryTypeOK, FinalizerInv, NEW f \in Finalizers,
         \/ FinalizerStep(f) \/ CrashFinalizer(f)
         \/ \E n \in Registered : CheckJobCompletions(f, n)
  PROVE  FinalizerEffects(f)
<1>1. CASE CrashFinalizer(f)
  BY <1>1, RestingType, ReadEffects DEF CrashFinalizer
<1>2. ASSUME NEW n \in Registered, CheckJobCompletions(f, n) PROVE FinalizerEffects(f)
  <2>1. PICK batch \in SUBSET JobID :
          fin' = [fin EXCEPT ![f] = [Resting EXCEPT !.pc = "next", !.todo = batch]]
    BY <1>2 DEF CheckJobCompletions, FindCompletableJobIDs, CompletableJobs
  <2>. DEFINE w == [Resting EXCEPT !.pc = "next", !.todo = batch]
  <2>2. w \in FinalizerState /\ w.pc = "next" /\ fin' = [fin EXCEPT ![f] = w]
    BY <2>1, BatchType
  <2>. HIDE DEF w
  <2>. QED BY <1>2, <2>2, ReadEffects DEF CheckJobCompletions
<1>. QED
  BY <1>1, <1>2, FindJobEffects, SummarizeEffects, FinalizeEffects, FireHookEffects
  DEF FinalizerStep

\* A finalizer is given a batch, or put to rest.
Restarts(c) ==
  /\ FinalizerInv' /\ finished' = finished /\ fin'[c].pc \in {"idle", "next"}
  /\ \A f \in Finalizers : f # c => fin'[f] = fin[f]

LEMMA RestartsFin ==
  ASSUME FinalizerInv, NEW c \in Finalizers, finished' = finished,
         \/ fin' = [fin EXCEPT ![c] = Resting]
         \/ \E j \in JobID : fin' = [fin EXCEPT ![c] = [Resting EXCEPT !.pc = "next", !.todo = {j}]]
  PROVE  Restarts(c)
<1>0. finished' \in [JobID -> Seq(Status)]
  BY DEF FinalizerInv, JobFinalizerTypeOK
<1>1. CASE fin' = [fin EXCEPT ![c] = Resting]
  BY <1>0, <1>1, RestingType, FinMoves DEF Restarts
<1>2. ASSUME NEW j \in JobID,
             fin' = [fin EXCEPT ![c] = [Resting EXCEPT !.pc = "next", !.todo = {j}]]
      PROVE  Restarts(c)
  <2>. DEFINE w == [Resting EXCEPT !.pc = "next", !.todo = {j}]
  <2>1. w \in FinalizerState /\ w.pc = "next"
    BY BatchType
  <2>2. fin' = [fin EXCEPT ![c] = w]
    BY <1>2
  <2>. HIDE DEF w
  <2>. QED BY <1>0, <2>1, <2>2, FinMoves DEF Restarts
<1>. QED BY <1>1, <1>2

\* No row comes or goes.
LEMMA FinalizerUpdates ==
  ASSUME RepositoryTypeOK, OwnTasks, NEW f \in Finalizers, FinalizerEffects(f)
  PROVE  Updated
<1>1. RepositoryTypeOK' /\ task' = task
  BY DEF FinalizerEffects
<1>2. \/ job' = job
      \/ /\ fin[f].job \in JobID /\ fin[f].outcome \in TerminalOutcomes
         /\ job[fin[f].job].status = "RUNNING"
         /\ job' = [job EXCEPT ![fin[f].job].status = fin[f].outcome]
  BY DEF FinalizerEffects, FinalizerReads, FinalizerHits, FinalizerAnnounces
<1>3. \A j \in JobID :
        /\ Exists(job'[j]) <=> Exists(job[j])
        /\ job'[j].name = job[j].name /\ job'[j].ref = job[j].ref
        /\ job'[j].parent = job[j].parent /\ job'[j].triggerFailure = job[j].triggerFailure
  BY <1>2 DEF RepositoryTypeOK, JobRow, Exists, TerminalOutcomes, Absent
<1>4. OwnTasks'
  BY <1>1, <1>3, TaskBelongs DEF OwnTasks
<1>. QED BY <1>1, <1>3, <1>4 DEF Updated

-----------------------------------------------------------------------------
(* What the composed modules have in common *)

\* The rows, the log, the faults and the finalizers are well-typed, and every
\* task belongs to a row.
SharedInv ==
  /\ RepositoryTypeOK /\ FaultsTypeOK /\ BrokerTypeOK(TaskID)
  /\ FinalizerInv /\ OwnTasks

\* No row of a job goes away.
Grows == \A j \in JobID : Exists(job[j]) => Exists(job'[j])

-----------------------------------------------------------------------------
(* JobExecutor *)

\* Where a caller works on a row, and where the row was PENDING when read.
Holding == {"findTasks", "flow", "publish", "markFailed", "cancel", "start", "finalize"}
Starting == {"publish", "markFailed", "cancel", "start"}

\* Where a caller has looked its reference up in vain.
Unfound == {"split", "recheck", "persist", "create"}

\* What a caller knows at each place: it is in one of its calls, its row is in
\* the table, a run to be created is PENDING or REJECTED, one to be started
\* was PENDING.
CallerOK(c) ==
  /\ caller[c].turn <= Len(CallRefs[c])
  /\ caller[c].pc # "idle" \/ caller[c].maxRetry # NoAsynq => caller[c].turn >= 1
  /\ caller[c].pc \in Holding =>
       /\ caller[c].job \in JobID /\ Exists(job[caller[c].job])
       /\ caller[c].status \in Status
  /\ caller[c].pc = "create" => caller[c].status \in {"PENDING", "REJECTED"}
  /\ caller[c].pc \in Starting => caller[c].status = "PENDING"

CallerInv == \A c \in Callers : CallerOK(c)

CallInv == SharedInv /\ JobExecutorTypeOK /\ CallerInv

-----------------------------------------------------------------------------
(* How a caller's record changes *)

Others(c) == \A d \in Callers : d # c => caller'[d] = caller[d]

\* The call in progress is the same.
SameCall(c) ==
  /\ caller'[c].turn = caller[c].turn
  /\ caller'[c].retry = caller[c].retry /\ caller'[c].maxRetry = caller[c].maxRetry

\* The call ends.
Ends(c) == JobExecutorTypeOK' /\ Others(c) /\ SameCall(c) /\ caller'[c].pc = "idle"

\* The call goes on to pc with what it has read.
Moves(c, pc) ==
  /\ JobExecutorTypeOK' /\ Others(c) /\ SameCall(c) /\ caller'[c].pc = pc
  /\ caller'[c].job = caller[c].job /\ caller'[c].status = caller[c].status
  /\ caller'[c].tasks = caller[c].tasks /\ caller'[c].size = caller[c].size

LEMMA CallerRecord ==
  ASSUME JobExecutorTypeOK, NEW c \in Callers, NEW w \in CallerState, caller' = [caller EXCEPT ![c] = w]
  PROVE  JobExecutorTypeOK' /\ Others(c) /\ caller'[c] = w
BY DEF JobExecutorTypeOK, Others

LEMMA ReturnEnds ==
  ASSUME JobExecutorTypeOK, NEW c \in Callers, NEW again \in BOOLEAN, Return(c, again)
  PROVE  Ends(c)
<1>. DEFINE w == [caller[c] EXCEPT !.pc = "idle", !.again = again, !.job = NoJob, !.status = Absent,
                                   !.tasks = {}, !.size = 0]
<1>1. caller[c] \in CallerState
  BY DEF JobExecutorTypeOK
<1>a. 0 \in 0..MaxTasks /\ "idle" \in CallerPC /\ NoJob \in JobID \cup {NoJob}
      /\ Absent \in Status \cup {Absent} /\ {} \in SUBSET TaskID
  BY RepositoryAssumption DEF CallerPC
<1>2. /\ w \in CallerState /\ w.pc = "idle" /\ w.turn = caller[c].turn
      /\ w.retry = caller[c].retry /\ w.maxRetry = caller[c].maxRetry
  BY <1>1, <1>a DEF CallerState
<1>3. caller' = [caller EXCEPT ![c] = w]
  BY DEF Return
<1>. HIDE DEF w
<1>. QED BY <1>2, <1>3, CallerRecord DEF Ends, SameCall

LEMMA GotoMoves ==
  ASSUME JobExecutorTypeOK, NEW c \in Callers, NEW pc \in CallerPC, CallGoto(c, pc)
  PROVE  Moves(c, pc)
<1>. DEFINE w == [caller[c] EXCEPT !.pc = pc]
<1>1. caller[c] \in CallerState
  BY DEF JobExecutorTypeOK
<1>2. /\ w \in CallerState /\ w.pc = pc /\ w.turn = caller[c].turn
      /\ w.retry = caller[c].retry /\ w.maxRetry = caller[c].maxRetry
      /\ w.job = caller[c].job /\ w.status = caller[c].status
      /\ w.tasks = caller[c].tasks /\ w.size = caller[c].size
  BY <1>1 DEF CallerState
<1>3. caller' = [caller EXCEPT ![c] = w]
  BY <1>1 DEF CallGoto, JobExecutorTypeOK
<1>. HIDE DEF w
<1>. QED BY <1>2, <1>3, CallerRecord DEF Moves, SameCall

-----------------------------------------------------------------------------
(* What each step of a caller does *)

LEMMA CallFacts ==
  ASSUME CallInv, NEW c \in Callers
  PROVE  /\ JobExecutorTypeOK /\ RepositoryTypeOK /\ OwnTasks /\ caller[c] \in CallerState
         /\ CallerOK(c) /\ CallRefs[c] \in Seq(Refs) /\ CallName[c] \in Names
         /\ caller[c].pc # "idle" => RefID(c) \in Refs
<1>1. caller[c] \in CallerState /\ CallerOK(c) /\ CallRefs[c] \in Seq(Refs)
  BY JobExecutorAssumption DEF CallInv, SharedInv, JobExecutorTypeOK, CallerInv
<1>2. CallName[c] \in Names
  BY JobExecutorAssumption, RepositoryAssumption
<1>3. ASSUME caller[c].pc # "idle" PROVE RefID(c) \in Refs
  <2>1. caller[c].turn \in Nat /\ caller[c].turn >= 1 /\ caller[c].turn <= Len(CallRefs[c])
    BY <1>1, <1>3 DEF CallerState, CallerOK
  <2>. QED BY <1>1, <2>1 DEF RefID
<1>. QED BY <1>1, <1>2, <1>3 DEF CallInv, SharedInv

\* A new call begins, or a call is repeated.
Begins(c, turn, retry, maxRetry) ==
  /\ JobExecutorTypeOK' /\ Others(c) /\ caller[c].pc = "idle" /\ caller'[c].pc = "find"
  /\ caller'[c].turn = turn /\ caller'[c].retry = retry /\ caller'[c].maxRetry = maxRetry

LEMMA NextCallEffect ==
  ASSUME CallInv, NEW c \in Callers, NEW m \in Nat \cup {NoAsynq}, NextCall(c, m)
  PROVE  /\ Begins(c, caller[c].turn + 1, 0, m) /\ caller[c].turn < Len(CallRefs[c])
         /\ UNCHANGED <<repositoryVars, spent, brokerVars, finalizerVars>>
<1>. DEFINE next == caller[c].turn + 1
            w == [caller[c] EXCEPT !.pc = "find", !.turn = next, !.retry = 0, !.maxRetry = m]
<1>0. caller[c] \in CallerState /\ JobExecutorTypeOK
  BY CallFacts
<1>a. next \in Nat /\ 0 \in Nat /\ "find" \in CallerPC
  BY <1>0 DEF CallerState, CallerPC
<1>b. caller' = [caller EXCEPT ![c].pc = "find", ![c].turn = next, ![c].retry = 0, ![c].maxRetry = m]
  BY DEF NextCall
<1>. HIDE DEF next
<1>1. w \in CallerState /\ w.pc = "find" /\ w.turn = next /\ w.retry = 0 /\ w.maxRetry = m
  BY <1>0, <1>a DEF CallerState
<1>2. caller' = [caller EXCEPT ![c] = w]
  BY <1>0, <1>b DEF JobExecutorTypeOK
<1>3. caller[c].turn < Len(CallRefs[c]) /\ caller[c].pc = "idle"
      /\ UNCHANGED <<repositoryVars, spent, brokerVars, finalizerVars>>
  BY DEF NextCall, CallAt, frame
<1>. HIDE DEF w
<1>. QED BY <1>0, <1>1, <1>2, <1>3, CallerRecord DEF Begins, next

LEMMA RedeliverEffect ==
  ASSUME CallInv, NEW c \in Callers, Redeliver(c)
  PROVE  /\ Begins(c, caller[c].turn, caller[c].retry + 1, caller[c].maxRetry)
         /\ caller[c].retry < caller[c].maxRetry
         /\ UNCHANGED <<repositoryVars, spent, brokerVars, finalizerVars>>
<1>. DEFINE next == caller[c].retry + 1
            w == [caller[c] EXCEPT !.pc = "find", !.retry = next]
<1>0. caller[c] \in CallerState /\ JobExecutorTypeOK
  BY CallFacts
<1>a. next \in Nat /\ "find" \in CallerPC
  BY <1>0 DEF CallerState, CallerPC
<1>b. caller' = [caller EXCEPT ![c].pc = "find", ![c].retry = next]
  BY DEF Redeliver
<1>. HIDE DEF next
<1>1. /\ w \in CallerState /\ w.pc = "find" /\ w.turn = caller[c].turn
      /\ w.retry = next /\ w.maxRetry = caller[c].maxRetry
  BY <1>0, <1>a DEF CallerState
<1>2. caller' = [caller EXCEPT ![c] = w]
  BY <1>0, <1>b DEF JobExecutorTypeOK
<1>3. caller[c].retry < caller[c].maxRetry /\ caller[c].pc = "idle"
      /\ UNCHANGED <<repositoryVars, spent, brokerVars, finalizerVars>>
  BY DEF Redeliver, CallAt, frame
<1>. HIDE DEF w
<1>. QED BY <1>0, <1>1, <1>2, <1>3, CallerRecord DEF Begins, next

LEMMA ErrorEnds ==
  ASSUME CallInv, NEW c \in Callers, ReadError(c) PROVE Ends(c)
BY CallFacts, ReturnEnds DEF ReadError

\* The row of the reference was found.
Finds(c, j) ==
  /\ JobExecutorTypeOK' /\ Others(c) /\ SameCall(c) /\ caller'[c].pc = "findTasks"
  /\ Exists(job[j]) /\ job[j].ref = RefID(c)
  /\ caller'[c].job = j /\ caller'[c].status = job[j].status

LEMMA FindEffect ==
  ASSUME CallInv, NEW c \in Callers, FindExisting(c)
  PROVE  /\ caller[c].pc = "find" /\ UNCHANGED <<repositoryVars, brokerVars, finalizerVars>>
         /\ \/ Moves(c, "split") /\ \A j \in JobID : Exists(job[j]) => job[j].ref # RefID(c)
            \/ \E j \in JobID : Finds(c, j)
            \/ Ends(c)
<1>. DEFINE j == FindJobByRef(RefID(c))
<1>0. caller[c] \in CallerState /\ JobExecutorTypeOK /\ RepositoryTypeOK
  BY CallFacts
<1>1. caller[c].pc = "find" /\ UNCHANGED <<repositoryVars, brokerVars, finalizerVars>>
  BY DEF FindExisting, CallAt, frame
<1>2. /\ j \in JobID \cup {0}
      /\ j # 0 => Exists(job[j]) /\ job[j].ref = RefID(c)
      /\ j = 0 => \A k \in JobID : Exists(job[k]) => job[k].ref # RefID(c)
  BY FindJobByRefFacts
<1>3. \/ j = 0 /\ CallGoto(c, "split")
      \/ /\ j # 0
         /\ caller' = [caller EXCEPT ![c].pc = "findTasks", ![c].job = j, ![c].status = job[j].status]
      \/ ReadError(c)
  BY DEF FindExisting
<1>. HIDE DEF j
<1>4. CASE j = 0 /\ CallGoto(c, "split")
  <2>1. Moves(c, "split")
    BY <1>0, <1>4, GotoMoves DEF CallerPC
  <2>. QED BY <1>1, <1>2, <1>4, <2>1
<1>5. CASE /\ j # 0
           /\ caller' = [caller EXCEPT ![c].pc = "findTasks", ![c].job = j, ![c].status = job[j].status]
  <2>. DEFINE w == [caller[c] EXCEPT !.pc = "findTasks", !.job = j, !.status = job[j].status]
  <2>1. j \in JobID /\ job[j].status \in Status \cup {Absent}
    BY <1>0, <1>2, <1>5 DEF RepositoryTypeOK, JobRow
  <2>2. /\ w \in CallerState /\ w.pc = "findTasks" /\ w.job = j /\ w.status = job[j].status
        /\ w.turn = caller[c].turn /\ w.retry = caller[c].retry /\ w.maxRetry = caller[c].maxRetry
    BY <1>0, <2>1 DEF CallerState, CallerPC
  <2>3. caller' = [caller EXCEPT ![c] = w]
    BY <1>0, <1>5 DEF JobExecutorTypeOK
  <2>. HIDE DEF w
  <2>4. Finds(c, j)
    BY <1>0, <1>2, <1>5, <2>2, <2>3, CallerRecord DEF Finds, SameCall
  <2>. QED BY <1>1, <2>1, <2>4
<1>6. CASE ReadError(c)
  BY <1>1, <1>6, ErrorEnds
<1>. QED BY <1>3, <1>4, <1>5, <1>6

\* The tasks of the row were read.
FindsTasks(c) ==
  /\ JobExecutorTypeOK' /\ Others(c) /\ SameCall(c) /\ caller'[c].pc = "flow"
  /\ caller'[c].job = caller[c].job /\ caller'[c].status = caller[c].status
  /\ caller'[c].tasks = TasksOf(caller[c].job)
  /\ caller'[c].size = 0 => TasksOf(caller[c].job) = {}

LEMMA FindTasksEffect ==
  ASSUME CallInv, NEW c \in Callers, FindExistingTasks(c)
  PROVE  /\ caller[c].pc = "findTasks" /\ UNCHANGED <<repositoryVars, brokerVars, finalizerVars>>
         /\ FindsTasks(c) \/ Ends(c)
<1>. DEFINE ts == TasksOf(caller[c].job)
            n == Cardinality(ts)
            w == [caller[c] EXCEPT !.pc = "flow", !.tasks = ts, !.size = n]
<1>0. caller[c] \in CallerState /\ JobExecutorTypeOK /\ CallerOK(c)
  BY CallFacts
<1>1. caller[c].pc = "findTasks" /\ UNCHANGED <<repositoryVars, brokerVars, finalizerVars>>
  BY DEF FindExistingTasks, CallAt, frame
<1>2. caller[c].job \in JobID
  BY <1>0, <1>1 DEF CallerOK, Holding
<1>3. n \in 0..MaxTasks /\ (n = 0 => ts = {})
  BY <1>2, TasksBounded
<1>4. ts \in SUBSET TaskID
  BY DEF TasksOf
<1>5. \/ caller' = [caller EXCEPT ![c].pc = "flow", ![c].tasks = ts, ![c].size = n]
      \/ ReadError(c)
  BY DEF FindExistingTasks
<1>. HIDE DEF n, ts
<1>6. CASE caller' = [caller EXCEPT ![c].pc = "flow", ![c].tasks = ts, ![c].size = n]
  <2>1. /\ w \in CallerState /\ w.pc = "flow" /\ w.job = caller[c].job
        /\ w.status = caller[c].status /\ w.tasks = ts /\ w.size = n
        /\ w.turn = caller[c].turn /\ w.retry = caller[c].retry /\ w.maxRetry = caller[c].maxRetry
    BY <1>0, <1>3, <1>4 DEF CallerState, CallerPC
  <2>2. caller' = [caller EXCEPT ![c] = w]
    BY <1>0, <1>6 DEF JobExecutorTypeOK
  <2>. HIDE DEF w
  <2>3. FindsTasks(c)
    BY <1>0, <1>3, <2>1, <2>2, CallerRecord DEF FindsTasks, SameCall, ts
  <2>. QED BY <1>1, <2>3
<1>7. CASE ReadError(c)
  BY <1>1, <1>7, ErrorEnds
<1>. QED BY <1>5, <1>6, <1>7

\* The user's split yielded n tasks.
Splitting(c, n) ==
  /\ JobExecutorTypeOK' /\ Others(c) /\ SameCall(c) /\ caller'[c].pc = "create"
  /\ caller'[c].status \in {"PENDING", "REJECTED"} /\ caller'[c].size = n

LEMMA SplitEffect ==
  ASSUME CallInv, NEW c \in Callers, Split(c)
  PROVE  /\ caller[c].pc = "split" /\ UNCHANGED <<repositoryVars, brokerVars, finalizerVars>>
         /\ \/ Moves(c, "recheck") /\ shouldPersistTriggerFailure(c)
            \/ \E n \in 0..MaxTasks : Splitting(c, n)
            \/ Ends(c)
<1>0. caller[c] \in CallerState /\ JobExecutorTypeOK
  BY CallFacts
<1>1. caller[c].pc = "split" /\ UNCHANGED <<repositoryVars, brokerVars, finalizerVars>>
  BY DEF Split, CallAt, frame
<1>2. \/ shouldPersistTriggerFailure(c) /\ CallGoto(c, "recheck")
      \/ Return(c, TRUE)
      \/ \E n \in Splits \ {-1}, initial \in {"PENDING", "REJECTED"} :
           caller' = [caller EXCEPT ![c].pc = "create", ![c].status = initial, ![c].size = n]
      \/ ReadError(c)
  BY DEF Split
<1>3. CASE shouldPersistTriggerFailure(c) /\ CallGoto(c, "recheck")
  <2>1. Moves(c, "recheck")
    BY <1>0, <1>3, GotoMoves DEF CallerPC
  <2>. QED BY <1>1, <1>3, <2>1
<1>4. CASE Return(c, TRUE) \/ ReadError(c)
  BY <1>0, <1>1, <1>4, ReturnEnds, ErrorEnds
<1>5. ASSUME NEW n \in Splits \ {-1}, NEW initial \in {"PENDING", "REJECTED"},
             caller' = [caller EXCEPT ![c].pc = "create", ![c].status = initial, ![c].size = n]
      PROVE  \E m \in 0..MaxTasks : Splitting(c, m)
  <2>. DEFINE w == [caller[c] EXCEPT !.pc = "create", !.status = initial, !.size = n]
  <2>1. n \in 0..MaxTasks /\ initial \in Status
    BY JobExecutorAssumption, RepositoryAssumption DEF Status, JobStatus
  <2>2. /\ w \in CallerState /\ w.pc = "create" /\ w.status = initial /\ w.size = n
        /\ w.turn = caller[c].turn /\ w.retry = caller[c].retry /\ w.maxRetry = caller[c].maxRetry
    BY <1>0, <2>1 DEF CallerState, CallerPC
  <2>3. caller' = [caller EXCEPT ![c] = w]
    BY <1>0, <1>5 DEF JobExecutorTypeOK
  <2>. HIDE DEF w
  <2>4. Splitting(c, n)
    BY <1>0, <2>2, <2>3, CallerRecord DEF Splitting, SameCall
  <2>. QED BY <2>1, <2>4
<1>. QED BY <1>1, <1>2, <1>3, <1>4, <1>5

LEMMA RecheckEffect ==
  ASSUME CallInv, NEW c \in Callers, RecheckRef(c)
  PROVE  /\ caller[c].pc = "recheck" /\ UNCHANGED <<repositoryVars, brokerVars, finalizerVars>>
         /\ Moves(c, "persist") \/ Ends(c)
<1>0. JobExecutorTypeOK
  BY CallFacts
<1>1. CallGoto(c, "persist") \/ Return(c, TRUE) \/ ReadError(c)
  BY DEF RecheckRef
<1>2. Moves(c, "persist") \/ Ends(c)
  BY <1>0, <1>1, GotoMoves, ReturnEnds, ErrorEnds DEF CallerPC
<1>. QED BY <1>2 DEF RecheckRef, CallAt, frame

LEMMA PersistEffect ==
  ASSUME CallInv, NEW c \in Callers, PersistTriggerFailure(c)
  PROVE  /\ caller[c].pc = "persist" /\ UNCHANGED <<brokerVars, finalizerVars>> /\ Ends(c)
         /\ \/ \E k \in JobID : Inserted(k, NewJob(c, "FAILED", TRUE), 0)
            \/ Updated /\ job' = job
<1>0. JobExecutorTypeOK /\ RepositoryTypeOK /\ OwnTasks /\ CallName[c] \in Names
  BY CallFacts
<1>1. /\ caller[c].pc = "persist" /\ UNCHANGED <<brokerVars, finalizerVars>> /\ FreeIDs # {}
      /\ \/ CreateJobAndTasks(NextID, NewJob(c, "FAILED", TRUE), 0, Absent)
         \/ UNCHANGED repositoryVars
  BY DEF PersistTriggerFailure, CallAt, frame
<1>2. Ends(c)
  BY <1>0, ReturnEnds DEF PersistTriggerFailure
<1>3. CASE CreateJobAndTasks(NextID, NewJob(c, "FAILED", TRUE), 0, Absent)
  <2>1. PICK k \in FreeIDs : k = NextID
    BY <1>1, NextIDFree
  <2>2. NewJob(c, "FAILED", TRUE) \in JobRow /\ Exists(NewJob(c, "FAILED", TRUE))
    BY <1>0, <1>1, CallFacts DEF NewJob, JobRow, Status, JobStatus, NoParent, Exists, Absent
  <2>3. PICK row \in JobRow : row = NewJob(c, "FAILED", TRUE)
    BY <2>2
  <2>4. Exists(row) /\ CreateJobAndTasks(k, row, 0, Absent)
    BY <1>3, <2>1, <2>2, <2>3
  <2>a. 0 \in 0..MaxTasks
    BY RepositoryAssumption
  <2>5. Inserted(k, row, 0)
    BY <1>0, <2>4, <2>a, InsertRows
  <2>6. k \in JobID
    BY DEF FreeIDs
  <2>. QED BY <1>1, <1>2, <2>3, <2>5, <2>6
<1>4. CASE UNCHANGED repositoryVars
  BY <1>0, <1>1, <1>2, <1>4, UnchangedRows
<1>. QED BY <1>1, <1>3, <1>4

\* A run was created and its tasks are to be published.
Creates(c, k) ==
  /\ JobExecutorTypeOK' /\ Others(c) /\ SameCall(c) /\ caller'[c].pc = "flow"
  /\ caller'[c].job = k /\ caller'[c].status = caller[c].status
  /\ caller'[c].size = caller[c].size
  /\ caller'[c].tasks = {t \in TaskID : t[1] = k /\ t[2] < caller[c].size}

LEMMA CreateEffect ==
  ASSUME CallInv, NEW c \in Callers, CreateRun(c)
  PROVE  /\ caller[c].pc = "create" /\ UNCHANGED <<brokerVars, finalizerVars>>
         /\ \/ \E k \in JobID : /\ Inserted(k, NewJob(c, caller[c].status, FALSE), caller[c].size)
                                /\ Creates(c, k) \/ Ends(c)
            \/ Updated /\ job' = job /\ Ends(c)
<1>. DEFINE n == caller[c].size
            s == caller[c].status
            new == CreateJobAndTasks(NextID, NewJob(c, s, FALSE), n, setInitialTaskStatus(s))
<1>0. /\ JobExecutorTypeOK /\ RepositoryTypeOK /\ OwnTasks /\ CallName[c] \in Names
      /\ caller[c] \in CallerState /\ CallerOK(c)
  BY CallFacts
<1>1. caller[c].pc = "create" /\ UNCHANGED <<brokerVars, finalizerVars>> /\ FreeIDs # {}
  BY DEF CreateRun, CallAt, frame
<1>2. \/ /\ new
         /\ caller' = [caller EXCEPT ![c].pc = "flow", ![c].job = NextID,
                         ![c].tasks = {t \in TaskID : t[1] = NextID /\ t[2] < n}]
      \/ (new \/ UNCHANGED repositoryVars) /\ Ends(c)
  BY ErrorEnds DEF CreateRun
<1>3. PICK k \in FreeIDs : k = NextID
  BY <1>1, NextIDFree
<1>4. k \in JobID
  BY DEF FreeIDs
<1>5. n \in 0..MaxTasks /\ s \in {"PENDING", "REJECTED"}
  BY <1>0, <1>1 DEF CallerState, CallerOK
<1>6. setInitialTaskStatus(s) \in Status /\ setInitialTaskStatus(s) # Absent
  BY <1>5 DEF setInitialTaskStatus, Status, JobStatus, Absent
<1>7. ASSUME new PROVE Inserted(k, NewJob(c, s, FALSE), n)
  <2>1. NewJob(c, s, FALSE) \in JobRow /\ Exists(NewJob(c, s, FALSE))
    BY <1>0, <1>1, <1>5, CallFacts DEF NewJob, JobRow, Status, JobStatus, NoParent, Exists, Absent
  <2>2. PICK row \in JobRow : row = NewJob(c, s, FALSE)
    BY <2>1
  <2>3. PICK m \in 0..MaxTasks : m = n
    BY <1>5
  <2>4. PICK st \in Status \cup {Absent} : st = setInitialTaskStatus(s)
    BY <1>6
  <2>5. Exists(row) /\ st # Absent /\ CreateJobAndTasks(k, row, m, st)
    BY <1>3, <1>6, <1>7, <2>1, <2>2, <2>3, <2>4
  <2>6. Inserted(k, row, m)
    BY <1>0, <2>5, InsertRows
  <2>. QED BY <2>2, <2>3, <2>6
<1>8. CASE /\ new
           /\ caller' = [caller EXCEPT ![c].pc = "flow", ![c].job = NextID,
                           ![c].tasks = {t \in TaskID : t[1] = NextID /\ t[2] < n}]
  <2>. DEFINE ts == {t \in TaskID : t[1] = k /\ t[2] < n}
              w == [caller[c] EXCEPT !.pc = "flow", !.job = k, !.tasks = ts]
  <2>1. caller' = [caller EXCEPT ![c].pc = "flow", ![c].job = k, ![c].tasks = ts]
    BY <1>3, <1>8
  <2>2. ts \in SUBSET TaskID
    OBVIOUS
  <2>. HIDE DEF ts
  <2>3. /\ w \in CallerState /\ w.pc = "flow" /\ w.job = k /\ w.tasks = ts
        /\ w.status = s /\ w.size = n
        /\ w.turn = caller[c].turn /\ w.retry = caller[c].retry /\ w.maxRetry = caller[c].maxRetry
    BY <1>0, <1>4, <2>2 DEF CallerState, CallerPC
  <2>4. caller' = [caller EXCEPT ![c] = w]
    BY <1>0, <2>1 DEF JobExecutorTypeOK
  <2>. HIDE DEF w
  <2>5. Creates(c, k)
    BY <1>0, <2>3, <2>4, CallerRecord DEF Creates, SameCall, ts
  <2>. QED BY <1>1, <1>4, <1>7, <1>8, <2>5
<1>9. CASE (new \/ UNCHANGED repositoryVars) /\ Ends(c)
  <2>1. UNCHANGED repositoryVars => Updated /\ job' = job
    BY <1>0, UnchangedRows
  <2>. HIDE DEF new
  <2>. QED BY <1>1, <1>4, <1>7, <1>9, <2>1
<1>. QED BY <1>2, <1>8, <1>9

LEMMA SyncEffect ==
  ASSUME CallInv, NEW c \in Callers, SyncTasks(c)
  PROVE  UNCHANGED <<brokerVars, finalizerVars>> /\ Ends(c) /\ Updated /\ job' = job
<1>0. /\ JobExecutorTypeOK /\ RepositoryTypeOK /\ OwnTasks /\ CallerOK(c)
      /\ caller[c].pc = "flow"
  BY CallFacts DEF SyncTasks, CallAt
<1>1. caller[c].job \in JobID /\ caller[c].status \in Status
  BY <1>0 DEF CallerOK, Holding
<1>2. Ends(c)
  BY <1>0, ReturnEnds DEF SyncTasks
<1>3. CASE UpdateTasksStatus(TasksOf(caller[c].job), caller[c].status)
  <2>1. PICK j \in JobID : j = caller[c].job
    BY <1>1
  <2>2. PICK s \in Status : s = caller[c].status
    BY <1>1
  <2>3. UpdateTasksStatus(TasksOf(j), s) /\ job' = job
    BY <1>3, <2>1, <2>2 DEF SyncTasks
  <2>4. Updated
    BY <1>0, <2>3, SyncRows
  <2>. QED BY <1>2, <2>4 DEF SyncTasks, frame
<1>4. CASE UNCHANGED task
  BY <1>0, <1>2, <1>4, UnchangedRows DEF SyncTasks, frame, repositoryVars
<1>. QED BY <1>3, <1>4 DEF SyncTasks

LEMMA AlreadyRunningEffect ==
  ASSUME CallInv, NEW c \in Callers, AlreadyRunning(c)
  PROVE  UNCHANGED <<repositoryVars, brokerVars, finalizerVars>> /\ Ends(c)
BY CallFacts, ReturnEnds DEF AlreadyRunning, frame

LEMMA BeginPublishEffect ==
  ASSUME CallInv, NEW c \in Callers, BeginPublish(c)
  PROVE  /\ caller[c].pc = "flow" /\ caller[c].status = "PENDING"
         /\ UNCHANGED <<repositoryVars, brokerVars, finalizerVars>>
         /\ Moves(c, IF caller[c].size = 0 THEN AfterPublish(c) ELSE "publish")
<1>1. AfterPublish(c) \in CallerPC /\ "publish" \in CallerPC
  BY DEF AfterPublish, CallerPC
<1>2. PICK pc \in CallerPC : pc = IF caller[c].size = 0 THEN AfterPublish(c) ELSE "publish"
  BY <1>1
<1>3. CallGoto(c, pc)
  BY <1>2 DEF BeginPublish
<1>4. Moves(c, pc)
  BY <1>3, CallFacts, GotoMoves
<1>. QED BY <1>2, <1>4 DEF BeginPublish, CallAt, frame

\* One task was written.
Publishes(c, t) ==
  /\ JobExecutorTypeOK' /\ Others(c) /\ SameCall(c)
  /\ caller'[c].job = caller[c].job /\ caller'[c].status = caller[c].status
  /\ caller'[c].tasks = caller[c].tasks \ {t}
  /\ caller'[c].pc = IF caller[c].tasks \ {t} = {} THEN AfterPublish(c) ELSE "publish"
  /\ Publish(t, TaskPartitions) /\ Written(t)'

LEMMA PublishEffect ==
  ASSUME CallInv, NEW c \in Callers, PublishTask(c)
  PROVE  /\ caller[c].pc = "publish" /\ UNCHANGED <<repositoryVars, finalizerVars>>
         /\ BrokerTypeOK(TaskID)' /\ \A u \in TaskID : Written(u) => Written(u)'
         /\ (\E t \in TaskID : Publishes(c, t)) \/ Moves(c, "markFailed")
<1>0. JobExecutorTypeOK /\ caller[c] \in CallerState /\ BrokerTypeOK(TaskID)
  BY CallFacts DEF CallInv, SharedInv
<1>1. caller[c].pc = "publish" /\ UNCHANGED <<repositoryVars, finalizerVars>>
  BY DEF PublishTask, CallAt
<1>2. PICK t \in caller[c].tasks :
        LET rest == caller[c].tasks \ {t} IN
        \/ /\ Publish(t, TaskPartitions)
           /\ caller' = [caller EXCEPT ![c].tasks = rest,
                           ![c].pc = IF rest = {} THEN AfterPublish(c) ELSE "publish"]
        \/ /\ Publish(t, TaskPartitions) \/ UNCHANGED brokerVars
           /\ CallGoto(c, "markFailed")
  BY DEF PublishTask
<1>3. t \in TaskID
  BY <1>0 DEF CallerState
<1>4. /\ BrokerTypeOK(TaskID)' /\ \A u \in TaskID : Written(u) => Written(u)'
      /\ Publish(t, TaskPartitions) => Written(t)'
  <2>1. UNCHANGED brokerVars => BrokerTypeOK(TaskID)' /\ \A u \in TaskID : Written(u) => Written(u)'
    BY <1>0 DEF brokerVars, BrokerTypeOK, Written
  <2>2. Publish(t, TaskPartitions) =>
          /\ BrokerTypeOK(TaskID)' /\ \A u \in TaskID : Written(u) => Written(u)'
          /\ Written(t)'
    BY <1>0, <1>3, PublishLog
  <2>. QED BY <1>2, <2>1, <2>2
<1>. DEFINE rest == caller[c].tasks \ {t}
            pc == IF rest = {} THEN AfterPublish(c) ELSE "publish"
            w == [caller[c] EXCEPT !.tasks = rest, !.pc = pc]
<1>5. CASE Publish(t, TaskPartitions) /\ caller' = [caller EXCEPT ![c].tasks = rest, ![c].pc = pc]
  <2>1. rest \in SUBSET TaskID /\ pc \in CallerPC
    BY <1>0 DEF CallerState, AfterPublish, CallerPC
  <2>2. Written(t)'
    BY <1>4, <1>5
  <2>3. caller' = [caller EXCEPT ![c].tasks = rest, ![c].pc = pc]
    BY <1>5
  <2>. HIDE DEF rest, pc
  <2>4. /\ w \in CallerState /\ w.pc = pc /\ w.tasks = rest
        /\ w.status = caller[c].status /\ w.job = caller[c].job
        /\ w.turn = caller[c].turn /\ w.retry = caller[c].retry /\ w.maxRetry = caller[c].maxRetry
    BY <1>0, <2>1 DEF CallerState
  <2>5. caller' = [caller EXCEPT ![c] = w]
    BY <1>0, <2>3 DEF JobExecutorTypeOK
  <2>. HIDE DEF w
  <2>6. JobExecutorTypeOK' /\ Others(c) /\ caller'[c] = w
    BY <1>0, <2>4, <2>5, CallerRecord
  <2>7. Publishes(c, t)
    BY <1>5, <2>2, <2>4, <2>6 DEF Publishes, SameCall, rest, pc
  <2>. QED BY <1>1, <1>3, <1>4, <2>7
<1>6. CASE CallGoto(c, "markFailed")
  <2>1. Moves(c, "markFailed")
    BY <1>0, <1>6, GotoMoves DEF CallerPC
  <2>. QED BY <1>1, <1>4, <2>1
<1>. QED BY <1>2, <1>5, <1>6

LEMMA MarkFailedEffect ==
  ASSUME CallInv, NEW c \in Callers, MarkFailed(c)
  PROVE  /\ caller[c].pc = "markFailed" /\ UNCHANGED <<brokerVars, finalizerVars>> /\ Ends(c)
         /\ SetsStatus(caller[c].job, "FAILED") \/ (Updated /\ job' = job)
<1>0. /\ JobExecutorTypeOK /\ RepositoryTypeOK /\ OwnTasks /\ CallerOK(c)
      /\ caller[c].pc = "markFailed"
  BY CallFacts DEF MarkFailed, CallAt
<1>1. caller[c].job \in JobID /\ Exists(job[caller[c].job])
  BY <1>0 DEF CallerOK, Holding
<1>2. Ends(c)
  BY <1>0, ReturnEnds DEF MarkFailed
<1>3. CASE UpdateJob(caller[c].job, jobTransitions.fail.dst)
  <2>1. PICK j \in JobID : j = caller[c].job
    BY <1>1
  <2>2. "FAILED" \in Status /\ UpdateJob(j, "FAILED") /\ task' = task /\ Exists(job[j])
    BY <1>1, <1>3, <2>1 DEF jobTransitions, Status, JobStatus, MarkFailed
  <2>3. SetsStatus(j, "FAILED")
    BY <1>0, <2>2, UpdateJobRows DEF SetsStatus
  <2>. QED BY <1>0, <1>2, <2>1, <2>3 DEF MarkFailed, frame
<1>4. CASE UNCHANGED job
  BY <1>0, <1>2, <1>4, UnchangedRows DEF MarkFailed, frame, repositoryVars
<1>. QED BY <1>3, <1>4 DEF MarkFailed

LEMMA CancelEffect ==
  ASSUME CallInv, NEW c \in Callers, CancelOthers(c)
  PROVE  /\ caller[c].pc = "cancel" /\ UNCHANGED <<brokerVars, finalizerVars>>
         /\ Moves(c, "start") /\ Updated
         /\ \A j \in JobID : \/ job'[j] = job[j]
                             \/ /\ job[j].status \in {"PENDING", "RUNNING"}
                                /\ job'[j].status = "CANCELLED"
         /\ \/ Spend("error")
            \/ \A j \in JobID : j # caller[c].job /\ job[j].name = CallName[c] =>
                 job'[j].status # "RUNNING"
<1>0. /\ JobExecutorTypeOK /\ RepositoryTypeOK /\ OwnTasks /\ CallerOK(c)
      /\ caller[c].pc = "cancel" /\ CallName[c] \in Names
  BY CallFacts DEF CancelOthers, CallAt
<1>1. caller[c].job \in JobID
  BY <1>0 DEF CallerOK, Holding
<1>2. Moves(c, "start")
  BY <1>0, GotoMoves DEF CancelOthers, CallerPC
<1>3. UNCHANGED <<brokerVars, finalizerVars>>
  BY DEF CancelOthers, frame
<1>4. CASE CancelPreviousJobs(CallName[c], caller[c].job)
  <2>1. PICK k \in JobID : k = caller[c].job
    BY <1>1
  <2>2. CancelPreviousJobs(CallName[c], k)
    BY <1>4, <2>1
  <2>3. /\ Updated
        /\ \A j \in JobID : \/ job'[j] = job[j]
                            \/ /\ job[j].status \in {"PENDING", "RUNNING"}
                               /\ job'[j].status = "CANCELLED"
    BY <1>0, <2>2, CancelRows
  <2>4. \A j \in JobID : j # k /\ job[j].name = CallName[c] => job'[j].status # "RUNNING"
    BY <1>0, <2>2 DEF CancelPreviousJobs, RepositoryTypeOK, JobRow
  <2>. QED BY <1>0, <1>2, <1>3, <2>1, <2>3, <2>4
<1>5. CASE UNCHANGED repositoryVars /\ Spend("error")
  BY <1>0, <1>2, <1>3, <1>5, UnchangedRows
<1>. QED BY <1>4, <1>5 DEF CancelOthers

LEMMA CallerRestarts ==
  ASSUME CallInv, NEW c \in Callers, finished' = finished,
         \/ fin' = [fin EXCEPT ![c] = Resting]
         \/ \E j \in JobID : fin' = [fin EXCEPT ![c] = [Resting EXCEPT !.pc = "next", !.todo = {j}]]
  PROVE  Restarts(c)
<1>1. FinalizerInv /\ c \in Finalizers
  BY JobExecutorAssumption DEF CallInv, SharedInv, FinalizerInv
<1>. QED BY <1>1, RestartsFin

LEMMA StartEffect ==
  ASSUME CallInv, NEW c \in Callers, StartJob(c)
  PROVE  /\ caller[c].pc = "start" /\ UNCHANGED brokerVars
         /\ Ends(c) \/ Moves(c, "finalize")
         /\ UNCHANGED finalizerVars \/ Restarts(c)
         /\ \/ SetsStatus(caller[c].job, "RUNNING")
            \/ Updated /\ job' = job /\ Ends(c)
<1>0. /\ JobExecutorTypeOK /\ RepositoryTypeOK /\ OwnTasks /\ CallerOK(c)
      /\ caller[c].pc = "start"
  BY CallFacts DEF StartJob, CallAt
<1>1. caller[c].job \in JobID /\ Exists(job[caller[c].job])
  BY <1>0 DEF CallerOK, Holding
<1>2. PICK j \in JobID : j = caller[c].job
  BY <1>1
<1>3. /\ task' = task /\ UNCHANGED brokerVars /\ finished' = finished
      /\ UpdateJob(j, jobTransitions.start.dst) \/ job' = job
      /\ \/ CallGoto(c, "finalize")
         \/ Return(c, FALSE)
         \/ ReadError(c)
      /\ \/ UNCHANGED fin
         \/ fin' = [fin EXCEPT ![c] = [Resting EXCEPT !.pc = "next", !.todo = {j}]]
      /\ UpdateJob(j, jobTransitions.start.dst) \/ (job' = job /\ ReadError(c))
  BY <1>2 DEF StartJob
<1>4. Ends(c) \/ Moves(c, "finalize")
  BY <1>0, <1>3, ReturnEnds, ErrorEnds, GotoMoves DEF CallerPC
<1>5. UNCHANGED finalizerVars \/ Restarts(c)
  BY <1>3, CallerRestarts DEF finalizerVars
<1>6. CASE UpdateJob(j, jobTransitions.start.dst)
  <2>1. "RUNNING" \in Status /\ UpdateJob(j, "RUNNING") /\ Exists(job[j])
    BY <1>1, <1>2, <1>6 DEF jobTransitions, Status, JobStatus
  <2>2. SetsStatus(j, "RUNNING")
    BY <1>0, <1>3, <2>1, UpdateJobRows DEF SetsStatus
  <2>. QED BY <1>0, <1>2, <1>3, <1>4, <1>5, <2>2
<1>7. CASE job' = job /\ ReadError(c)
  <2>1. Updated
    BY <1>0, <1>3, <1>7, UnchangedRows DEF repositoryVars
  <2>. QED BY <1>0, <1>3, <1>5, <1>7, <2>1, ErrorEnds
<1>. QED BY <1>3, <1>6, <1>7

LEMMA EndFinalizeEffect ==
  ASSUME CallInv, NEW c \in Callers, EndFinalize(c)
  PROVE  UNCHANGED <<repositoryVars, brokerVars, finalizerVars>> /\ Ends(c)
BY CallFacts, ReturnEnds DEF EndFinalize, frame

LEMMA CrashEffect ==
  ASSUME CallInv, NEW c \in Callers, CrashCaller(c)
  PROVE  UNCHANGED <<repositoryVars, brokerVars>> /\ Ends(c) /\ Restarts(c)
BY CallFacts, ReturnEnds, CallerRestarts DEF CrashCaller

\* No step of a caller un-spends a fault.
LEMMA CallerFaults ==
  ASSUME CallInv, NEW c \in Callers, CallerStep(c) \/ CrashCaller(c)
  PROVE  FaultsTypeOK' /\ \A k \in FaultKind : Never(k)' => Never(k)
<1>1. UNCHANGED spent \/ Spend("error") \/ Spend("crash")
  <2>1. FindExisting(c) \/ FindExistingTasks(c) \/ Split(c) => UNCHANGED spent \/ Spend("error")
    BY DEF FindExisting, FindExistingTasks, Split, ReadError
  <2>2. RecheckRef(c) \/ PersistTriggerFailure(c) \/ CreateRun(c) => UNCHANGED spent \/ Spend("error")
    BY DEF RecheckRef, PersistTriggerFailure, CreateRun, ReadError
  <2>3. SyncTasks(c) \/ AlreadyRunning(c) \/ BeginPublish(c) => UNCHANGED spent \/ Spend("error")
    BY DEF SyncTasks, AlreadyRunning, BeginPublish
  <2>4. PublishTask(c) \/ MarkFailed(c) \/ CancelOthers(c) => UNCHANGED spent \/ Spend("error")
    BY DEF PublishTask, MarkFailed, CancelOthers
  <2>5. StartJob(c) \/ EndFinalize(c) => UNCHANGED spent \/ Spend("error")
    BY DEF StartJob, EndFinalize, ReadError
  <2>6. CrashCaller(c) => Spend("crash")
    BY DEF CrashCaller
  <2>. QED BY <2>1, <2>2, <2>3, <2>4, <2>5, <2>6 DEF CallerStep
<1>2. FaultsTypeOK
  BY DEF CallInv, SharedInv
<1>. QED BY <1>1, <1>2, SpendKeeps

LEMMA AssembleCall ==
  ASSUME CallInv, NEW c \in Callers, RepositoryTypeOK', OwnTasks',
         \A j \in JobID : Exists(job[j]) => Exists(job'[j]),
         FaultsTypeOK', BrokerTypeOK(TaskID)', FinalizerInv', JobExecutorTypeOK', Others(c),
         CallerOK(c)'
  PROVE  CallInv' /\ Grows
<1>1. ASSUME NEW d \in Callers, d # c PROVE CallerOK(d)'
  <2>1. caller'[d] = caller[d] /\ CallerOK(d)
    BY <1>1 DEF Others, CallInv, CallerInv
  <2>. QED BY <2>1 DEF CallerOK
<1>. QED BY <1>1 DEF CallInv, SharedInv, CallerInv, FinalizerInv, Grows

LEMMA EndsOK == ASSUME CallInv, NEW c \in Callers, Ends(c) PROVE CallerOK(c)'
<1>1. CallerOK(c)
  BY CallFacts
<1>. QED BY <1>1 DEF CallerOK, Ends, SameCall, Holding, Starting

\* Going on to pc with what was read before.
LEMMA MovesOK ==
  ASSUME CallInv, NEW c \in Callers, NEW pc, Moves(c, pc), caller[c].pc # "idle", pc # "create",
         pc \in Holding => caller[c].pc \in Holding,
         pc \in Starting => caller[c].status = "PENDING",
         \A j \in JobID : Exists(job[j]) => Exists(job'[j])
  PROVE  CallerOK(c)'
<1>1. CallerOK(c)
  BY CallFacts
<1>. QED BY <1>1 DEF CallerOK, Moves, SameCall

\* One step of a caller.
LEMMA CallerTypeStep ==
  ASSUME CallInv, NEW c \in Callers,
         \/ Trigger(c) \/ (\E j \in JobID : RetryTriggerJob(c, j)) \/ Redeliver(c)
         \/ CallerStep(c) \/ CrashCaller(c)
  PROVE  CallInv' /\ Grows
<1>. DEFINE Rows == RepositoryTypeOK' /\ OwnTasks'
                    /\ \A j \in JobID : Exists(job[j]) => Exists(job'[j])
            Kafka == BrokerTypeOK(TaskID)'
            Final == FinalizerInv'
            Call == JobExecutorTypeOK' /\ Others(c) /\ CallerOK(c)'
            Goal == Rows /\ Kafka /\ Final /\ Call /\ FaultsTypeOK'
<1>. SUFFICES Goal
  BY AssembleCall
<1>0. /\ JobExecutorTypeOK /\ RepositoryTypeOK /\ OwnTasks /\ caller[c] \in CallerState
      /\ CallerOK(c) /\ CallRefs[c] \in Seq(Refs)
  BY CallFacts
<1>a. Updated => Rows
  BY DEF Updated
<1>b. UNCHANGED repositoryVars => Rows
  BY <1>0, <1>a, UnchangedRows
<1>c. UNCHANGED brokerVars => Kafka
  BY DEF CallInv, SharedInv, brokerVars, BrokerTypeOK
<1>d. UNCHANGED finalizerVars => Final
  BY DEF CallInv, SharedInv, finalizerVars, FinalizerInv, JobFinalizerTypeOK, Visiting
<1>e. Restarts(c) => Final
  BY DEF Restarts
<1>f. UNCHANGED spent => FaultsTypeOK'
  BY DEF CallInv, SharedInv, FaultsTypeOK
<1>g. Ends(c) => Call
  BY EndsOK DEF Ends
<1>h. ASSUME NEW k \in JobID, NEW row, NEW n, Inserted(k, row, n), Exists(row) PROVE Rows
  BY <1>h DEF Inserted
<1>. HIDE DEF Rows, Kafka, Final
<1>1. ASSUME NEW m \in Nat \cup {NoAsynq}, NextCall(c, m) PROVE Goal
  <2>1. /\ Begins(c, caller[c].turn + 1, 0, m) /\ caller[c].turn < Len(CallRefs[c])
        /\ UNCHANGED <<repositoryVars, spent, brokerVars, finalizerVars>>
    BY <1>1, NextCallEffect
  <2>2. caller[c].turn \in Nat /\ Len(CallRefs[c]) \in Nat
    BY <1>0 DEF CallerState
  <2>3. caller'[c].turn <= Len(CallRefs[c]) /\ caller'[c].turn >= 1
    BY <2>1, <2>2 DEF Begins
  <2>4. Call
    BY <2>1, <2>3 DEF Begins, CallerOK, Holding, Starting
  <2>. QED BY <2>1, <2>4, <1>b, <1>c, <1>d, <1>f
<1>2. CASE Redeliver(c)
  <2>1. /\ Begins(c, caller[c].turn, caller[c].retry + 1, caller[c].maxRetry)
        /\ caller[c].retry < caller[c].maxRetry
        /\ UNCHANGED <<repositoryVars, spent, brokerVars, finalizerVars>>
    BY <1>2, RedeliverEffect
  <2>2. caller[c].maxRetry # NoAsynq
    BY <1>0, <2>1 DEF CallerState, NoAsynq
  <2>3. caller'[c].turn <= Len(CallRefs[c]) /\ caller'[c].turn >= 1
    BY <1>0, <2>1, <2>2 DEF Begins, CallerOK
  <2>4. Call
    BY <2>1, <2>3 DEF Begins, CallerOK, Holding, Starting
  <2>. QED BY <2>1, <2>4, <1>b, <1>c, <1>d, <1>f
<1>3. ASSUME CallerStep(c) \/ CrashCaller(c) PROVE FaultsTypeOK'
  BY <1>3, CallerFaults
<1>4. CASE FindExisting(c)
  <2>0. Rows /\ Kafka /\ Final
    BY <1>4, FindEffect, <1>b, <1>c, <1>d
  <2>1. CASE Moves(c, "split")
    <3>1. CallerOK(c)'
      BY <1>4, <2>0, <2>1, FindEffect, MovesOK DEF Holding, Starting, Rows
    <3>. QED BY <2>0, <2>1, <3>1, <1>3, <1>4 DEF Moves, CallerStep
  <2>2. ASSUME NEW j \in JobID, Finds(c, j) PROVE Goal
    <3>1. job[j].status \in Status /\ Exists(job'[j]) /\ caller[c].pc = "find"
      BY <1>0, <1>4, <2>0, <2>2, FindEffect
      DEF Finds, Exists, RepositoryTypeOK, JobRow, Rows
    <3>2. CallerOK(c)'
      BY <1>0, <2>2, <3>1 DEF Finds, SameCall, CallerOK, Holding, Starting
    <3>. QED BY <2>0, <2>2, <3>2, <1>3, <1>4 DEF Finds, CallerStep
  <2>3. CASE Ends(c)
    BY <2>0, <2>3, <1>3, <1>4, <1>g DEF CallerStep
  <2>. QED BY <1>4, <2>1, <2>2, <2>3, FindEffect
<1>5. CASE FindExistingTasks(c)
  <2>0. Rows /\ Kafka /\ Final /\ caller[c].pc = "findTasks"
    BY <1>5, FindTasksEffect, <1>b, <1>c, <1>d
  <2>1. CASE FindsTasks(c)
    <3>1. CallerOK(c)'
      BY <1>0, <2>0, <2>1 DEF FindsTasks, SameCall, CallerOK, Holding, Starting, Rows
    <3>. QED BY <2>0, <2>1, <3>1, <1>3, <1>5 DEF FindsTasks, CallerStep
  <2>2. CASE Ends(c)
    BY <2>0, <2>2, <1>3, <1>5, <1>g DEF CallerStep
  <2>. QED BY <1>5, <2>1, <2>2, FindTasksEffect
<1>6. CASE Split(c)
  <2>0. Rows /\ Kafka /\ Final /\ caller[c].pc = "split"
    BY <1>6, SplitEffect, <1>b, <1>c, <1>d
  <2>1. CASE Moves(c, "recheck")
    <3>1. CallerOK(c)'
      BY <2>0, <2>1, MovesOK DEF Holding, Starting, Rows
    <3>. QED BY <2>0, <2>1, <3>1, <1>3, <1>6 DEF Moves, CallerStep
  <2>2. ASSUME NEW n \in 0..MaxTasks, Splitting(c, n) PROVE Goal
    <3>1. CallerOK(c)'
      BY <1>0, <2>0, <2>2 DEF Splitting, SameCall, CallerOK, Holding, Starting
    <3>. QED BY <2>0, <2>2, <3>1, <1>3, <1>6 DEF Splitting, CallerStep
  <2>3. CASE Ends(c)
    BY <2>0, <2>3, <1>3, <1>6, <1>g DEF CallerStep
  <2>. QED BY <1>6, <2>1, <2>2, <2>3, SplitEffect
<1>7. CASE RecheckRef(c)
  <2>0. Rows /\ Kafka /\ Final /\ caller[c].pc = "recheck"
    BY <1>7, RecheckEffect, <1>b, <1>c, <1>d
  <2>1. CASE Moves(c, "persist")
    <3>1. CallerOK(c)'
      BY <2>0, <2>1, MovesOK DEF Holding, Starting, Rows
    <3>. QED BY <2>0, <2>1, <3>1, <1>3, <1>7 DEF Moves, CallerStep
  <2>2. CASE Ends(c)
    BY <2>0, <2>2, <1>3, <1>7, <1>g DEF CallerStep
  <2>. QED BY <1>7, <2>1, <2>2, RecheckEffect
<1>8. CASE PersistTriggerFailure(c)
  <2>1. Exists(NewJob(c, "FAILED", TRUE))
    BY DEF NewJob, Exists, Absent
  <2>2. Rows
    BY <1>8, <1>a, <1>h, <2>1, PersistEffect
  <2>. QED BY <1>8, <2>2, PersistEffect, <1>3, <1>c, <1>d, <1>g DEF CallerStep
<1>9. CASE CreateRun(c)
  <2>0. Kafka /\ Final /\ caller[c].pc = "create" /\ caller[c].status \in {"PENDING", "REJECTED"}
    BY <1>0, <1>9, CreateEffect, <1>c, <1>d DEF CallerOK
  <2>1. Exists(NewJob(c, caller[c].status, FALSE)) /\ caller[c].status \in Status
    BY <2>0 DEF NewJob, Exists, Absent, Status, JobStatus
  <2>2. Rows
    BY <1>9, <1>a, <1>h, <2>1, CreateEffect
  <2>3. ASSUME NEW k \in JobID, Inserted(k, NewJob(c, caller[c].status, FALSE), caller[c].size),
               Creates(c, k)
        PROVE  Goal
    <3>1. Exists(job'[k])
      BY <2>1, <2>3 DEF Inserted
    <3>2. CallerOK(c)'
      BY <1>0, <2>0, <2>1, <2>3, <3>1 DEF Creates, SameCall, CallerOK, Holding, Starting
    <3>. QED BY <2>0, <2>2, <2>3, <3>2, <1>3, <1>9 DEF Creates, CallerStep
  <2>4. CASE Ends(c)
    BY <2>0, <2>2, <2>4, <1>3, <1>9, <1>g DEF CallerStep
  <2>. QED BY <1>9, <2>3, <2>4, CreateEffect
<1>10. CASE SyncTasks(c)
  BY <1>10, SyncEffect, <1>3, <1>a, <1>c, <1>d, <1>g DEF CallerStep
<1>11. CASE AlreadyRunning(c)
  BY <1>11, AlreadyRunningEffect, <1>3, <1>b, <1>c, <1>d, <1>g DEF CallerStep
<1>12. CASE BeginPublish(c)
  <2>. DEFINE pc == IF caller[c].size = 0 THEN AfterPublish(c) ELSE "publish"
  <2>0. /\ Rows /\ Kafka /\ Final /\ caller[c].pc = "flow" /\ caller[c].status = "PENDING"
        /\ Moves(c, pc)
    BY <1>12, BeginPublishEffect, <1>b, <1>c, <1>d
  <2>1. pc \in {"publish", "cancel", "start"}
    BY DEF AfterPublish
  <2>. HIDE DEF pc
  <2>2. CallerOK(c)'
    BY <2>0, <2>1, MovesOK DEF Holding, Starting, Rows
  <2>. QED BY <2>0, <2>2, <1>3, <1>12 DEF Moves, CallerStep
<1>13. CASE PublishTask(c)
  <2>0. Rows /\ Kafka /\ Final /\ caller[c].pc = "publish" /\ caller[c].status = "PENDING"
    BY <1>0, <1>13, PublishEffect, <1>b, <1>d DEF CallerOK, Starting, Kafka
  <2>1. CASE Moves(c, "markFailed")
    <3>1. CallerOK(c)'
      BY <2>0, <2>1, MovesOK DEF Holding, Starting, Rows
    <3>. QED BY <2>0, <2>1, <3>1, <1>3, <1>13 DEF Moves, CallerStep
  <2>2. ASSUME NEW t \in TaskID, Publishes(c, t) PROVE Goal
    <3>1. caller'[c].pc \in {"publish", "cancel", "start"}
      BY <2>2 DEF Publishes, AfterPublish
    <3>2. CallerOK(c)'
      BY <1>0, <2>0, <2>2, <3>1 DEF Publishes, SameCall, CallerOK, Holding, Starting, Rows
    <3>. QED BY <2>0, <2>2, <3>2, <1>3, <1>13 DEF Publishes, CallerStep
  <2>. QED BY <1>13, <2>1, <2>2, PublishEffect
<1>14. CASE MarkFailed(c)
  <2>1. Rows
    BY <1>14, MarkFailedEffect, <1>a DEF SetsStatus
  <2>. QED BY <1>14, <2>1, MarkFailedEffect, <1>3, <1>c, <1>d, <1>g DEF CallerStep
<1>15. CASE CancelOthers(c)
  <2>0. /\ Rows /\ Kafka /\ Final /\ caller[c].pc = "cancel" /\ caller[c].status = "PENDING"
        /\ Moves(c, "start")
    BY <1>0, <1>15, CancelEffect, <1>a, <1>c, <1>d DEF CallerOK, Starting
  <2>1. CallerOK(c)'
    BY <2>0, MovesOK DEF Holding, Starting, Rows
  <2>. QED BY <2>0, <2>1, <1>3, <1>15 DEF Moves, CallerStep
<1>16. CASE StartJob(c)
  <2>0. Kafka /\ Final /\ caller[c].pc = "start" /\ caller[c].status = "PENDING"
    BY <1>0, <1>16, StartEffect, <1>c, <1>d, <1>e DEF CallerOK, Starting
  <2>1. Rows
    BY <1>16, StartEffect, <1>a DEF SetsStatus
  <2>2. CASE Moves(c, "finalize")
    <3>1. CallerOK(c)'
      BY <2>0, <2>1, <2>2, MovesOK DEF Holding, Starting, Rows
    <3>. QED BY <2>0, <2>1, <2>2, <3>1, <1>3, <1>16 DEF Moves, CallerStep
  <2>3. CASE Ends(c)
    BY <2>0, <2>1, <2>3, <1>3, <1>16, <1>g DEF CallerStep
  <2>. QED BY <1>16, <2>2, <2>3, StartEffect
<1>17. CASE EndFinalize(c)
  BY <1>17, EndFinalizeEffect, <1>3, <1>b, <1>c, <1>d, <1>g DEF CallerStep
<1>18. CASE CrashCaller(c)
  BY <1>18, CrashEffect, <1>3, <1>b, <1>c, <1>e, <1>g
<1>19. CASE Trigger(c) \/ \E j \in JobID : RetryTriggerJob(c, j)
  <2>1. AsynqMaxRetry[c] \in Nat \cup {NoAsynq}
    BY JobExecutorAssumption
  <2>. HIDE DEF Goal
  <2>. QED BY <1>1, <1>19, <2>1 DEF Trigger, RetryTriggerJob
<1>. HIDE DEF Goal
<1>. QED
  BY <1>2, <1>4, <1>5, <1>6, <1>7, <1>8, <1>9, <1>10, <1>11, <1>12, <1>13, <1>14, <1>15, <1>16,
     <1>17, <1>18, <1>19
  DEF CallerStep

-----------------------------------------------------------------------------
(* The steps of a caller by what they do to the table and to what the caller *)
(* knows.                                                                    *)

\* No row is inserted, and what the caller knows it knew before.
Quiet(c) ==
  /\ Others(c) /\ SameCall(c) /\ Updated
  /\ caller'[c].pc \in Holding =>
       /\ caller[c].pc \in Holding \ {"finalize"}
       /\ caller'[c].job = caller[c].job /\ caller'[c].status = caller[c].status
  /\ caller'[c].pc \in Unfound => caller[c].pc \in Unfound
  /\ caller'[c].pc \in {"recheck", "persist"} =>
       caller[c].pc \in {"recheck", "persist"} \/ shouldPersistTriggerFailure(c)

\* It changes no row of a job, ...
Reads(c) ==
  /\ Quiet(c) /\ job' = job
  /\ caller'[c].pc = "start" => CallName[c] \notin CancelPrevious

\* ... marks its run FAILED or RUNNING, ...
Marks(c) ==
  /\ Quiet(c) /\ caller'[c].pc \in {"idle", "finalize"}
  /\ caller[c].job \in JobID /\ caller[c].status = "PENDING"
  /\ \/ caller[c].pc = "markFailed" /\ SetsStatus(caller[c].job, "FAILED")
     \/ caller[c].pc = "start" /\ SetsStatus(caller[c].job, "RUNNING")

\* ... or cancels the other runs of the name, if the statement does not fail.
Cancels(c) ==
  /\ Quiet(c) /\ caller'[c].pc = "start"
  /\ \A j \in JobID : \/ job'[j] = job[j]
                      \/ job[j].status \in {"PENDING", "RUNNING"} /\ job'[j].status = "CANCELLED"
  /\ \/ Spend("error")
     \/ \A j \in JobID : j # caller[c].job /\ job[j].name = CallName[c] => job'[j].status # "RUNNING"

\* It looked its reference up, and there was no row.
Misses(c) ==
  /\ Others(c) /\ SameCall(c) /\ Updated /\ job' = job /\ caller'[c].pc = "split"
  /\ \A j \in JobID : Exists(job[j]) => job[j].ref # CallRefs[c][caller[c].turn]

\* There was one.
Hits(c, j) ==
  /\ Others(c) /\ SameCall(c) /\ Updated /\ job' = job /\ caller'[c].pc = "findTasks"
  /\ Exists(job[j]) /\ job[j].ref = CallRefs[c][caller[c].turn]
  /\ caller'[c].job = j /\ caller'[c].status = job[j].status

\* A row is inserted for the call: the record of its failure, or a run.
Inserts(c, k, status, failure, n) ==
  /\ Others(c) /\ SameCall(c)
  /\ \/ caller[c].pc = "persist" /\ status = "FAILED" /\ failure = TRUE /\ n = 0
     \/ caller[c].pc = "create" /\ status \in {"PENDING", "REJECTED"} /\ failure = FALSE
  /\ \/ caller'[c].pc = "idle"
     \/ caller'[c].pc = "flow" /\ caller'[c].job = k /\ caller'[c].status = status /\ failure = FALSE
  /\ Inserted(k, NewJob(c, status, failure), n)

\* A call begins: the next one, or the last one again.
BeginsNext(c) ==
  /\ Updated /\ job' = job /\ caller[c].turn < Len(CallRefs[c])
  /\ \E m \in Nat \cup {NoAsynq} : Begins(c, caller[c].turn + 1, 0, m)

BeginsAgain(c) ==
  /\ Updated /\ job' = job /\ caller[c].retry < caller[c].maxRetry
  /\ Begins(c, caller[c].turn, caller[c].retry + 1, caller[c].maxRetry)

\* Hide the sum of the kinds in one name.
Kind(c) ==
  \/ BeginsNext(c) \/ BeginsAgain(c) \/ Reads(c) \/ Marks(c) \/ Cancels(c) \/ Misses(c)
  \/ \E j \in JobID : Hits(c, j)
  \/ \E k \in JobID : \E status \in Status : \E failure \in BOOLEAN : \E n \in 0..MaxTasks :
       Inserts(c, k, status, failure, n)

LEMMA EndsQuiet ==
  ASSUME NEW c \in Callers, Ends(c), Updated
  PROVE  Quiet(c) /\ caller'[c].pc = "idle"
BY DEF Ends, Quiet, Holding, Unfound

LEMMA MovesQuiet ==
  ASSUME NEW c \in Callers, NEW pc, Moves(c, pc), Updated,
         pc \in Holding => caller[c].pc \in Holding \ {"finalize"},
         pc \in Unfound => caller[c].pc \in Unfound,
         pc \in {"recheck", "persist"} =>
           caller[c].pc \in {"recheck", "persist"} \/ shouldPersistTriggerFailure(c)
  PROVE  Quiet(c) /\ caller'[c].pc = pc
BY DEF Moves, Quiet

LEMMA CallerKinds ==
  ASSUME CallInv, NEW c \in Callers,
         \/ Trigger(c) \/ (\E j \in JobID : RetryTriggerJob(c, j)) \/ Redeliver(c)
         \/ CallerStep(c) \/ CrashCaller(c)
  PROVE  Kind(c) /\ (UNCHANGED finalizerVars \/ Restarts(c))
<1>. DEFINE Final == UNCHANGED finalizerVars \/ Restarts(c)
            Goal == Kind(c) /\ Final
<1>. SUFFICES Goal
  OBVIOUS
<1>0. RepositoryTypeOK /\ OwnTasks /\ caller[c] \in CallerState /\ CallerOK(c)
  BY CallFacts
<1>a. UNCHANGED repositoryVars => Updated /\ job' = job
  BY <1>0, UnchangedRows
<1>b. Ends(c) /\ Updated /\ job' = job => Kind(c)
  BY EndsQuiet DEF Kind, Reads
<1>1. ASSUME NEW m \in Nat \cup {NoAsynq}, NextCall(c, m) PROVE Goal
  BY <1>1, <1>a, NextCallEffect DEF Kind, BeginsNext
<1>2. CASE Redeliver(c)
  BY <1>2, <1>a, RedeliverEffect DEF Kind, BeginsAgain
<1>4. CASE FindExisting(c)
  <2>0. Updated /\ job' = job /\ Final
    BY <1>4, <1>a, FindEffect
  <2>1. CASE Moves(c, "split") /\ \A j \in JobID : Exists(job[j]) => job[j].ref # RefID(c)
    BY <2>0, <2>1 DEF Moves, Misses, Kind, RefID
  <2>2. ASSUME NEW j \in JobID, Finds(c, j) PROVE Goal
    <3>1. Hits(c, j)
      BY <2>0, <2>2 DEF Finds, Hits, RefID
    <3>. QED BY <2>0, <3>1 DEF Kind
  <2>. QED BY <1>4, <1>b, <2>0, <2>1, <2>2, FindEffect
<1>5. CASE FindExistingTasks(c)
  <2>0. Updated /\ job' = job /\ Final /\ caller[c].pc = "findTasks"
    BY <1>5, <1>a, FindTasksEffect
  <2>1. CASE FindsTasks(c)
    BY <2>0, <2>1 DEF FindsTasks, Quiet, Reads, Kind, Holding, Unfound
  <2>. QED BY <1>5, <1>b, <2>0, <2>1, FindTasksEffect
<1>6. CASE Split(c)
  <2>0. Updated /\ job' = job /\ Final /\ caller[c].pc = "split"
    BY <1>6, <1>a, SplitEffect
  <2>1. CASE Moves(c, "recheck") /\ shouldPersistTriggerFailure(c)
    BY <2>0, <2>1, MovesQuiet DEF Reads, Kind, Holding, Unfound
  <2>2. ASSUME NEW n \in 0..MaxTasks, Splitting(c, n) PROVE Goal
    BY <2>0, <2>2 DEF Splitting, Quiet, Reads, Kind, Holding, Unfound
  <2>. QED BY <1>6, <1>b, <2>0, <2>1, <2>2, SplitEffect
<1>7. CASE RecheckRef(c)
  <2>0. Updated /\ job' = job /\ Final /\ caller[c].pc = "recheck"
    BY <1>7, <1>a, RecheckEffect
  <2>1. CASE Moves(c, "persist")
    BY <2>0, <2>1, MovesQuiet DEF Reads, Kind, Holding, Unfound
  <2>. QED BY <1>7, <1>b, <2>0, <2>1, RecheckEffect
<1>8. CASE PersistTriggerFailure(c)
  <2>0. Ends(c) /\ Final /\ caller[c].pc = "persist"
    BY <1>8, PersistEffect
  <2>1. ASSUME NEW k \in JobID, Inserted(k, NewJob(c, "FAILED", TRUE), 0) PROVE Goal
    <3>1. "FAILED" \in Status /\ TRUE \in BOOLEAN
      BY DEF Status, JobStatus
    <3>2. 0 \in 0..MaxTasks
      BY RepositoryAssumption
    <3>3. Inserts(c, k, "FAILED", TRUE, 0)
      BY <2>0, <2>1 DEF Inserts, Ends
    <3>. QED BY <2>0, <3>1, <3>2, <3>3, Zenon DEF Kind
  <2>. QED BY <1>8, <1>b, <2>0, <2>1, PersistEffect
<1>9. CASE CreateRun(c)
  <2>0. Final /\ caller[c].pc = "create" /\ caller[c].status \in {"PENDING", "REJECTED"}
    BY <1>0, <1>9, CreateEffect DEF CallerOK
  <2>1. caller[c].status \in Status /\ FALSE \in BOOLEAN /\ caller[c].size \in 0..MaxTasks
    BY <1>0, <2>0 DEF Status, JobStatus, CallerState
  <2>2. ASSUME NEW k \in JobID, Inserted(k, NewJob(c, caller[c].status, FALSE), caller[c].size),
               Creates(c, k) \/ Ends(c)
        PROVE  Goal
    <3>1. Inserts(c, k, caller[c].status, FALSE, caller[c].size)
      BY <2>0, <2>2 DEF Inserts, Ends, Creates
    <3>. QED BY <2>0, <2>1, <3>1, Zenon DEF Kind
  <2>. QED BY <1>9, <1>b, <2>0, <2>2, CreateEffect
<1>10. CASE SyncTasks(c)
  BY <1>10, SyncEffect, <1>b
<1>11. CASE AlreadyRunning(c)
  BY <1>11, AlreadyRunningEffect, <1>a, <1>b
<1>12. CASE BeginPublish(c)
  <2>. DEFINE pc == IF caller[c].size = 0 THEN AfterPublish(c) ELSE "publish"
  <2>0. Updated /\ job' = job /\ Final /\ caller[c].pc = "flow" /\ Moves(c, pc)
    BY <1>12, <1>a, BeginPublishEffect
  <2>1. pc \in {"publish", "cancel", "start"} /\ (pc = "start" => CallName[c] \notin CancelPrevious)
    BY DEF AfterPublish
  <2>. HIDE DEF pc
  <2>2. Quiet(c) /\ caller'[c].pc = pc
    BY <2>0, <2>1, MovesQuiet DEF Holding, Unfound
  <2>. QED BY <2>0, <2>1, <2>2 DEF Reads, Kind
<1>13. CASE PublishTask(c)
  <2>0. Updated /\ job' = job /\ Final /\ caller[c].pc = "publish"
    BY <1>13, <1>a, PublishEffect
  <2>1. CASE Moves(c, "markFailed")
    BY <2>0, <2>1, MovesQuiet DEF Reads, Kind, Holding, Unfound
  <2>2. ASSUME NEW t \in TaskID, Publishes(c, t) PROVE Goal
    <3>1. /\ caller'[c].pc \in {"publish", "cancel", "start"}
          /\ caller'[c].pc = "start" => CallName[c] \notin CancelPrevious
      BY <2>2 DEF Publishes, AfterPublish
    <3>. QED BY <2>0, <2>2, <3>1 DEF Publishes, Quiet, Reads, Kind, Holding, Unfound
  <2>. QED BY <1>13, <2>1, <2>2, PublishEffect
<1>14. CASE MarkFailed(c)
  <2>0. Ends(c) /\ Final /\ caller[c].pc = "markFailed"
    BY <1>14, MarkFailedEffect
  <2>1. caller[c].job \in JobID /\ caller[c].status = "PENDING"
    BY <1>0, <2>0 DEF CallerOK, Holding, Starting
  <2>2. CASE SetsStatus(caller[c].job, "FAILED")
    BY <2>0, <2>1, <2>2, EndsQuiet DEF SetsStatus, Marks, Kind
  <2>. QED BY <1>14, <1>b, <2>0, <2>2, MarkFailedEffect
<1>15. CASE CancelOthers(c)
  <2>0. Final /\ caller[c].pc = "cancel" /\ Moves(c, "start") /\ Updated
    BY <1>15, CancelEffect
  <2>1. Quiet(c) /\ caller'[c].pc = "start"
    BY <2>0, MovesQuiet DEF Holding, Unfound
  <2>. QED BY <1>15, <2>0, <2>1, CancelEffect DEF Cancels, Kind
<1>16. CASE StartJob(c)
  <2>0. Final /\ caller[c].pc = "start" /\ (Ends(c) \/ Moves(c, "finalize"))
    BY <1>16, StartEffect
  <2>1. caller[c].job \in JobID /\ caller[c].status = "PENDING"
    BY <1>0, <2>0 DEF CallerOK, Holding, Starting
  <2>2. CASE SetsStatus(caller[c].job, "RUNNING")
    <3>1. Quiet(c) /\ caller'[c].pc \in {"idle", "finalize"}
      BY <2>0, <2>2, EndsQuiet, MovesQuiet DEF SetsStatus, Holding, Unfound
    <3>. QED BY <2>0, <2>1, <2>2, <3>1 DEF Marks, Kind
  <2>. QED BY <1>16, <1>b, <2>0, <2>2, StartEffect
<1>17. CASE EndFinalize(c)
  BY <1>17, EndFinalizeEffect, <1>a, <1>b
<1>18. CASE CrashCaller(c)
  BY <1>18, CrashEffect, <1>a, <1>b
<1>19. CASE Trigger(c) \/ \E j \in JobID : RetryTriggerJob(c, j)
  <2>1. AsynqMaxRetry[c] \in Nat \cup {NoAsynq}
    BY JobExecutorAssumption
  <2>. HIDE DEF Goal
  <2>. QED BY <1>1, <1>19, <2>1 DEF Trigger, RetryTriggerJob
<1>. HIDE DEF Goal
<1>. QED
  BY <1>2, <1>4, <1>5, <1>6, <1>7, <1>8, <1>9, <1>10, <1>11, <1>12, <1>13, <1>14, <1>15, <1>16,
     <1>17, <1>18, <1>19
  DEF CallerStep

-----------------------------------------------------------------------------
(* JobRetry *)

\* Where a retrier works on a clone that it has yet to start.
Streaming == {"read", "insert", "publish", "reread", "summary", "start"}
OnClone == Streaming \cup {"finalize"}

\* What a retrier knows at each place: the original is in the table; so is the
\* clone, which was live when it was read or created; a page is of the clone.
RetrierOK(r) ==
  /\ retrier[r].pc # "idle" => retrier[r].source \in JobID /\ Exists(job[retrier[r].source])
  /\ retrier[r].pc \in OnClone =>
       /\ retrier[r].clone \in JobID /\ Exists(job[retrier[r].clone])
       /\ retrier[r].status \in NonTerminalJobStates
  /\ retrier[r].pc \in {"findClone", "create"} => ~retrier[r].reuse /\ retrier[r].afterSeq = -1
  /\ retrier[r].pc \in {"read", "insert"} => ~retrier[r].reuse
  /\ retrier[r].pc \in {"reread", "summary"} => retrier[r].reuse
  /\ retrier[r].pc \in {"insert", "publish"} =>
       \A t \in retrier[r].batch : t[1] = retrier[r].clone

RetrierInv == \A r \in Retriers : RetrierOK(r)

RetryInv == SharedInv /\ JobRetryTypeOK /\ RetrierInv

-----------------------------------------------------------------------------
(* How a retrier's record changes *)

OtherRetriers(r) == \A q \in Retriers : q # r => retrier'[q] = retrier[q]

\* The call ends.
RetryEnds(r) == JobRetryTypeOK' /\ OtherRetriers(r) /\ retrier'[r].pc = "idle"

\* The call goes on with the same two jobs.
SameJobs(r) ==
  /\ JobRetryTypeOK' /\ OtherRetriers(r)
  /\ retrier'[r].source = retrier[r].source /\ retrier'[r].clone = retrier[r].clone
  /\ retrier'[r].status = retrier[r].status /\ retrier'[r].reuse = retrier[r].reuse

\* The call goes on to pc, its cursor where it is.
RetryMoves(r, pc) ==
  /\ SameJobs(r) /\ retrier'[r].pc = pc
  /\ retrier'[r].afterSeq = retrier[r].afterSeq /\ retrier'[r].last = retrier[r].last
  /\ retrier'[r].batch = retrier[r].batch

\* The call takes a page of the rows and goes on to pc.
TurnsPage(r, rows, page, pc) ==
  /\ SameJobs(r) /\ retrier'[r].pc = pc
  /\ page # {} /\ page \subseteq rows
  /\ \A t \in rows : t \in page <=> t[2] <= retrier'[r].afterSeq
  /\ retrier'[r].last => page = rows

\* A call failed on its way.
Fails == ~Never("error")' \/ ~Never("crash")'

LEMMA RetrierFacts ==
  ASSUME RetryInv, NEW r \in Retriers
  PROVE  /\ JobRetryTypeOK /\ RepositoryTypeOK /\ FaultsTypeOK /\ FinalizerInv /\ OwnTasks
         /\ BrokerTypeOK(TaskID) /\ retrier[r] \in RetrierState /\ RetrierOK(r) /\ r \in Finalizers
BY JobRetryAssumption DEF RetryInv, SharedInv, JobRetryTypeOK, RetrierInv, FinalizerInv

LEMMA RetrierRecord ==
  ASSUME JobRetryTypeOK, NEW r \in Retriers, NEW w \in RetrierState, RetryBecome(r, w)
  PROVE  JobRetryTypeOK' /\ OtherRetriers(r) /\ retrier'[r] = w
BY DEF JobRetryTypeOK, OtherRetriers, RetryBecome

LEMMA NotRetryingType ==
  /\ NotRetrying \in RetrierState /\ NotRetrying.pc = "idle"
  /\ NotRetrying.reuse = FALSE /\ NotRetrying.afterSeq = -1
BY DEF NotRetrying, RetrierState, RetrierPC

LEMMA RetryReturnEnds ==
  ASSUME JobRetryTypeOK, NEW r \in Retriers, RetryReturn(r)
  PROVE  RetryEnds(r)
<1>. DEFINE w == [NotRetrying EXCEPT !.calls = retrier[r].calls]
<1>1. retrier[r].calls \in Nat
  BY DEF JobRetryTypeOK, RetrierState
<1>2. w \in RetrierState /\ w.pc = "idle"
  <2>. HIDE DEF w
  <2>. QED BY <1>1, NotRetryingType DEF RetrierState, w
<1>3. RetryBecome(r, w)
  BY DEF RetryReturn
<1>. HIDE DEF w
<1>. QED BY <1>2, <1>3, RetrierRecord DEF RetryEnds

LEMMA SpendFails ==
  ASSUME FaultsTypeOK, Spend("error") \/ Spend("crash")
  PROVE  Fails
BY FaultAssumption DEF FaultsTypeOK, FaultKind, Spend, Never, Fails

LEMMA RetryErrorEnds ==
  ASSUME JobRetryTypeOK, FaultsTypeOK, NEW r \in Retriers, RetryError(r)
  PROVE  RetryEnds(r) /\ Fails
BY RetryReturnEnds, SpendFails DEF RetryError

LEMMA RetryGotoMoves ==
  ASSUME JobRetryTypeOK, NEW r \in Retriers, NEW pc \in RetrierPC, RetryGoto(r, pc)
  PROVE  RetryMoves(r, pc)
<1>. DEFINE w == [retrier[r] EXCEPT !.pc = pc]
<1>1. retrier[r] \in RetrierState
  BY DEF JobRetryTypeOK
<1>2. /\ w \in RetrierState /\ w.pc = pc
      /\ w.source = retrier[r].source /\ w.clone = retrier[r].clone
      /\ w.status = retrier[r].status /\ w.reuse = retrier[r].reuse
      /\ w.afterSeq = retrier[r].afterSeq /\ w.last = retrier[r].last
      /\ w.batch = retrier[r].batch
  BY <1>1 DEF RetrierState
<1>3. RetryBecome(r, w)
  BY DEF RetryGoto
<1>. HIDE DEF w
<1>. QED BY <1>2, <1>3, RetrierRecord DEF RetryMoves, SameJobs

-----------------------------------------------------------------------------
(* What each step of a retrier does *)

\* A new call.
RetryBegins(r, j) ==
  /\ JobRetryTypeOK' /\ OtherRetriers(r) /\ retrier'[r].pc = "findClone" /\ retrier'[r].source = j
  /\ ~retrier'[r].reuse /\ retrier'[r].afterSeq = -1

LEMMA RetryJobEffect ==
  ASSUME RetryInv, NEW r \in Retriers, NEW j \in JobID, RetryJob(r, j)
  PROVE  /\ UNCHANGED <<repositoryVars, spent, brokerVars, finalizerVars>>
         /\ Exists(job[j]) /\ ~IsExecutionPending(job[j].status) /\ RetryBegins(r, j)
<1>. DEFINE w == [NotRetrying EXCEPT !.pc = "findClone", !.source = j, !.calls = retrier[r].calls + 1]
<1>1. JobRetryTypeOK /\ retrier[r].calls + 1 \in Nat
  BY RetrierFacts DEF RetrierState
<1>2. "findClone" \in RetrierPC
  BY DEF RetrierPC
<1>3. /\ w \in RetrierState /\ w.pc = "findClone" /\ w.source = j
      /\ w.reuse = FALSE /\ w.afterSeq = -1
  <2>. HIDE DEF w
  <2>. QED BY <1>1, <1>2, NotRetryingType DEF RetrierState, w
<1>4. RetryBecome(r, w)
  BY DEF RetryJob
<1>. HIDE DEF w
<1>5. RetryBegins(r, j)
  BY <1>1, <1>3, <1>4, RetrierRecord DEF RetryBegins
<1>. QED BY <1>5 DEF RetryJob, retryFrame

\* A live clone was found.
Reuses(r, k) ==
  /\ JobRetryTypeOK' /\ OtherRetriers(r) /\ retrier'[r].pc = "reread" /\ retrier'[r].clone = k
  /\ retrier'[r].source = retrier[r].source /\ retrier'[r].status = job[k].status
  /\ retrier'[r].reuse /\ retrier'[r].afterSeq = retrier[r].afterSeq

LEMMA FindCloneEffect ==
  ASSUME RetryInv, NEW r \in Retriers, FindClone(r)
  PROVE  /\ retrier[r].pc = "findClone"
         /\ UNCHANGED <<repositoryVars, brokerVars, finalizerVars>>
         /\ \/ RetryEnds(r)
            \/ /\ RetryMoves(r, "create")
               /\ \A k \in JobID : job[k].status \in NonTerminalJobStates =>
                                     job[k].parent # retrier[r].source
            \/ \E k \in JobID : /\ job[k].status \in NonTerminalJobStates
                                /\ job[k].parent = retrier[r].source /\ Reuses(r, k)
<1>0. JobRetryTypeOK /\ FaultsTypeOK /\ retrier[r] \in RetrierState /\ RepositoryTypeOK
  BY RetrierFacts
<1>1. retrier[r].pc = "findClone" /\ UNCHANGED <<repositoryVars, brokerVars, finalizerVars>>
  BY DEF FindClone, RetryAt, retryFrame
<1>. DEFINE j == FindPendingJobByParentID(retrier[r].source)
            w == [retrier[r] EXCEPT !.pc = "reread", !.clone = j, !.reuse = TRUE, !.status = job[j].status]
<1>2. /\ j \in JobID \cup {0}
      /\ j # 0 => job[j].status \in NonTerminalJobStates /\ job[j].parent = retrier[r].source
      /\ j = 0 => \A k \in JobID : job[k].status \in NonTerminalJobStates =>
                                     job[k].parent # retrier[r].source
  BY FindPendingJobByParentIDFacts
<1>3. \/ j = 0 /\ RetryGoto(r, "create")
      \/ j # 0 /\ RetryBecome(r, w)
      \/ RetryError(r)
  BY DEF FindClone
<1>. HIDE DEF j
<1>4. CASE j = 0 /\ RetryGoto(r, "create")
  BY <1>0, <1>1, <1>2, <1>4, RetryGotoMoves DEF RetrierPC
<1>5. CASE j # 0 /\ RetryBecome(r, w)
  <2>1. j \in JobID /\ job[j].status \in Status
    BY <1>2, <1>5 DEF NonTerminalJobStates, Status, JobStatus
  <2>2. /\ w \in RetrierState /\ w.pc = "reread" /\ w.clone = j /\ w.reuse = TRUE
        /\ w.status = job[j].status /\ w.source = retrier[r].source
        /\ w.afterSeq = retrier[r].afterSeq
    BY <1>0, <2>1 DEF RetrierState, RetrierPC
  <2>. HIDE DEF w
  <2>3. Reuses(r, j)
    BY <1>0, <1>5, <2>2, RetrierRecord DEF Reuses
  <2>. QED BY <1>1, <1>2, <1>5, <2>1, <2>3
<1>6. CASE RetryError(r)
  BY <1>0, <1>1, <1>6, RetryErrorEnds
<1>. QED BY <1>3, <1>4, <1>5, <1>6

\* A clone was created.
CreatesClone(r, k) ==
  /\ JobRetryTypeOK' /\ OtherRetriers(r) /\ retrier'[r].pc = "read" /\ retrier'[r].clone = k
  /\ retrier'[r].source = retrier[r].source /\ retrier'[r].status = "PENDING"
  /\ retrier'[r].reuse = retrier[r].reuse /\ retrier'[r].afterSeq = retrier[r].afterSeq

LEMMA CreateCloneEffect ==
  ASSUME RetryInv, NEW r \in Retriers, CreateClone(r)
  PROVE  /\ retrier[r].pc = "create" /\ UNCHANGED <<brokerVars, finalizerVars>>
         /\ \/ UNCHANGED repositoryVars /\ RetryEnds(r)
            \/ \E k \in JobID : \E row \in JobRow :
                 /\ Inserted(k, row, 0) /\ row.status = "PENDING" /\ row.parent = retrier[r].source
                 /\ row.triggerFailure = job[retrier[r].source].triggerFailure
                 /\ (RetryEnds(r) /\ Fails) \/ CreatesClone(r, k)
<1>0. /\ JobRetryTypeOK /\ FaultsTypeOK /\ retrier[r] \in RetrierState /\ RepositoryTypeOK
      /\ OwnTasks /\ RetrierOK(r)
  BY RetrierFacts
<1>1. retrier[r].pc = "create" /\ UNCHANGED <<brokerVars, finalizerVars>>
  BY DEF CreateClone, RetryAt, retryFrame
<1>2. PICK j \in JobID : j = retrier[r].source
  BY <1>0, <1>1 DEF RetrierOK
<1>3. PICK k \in FreeIDs : k = NextID
  BY NextIDFree DEF CreateClone
<1>4. k \in JobID
  BY DEF FreeIDs
<1>. DEFINE row == [status |-> "PENDING", name |-> job[j].name, ref |-> RetryRef[r], parent |-> j,
                    triggerFailure |-> job[j].triggerFailure]
            w == [retrier[r] EXCEPT !.pc = "read", !.clone = k, !.status = "PENDING"]
<1>5. "PENDING" \in Status /\ "PENDING" # Absent
  BY DEF Status, JobStatus, Absent
<1>6. row \in JobRow /\ Exists(row) /\ row.status = "PENDING" /\ row.parent = j
  BY <1>0, <1>5, JobRetryAssumption DEF JobRow, RepositoryTypeOK, Exists
<1>11. row.triggerFailure = job[j].triggerFailure
  OBVIOUS
<1>7. \/ CreateJobAndTasks(k, row, 0, Absent) /\ RetryBecome(r, w)
      \/ (CreateJobAndTasks(k, row, 0, Absent) \/ UNCHANGED repositoryVars) /\ RetryError(r)
  BY <1>2, <1>3 DEF CreateClone
<1>. HIDE DEF row
<1>8. CreateJobAndTasks(k, row, 0, Absent) => Inserted(k, row, 0)
  <2>1. 0 \in 0..MaxTasks /\ Absent \in Status \cup {Absent}
    BY RepositoryAssumption
  <2>. QED BY <1>0, <1>6, <2>1, InsertRows
<1>9. CASE CreateJobAndTasks(k, row, 0, Absent) /\ RetryBecome(r, w)
  <2>1. /\ w \in RetrierState /\ w.pc = "read" /\ w.clone = k /\ w.status = "PENDING"
        /\ w.source = retrier[r].source /\ w.reuse = retrier[r].reuse
        /\ w.afterSeq = retrier[r].afterSeq
    BY <1>0, <1>4, <1>5 DEF RetrierState, RetrierPC
  <2>. HIDE DEF w
  <2>2. CreatesClone(r, k)
    BY <1>0, <1>9, <2>1, RetrierRecord DEF CreatesClone
  <2>. QED BY <1>1, <1>2, <1>4, <1>6, <1>8, <1>9, <1>11, <2>2
<1>10. CASE (CreateJobAndTasks(k, row, 0, Absent) \/ UNCHANGED repositoryVars) /\ RetryError(r)
  <2>1. RetryEnds(r) /\ Fails
    BY <1>0, <1>10, RetryErrorEnds
  <2>. QED BY <1>1, <1>2, <1>4, <1>6, <1>8, <1>10, <1>11, <2>1
<1>. QED BY <1>7, <1>9, <1>10

\* Turned moves the cursor to the last task of the page.
LEMMA TurnedFacts ==
  ASSUME RetryInv, NEW r \in Retriers, NEW j \in JobID, NEW statuses, NEW page,
         page = FindTasksBatch(j, statuses, retrier[r].afterSeq, RetryBatchSize), page # {}
  PROVE  LET w == Turned(r, page)
             rows == PageRows(j, statuses, retrier[r].afterSeq)
         IN /\ w \in RetrierState
            /\ w.source = retrier[r].source /\ w.clone = retrier[r].clone
            /\ w.status = retrier[r].status /\ w.reuse = retrier[r].reuse
            /\ page \subseteq rows /\ page \subseteq TaskID
            /\ \A t \in rows : t \in page <=> t[2] <= w.afterSeq
            /\ w.last => page = rows
<1>. DEFINE rows == PageRows(j, statuses, retrier[r].afterSeq)
            seqs == {t[2] : t \in page}
            n == CHOOSE m \in seqs : \A t \in page : t[2] <= m
            w == Turned(r, page)
<1>0. retrier[r] \in RetrierState
  BY RetrierFacts
<1>1. retrier[r].afterSeq \in Int /\ retrier[r].total \in Nat /\ RetryBatchSize \in Nat \ {0}
  BY <1>0, JobRetryAssumption DEF RetrierState
<1>2. /\ page \subseteq rows /\ Cardinality(page) \in Nat
      /\ \A t \in page : \A u \in rows : u[2] <= t[2] => u \in page
      /\ Cardinality(page) < RetryBatchSize => page = rows
  <2>1. PICK a \in Int : a = retrier[r].afterSeq
    BY <1>1
  <2>. QED BY <1>1, <2>1, PageFacts
<1>3. rows \subseteq TaskID /\ \A t \in TaskID : t[2] \in 0..(MaxTasks - 1) /\ t[2] \in 0..MaxTasks
  <2>1. \A t \in TaskID : t[2] \in 0..(MaxTasks - 1)
    BY TaskBelongs
  <2>2. \A m \in 0..(MaxTasks - 1) : m \in 0..MaxTasks
    BY RepositoryAssumption
  <2>. QED BY <2>1, <2>2 DEF PageRows, TasksOf
<1>. HIDE DEF rows
<1>4. seqs \in SUBSET (0..MaxTasks) /\ seqs # {}
  BY <1>2, <1>3
<1>5. \E m \in seqs : \A l \in seqs : l <= m
  BY <1>4, GreatestNat, RepositoryAssumption
<1>6. n \in seqs /\ \A t \in page : t[2] <= n
  <2>1. \E m \in seqs : \A t \in page : t[2] <= m
    BY <1>5
  <2>. QED BY <2>1
<1>7. n \in Nat /\ \A t \in rows : t \in page <=> t[2] <= n
  <2>1. n \in Nat
    BY <1>4, <1>6, RepositoryAssumption
  <2>2. PICK u \in page : n = u[2]
    BY <1>6
  <2>3. ASSUME NEW t \in rows PROVE t \in page <=> t[2] <= n
    BY <1>2, <1>6, <2>2
  <2>. QED BY <2>1, <2>3
<1>8. w = [retrier[r] EXCEPT !.afterSeq = n, !.last = Cardinality(page) < RetryBatchSize,
                             !.total = @ + Cardinality(page)]
  BY DEF Turned
<1>9. retrier[r].total + Cardinality(page) \in Nat /\ (Cardinality(page) < RetryBatchSize) \in BOOLEAN
  BY <1>1, <1>2
<1>. HIDE DEF n, w
<1>10. /\ w \in RetrierState /\ w.afterSeq = n /\ w.last = (Cardinality(page) < RetryBatchSize)
       /\ w.source = retrier[r].source /\ w.clone = retrier[r].clone
       /\ w.status = retrier[r].status /\ w.reuse = retrier[r].reuse
  BY <1>0, <1>7, <1>8, <1>9 DEF RetrierState
<1>. QED BY <1>2, <1>3, <1>7, <1>10 DEF w, rows

\* The rows a page of the original, or of the clone, is taken from.
SourceRows(r) == PageRows(retrier[r].source, retryStatuses(FullRetry[r]), retrier[r].afterSeq)
CloneRows(r) == PageRows(retrier[r].clone, Status, retrier[r].afterSeq)

\* The record after a page, u of its own.
LEMMA PageRecord ==
  ASSUME JobRetryTypeOK, NEW r \in Retriers, NEW u \in RetrierState,
         NEW pc \in RetrierPC, NEW batch \in SUBSET TaskID,
         RetryBecome(r, [u EXCEPT !.pc = pc, !.batch = batch])
  PROVE  /\ JobRetryTypeOK' /\ OtherRetriers(r)
         /\ retrier'[r].pc = pc /\ retrier'[r].batch = batch
         /\ retrier'[r].source = u.source /\ retrier'[r].clone = u.clone
         /\ retrier'[r].status = u.status /\ retrier'[r].reuse = u.reuse
         /\ retrier'[r].afterSeq = u.afterSeq /\ retrier'[r].last = u.last
<1>. DEFINE w == [u EXCEPT !.pc = pc, !.batch = batch]
<1>1. /\ w \in RetrierState /\ w.pc = pc /\ w.batch = batch
      /\ w.source = u.source /\ w.clone = u.clone /\ w.status = u.status /\ w.reuse = u.reuse
      /\ w.afterSeq = u.afterSeq /\ w.last = u.last
  BY DEF RetrierState
<1>2. RetryBecome(r, w)
  OBVIOUS
<1>. HIDE DEF w
<1>. QED BY <1>1, <1>2, RetrierRecord

LEMMA EmptyPage ==
  ASSUME RetryInv, NEW r \in Retriers, NEW j \in JobID, NEW statuses,
         FindTasksBatch(j, statuses, retrier[r].afterSeq, RetryBatchSize) = {}
  PROVE  PageRows(j, statuses, retrier[r].afterSeq) = {}
<1>1. PICK a \in Int : a = retrier[r].afterSeq
  BY RetrierFacts DEF RetrierState
<1>. QED BY <1>1, PageFacts, JobRetryAssumption

LEMMA PageOfJob ==
  ASSUME NEW j, NEW statuses, NEW a, NEW limit
  PROVE  FindTasksBatch(j, statuses, a, limit) \in SUBSET TaskID
BY DEF FindTasksBatch, TasksOf

LEMMA ReadSourceEffect ==
  ASSUME RetryInv, NEW r \in Retriers, ReadSource(r)
  PROVE  /\ retrier[r].pc = "read" /\ UNCHANGED <<repositoryVars, brokerVars, finalizerVars>>
         /\ \/ RetryEnds(r) /\ Fails
            \/ RetryMoves(r, "start") /\ SourceRows(r) = {}
            \/ \E page \in SUBSET TaskID :
                 /\ TurnsPage(r, SourceRows(r), page, "insert")
                 /\ retrier'[r].batch = {<<retrier[r].clone, t[2]>> : t \in page}
<1>0. /\ JobRetryTypeOK /\ FaultsTypeOK /\ retrier[r] \in RetrierState /\ RetrierOK(r)
  BY RetrierFacts
<1>1. retrier[r].pc = "read" /\ UNCHANGED <<repositoryVars, brokerVars, finalizerVars>>
  BY DEF ReadSource, RetryAt, retryFrame
<1>2. PICK j \in JobID : j = retrier[r].source
  BY <1>0, <1>1 DEF RetrierOK
<1>3. retrier[r].clone \in JobID
  BY <1>0, <1>1 DEF RetrierOK, OnClone, Streaming
<1>. DEFINE st == retryStatuses(FullRetry[r])
            page == FindTasksBatch(j, st, retrier[r].afterSeq, RetryBatchSize)
            batch == {<<retrier[r].clone, t[2]>> : t \in page}
<1>4. \/ page = {} /\ RetryGoto(r, "start")
      \/ page # {} /\ RetryBecome(r, [Turned(r, page) EXCEPT !.pc = "insert", !.batch = batch])
      \/ RetryError(r)
  BY <1>2 DEF ReadSource
<1>5. SourceRows(r) = PageRows(j, st, retrier[r].afterSeq)
  BY <1>2 DEF SourceRows
<1>6. page \in SUBSET TaskID
  BY PageOfJob
<1>. HIDE DEF st
<1>7. CASE page = {} /\ RetryGoto(r, "start")
  <2>1. RetryMoves(r, "start")
    BY <1>0, <1>7, RetryGotoMoves DEF RetrierPC
  <2>2. SourceRows(r) = {}
    BY <1>5, <1>7, EmptyPage
  <2>. QED BY <1>1, <2>1, <2>2
<1>8. CASE page # {} /\ RetryBecome(r, [Turned(r, page) EXCEPT !.pc = "insert", !.batch = batch])
  <2>1. batch \in SUBSET TaskID /\ "insert" \in RetrierPC
    BY <1>3, <1>6 DEF TaskID, RetrierPC
  <2>2. PICK p \in SUBSET TaskID : p = page
    BY <1>6
  <2>3. PICK b \in SUBSET TaskID : b = batch
    BY <2>1
  <2>4. /\ Turned(r, p) \in RetrierState
        /\ Turned(r, p).source = retrier[r].source /\ Turned(r, p).clone = retrier[r].clone
        /\ Turned(r, p).status = retrier[r].status /\ Turned(r, p).reuse = retrier[r].reuse
        /\ p \subseteq SourceRows(r)
        /\ \A t \in SourceRows(r) : t \in p <=> t[2] <= Turned(r, p).afterSeq
        /\ Turned(r, p).last => p = SourceRows(r)
    BY <1>5, <1>8, <2>2, TurnedFacts
  <2>5. PICK u \in RetrierState : u = Turned(r, p)
    BY <2>4
  <2>6. RetryBecome(r, [u EXCEPT !.pc = "insert", !.batch = b])
    BY <1>8, <2>2, <2>3, <2>5
  <2>7. /\ JobRetryTypeOK' /\ OtherRetriers(r)
        /\ retrier'[r].pc = "insert" /\ retrier'[r].batch = b
        /\ retrier'[r].source = u.source /\ retrier'[r].clone = u.clone
        /\ retrier'[r].status = u.status /\ retrier'[r].reuse = u.reuse
        /\ retrier'[r].afterSeq = u.afterSeq /\ retrier'[r].last = u.last
    BY <1>0, <2>1, <2>6, PageRecord
  <2>8. TurnsPage(r, SourceRows(r), p, "insert") /\ retrier'[r].batch = b
    BY <1>8, <2>2, <2>5, <2>4, <2>7 DEF TurnsPage, SameJobs
  <2>9. b = {<<retrier[r].clone, t[2]>> : t \in p}
    BY <2>2, <2>3
  <2>. QED BY <1>1, <2>8, <2>9
<1>9. CASE RetryError(r)
  BY <1>0, <1>1, <1>9, RetryErrorEnds
<1>. QED BY <1>4, <1>7, <1>8, <1>9

LEMMA ReadCloneEffect ==
  ASSUME RetryInv, NEW r \in Retriers, ReadClone(r)
  PROVE  /\ retrier[r].pc = "reread" /\ UNCHANGED <<repositoryVars, brokerVars, finalizerVars>>
         /\ \/ RetryEnds(r) /\ Fails
            \/ RetryMoves(r, "summary") /\ CloneRows(r) = {}
            \/ \E page \in SUBSET TaskID :
                 TurnsPage(r, CloneRows(r), page, "publish") /\ retrier'[r].batch = page
<1>0. /\ JobRetryTypeOK /\ FaultsTypeOK /\ retrier[r] \in RetrierState /\ RetrierOK(r)
  BY RetrierFacts
<1>1. retrier[r].pc = "reread" /\ UNCHANGED <<repositoryVars, brokerVars, finalizerVars>>
  BY DEF ReadClone, RetryAt, retryFrame
<1>2. PICK j \in JobID : j = retrier[r].clone
  BY <1>0, <1>1 DEF RetrierOK, OnClone, Streaming
<1>. DEFINE page == FindTasksBatch(j, Status, retrier[r].afterSeq, RetryBatchSize)
<1>4. \/ page = {} /\ RetryGoto(r, "summary")
      \/ page # {} /\ RetryBecome(r, [Turned(r, page) EXCEPT !.pc = "publish", !.batch = page])
      \/ RetryError(r)
  BY <1>2 DEF ReadClone
<1>5. CloneRows(r) = PageRows(j, Status, retrier[r].afterSeq)
  BY <1>2 DEF CloneRows
<1>6. page \in SUBSET TaskID
  BY PageOfJob
<1>7. CASE page = {} /\ RetryGoto(r, "summary")
  <2>1. RetryMoves(r, "summary")
    BY <1>0, <1>7, RetryGotoMoves DEF RetrierPC
  <2>2. CloneRows(r) = {}
    BY <1>5, <1>7, EmptyPage
  <2>. QED BY <1>1, <2>1, <2>2
<1>8. CASE page # {} /\ RetryBecome(r, [Turned(r, page) EXCEPT !.pc = "publish", !.batch = page])
  <2>1. "publish" \in RetrierPC
    BY DEF RetrierPC
  <2>2. PICK p \in SUBSET TaskID : p = page
    BY <1>6
  <2>3. /\ Turned(r, p) \in RetrierState
        /\ Turned(r, p).source = retrier[r].source /\ Turned(r, p).clone = retrier[r].clone
        /\ Turned(r, p).status = retrier[r].status /\ Turned(r, p).reuse = retrier[r].reuse
        /\ p \subseteq CloneRows(r)
        /\ \A t \in CloneRows(r) : t \in p <=> t[2] <= Turned(r, p).afterSeq
        /\ Turned(r, p).last => p = CloneRows(r)
    BY <1>5, <1>8, <2>2, TurnedFacts
  <2>4. PICK u \in RetrierState : u = Turned(r, p)
    BY <2>3
  <2>5. RetryBecome(r, [u EXCEPT !.pc = "publish", !.batch = p])
    BY <1>8, <2>2, <2>4
  <2>6. /\ JobRetryTypeOK' /\ OtherRetriers(r)
        /\ retrier'[r].pc = "publish" /\ retrier'[r].batch = p
        /\ retrier'[r].source = u.source /\ retrier'[r].clone = u.clone
        /\ retrier'[r].status = u.status /\ retrier'[r].reuse = u.reuse
        /\ retrier'[r].afterSeq = u.afterSeq /\ retrier'[r].last = u.last
    BY <1>0, <2>1, <2>5, PageRecord
  <2>7. TurnsPage(r, CloneRows(r), p, "publish") /\ retrier'[r].batch = p
    BY <1>8, <2>2, <2>4, <2>3, <2>6 DEF TurnsPage, SameJobs
  <2>. QED BY <1>1, <2>7
<1>9. CASE RetryError(r)
  BY <1>0, <1>1, <1>9, RetryErrorEnds
<1>. QED BY <1>4, <1>7, <1>8, <1>9

\* The tasks S have rows; the other rows are as they were.
Filled(S) ==
  /\ RepositoryTypeOK' /\ OwnTasks' /\ job' = job
  /\ \A t \in TaskID : IF t \in S THEN Exists(task'[t]) ELSE task'[t] = task[t]

LEMMA FillRows ==
  ASSUME RepositoryTypeOK, OwnTasks, NEW S \in SUBSET TaskID, \A t \in S : Exists(job[t[1]]),
         job' = job, CreateTasks(S) \/ task' = task
  PROVE  Filled(S) \/ task' = task
<1>. SUFFICES ASSUME CreateTasks(S) PROVE Filled(S)
  OBVIOUS
<1>1. [status |-> "PENDING", attempt |-> 1] \in TaskRow /\ "PENDING" # Absent
  BY DEF TaskRow, Status, JobStatus, Absent
<1>2. task' \in [TaskID -> TaskRow]
  BY <1>1 DEF CreateTasks, RepositoryTypeOK
<1>3. \A t \in TaskID : IF t \in S THEN Exists(task'[t]) ELSE task'[t] = task[t]
  BY <1>1 DEF CreateTasks, Exists
<1>4. OwnTasks'
  BY <1>3 DEF OwnTasks
<1>. QED BY <1>2, <1>3, <1>4 DEF Filled, RepositoryTypeOK

LEMMA InsertEffect ==
  ASSUME RetryInv, NEW r \in Retriers, InsertClones(r)
  PROVE  /\ retrier[r].pc = "insert" /\ UNCHANGED <<job, brokerVars, finalizerVars>>
         /\ \/ Filled(retrier[r].batch) /\ RetryMoves(r, "publish")
            \/ (Filled(retrier[r].batch) \/ task' = task) /\ RetryEnds(r) /\ Fails
<1>0. /\ JobRetryTypeOK /\ FaultsTypeOK /\ retrier[r] \in RetrierState /\ RetrierOK(r)
      /\ RepositoryTypeOK /\ OwnTasks
  BY RetrierFacts
<1>1. retrier[r].pc = "insert" /\ UNCHANGED <<job, brokerVars, finalizerVars>>
  BY DEF InsertClones, RetryAt, retryFrame
<1>2. /\ retrier[r].batch \in SUBSET TaskID
      /\ \A t \in retrier[r].batch : Exists(job[t[1]])
  BY <1>0, <1>1 DEF RetrierOK, RetrierState, OnClone, Streaming
<1>3. PICK S \in SUBSET TaskID : S = retrier[r].batch
  BY <1>2
<1>4. CreateTasks(S) => Filled(S)
  <2>. SUFFICES ASSUME CreateTasks(S) PROVE Filled(S)
    OBVIOUS
  <2>1. [status |-> "PENDING", attempt |-> 1].status # Absent
    BY DEF Absent
  <2>2. Filled(S) \/ task' = task
    BY <1>0, <1>1, <1>2, <1>3, FillRows
  <2>3. CASE task' = task
    <3>1. \A t \in TaskID : t \in S => Exists(task'[t])
      BY <2>1 DEF CreateTasks, Exists
    <3>. QED BY <1>0, <1>1, <2>3, <3>1 DEF Filled, RepositoryTypeOK, OwnTasks
  <2>. QED BY <2>2, <2>3
<1>5. CASE CreateTasks(S) /\ RetryGoto(r, "publish")
  BY <1>0, <1>1, <1>3, <1>4, <1>5, RetryGotoMoves DEF RetrierPC
<1>6. CASE (CreateTasks(S) \/ UNCHANGED task) /\ RetryError(r)
  BY <1>0, <1>1, <1>3, <1>4, <1>6, RetryErrorEnds
<1>. QED BY <1>3, <1>5, <1>6 DEF InsertClones

\* One task of the page was written.
PublishesOne(r, t) ==
  /\ SameJobs(r)
  /\ retrier'[r].afterSeq = retrier[r].afterSeq /\ retrier'[r].last = retrier[r].last
  /\ retrier'[r].batch = retrier[r].batch \ {t} /\ Written(t)'
  /\ \/ retrier'[r].pc = "publish"
     \/ /\ retrier[r].batch \ {t} = {}
        /\ \/ retrier'[r].pc = "summary" /\ retrier[r].reuse /\ retrier[r].last
           \/ retrier'[r].pc = "reread" /\ retrier[r].reuse
           \/ retrier'[r].pc = "start" /\ ~retrier[r].reuse /\ retrier[r].last
           \/ retrier'[r].pc = "read" /\ ~retrier[r].reuse

LEMMA PublishCloneEffect ==
  ASSUME RetryInv, NEW r \in Retriers, PublishClone(r)
  PROVE  /\ retrier[r].pc = "publish" /\ UNCHANGED <<repositoryVars, finalizerVars>>
         /\ BrokerTypeOK(TaskID)' /\ \A u \in TaskID : Written(u) => Written(u)'
         /\ (\E t \in TaskID : PublishesOne(r, t)) \/ (RetryEnds(r) /\ Fails)
<1>0. /\ JobRetryTypeOK /\ FaultsTypeOK /\ retrier[r] \in RetrierState /\ BrokerTypeOK(TaskID)
  BY RetrierFacts
<1>1. retrier[r].pc = "publish" /\ UNCHANGED <<repositoryVars, finalizerVars>>
  BY DEF PublishClone, RetryAt
<1>2. PICK t \in retrier[r].batch :
        LET rest == retrier[r].batch \ {t} IN
        \/ /\ Publish(t, TaskPartitions)
           /\ RetryBecome(r, [retrier[r] EXCEPT !.batch = rest,
                                !.pc = IF rest = {} THEN AfterPage(r) ELSE "publish"])
        \/ /\ Publish(t, TaskPartitions) \/ UNCHANGED brokerVars
           /\ RetryError(r)
  BY DEF PublishClone
<1>3. t \in TaskID
  BY <1>0 DEF RetrierState
<1>4. /\ BrokerTypeOK(TaskID)' /\ \A u \in TaskID : Written(u) => Written(u)'
      /\ Publish(t, TaskPartitions) => Written(t)'
  <2>1. UNCHANGED brokerVars => BrokerTypeOK(TaskID)' /\ \A u \in TaskID : Written(u) => Written(u)'
    BY <1>0 DEF brokerVars, BrokerTypeOK, Written
  <2>2. Publish(t, TaskPartitions) =>
          /\ BrokerTypeOK(TaskID)' /\ \A u \in TaskID : Written(u) => Written(u)'
          /\ Written(t)'
    BY <1>0, <1>3, PublishLog
  <2>. QED BY <1>2, <2>1, <2>2
<1>. DEFINE rest == retrier[r].batch \ {t}
            pc == IF rest = {} THEN AfterPage(r) ELSE "publish"
            w == [retrier[r] EXCEPT !.batch = rest, !.pc = pc]
<1>5. CASE Publish(t, TaskPartitions) /\ RetryBecome(r, w)
  <2>0. retrier[r].reuse \in BOOLEAN /\ retrier[r].last \in BOOLEAN
    BY <1>0 DEF RetrierState
  <2>1. \/ pc = "publish"
        \/ /\ rest = {}
           /\ \/ pc = "summary" /\ retrier[r].reuse /\ retrier[r].last
              \/ pc = "reread" /\ retrier[r].reuse
              \/ pc = "start" /\ ~retrier[r].reuse /\ retrier[r].last
              \/ pc = "read" /\ ~retrier[r].reuse
    BY <2>0 DEF AfterPage
  <2>2. rest \in SUBSET TaskID /\ pc \in RetrierPC
    BY <1>0, <2>1 DEF RetrierState, RetrierPC
  <2>. HIDE DEF rest, pc
  <2>3. /\ w \in RetrierState /\ w.pc = pc /\ w.batch = rest
        /\ w.source = retrier[r].source /\ w.clone = retrier[r].clone
        /\ w.status = retrier[r].status /\ w.reuse = retrier[r].reuse
        /\ w.afterSeq = retrier[r].afterSeq /\ w.last = retrier[r].last
    BY <1>0, <2>2 DEF RetrierState
  <2>. HIDE DEF w
  <2>4. JobRetryTypeOK' /\ OtherRetriers(r) /\ retrier'[r] = w
    BY <1>0, <1>5, <2>3, RetrierRecord
  <2>5. PublishesOne(r, t)
    BY <1>4, <1>5, <2>1, <2>3, <2>4 DEF PublishesOne, SameJobs, rest
  <2>. QED BY <1>1, <1>3, <1>4, <2>5
<1>6. CASE RetryError(r)
  BY <1>0, <1>1, <1>4, <1>6, RetryErrorEnds
<1>. QED BY <1>2, <1>5, <1>6

LEMMA CountEffect ==
  ASSUME RetryInv, NEW r \in Retriers, CountClone(r)
  PROVE  /\ retrier[r].pc = "summary" /\ UNCHANGED <<repositoryVars, brokerVars, finalizerVars>>
         /\ RetryMoves(r, "start") \/ (RetryEnds(r) /\ Fails)
<1>0. /\ JobRetryTypeOK /\ FaultsTypeOK /\ retrier[r] \in RetrierState /\ RetrierOK(r)
  BY RetrierFacts
<1>1. retrier[r].pc = "summary" /\ UNCHANGED <<repositoryVars, brokerVars, finalizerVars>>
  BY DEF CountClone, RetryAt, retryFrame
<1>2. retrier[r].clone \in JobID
  BY <1>0, <1>1 DEF RetrierOK, OnClone, Streaming
<1>. DEFINE total == GetTaskStatusSummary(retrier[r].clone).total
            w == [retrier[r] EXCEPT !.pc = "start", !.total = total]
<1>3. total \in Nat
  <2>1. PICK j \in JobID : j = retrier[r].clone
    BY <1>2
  <2>2. total = Cardinality(TasksOf(j))
    BY <2>1 DEF GetTaskStatusSummary
  <2>. QED BY <2>2, TasksBounded, RepositoryAssumption
<1>4. RetryBecome(r, w) \/ RetryError(r)
  BY DEF CountClone
<1>. HIDE DEF total
<1>5. CASE RetryBecome(r, w)
  <2>1. /\ w \in RetrierState /\ w.pc = "start" /\ w.batch = retrier[r].batch
        /\ w.source = retrier[r].source /\ w.clone = retrier[r].clone
        /\ w.status = retrier[r].status /\ w.reuse = retrier[r].reuse
        /\ w.afterSeq = retrier[r].afterSeq /\ w.last = retrier[r].last
    BY <1>0, <1>3 DEF RetrierState, RetrierPC
  <2>. HIDE DEF w
  <2>. QED BY <1>0, <1>1, <1>5, <2>1, RetrierRecord DEF RetryMoves, SameJobs
<1>6. CASE RetryError(r)
  BY <1>0, <1>1, <1>6, RetryErrorEnds
<1>. QED BY <1>4, <1>5, <1>6

LEMMA CloneAlreadyRunningEffect ==
  ASSUME RetryInv, NEW r \in Retriers, CloneAlreadyRunning(r)
  PROVE  /\ retrier[r].pc = "start" /\ UNCHANGED <<repositoryVars, brokerVars, finalizerVars>>
         /\ RetryEnds(r)
BY RetrierFacts, RetryReturnEnds DEF CloneAlreadyRunning, RetryAt, retryFrame

LEMMA StartClonedEffect ==
  ASSUME RetryInv, NEW r \in Retriers, StartClonedJob(r)
  PROVE  /\ retrier[r].pc = "start" /\ UNCHANGED <<task, brokerVars>>
         /\ UNCHANGED finalizerVars \/ Restarts(r)
         /\ RetryEnds(r) \/ RetryMoves(r, "finalize")
         /\ Updated /\ (job' = job \/ SetsStatus(retrier[r].clone, "RUNNING"))
<1>0. /\ JobRetryTypeOK /\ FaultsTypeOK /\ retrier[r] \in RetrierState /\ RetrierOK(r)
      /\ RepositoryTypeOK /\ OwnTasks /\ FinalizerInv /\ r \in Finalizers
  BY RetrierFacts
<1>1. retrier[r].pc = "start" /\ UNCHANGED <<task, brokerVars>>
  BY DEF StartClonedJob, RetryAt
<1>2. PICK j \in JobID : j = retrier[r].clone /\ Exists(job[j])
  BY <1>0, <1>1 DEF RetrierOK, OnClone, Streaming
<1>3. UpdateJob(j, "RUNNING") \/ job' = job
  BY <1>2 DEF StartClonedJob, jobTransitions
<1>4. /\ RetryGoto(r, "finalize") \/ RetryReturn(r)
      /\ \/ UNCHANGED fin
         \/ fin' = [fin EXCEPT ![r] = [Resting EXCEPT !.pc = "next", !.todo = {j}]]
      /\ finished' = finished
  BY <1>2 DEF StartClonedJob
<1>5. RetryEnds(r) \/ RetryMoves(r, "finalize")
  BY <1>0, <1>4, RetryReturnEnds, RetryGotoMoves DEF RetrierPC
<1>6. UNCHANGED finalizerVars \/ Restarts(r)
  BY <1>0, <1>4, RestartsFin DEF finalizerVars
<1>7. CASE UpdateJob(j, "RUNNING")
  <2>1. "RUNNING" \in Status
    BY DEF Status, JobStatus
  <2>2. SetsStatus(j, "RUNNING")
    BY <1>0, <1>1, <1>2, <1>7, <2>1, UpdateJobRows DEF SetsStatus
  <2>. QED BY <1>1, <1>2, <1>5, <1>6, <2>2 DEF SetsStatus
<1>8. CASE job' = job
  BY <1>0, <1>1, <1>5, <1>6, <1>8, UnchangedRows DEF repositoryVars
<1>. QED BY <1>3, <1>7, <1>8

LEMMA EndRetryEffect ==
  ASSUME RetryInv, NEW r \in Retriers, EndRetry(r)
  PROVE  /\ retrier[r].pc = "finalize" /\ UNCHANGED <<repositoryVars, brokerVars, finalizerVars>>
         /\ RetryEnds(r)
BY RetrierFacts, RetryReturnEnds DEF EndRetry, RetryAt, retryFrame

LEMMA CrashRetrierEffect ==
  ASSUME RetryInv, NEW r \in Retriers, CrashRetrier(r)
  PROVE  UNCHANGED <<repositoryVars, brokerVars>> /\ RetryEnds(r) /\ Fails /\ Restarts(r)
<1>1. JobRetryTypeOK /\ FaultsTypeOK /\ FinalizerInv /\ r \in Finalizers
  BY RetrierFacts
<1>. QED BY <1>1, RetryReturnEnds, SpendFails, RestartsFin DEF CrashRetrier

\* No step of a retrier un-spends a fault.
LEMMA RetrierFaults ==
  ASSUME RetryInv, NEW r \in Retriers,
         (\E j \in JobID : RetryJob(r, j)) \/ RetrierStep(r) \/ CrashRetrier(r)
  PROVE  FaultsTypeOK' /\ \A k \in FaultKind : Never(k)' => Never(k)
<1>1. UNCHANGED spent \/ Spend("error") \/ Spend("crash")
  <2>1. (\E j \in JobID : RetryJob(r, j)) \/ CrashRetrier(r) => UNCHANGED spent \/ Spend("crash")
    BY DEF RetryJob, CrashRetrier
  <2>2. FindClone(r) \/ CreateClone(r) \/ ReadSource(r) => UNCHANGED spent \/ Spend("error")
    BY DEF FindClone, CreateClone, ReadSource, RetryError
  <2>3. InsertClones(r) \/ ReadClone(r) \/ PublishClone(r) => UNCHANGED spent \/ Spend("error")
    BY DEF InsertClones, ReadClone, PublishClone, RetryError
  <2>4. CountClone(r) \/ CloneAlreadyRunning(r) \/ StartClonedJob(r) \/ EndRetry(r) =>
          UNCHANGED spent \/ Spend("error")
    BY DEF CountClone, CloneAlreadyRunning, StartClonedJob, EndRetry, RetryError
  <2>. QED BY <2>1, <2>2, <2>3, <2>4 DEF RetrierStep
<1>. QED BY <1>1, RetrierFacts, SpendKeeps

\* A step of one retrier.
LEMMA AssembleRetry ==
  ASSUME RetryInv, NEW r \in Retriers, RepositoryTypeOK', OwnTasks',
         \A j \in JobID : Exists(job[j]) => Exists(job'[j]),
         FaultsTypeOK', BrokerTypeOK(TaskID)', FinalizerInv', JobRetryTypeOK', OtherRetriers(r),
         RetrierOK(r)'
  PROVE  RetryInv' /\ Grows
<1>1. ASSUME NEW q \in Retriers PROVE RetrierOK(q)'
  <2>1. CASE q = r
    BY <2>1
  <2>2. CASE q # r
    <3>1. retrier'[q] = retrier[q] /\ RetrierOK(q)
      BY <2>2 DEF OtherRetriers, RetryInv, RetrierInv
    <3>. QED BY <3>1 DEF RetrierOK
  <2>. QED BY <2>1, <2>2
<1>. QED BY <1>1 DEF RetryInv, SharedInv, RetrierInv, FinalizerInv, Grows

\* What a step leaves alone stays typed.
LEMMA KeptTypes ==
  ASSUME RetryInv
  PROVE  /\ UNCHANGED brokerVars => BrokerTypeOK(TaskID)'
         /\ UNCHANGED finalizerVars => FinalizerInv'
         /\ UNCHANGED repositoryVars => /\ RepositoryTypeOK' /\ OwnTasks'
                                        /\ \A j \in JobID : Exists(job[j]) => Exists(job'[j])
<1>1. UNCHANGED brokerVars => BrokerTypeOK(TaskID)'
  BY DEF RetryInv, SharedInv, brokerVars, BrokerTypeOK
<1>2. UNCHANGED finalizerVars => FinalizerInv'
  BY DEF RetryInv, SharedInv, finalizerVars, FinalizerInv, JobFinalizerTypeOK, Visiting
<1>3. UNCHANGED repositoryVars => /\ RepositoryTypeOK' /\ OwnTasks'
                                  /\ \A j \in JobID : Exists(job[j]) => Exists(job'[j])
  BY DEF RetryInv, SharedInv, repositoryVars, RepositoryTypeOK, OwnTasks
<1>. QED BY <1>1, <1>2, <1>3

LEMMA RetryEndsOK == ASSUME NEW r, RetryEnds(r) PROVE RetrierOK(r)'
BY DEF RetryEnds, RetrierOK, OnClone, Streaming

LEMMA RestartsType == ASSUME NEW r, Restarts(r) PROVE FinalizerInv'
BY DEF Restarts

LEMMA RetrierTypeStep ==
  ASSUME RetryInv, NEW r \in Retriers,
         (\E j \in JobID : RetryJob(r, j)) \/ RetrierStep(r) \/ CrashRetrier(r)
  PROVE  RetryInv' /\ Grows
<1>0. FaultsTypeOK' /\ RetrierOK(r) /\ retrier[r] \in RetrierState /\ OwnTasks /\ RepositoryTypeOK
  BY RetrierFaults, RetrierFacts
<1>. DEFINE RowsOK == /\ RepositoryTypeOK' /\ OwnTasks'
                     /\ \A j \in JobID : Exists(job[j]) => Exists(job'[j])
<1>1. ASSUME NEW j \in JobID, RetryJob(r, j) PROVE RetryInv' /\ Grows
  <2>1. /\ UNCHANGED <<repositoryVars, spent, brokerVars, finalizerVars>>
        /\ Exists(job[j]) /\ RetryBegins(r, j)
    BY <1>1, RetryJobEffect
  <2>2. RetrierOK(r)'
    BY <2>1 DEF RetryBegins, RetrierOK, OnClone, Streaming, repositoryVars
  <2>. QED BY <1>0, <2>1, <2>2, AssembleRetry, KeptTypes DEF RetryBegins
<1>2. CASE FindClone(r)
  <2>1. retrier[r].pc = "findClone" /\ UNCHANGED <<repositoryVars, brokerVars, finalizerVars>>
    BY <1>2, FindCloneEffect
  <2>2. CASE RetryEnds(r)
    BY <1>0, <2>1, <2>2, AssembleRetry, KeptTypes, RetryEndsOK DEF RetryEnds
  <2>3. CASE RetryMoves(r, "create")
    <3>1. RetrierOK(r)'
      BY <1>0, <2>1, <2>3 DEF RetryMoves, SameJobs, RetrierOK, OnClone, Streaming, repositoryVars
    <3>. QED BY <1>0, <2>1, <2>3, <3>1, AssembleRetry, KeptTypes DEF RetryMoves, SameJobs
  <2>4. ASSUME NEW k \in JobID, job[k].status \in NonTerminalJobStates, Reuses(r, k) PROVE RetryInv' /\ Grows
    <3>1. Exists(job[k])
      BY <2>4 DEF Exists, NonTerminalJobStates, Absent
    <3>2. RetrierOK(r)'
      BY <1>0, <2>1, <2>4, <3>1 DEF Reuses, RetrierOK, OnClone, Streaming, repositoryVars
    <3>. QED BY <1>0, <2>1, <2>4, <3>2, AssembleRetry, KeptTypes DEF Reuses
  <2>. QED BY <1>2, <2>2, <2>3, <2>4, FindCloneEffect
<1>3. CASE CreateClone(r)
  <2>1. retrier[r].pc = "create" /\ UNCHANGED <<brokerVars, finalizerVars>>
    BY <1>3, CreateCloneEffect
  <2>2. CASE UNCHANGED repositoryVars /\ RetryEnds(r)
    BY <1>0, <2>1, <2>2, AssembleRetry, KeptTypes, RetryEndsOK DEF RetryEnds
  <2>3. ASSUME NEW k \in JobID, NEW row \in JobRow, Inserted(k, row, 0), row.status = "PENDING",
               RetryEnds(r) \/ CreatesClone(r, k)
        PROVE  RetryInv' /\ Grows
    <3>1. RowsOK /\ Exists(job'[k])
      BY <2>3 DEF Inserted, Exists, Absent
    <3>2. CASE RetryEnds(r)
      BY <1>0, <2>1, <3>1, <3>2, AssembleRetry, KeptTypes, RetryEndsOK DEF RetryEnds
    <3>3. CASE CreatesClone(r, k)
      <4>1. RetrierOK(r)'
        BY <1>0, <2>1, <3>1, <3>3 DEF CreatesClone, RetrierOK, OnClone, Streaming, NonTerminalJobStates
      <4>. QED BY <1>0, <2>1, <3>1, <3>3, <4>1, AssembleRetry, KeptTypes DEF CreatesClone
    <3>. QED BY <2>3, <3>2, <3>3
  <2>. QED BY <1>3, <2>2, <2>3, CreateCloneEffect
<1>4. CASE ReadSource(r)
  <2>1. retrier[r].pc = "read" /\ UNCHANGED <<repositoryVars, brokerVars, finalizerVars>>
    BY <1>4, ReadSourceEffect
  <2>2. CASE RetryEnds(r)
    BY <1>0, <2>1, <2>2, AssembleRetry, KeptTypes, RetryEndsOK DEF RetryEnds
  <2>3. CASE RetryMoves(r, "start")
    <3>1. RetrierOK(r)'
      BY <1>0, <2>1, <2>3 DEF RetryMoves, SameJobs, RetrierOK, OnClone, Streaming, repositoryVars
    <3>. QED BY <1>0, <2>1, <2>3, <3>1, AssembleRetry, KeptTypes DEF RetryMoves, SameJobs
  <2>4. ASSUME NEW page \in SUBSET TaskID, TurnsPage(r, SourceRows(r), page, "insert"),
               retrier'[r].batch = {<<retrier[r].clone, t[2]>> : t \in page}
        PROVE  RetryInv' /\ Grows
    <3>1. \A t \in retrier'[r].batch : t[1] = retrier[r].clone
      BY <2>4
    <3>2. RetrierOK(r)'
      BY <1>0, <2>1, <2>4, <3>1 DEF TurnsPage, SameJobs, RetrierOK, OnClone, Streaming, repositoryVars
    <3>. QED BY <1>0, <2>1, <2>4, <3>2, AssembleRetry, KeptTypes DEF TurnsPage, SameJobs
  <2>. QED BY <1>4, <2>2, <2>3, <2>4, ReadSourceEffect
<1>5. CASE ReadClone(r)
  <2>1. retrier[r].pc = "reread" /\ UNCHANGED <<repositoryVars, brokerVars, finalizerVars>>
    BY <1>5, ReadCloneEffect
  <2>2. CASE RetryEnds(r)
    BY <1>0, <2>1, <2>2, AssembleRetry, KeptTypes, RetryEndsOK DEF RetryEnds
  <2>3. CASE RetryMoves(r, "summary")
    <3>1. RetrierOK(r)'
      BY <1>0, <2>1, <2>3 DEF RetryMoves, SameJobs, RetrierOK, OnClone, Streaming, repositoryVars
    <3>. QED BY <1>0, <2>1, <2>3, <3>1, AssembleRetry, KeptTypes DEF RetryMoves, SameJobs
  <2>4. ASSUME NEW page \in SUBSET TaskID, TurnsPage(r, CloneRows(r), page, "publish"),
               retrier'[r].batch = page
        PROVE  RetryInv' /\ Grows
    <3>1. \A t \in page : t[1] = retrier[r].clone
      BY <2>4 DEF TurnsPage, CloneRows, PageRows, TasksOf
    <3>2. RetrierOK(r)'
      BY <1>0, <2>1, <2>4, <3>1 DEF TurnsPage, SameJobs, RetrierOK, OnClone, Streaming, repositoryVars
    <3>. QED BY <1>0, <2>1, <2>4, <3>2, AssembleRetry, KeptTypes DEF TurnsPage, SameJobs
  <2>. QED BY <1>5, <2>2, <2>3, <2>4, ReadCloneEffect
<1>6. CASE InsertClones(r)
  <2>1. /\ retrier[r].pc = "insert" /\ UNCHANGED <<job, brokerVars, finalizerVars>>
        /\ (Filled(retrier[r].batch) /\ RetryMoves(r, "publish"))
           \/ ((Filled(retrier[r].batch) \/ task' = task) /\ RetryEnds(r))
    BY <1>6, InsertEffect
  <2>2. RowsOK
    BY <1>0, <2>1, KeptTypes DEF Filled, repositoryVars
  <2>3. CASE RetryEnds(r)
    BY <1>0, <2>1, <2>2, <2>3, AssembleRetry, KeptTypes, RetryEndsOK DEF RetryEnds
  <2>4. CASE RetryMoves(r, "publish")
    <3>1. RetrierOK(r)'
      BY <1>0, <2>1, <2>4 DEF RetryMoves, SameJobs, RetrierOK, OnClone, Streaming
    <3>. QED BY <1>0, <2>1, <2>2, <2>4, <3>1, AssembleRetry, KeptTypes DEF RetryMoves, SameJobs
  <2>. QED BY <2>1, <2>3, <2>4
<1>7. CASE PublishClone(r)
  <2>1. /\ retrier[r].pc = "publish" /\ UNCHANGED <<repositoryVars, finalizerVars>>
        /\ BrokerTypeOK(TaskID)'
        /\ (\E t \in TaskID : PublishesOne(r, t)) \/ RetryEnds(r)
    BY <1>7, PublishCloneEffect
  <2>2. CASE RetryEnds(r)
    BY <1>0, <2>1, <2>2, AssembleRetry, KeptTypes, RetryEndsOK DEF RetryEnds
  <2>3. ASSUME NEW t \in TaskID, PublishesOne(r, t) PROVE RetryInv' /\ Grows
    <3>1. RetrierOK(r)'
      BY <1>0, <2>1, <2>3 DEF PublishesOne, SameJobs, RetrierOK, OnClone, Streaming, repositoryVars
    <3>. QED BY <1>0, <2>1, <2>3, <3>1, AssembleRetry, KeptTypes DEF PublishesOne, SameJobs
  <2>. QED BY <2>1, <2>2, <2>3
<1>8. CASE CountClone(r)
  <2>1. /\ retrier[r].pc = "summary" /\ UNCHANGED <<repositoryVars, brokerVars, finalizerVars>>
        /\ RetryMoves(r, "start") \/ RetryEnds(r)
    BY <1>8, CountEffect
  <2>2. CASE RetryEnds(r)
    BY <1>0, <2>1, <2>2, AssembleRetry, KeptTypes, RetryEndsOK DEF RetryEnds
  <2>3. CASE RetryMoves(r, "start")
    <3>1. RetrierOK(r)'
      BY <1>0, <2>1, <2>3 DEF RetryMoves, SameJobs, RetrierOK, OnClone, Streaming, repositoryVars
    <3>. QED BY <1>0, <2>1, <2>3, <3>1, AssembleRetry, KeptTypes DEF RetryMoves, SameJobs
  <2>. QED BY <2>1, <2>2, <2>3
<1>9. CASE CloneAlreadyRunning(r) \/ EndRetry(r)
  <2>1. UNCHANGED <<repositoryVars, brokerVars, finalizerVars>> /\ RetryEnds(r)
    BY <1>9, CloneAlreadyRunningEffect, EndRetryEffect
  <2>. QED BY <1>0, <2>1, AssembleRetry, KeptTypes, RetryEndsOK DEF RetryEnds
<1>10. CASE StartClonedJob(r)
  <2>1. /\ retrier[r].pc = "start" /\ UNCHANGED <<task, brokerVars>>
        /\ UNCHANGED finalizerVars \/ Restarts(r)
        /\ RetryEnds(r) \/ RetryMoves(r, "finalize")
        /\ Updated
    BY <1>10, StartClonedEffect
  <2>2. RowsOK /\ FinalizerInv'
    BY <2>1, KeptTypes, RestartsType DEF Updated
  <2>3. CASE RetryEnds(r)
    BY <1>0, <2>1, <2>2, <2>3, AssembleRetry, KeptTypes, RetryEndsOK DEF RetryEnds
  <2>4. CASE RetryMoves(r, "finalize")
    <3>1. RetrierOK(r)'
      BY <1>0, <2>1, <2>2, <2>4 DEF RetryMoves, SameJobs, RetrierOK, OnClone, Streaming
    <3>. QED BY <1>0, <2>1, <2>2, <2>4, <3>1, AssembleRetry, KeptTypes DEF RetryMoves, SameJobs
  <2>. QED BY <2>1, <2>3, <2>4
<1>11. CASE CrashRetrier(r)
  <2>1. UNCHANGED <<repositoryVars, brokerVars>> /\ RetryEnds(r) /\ Restarts(r)
    BY <1>11, CrashRetrierEffect
  <2>. QED BY <1>0, <2>1, AssembleRetry, KeptTypes, RetryEndsOK, RestartsType DEF RetryEnds
<1>. QED
  BY <1>1, <1>2, <1>3, <1>4, <1>5, <1>6, <1>7, <1>8, <1>9, <1>10, <1>11 DEF RetrierStep

-----------------------------------------------------------------------------
(* What a step of one component leaves to the others *)

LEMMA SharedKept ==
  ASSUME SharedInv, Updated, BrokerTypeOK(TaskID)', FaultsTypeOK', FinalizerInv'
  PROVE  SharedInv' /\ Grows
BY DEF SharedInv, Updated, Grows, FinalizerInv

LEMMA UnchangedShared ==
  ASSUME SharedInv
  PROVE  /\ UNCHANGED brokerVars => BrokerTypeOK(TaskID)'
         /\ UNCHANGED spent => FaultsTypeOK'
         /\ UNCHANGED finalizerVars => FinalizerInv'
         /\ UNCHANGED repositoryVars => Updated /\ job' = job
<1>1. UNCHANGED brokerVars => BrokerTypeOK(TaskID)'
  BY DEF SharedInv, brokerVars, BrokerTypeOK
<1>2. UNCHANGED spent => FaultsTypeOK'
  BY DEF SharedInv, FaultsTypeOK
<1>3. UNCHANGED finalizerVars => FinalizerInv'
  BY DEF SharedInv, finalizerVars, FinalizerInv, JobFinalizerTypeOK, Visiting
<1>4. UNCHANGED repositoryVars => Updated /\ job' = job
  BY UnchangedRows DEF SharedInv
<1>. QED BY <1>1, <1>2, <1>3, <1>4

LEMMA CallKept ==
  ASSUME CallInv, SharedInv', Grows, UNCHANGED caller
  PROVE  CallInv'
<1>1. \A c \in Callers : CallerOK(c)'
  BY DEF CallInv, CallerInv, CallerOK, Grows
<1>. QED BY <1>1 DEF CallInv, CallerInv, JobExecutorTypeOK

LEMMA RetryKept ==
  ASSUME RetryInv, SharedInv', Grows, UNCHANGED retrier
  PROVE  RetryInv'
<1>1. \A r \in Retriers : RetrierOK(r)'
  BY DEF RetryInv, RetrierInv, RetrierOK, Grows
<1>. QED BY <1>1 DEF RetryInv, RetrierInv, JobRetryTypeOK

-----------------------------------------------------------------------------
(* How a clone is filled *)

\* Where a retrier fills the clone it has created.
Filling(r) ==
  \/ retrier[r].pc \in {"read", "insert"}
  \/ retrier[r].pc = "publish" /\ ~retrier[r].reuse

\* The clone's tasks are those of the pages read so far; a page still to be
\* inserted comes after them.
Ahead(r) ==
  /\ \A t \in TaskID : t[1] = retrier[r].clone /\ Exists(task[t]) =>
       /\ t[2] <= retrier[r].afterSeq
       /\ retrier[r].pc = "insert" => \A b \in retrier[r].batch : t[2] < b[2]
  /\ retrier[r].pc = "insert" => \A b \in retrier[r].batch : b[2] <= retrier[r].afterSeq

\* Only the retrier that created a clone fills it.
FillInv ==
  /\ \A r \in Retriers : Filling(r) => Ahead(r)
  /\ \A r, q \in Retriers : Filling(r) /\ Filling(q) /\ retrier[r].clone = retrier[q].clone => r = q

\* No run that is there gets a task ...
KeepsTasks ==
  \A t \in TaskID : Exists(job[t[1]]) => (Exists(task'[t]) <=> Exists(task[t]))
\* ... or it gets a page of its own retrier.
FillsPage(r) ==
  retrier[r].pc = "insert" /\ Filled(retrier[r].batch) /\ \A b \in retrier[r].batch : b[1] = retrier[r].clone

LEMMA KeepingTasks ==
  /\ Updated => KeepsTasks
  /\ \A k \in JobID : \A row \in JobRow : \A n \in Nat : Inserted(k, row, n) => KeepsTasks
<1>1. \A t \in TaskID : t[1] \in JobID
  BY TaskBelongs
<1>. QED BY <1>1 DEF Updated, Inserted, KeepsTasks

LEMMA RetrierFills ==
  ASSUME RetryInv, FillInv, NEW r \in Retriers,
         (\E j \in JobID : RetryJob(r, j)) \/ RetrierStep(r) \/ CrashRetrier(r)
  PROVE  /\ OtherRetriers(r) /\ (KeepsTasks \/ FillsPage(r))
         /\ Filling(r)' => \/ Filling(r) /\ retrier'[r].clone = retrier[r].clone
                           \/ ~Exists(job[retrier'[r].clone]) /\ retrier'[r].clone \in JobID
         /\ (Filling(r) => Ahead(r))'
<1>0. /\ RetryInv /\ RepositoryTypeOK /\ OwnTasks /\ RetrierOK(r)
      /\ retrier[r] \in RetrierState /\ (Filling(r) => Ahead(r))
  BY RetrierFacts DEF FillInv
<1>. DEFINE Kept == \/ Filling(r) /\ retrier'[r].clone = retrier[r].clone
                    \/ ~Exists(job[retrier'[r].clone]) /\ retrier'[r].clone \in JobID
            Goal == /\ OtherRetriers(r) /\ (KeepsTasks \/ FillsPage(r))
                    /\ Filling(r)' => Kept
                    /\ (Filling(r) => Ahead(r))'
<1>. SUFFICES Goal
  OBVIOUS
<1>1. UNCHANGED repositoryVars => Updated /\ KeepsTasks /\ job' = job /\ task' = task
  BY <1>0, UnchangedRows, KeepingTasks DEF repositoryVars
\* It does not fill.
<1>2. ASSUME OtherRetriers(r), KeepsTasks \/ FillsPage(r), ~Filling(r)' PROVE Goal
  BY <1>2
<1>. HIDE DEF Goal
<1>3. ASSUME RetryEnds(r) PROVE OtherRetriers(r) /\ ~Filling(r)'
  BY <1>3 DEF RetryEnds, Filling
<1>4. \A t \in TaskID : t[1] \in JobID /\ t[2] \in Nat
  BY TaskBelongs
<1>5. ASSUME NEW j \in JobID, RetryJob(r, j) PROVE Goal
  <2>1. RetryBegins(r, j) /\ UNCHANGED repositoryVars
    BY <1>5, RetryJobEffect
  <2>. QED BY <1>1, <1>2, <2>1 DEF RetryBegins, Filling
<1>6. CASE FindClone(r)
  <2>1. UNCHANGED repositoryVars
    BY <1>0, <1>6, FindCloneEffect
  <2>2. OtherRetriers(r) /\ ~Filling(r)'
    BY <1>0, <1>3, <1>6, FindCloneEffect DEF RetryMoves, SameJobs, Reuses, Filling
  <2>. QED BY <1>1, <1>2, <2>1, <2>2
<1>7. CASE CreateClone(r)
  <2>1. CASE UNCHANGED repositoryVars /\ RetryEnds(r)
    BY <1>1, <1>2, <1>3, <2>1
  <2>2. ASSUME NEW k \in JobID, NEW row \in JobRow, Inserted(k, row, 0), RetryEnds(r) \/ CreatesClone(r, k)
        PROVE  Goal
    <3>1. KeepsTasks
      BY <2>2, KeepingTasks
    <3>2. CASE CreatesClone(r, k)
      <4>1. \A t \in TaskID : t[1] = k => ~Exists(task'[t])
        BY <1>4, <2>2 DEF Inserted
      <4>2. ~Exists(job[k]) /\ retrier'[r].clone = k /\ retrier'[r].pc = "read"
        BY <2>2, <3>2 DEF Inserted, CreatesClone
      <4>3. Ahead(r)'
        BY <4>1, <4>2 DEF Ahead
      <4>. QED BY <3>1, <3>2, <4>2, <4>3 DEF Goal, CreatesClone
    <3>. QED BY <1>2, <1>3, <2>2, <3>1, <3>2
  <2>. QED BY <1>0, <1>7, <2>1, <2>2, CreateCloneEffect
<1>8. CASE ReadSource(r)
  <2>1. UNCHANGED repositoryVars /\ retrier[r].pc = "read"
    BY <1>0, <1>8, ReadSourceEffect
  <2>2. CASE RetryEnds(r) \/ RetryMoves(r, "start")
    BY <1>1, <1>2, <1>3, <2>1, <2>2 DEF RetryMoves, SameJobs, Filling
  <2>3. ASSUME NEW page \in SUBSET TaskID, TurnsPage(r, SourceRows(r), page, "insert"),
               retrier'[r].batch = {<<retrier[r].clone, t[2]>> : t \in page}
        PROVE  Goal
    <3>1. Filling(r) /\ Ahead(r)
      BY <1>0, <2>1 DEF Filling
    <3>2. retrier'[r].clone = retrier[r].clone /\ OtherRetriers(r) /\ JobRetryTypeOK'
      BY <2>3 DEF TurnsPage, SameJobs
    <3>3. retrier[r].afterSeq \in Int /\ retrier'[r].afterSeq \in Int
      BY <1>0, <3>2 DEF JobRetryTypeOK, RetrierState
    <3>4. \A t \in page : t[2] > retrier[r].afterSeq /\ t[2] <= retrier'[r].afterSeq
      BY <2>3 DEF TurnsPage, SourceRows, PageRows
    <3>5. \A b \in retrier'[r].batch : \E t \in page : b[2] = t[2]
      BY <2>3
    <3>6. \A b \in retrier'[r].batch :
            b[2] \in Nat /\ b[2] > retrier[r].afterSeq /\ b[2] <= retrier'[r].afterSeq
      BY <1>4, <3>4, <3>5
    <3>7. retrier[r].afterSeq < retrier'[r].afterSeq
      <4>1. PICK t \in page : TRUE
        BY <2>3 DEF TurnsPage
      <4>2. t[2] \in Nat
        BY <1>4
      <4>. QED BY <3>3, <3>4, <4>1, <4>2
    <3>8. ASSUME NEW t \in TaskID, t[1] = retrier[r].clone, Exists(task[t])
          PROVE  t[2] <= retrier'[r].afterSeq /\ \A b \in retrier'[r].batch : t[2] < b[2]
      <4>1. t[2] <= retrier[r].afterSeq /\ t[2] \in Nat
        BY <1>4, <3>1, <3>8 DEF Ahead
      <4>. QED BY <3>3, <3>6, <3>7, <4>1
    <3>9. Ahead(r)'
      BY <1>1, <2>1, <3>2, <3>6, <3>8 DEF Ahead
    <3>. QED BY <1>1, <2>1, <3>1, <3>2, <3>9 DEF Goal
  <2>. QED BY <1>0, <1>8, <2>2, <2>3, ReadSourceEffect
<1>9. CASE ReadClone(r)
  <2>1. UNCHANGED repositoryVars /\ retrier[r].pc = "reread" /\ retrier[r].reuse
    BY <1>0, <1>9, ReadCloneEffect DEF RetrierOK
  <2>2. OtherRetriers(r) /\ ~Filling(r)'
    BY <1>0, <1>3, <1>9, <2>1, ReadCloneEffect DEF RetryMoves, TurnsPage, SameJobs, Filling
  <2>. QED BY <1>1, <1>2, <2>1, <2>2
<1>10. CASE InsertClones(r)
  <2>1. retrier[r].pc = "insert" /\ job' = job /\ (Filled(retrier[r].batch) \/ task' = task)
    BY <1>0, <1>10, InsertEffect
  <2>2. Filling(r) /\ Ahead(r) /\ \A b \in retrier[r].batch : b[1] = retrier[r].clone
    BY <1>0, <2>1 DEF Filling, RetrierOK
  <2>3. KeepsTasks \/ FillsPage(r)
    BY <2>1, <2>2 DEF KeepsTasks, FillsPage
  <2>4. CASE RetryEnds(r)
    BY <1>2, <1>3, <2>3, <2>4
  <2>5. CASE Filled(retrier[r].batch) /\ RetryMoves(r, "publish")
    <3>1. /\ OtherRetriers(r) /\ retrier'[r].pc = "publish" /\ retrier'[r].clone = retrier[r].clone
          /\ retrier'[r].afterSeq = retrier[r].afterSeq
      BY <2>5 DEF RetryMoves, SameJobs
    <3>2. ASSUME NEW t \in TaskID, t[1] = retrier[r].clone, Exists(task'[t])
          PROVE  t[2] <= retrier[r].afterSeq
      BY <2>1, <2>2, <2>5, <3>2 DEF Filled, Ahead
    <3>3. Ahead(r)'
      BY <3>1, <3>2 DEF Ahead
    <3>. QED BY <2>2, <2>3, <3>1, <3>3 DEF Goal
  <2>. QED BY <1>0, <1>10, <2>4, <2>5, InsertEffect
<1>11. CASE PublishClone(r)
  <2>1. UNCHANGED repositoryVars /\ retrier[r].pc = "publish"
    BY <1>0, <1>11, PublishCloneEffect
  <2>2. ASSUME NEW x \in TaskID, PublishesOne(r, x) PROVE Goal
    <3>1. /\ OtherRetriers(r) /\ retrier'[r].clone = retrier[r].clone
          /\ retrier'[r].afterSeq = retrier[r].afterSeq /\ retrier'[r].pc # "insert"
          /\ retrier'[r].reuse = retrier[r].reuse
      BY <2>2 DEF PublishesOne, SameJobs
    <3>2. Filling(r)' => Filling(r)
      BY <2>1, <2>2, <3>1 DEF PublishesOne, Filling
    <3>3. Ahead(r) => Ahead(r)'
      BY <1>1, <2>1, <3>1 DEF Ahead
    <3>. QED BY <1>0, <1>1, <2>1, <3>1, <3>2, <3>3 DEF Goal
  <2>. QED BY <1>0, <1>1, <1>2, <1>3, <1>11, <2>1, <2>2, PublishCloneEffect
<1>12. CASE CountClone(r)
  <2>1. UNCHANGED repositoryVars
    BY <1>0, <1>12, CountEffect
  <2>2. OtherRetriers(r) /\ ~Filling(r)'
    BY <1>0, <1>3, <1>12, CountEffect DEF RetryMoves, SameJobs, Filling
  <2>. QED BY <1>1, <1>2, <2>1, <2>2
<1>13. CASE CloneAlreadyRunning(r) \/ EndRetry(r) \/ CrashRetrier(r)
  <2>1. UNCHANGED repositoryVars /\ RetryEnds(r)
    BY <1>0, <1>13, CloneAlreadyRunningEffect, EndRetryEffect, CrashRetrierEffect
  <2>. QED BY <1>1, <1>2, <1>3, <2>1
<1>14. CASE StartClonedJob(r)
  <2>1. Updated
    BY <1>0, <1>14, StartClonedEffect
  <2>2. OtherRetriers(r) /\ ~Filling(r)'
    BY <1>0, <1>3, <1>14, StartClonedEffect DEF RetryMoves, SameJobs, Filling
  <2>. QED BY <1>2, <2>1, <2>2, KeepingTasks
<1>. QED BY <1>5, <1>6, <1>7, <1>8, <1>9, <1>10, <1>11, <1>12, <1>13, <1>14
  DEF RetrierStep

LEMMA FillingFacts ==
  ASSUME RetryInv, NEW r \in Retriers, Filling(r)
  PROVE  retrier[r].clone \in JobID /\ Exists(job[retrier[r].clone])
BY RetrierFacts DEF Filling, RetrierOK, OnClone, Streaming

\* A retrier that does not move stays ahead as long as no one else fills its clone.
LEMMA AheadKept ==
  ASSUME RetryInv, NEW r \in Retriers, Filling(r), Ahead(r), retrier'[r] = retrier[r],
         \A t \in TaskID : t[1] = retrier[r].clone => (Exists(task'[t]) <=> Exists(task[t]))
  PROVE  Ahead(r)'
BY DEF Ahead

\* Nobody fills a run that is there.
LEMMA FillKept == ASSUME RetryInv, FillInv, KeepsTasks, UNCHANGED retrier PROVE FillInv'
<1>1. ASSUME NEW r \in Retriers, Filling(r) PROVE Ahead(r)'
  <2>1. \A t \in TaskID : t[1] = retrier[r].clone => (Exists(task'[t]) <=> Exists(task[t]))
    BY <1>1, FillingFacts DEF KeepsTasks
  <2>. QED BY <1>1, <2>1, AheadKept DEF FillInv
<1>. QED BY <1>1 DEF FillInv, Filling

LEMMA RetrierFillStep ==
  ASSUME RetryInv, FillInv, NEW r \in Retriers,
         (\E j \in JobID : RetryJob(r, j)) \/ RetrierStep(r) \/ CrashRetrier(r)
  PROVE  FillInv'
<1>1. /\ OtherRetriers(r) /\ (KeepsTasks \/ FillsPage(r))
      /\ Filling(r)' => \/ Filling(r) /\ retrier'[r].clone = retrier[r].clone
                        \/ ~Exists(job[retrier'[r].clone]) /\ retrier'[r].clone \in JobID
      /\ (Filling(r) => Ahead(r))'
  BY RetrierFills
<1>2. ASSUME NEW q \in Retriers, q # r PROVE retrier'[q] = retrier[q] /\ (Filling(q)' <=> Filling(q))
  BY <1>1, <1>2 DEF OtherRetriers, Filling
<1>3. ASSUME NEW q \in Retriers, q # r, Filling(q)' PROVE Ahead(q)'
  <2>1. Filling(q) /\ Ahead(q)
    BY <1>2, <1>3 DEF FillInv
  <2>2. CASE KeepsTasks
    BY <1>2, <1>3, <2>1, <2>2, FillingFacts, AheadKept DEF KeepsTasks
  <2>3. CASE FillsPage(r)
    <3>1. Filling(r)
      BY <2>3 DEF FillsPage, Filling
    <3>2. retrier[q].clone # retrier[r].clone
      BY <1>3, <2>1, <3>1 DEF FillInv
    <3>3. \A t \in TaskID : t[1] = retrier[q].clone => task'[t] = task[t]
      BY <2>3, <3>2 DEF FillsPage, Filled
    <3>. QED BY <1>2, <1>3, <2>1, <3>3, AheadKept
  <2>. QED BY <1>1, <2>2, <2>3
<1>4. ASSUME NEW q \in Retriers, q # r, Filling(q)', Filling(r)' PROVE retrier'[r].clone # retrier'[q].clone
  <2>1. Filling(q) /\ retrier'[q].clone = retrier[q].clone /\ Exists(job[retrier[q].clone])
    BY <1>2, <1>4, FillingFacts
  <2>. QED BY <1>1, <1>4, <2>1 DEF FillInv
<1>5. ASSUME NEW p \in Retriers, NEW q \in Retriers, Filling(p)', Filling(q)',
             retrier'[p].clone = retrier'[q].clone, p # q
      PROVE  FALSE
  <2>1. CASE p = r \/ q = r
    BY <1>4, <1>5, <2>1
  <2>2. CASE p # r /\ q # r
    BY <1>2, <1>5, <2>2 DEF FillInv
  <2>. QED BY <2>1, <2>2
<1>. QED BY <1>1, <1>3, <1>5 DEF FillInv

=============================================================================
