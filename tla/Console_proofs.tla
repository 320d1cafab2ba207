--------------------------- MODULE Console_proofs ---------------------------
(***************************************************************************)
(* Proofs about Console, for any number of users, callers, retriers, runs, *)
(* tasks and faults, and any size of a page.                               *)
(***************************************************************************)
EXTENDS Console, Components_proofs

-----------------------------------------------------------------------------
(* The position of a task in the order of sequence_number *)

Below(S, t) == {u \in S : u[2] < t[2]}
Rank(S, t) == Cardinality(Below(S, t))

\* Tasks are told apart by their sequence_number.
Ordered(S) == IsFiniteSet(S) /\ (\A t \in S : t[2] \in Nat) /\ \A t, u \in S : t[2] = u[2] => t = u

LEMMA RankGrows ==
  ASSUME NEW S, Ordered(S)
  PROVE  /\ Cardinality(S) \in Nat
         /\ \A t \in S : Rank(S, t) \in 0..(Cardinality(S) - 1)
         /\ \A t, u \in S : t[2] < u[2] => Rank(S, t) < Rank(S, u)
         /\ \A t, u \in S : Rank(S, t) = Rank(S, u) => t = u
         /\ \A t, u \in S : Rank(S, t) < Rank(S, u) => t[2] < u[2]
<1>1. IsFiniteSet(S) /\ Cardinality(S) \in Nat
  BY FS_CardinalityType DEF Ordered
<1>2. ASSUME NEW T \in SUBSET S, NEW x \in S \ T, NEW U \in SUBSET T
      PROVE  Cardinality(U) \in Nat /\ Cardinality(T) \in Nat /\ Cardinality(U) <= Cardinality(T)
             /\ Cardinality(T) + 1 <= Cardinality(S)
  <2>1. IsFiniteSet(T) /\ IsFiniteSet(U) /\ Cardinality(U) <= Cardinality(T)
    BY <1>1, FS_Subset
  <2>2. IsFiniteSet(T \cup {x}) /\ Cardinality(T \cup {x}) = Cardinality(T) + 1
    BY <2>1, FS_AddElement
  <2>3. Cardinality(T \cup {x}) <= Cardinality(S)
    <3>1. T \cup {x} \in SUBSET S
      OBVIOUS
    <3>. QED BY <1>1, <3>1, FS_Subset
  <2>4. Cardinality(U) \in Nat /\ Cardinality(T) \in Nat
    BY <2>1, FS_CardinalityType
  <2>. QED BY <2>1, <2>2, <2>3, <2>4
<1>3. \A t \in S : Below(S, t) \in SUBSET S /\ t \in S \ Below(S, t)
  BY DEF Below, Ordered
<1>4. ASSUME NEW t \in S PROVE Rank(S, t) \in 0..(Cardinality(S) - 1)
  <2>1. Cardinality(Below(S, t)) \in Nat /\ Cardinality(Below(S, t)) + 1 <= Cardinality(S)
    BY <1>2, <1>3
  <2>. QED BY <1>1, <2>1 DEF Rank
<1>5. ASSUME NEW t \in S, NEW u \in S, t[2] < u[2] PROVE Rank(S, t) < Rank(S, u)
  <2>1. Below(S, t) \cup {t} \in SUBSET Below(S, u) /\ t \notin Below(S, t)
    BY <1>5 DEF Below, Ordered
  <2>2. IsFiniteSet(Below(S, u)) /\ IsFiniteSet(Below(S, t))
    BY <1>1, <1>3, FS_Subset
  <2>3. Cardinality(Below(S, t) \cup {t}) = Cardinality(Below(S, t)) + 1
    BY <2>1, <2>2, FS_AddElement
  <2>4. Cardinality(Below(S, t) \cup {t}) <= Cardinality(Below(S, u))
    BY <2>1, <2>2, FS_Subset
  <2>5. Rank(S, t) \in Nat /\ Rank(S, u) \in Nat
    BY <2>2, FS_CardinalityType DEF Rank
  <2>. QED BY <2>3, <2>4, <2>5 DEF Rank
<1>6. \A t, u \in S : t[2] < u[2] \/ u[2] < t[2] \/ t = u
  BY DEF Ordered
<1>7. \A t \in S : Rank(S, t) \in Nat
  BY <1>1, <1>4
<1>. QED BY <1>1, <1>4, <1>5, <1>6, <1>7

\* Every position is taken.
LEMMA RankTaken ==
  ASSUME NEW S, Ordered(S), NEW n \in 0..(Cardinality(S) - 1)
  PROVE  \E t \in S : Rank(S, t) = n
<1>. DEFINE f == [t \in S |-> Rank(S, t)]
            T == 0..(Cardinality(S) - 1)
<1>1. Cardinality(S) \in Nat /\ IsFiniteSet(S)
  BY RankGrows DEF Ordered
<1>2. f \in Injection(S, T)
  <2>1. /\ \A t \in S : Rank(S, t) \in T
        /\ \A t, u \in S : Rank(S, t) = Rank(S, u) => t = u
    BY RankGrows
  <2>. HIDE DEF T
  <2>2. f \in [S -> T] /\ \A t \in S : f[t] = Rank(S, t)
    BY <2>1
  <2>. HIDE DEF f
  <2>. QED BY <2>1, <2>2 DEF Injection, IsInjective
<1>3. IsFiniteSet(T) /\ Cardinality(T) = Cardinality(S)
  BY <1>1, FS_Interval
<1>4. f \in Surjection(S, T)
  BY <1>2, <1>3, FS_Injection
<1>. QED BY <1>4 DEF Surjection

Slice(S, offset, limit) == {t \in S : Rank(S, t) >= offset /\ Rank(S, t) < offset + limit}

\* A page that starts among the rows is full or reaches to the end, one that
\* starts after them is empty.
LEMMA SliceSize ==
  ASSUME NEW S, Ordered(S), NEW offset \in Nat, NEW limit \in Nat
  PROVE  LET n == Cardinality(S)
             m == Cardinality(Slice(S, offset, limit))
         IN /\ m \in Nat /\ m <= limit
            /\ m = 0 \/ offset + m <= n
            /\ offset + limit <= n => m = limit
            /\ offset + limit > n /\ n >= offset => m = n - offset
            /\ n <= offset => m = 0
<1>. DEFINE n == Cardinality(S)
            page == Slice(S, offset, limit)
            end == IF offset + limit <= n THEN offset + limit ELSE n
            T == offset..(end - 1)
            f == [t \in page |-> Rank(S, t)]
<1>1. n \in Nat /\ IsFiniteSet(S) /\ end \in Nat
  BY RankGrows DEF Ordered
<1>2. \A t \in S : Rank(S, t) \in 0..(n - 1)
  BY RankGrows
<1>3. IsFiniteSet(T) /\ Cardinality(T) = IF offset > end - 1 THEN 0 ELSE end - 1 - offset + 1
  <2>1. offset \in Int /\ end - 1 \in Int
    BY <1>1
  <2>. HIDE DEF end
  <2>2. /\ IsFiniteSet(offset..(end - 1))
        /\ Cardinality(offset..(end - 1)) =
             IF offset > end - 1 THEN 0 ELSE (end - 1) - offset + 1
    BY <2>1, FS_Interval
  <2>. QED BY <2>2
<1>4. f \in Injection(page, T)
  <2>1. \A t \in page : t \in S /\ Rank(S, t) \in T
    BY <1>1, <1>2 DEF Slice
  <2>2. \A t, u \in page : Rank(S, t) = Rank(S, u) => t = u
    BY <2>1, RankGrows
  <2>. HIDE DEF page, T
  <2>3. f \in [page -> T] /\ \A t \in page : f[t] = Rank(S, t)
    BY <2>1
  <2>. HIDE DEF f
  <2>. QED BY <2>2, <2>3 DEF Injection, IsInjective
<1>5. f \in Surjection(page, T)
  <2>1. ASSUME NEW i \in T PROVE \E t \in page : f[t] = i
    <3>1. i \in 0..(n - 1) /\ i >= offset /\ i < offset + limit
      BY <1>1
    <3>2. PICK t \in S : Rank(S, t) = i
      BY <3>1, RankTaken
    <3>3. t \in page
      BY <3>1, <3>2 DEF Slice
    <3>. HIDE DEF page
    <3>. QED BY <3>2, <3>3
  <2>2. f \in [page -> T]
    BY <1>4 DEF Injection, IsInjective
  <2>. HIDE DEF f, page, T
  <2>. QED BY <2>1, <2>2 DEF Surjection
<1>6. Cardinality(page) = Cardinality(T)
  BY <1>3, <1>4, <1>5, FS_Injection
<1>. HIDE DEF page
<1>7. Cardinality(page) = IF offset > end - 1 THEN 0 ELSE end - 1 - offset + 1
  BY <1>3, <1>6
<1>. DEFINE m == Cardinality(page)
<1>8. /\ m \in Nat /\ m <= limit
      /\ m = 0 \/ offset + m <= n
      /\ offset + limit <= n => m = limit
      /\ offset + limit > n /\ n >= offset => m = n - offset
      /\ n <= offset => m = 0
  BY <1>1, <1>7
<1>. QED BY <1>8 DEF page

LEMMA TasksOrdered == ASSUME NEW j \in JobID PROVE Ordered(TasksOf(j)) /\ TasksOf(j) \subseteq TaskID
<1>1. TasksOf(j) \subseteq TaskID /\ \A t \in TasksOf(j) : t[1] = j
  BY DEF TasksOf
<1>2. \A t \in TaskID : t[2] \in Nat /\ t = <<t[1], t[2]>>
  BY DEF TaskID
<1>. QED BY <1>1, <1>2, TasksBounded DEF Ordered

\* The i-th row of a page has the position offset + i - 1.
LEMMA TaskPageFacts ==
  ASSUME NEW j \in JobID, NEW offset \in Nat, NEW limit \in Nat
  PROVE  LET page == TaskPage(j, offset, limit)
             S == TasksOf(j)
         IN /\ page \in Seq(TaskID) /\ Len(page) = Cardinality(Slice(S, offset, limit))
            /\ \A i \in 1..Len(page) : page[i] \in S /\ Rank(S, page[i]) = offset + i - 1
<1>. DEFINE S == TasksOf(j)
            slice == Slice(S, offset, limit)
            m == Cardinality(slice)
            page == TaskPage(j, offset, limit)
            at(i) == CHOOSE t \in slice : Rank(S, t) = offset + i - 1
<1>1. Ordered(S) /\ S \subseteq TaskID
  BY TasksOrdered
<1>2. page = [i \in 1..m |-> at(i)]
  BY DEF TaskPage, Slice, Rank, Below
<1>. HIDE DEF page
<1>3. /\ m \in Nat /\ m <= limit /\ (m = 0 \/ offset + m <= Cardinality(S))
      /\ Cardinality(S) \in Nat
  BY <1>1, SliceSize, RankGrows
<1>4. ASSUME NEW i \in 1..m PROVE at(i) \in S /\ Rank(S, at(i)) = offset + i - 1
  <2>. DEFINE n == offset + i - 1
  <2>1. n \in 0..(Cardinality(S) - 1) /\ n >= offset /\ n < offset + limit
    BY <1>3
  <2>2. PICK t \in S : Rank(S, t) = n
    BY <1>1, <2>1, RankTaken
  <2>3. t \in slice
    BY <2>1, <2>2 DEF Slice
  <2>4. at(i) \in slice /\ Rank(S, at(i)) = offset + i - 1
    BY <2>2, <2>3
  <2>. QED BY <2>4 DEF Slice
<1>. HIDE DEF m, S, at
<1>5. page \in Seq(TaskID) /\ Len(page) = m
  <2>1. \A i \in 1..m : at(i) \in TaskID
    BY <1>1, <1>4
  <2>. QED BY <1>2, <1>3, <2>1
<1>6. \A i \in 1..Len(page) : page[i] \in S /\ Rank(S, page[i]) = offset + i - 1
  BY <1>2, <1>3, <1>4, <1>5
<1>. QED BY <1>5, <1>6 DEF page, S, m

-----------------------------------------------------------------------------
(* How a request changes *)

WebTypeOK == web \in [Users -> WebState]

\* Where a user acts on one run.
Acting == {"countForRetry", "retryTrigger", "retryJob", "countTasks", "pageTasks", "walked"}

\* What a request knows: the run it acts on and the rows of its answers are in
\* the table.
WebOK(u) ==
  /\ web[u].pc \in Acting => web[u].job \in JobID /\ Exists(job[web[u].job])
  /\ web[u].rows \subseteq Rows /\ web[u].begin.rows \subseteq Rows

\* An asynq task that failed was called.
TurnInv == \A c \in Callers : caller[c].again => caller[c].turn >= 1

WebInv == WebTypeOK /\ \A u \in Users : WebOK(u)

TypeInv == CallInv /\ RetryInv /\ WebInv /\ TurnInv

OtherUsers(u) == WebTypeOK' /\ \A v \in Users : v # u => web'[v] = web[v]

LEMMA WebRecord ==
  ASSUME WebTypeOK, NEW u \in Users, NEW w \in WebState, WebBecome(u, w)
  PROVE  OtherUsers(u) /\ web'[u] = w
BY DEF WebTypeOK, WebBecome, OtherUsers

LEMMA NoRequestType ==
  /\ NoRequest \in WebState /\ NoRequest.pc = "idle"
  /\ NoRequest.begin = [rows |-> {}, failing |-> {}] /\ NoRequest.found = {}
  /\ NoRequest.cand = {} /\ NoRequest.rows = {} /\ NoRequest.walk = <<>> /\ NoRequest.offset = 0
<1>1. <<>> \in Seq(TaskID) /\ [rows |-> {}, failing |-> {}] \in [rows : SUBSET JobID, failing : SUBSET (Refs \X Nat)]
  OBVIOUS
<1>. QED BY <1>1 DEF NoRequest, WebState, WebPC

\* The request is over.
Leaves(u) == OtherUsers(u) /\ web'[u] = NoRequest

LEMMA WebErrorLeaves ==
  ASSUME WebTypeOK, FaultsTypeOK, NEW u \in Users, WebBecome(u, NoRequest)
  PROVE  Leaves(u)
BY NoRequestType, WebRecord DEF Leaves

\* A task that failed, and its reference.
LEMMA FailedFacts ==
  ASSUME TypeInv, NEW c \in FailedCalls
  PROVE  /\ c \in Callers \ Users /\ caller[c].pc = "idle" /\ caller[c].again
         /\ caller[c].turn = 1 /\ RefID(c) = CallRefs[c][1] /\ RefID(c) \in Refs
         /\ caller[c].retry \in Nat
<1>1. c \in Callers /\ c \notin Users /\ caller[c].pc = "idle" /\ caller[c].again
  BY DEF FailedCalls, CallAt
<1>2. caller[c] \in CallerState /\ CallerOK(c) /\ CallRefs[c] \in Seq(Refs)
  BY <1>1, CallFacts DEF TypeInv
<1>3. caller[c].turn \in Nat /\ caller[c].retry \in Nat
  BY <1>2 DEF CallerState
<1>4. caller[c].turn >= 1 /\ caller[c].turn <= Len(CallRefs[c]) /\ Len(CallRefs[c]) = 1
  BY <1>1, <1>2, ConsoleAssumption DEF TypeInv, TurnInv, CallerOK
<1>5. caller[c].turn = 1
  BY <1>3, <1>4
<1>. QED BY <1>1, <1>2, <1>3, <1>4, <1>5 DEF RefID

ListsArchived(u) ==
  /\ OtherUsers(u) /\ web[u].pc = "idle" /\ web'[u].pc = "retrying"
  /\ web'[u].found = {RefID(c) : c \in ArchivedTasks} /\ web'[u].rows = {}
  /\ web'[u].begin.rows = Rows /\ web'[u].begin.failing = Failing

LEMMA ListArchivedEffect ==
  ASSUME TypeInv, NEW u \in Users, ListArchivedTasks(u)
  PROVE  /\ UNCHANGED schedulerVars /\ (UNCHANGED spent \/ Spend("error"))
         /\ ListsArchived(u) \/ Leaves(u)
<1>0. WebTypeOK /\ FaultsTypeOK
  BY DEF TypeInv, WebInv, CallInv, SharedInv
<1>. DEFINE refs == {RefID(c) : c \in ArchivedTasks}
            b == [rows |-> Rows, failing |-> Failing]
            w == [NoRequest EXCEPT !.pc = "retrying", !.found = refs, !.begin = b]
<1>1. /\ web[u].pc = "idle" /\ UNCHANGED schedulerVars
      /\ \/ WebBecome(u, w) /\ UNCHANGED spent
         \/ WebError(u)
  BY DEF ListArchivedTasks, WebAt
<1>2. refs \in SUBSET Refs
  BY FailedFacts DEF ArchivedTasks
<1>3. b \in [rows : SUBSET JobID, failing : SUBSET (Refs \X Nat)]
  <2>1. Rows \in SUBSET JobID
    BY DEF Rows
  <2>2. Failing \in SUBSET (Refs \X Nat)
    BY FailedFacts DEF Failing
  <2>. QED BY <2>1, <2>2
<1>4. b.rows = Rows /\ b.failing = Failing
  OBVIOUS
<1>. HIDE DEF refs, b
<1>5. w \in WebState /\ w.pc = "retrying" /\ w.found = refs /\ w.begin = b /\ w.rows = {}
  <2>1. "retrying" \in WebPC
    BY DEF WebPC
  <2>. QED BY <1>2, <1>3, <2>1, NoRequestType DEF WebState
<1>. HIDE DEF w
<1>6. CASE WebBecome(u, w) /\ UNCHANGED spent
  BY <1>0, <1>1, <1>4, <1>5, <1>6, WebRecord DEF ListsArchived, refs
<1>7. CASE WebError(u)
  BY <1>0, <1>1, <1>7, WebErrorLeaves DEF WebError
<1>. QED BY <1>1, <1>6, <1>7

\* The fields a request keeps as it goes on.
KeepsRequest(u) ==
  /\ OtherUsers(u) /\ web'[u].begin = web[u].begin /\ web'[u].job = web[u].job
  /\ web'[u].due = web[u].due /\ web'[u].still = web[u].still

ListsRetrying(u) ==
  /\ OtherUsers(u) /\ web[u].pc = "retrying" /\ web'[u].pc = "refs"
  /\ web'[u].begin = web[u].begin /\ web'[u].job = web[u].job /\ web'[u].still = Failing
  /\ web'[u].found = web[u].found \cup {RefID(c) : c \in RetryTasks} /\ web'[u].rows = web[u].rows

LEMMA ListRetryEffect ==
  ASSUME TypeInv, NEW u \in Users, ListRetryTasks(u)
  PROVE  /\ UNCHANGED schedulerVars /\ (UNCHANGED spent \/ Spend("error"))
         /\ ListsRetrying(u) \/ Leaves(u)
<1>0. WebTypeOK /\ FaultsTypeOK /\ web[u] \in WebState
  BY DEF TypeInv, WebInv, CallInv, SharedInv, WebTypeOK
<1>. DEFINE refs == web[u].found \cup {RefID(c) : c \in RetryTasks}
            still == Failing
            w == [web[u] EXCEPT !.pc = "refs", !.found = refs, !.still = still]
<1>1. /\ web[u].pc = "retrying" /\ UNCHANGED schedulerVars
      /\ \/ WebBecome(u, w) /\ UNCHANGED spent
         \/ WebError(u)
  BY DEF ListRetryTasks, WebAt
<1>2. refs \in SUBSET Refs
  <2>1. web[u].found \in SUBSET Refs
    BY <1>0 DEF WebState
  <2>. QED BY <2>1, FailedFacts DEF RetryTasks
<1>3. still \in SUBSET (Refs \X Nat)
  BY FailedFacts DEF Failing
<1>. HIDE DEF refs, still
<1>5. /\ w \in WebState /\ w.pc = "refs" /\ w.found = refs /\ w.begin = web[u].begin
      /\ w.rows = web[u].rows /\ w.job = web[u].job /\ w.still = still
  <2>1. "refs" \in WebPC
    BY DEF WebPC
  <2>. QED BY <1>0, <1>2, <1>3, <2>1 DEF WebState
<1>. HIDE DEF w
<1>6. CASE WebBecome(u, w) /\ UNCHANGED spent
  BY <1>0, <1>1, <1>5, <1>6, WebRecord DEF ListsRetrying, refs, still
<1>7. CASE WebError(u)
  BY <1>0, <1>1, <1>7, WebErrorLeaves DEF WebError
<1>. QED BY <1>1, <1>6, <1>7

ListsRefs(u) ==
  /\ KeepsRequest(u) /\ web[u].pc = "refs" /\ web'[u].pc = "rows"
  /\ web'[u].found = web[u].found /\ web'[u].rows = web[u].rows
  /\ web'[u].cand = web[u].found \ RefsOf(Rows)

LEMMA ListRefsEffect ==
  ASSUME TypeInv, NEW u \in Users, ListExistingRefIDs(u)
  PROVE  /\ UNCHANGED schedulerVars /\ (UNCHANGED spent \/ Spend("error"))
         /\ ListsRefs(u) \/ Leaves(u)
<1>0. WebTypeOK /\ FaultsTypeOK /\ web[u] \in WebState
  BY DEF TypeInv, WebInv, CallInv, SharedInv, WebTypeOK
<1>. DEFINE refs == web[u].found \ RefsOf(Rows)
            w == [web[u] EXCEPT !.pc = "rows", !.cand = refs]
<1>1. /\ web[u].pc = "refs" /\ UNCHANGED schedulerVars
      /\ \/ WebBecome(u, w) /\ UNCHANGED spent
         \/ WebError(u)
  BY DEF ListExistingRefIDs, WebAt
<1>2. refs \in SUBSET Refs
  BY <1>0 DEF WebState
<1>. HIDE DEF refs
<1>5. /\ w \in WebState /\ w.pc = "rows" /\ w.found = web[u].found /\ w.begin = web[u].begin
      /\ w.rows = web[u].rows /\ w.job = web[u].job /\ w.due = web[u].due /\ w.still = web[u].still /\ w.cand = refs
  <2>1. "rows" \in WebPC
    BY DEF WebPC
  <2>. QED BY <1>0, <1>2, <2>1 DEF WebState
<1>. HIDE DEF w
<1>6. CASE WebBecome(u, w) /\ UNCHANGED spent
  BY <1>0, <1>1, <1>5, <1>6, WebRecord DEF ListsRefs, KeepsRequest, refs
<1>7. CASE WebError(u)
  BY <1>0, <1>1, <1>7, WebErrorLeaves DEF WebError
<1>. QED BY <1>1, <1>6, <1>7

ListsRows(u) ==
  /\ KeepsRequest(u) /\ web[u].pc = "rows" /\ web'[u].pc = "listed"
  /\ web'[u].found = web[u].found /\ web'[u].rows = Rows /\ web'[u].cand = web[u].cand

LEMMA ListJobsEffect ==
  ASSUME TypeInv, NEW u \in Users, ListJobs(u)
  PROVE  /\ UNCHANGED schedulerVars /\ (UNCHANGED spent \/ Spend("error"))
         /\ ListsRows(u) \/ Leaves(u)
<1>0. WebTypeOK /\ FaultsTypeOK /\ web[u] \in WebState
  BY DEF TypeInv, WebInv, CallInv, SharedInv, WebTypeOK
<1>. DEFINE rows == Rows
            w == [web[u] EXCEPT !.pc = "listed", !.rows = rows]
<1>1. /\ web[u].pc = "rows" /\ UNCHANGED schedulerVars
      /\ \/ WebBecome(u, w) /\ UNCHANGED spent
         \/ WebError(u)
  BY DEF ListJobs, WebAt
<1>2. rows \in SUBSET JobID
  BY DEF Rows
<1>. HIDE DEF rows
<1>5. /\ w \in WebState /\ w.pc = "listed" /\ w.found = web[u].found /\ w.begin = web[u].begin
      /\ w.rows = rows /\ w.job = web[u].job /\ w.due = web[u].due /\ w.still = web[u].still /\ w.cand = web[u].cand
  <2>1. "listed" \in WebPC
    BY DEF WebPC
  <2>. QED BY <1>0, <1>2, <2>1 DEF WebState
<1>. HIDE DEF w
<1>6. CASE WebBecome(u, w) /\ UNCHANGED spent
  BY <1>0, <1>1, <1>5, <1>6, WebRecord DEF ListsRows, KeepsRequest, rows
<1>7. CASE WebError(u)
  BY <1>0, <1>1, <1>7, WebErrorLeaves DEF WebError
<1>. QED BY <1>1, <1>6, <1>7

\* A click on a run of the answer: the request that follows begins with nothing.
Clicks(u, j) ==
  /\ OtherUsers(u) /\ web[u].pc = "listed" /\ j \in web[u].rows /\ web'[u].job = j
  /\ web'[u].begin = NoRequest.begin /\ web'[u].found = {} /\ web'[u].rows = {}

LEMMA FindForRetryEffect ==
  ASSUME TypeInv, NEW u \in Users, NEW j \in JobID, FindForRetry(u, j)
  PROVE  /\ UNCHANGED schedulerVars /\ (UNCHANGED spent \/ Spend("error"))
         /\ \/ Clicks(u, j) /\ web'[u].pc = IF job[j].triggerFailure THEN "countForRetry" ELSE "retryJob"
            \/ Leaves(u)
<1>0. WebTypeOK /\ FaultsTypeOK
  BY DEF TypeInv, WebInv, CallInv, SharedInv, WebTypeOK
<1>. DEFINE pc == IF job[j].triggerFailure THEN "countForRetry" ELSE "retryJob"
            w == [NoRequest EXCEPT !.job = j, !.pc = pc]
<1>1. /\ web[u].pc = "listed" /\ j \in web[u].rows /\ UNCHANGED schedulerVars
      /\ \/ WebBecome(u, w) /\ UNCHANGED spent
         \/ WebError(u)
  BY DEF FindForRetry, WebAt
<1>2. pc \in WebPC
  BY DEF WebPC
<1>. HIDE DEF pc
<1>5. /\ w \in WebState /\ w.pc = pc /\ w.found = {} /\ w.begin = NoRequest.begin
      /\ w.rows = {} /\ w.job = j
  BY <1>2, NoRequestType DEF WebState
<1>. HIDE DEF w
<1>6. CASE WebBecome(u, w) /\ UNCHANGED spent
  <2>1. Clicks(u, j) /\ web'[u].pc = pc
    BY <1>0, <1>1, <1>5, <1>6, WebRecord DEF Clicks
  <2>. QED BY <1>1, <1>6, <2>1 DEF pc
<1>7. CASE WebError(u)
  BY <1>0, <1>1, <1>7, WebErrorLeaves DEF WebError
<1>. QED BY <1>1, <1>6, <1>7

LEMMA OpenJobEffect ==
  ASSUME TypeInv, NEW u \in Users, NEW j \in JobID, OpenJob(u, j)
  PROVE  /\ UNCHANGED schedulerVars /\ UNCHANGED spent
         /\ Clicks(u, j) /\ web'[u].pc = "countTasks" /\ web'[u].due = TasksOf(j)
         /\ web'[u].walk = <<>> /\ web'[u].offset = 0
<1>0. WebTypeOK
  BY DEF TypeInv, WebInv
<1>. DEFINE due == TasksOf(j)
            w == [NoRequest EXCEPT !.pc = "countTasks", !.job = j, !.due = due]
<1>1. /\ web[u].pc = "listed" /\ j \in web[u].rows /\ UNCHANGED schedulerVars
      /\ WebBecome(u, w) /\ UNCHANGED spent
  BY DEF OpenJob, WebAt
<1>2. due \in SUBSET TaskID
  BY DEF TasksOf
<1>. HIDE DEF due
<1>3. "countTasks" \in WebPC
  BY DEF WebPC
<1>5. /\ w \in WebState /\ w.pc = "countTasks" /\ w.found = {} /\ w.begin = NoRequest.begin
      /\ w.rows = {} /\ w.job = j /\ w.due = due /\ w.walk = <<>> /\ w.offset = 0
  BY <1>2, <1>3, NoRequestType DEF WebState
<1>. HIDE DEF w
<1>. QED BY <1>0, <1>1, <1>5, WebRecord DEF Clicks, due

\* A user goes on with the run chosen.
Follows(u) ==
  /\ KeepsRequest(u) /\ web'[u].found = web[u].found /\ web'[u].rows = web[u].rows

LEMMA CountForRetryEffect ==
  ASSUME TypeInv, NEW u \in Users, CountTasksForJob(u)
  PROVE  /\ UNCHANGED schedulerVars /\ (UNCHANGED spent \/ Spend("error"))
         /\ \/ /\ Follows(u) /\ web[u].pc = "countForRetry"
               /\ web'[u].pc = IF TasksOf(web[u].job) = {} THEN "retryTrigger" ELSE "retryJob"
            \/ Leaves(u)
<1>0. WebTypeOK /\ FaultsTypeOK /\ web[u] \in WebState
  BY DEF TypeInv, WebInv, CallInv, SharedInv, WebTypeOK
<1>. DEFINE pc == IF TasksOf(web[u].job) = {} THEN "retryTrigger" ELSE "retryJob"
            w == [web[u] EXCEPT !.pc = pc]
<1>1. /\ web[u].pc = "countForRetry" /\ UNCHANGED schedulerVars
      /\ \/ WebBecome(u, w) /\ UNCHANGED spent
         \/ WebError(u)
  BY DEF CountTasksForJob, WebAt, WebGoto
<1>2. pc \in WebPC
  BY DEF WebPC
<1>. HIDE DEF pc
<1>5. /\ w \in WebState /\ w.pc = pc /\ w.found = web[u].found /\ w.begin = web[u].begin
      /\ w.rows = web[u].rows /\ w.job = web[u].job /\ w.due = web[u].due /\ w.still = web[u].still
  BY <1>0, <1>2 DEF WebState
<1>. HIDE DEF w
<1>6. CASE WebBecome(u, w) /\ UNCHANGED spent
  <2>1. Follows(u) /\ web'[u].pc = pc
    BY <1>0, <1>1, <1>5, <1>6, WebRecord DEF Follows, KeepsRequest
  <2>. QED BY <1>1, <1>6, <2>1 DEF pc
<1>7. CASE WebError(u)
  BY <1>0, <1>1, <1>7, WebErrorLeaves DEF WebError
<1>. QED BY <1>1, <1>6, <1>7

CountsTasks(u) ==
  /\ Follows(u) /\ web[u].pc = "countTasks" /\ web'[u].pc = "pageTasks"
  /\ web'[u].total = Cardinality(TasksOf(web[u].job))
  /\ web'[u].walk = web[u].walk /\ web'[u].offset = web[u].offset

LEMMA CountTasksEffect ==
  ASSUME TypeInv, NEW u \in Users, CountTasks(u)
  PROVE  /\ UNCHANGED schedulerVars /\ (UNCHANGED spent \/ Spend("error"))
         /\ CountsTasks(u) \/ Leaves(u)
<1>0. WebTypeOK /\ FaultsTypeOK /\ web[u] \in WebState /\ WebOK(u)
  BY DEF TypeInv, WebInv, CallInv, SharedInv, WebTypeOK
<1>. DEFINE total == Cardinality(TasksOf(web[u].job))
            w == [web[u] EXCEPT !.pc = "pageTasks", !.total = total]
<1>1. /\ web[u].pc = "countTasks" /\ UNCHANGED schedulerVars
      /\ \/ WebBecome(u, w) /\ UNCHANGED spent
         \/ WebError(u)
  BY DEF CountTasks, WebAt
<1>2. "pageTasks" \in WebPC
  BY DEF WebPC
<1>3. total \in Nat
  <2>1. PICK j \in JobID : j = web[u].job
    BY <1>0, <1>1 DEF WebOK, Acting
  <2>2. Cardinality(TasksOf(j)) \in 0..MaxTasks
    BY TasksBounded
  <2>. QED BY <2>1, <2>2
<1>. HIDE DEF total
<1>5. /\ w \in WebState /\ w.pc = "pageTasks" /\ w.found = web[u].found /\ w.begin = web[u].begin
      /\ w.rows = web[u].rows /\ w.job = web[u].job /\ w.due = web[u].due /\ w.still = web[u].still
      /\ w.total = total /\ w.walk = web[u].walk /\ w.offset = web[u].offset
  BY <1>0, <1>2, <1>3 DEF WebState
<1>. HIDE DEF w
<1>6. CASE WebBecome(u, w) /\ UNCHANGED spent
  BY <1>0, <1>1, <1>5, <1>6, WebRecord DEF CountsTasks, Follows, KeepsRequest, total
<1>7. CASE WebError(u)
  BY <1>0, <1>1, <1>7, WebErrorLeaves DEF WebError
<1>. QED BY <1>1, <1>6, <1>7

TurnsTaskPage(u) ==
  /\ Follows(u) /\ web[u].pc = "pageTasks" /\ web'[u].total = web[u].total
  /\ web'[u].walk = web[u].walk \o TaskPage(web[u].job, web[u].offset, TaskPageSize)
  /\ web'[u].offset = web[u].offset + TaskPageSize
  /\ web'[u].pc = IF web[u].offset + TaskPageSize < web[u].total THEN "countTasks" ELSE "walked"

LEMMA PageTasksEffect ==
  ASSUME TypeInv, NEW u \in Users, PageTasks(u)
  PROVE  /\ UNCHANGED schedulerVars /\ (UNCHANGED spent \/ Spend("error"))
         /\ TurnsTaskPage(u) \/ Leaves(u)
<1>0. WebTypeOK /\ FaultsTypeOK /\ web[u] \in WebState /\ WebOK(u) /\ web[u].pc = "pageTasks"
  BY DEF TypeInv, WebInv, CallInv, SharedInv, WebTypeOK, PageTasks, WebAt
<1>1. PICK j \in JobID : j = web[u].job
  BY <1>0 DEF WebOK, Acting
<1>2. PICK offset \in Nat : offset = web[u].offset
  BY <1>0 DEF WebState
<1>. DEFINE page == TaskPage(j, offset, TaskPageSize)
            walk == web[u].walk \o page
            next == offset + TaskPageSize
            pc == IF next < web[u].total THEN "countTasks" ELSE "walked"
            v == [web[u] EXCEPT !.walk = web[u].walk \o page, !.offset = web[u].offset + TaskPageSize]
            w == [v EXCEPT !.pc = IF v.offset < v.total THEN "countTasks" ELSE "walked"]
<1>3. UNCHANGED schedulerVars /\ ((WebBecome(u, w) /\ UNCHANGED spent) \/ WebError(u))
  BY <1>1, <1>2 DEF PageTasks
<1>4. page \in Seq(TaskID)
  BY TaskPageFacts, ConsoleAssumption
<1>. HIDE DEF page
<1>5. walk \in Seq(TaskID) /\ next \in Nat /\ web[u].total \in Nat /\ pc \in WebPC
  BY <1>0, <1>4, ConsoleAssumption DEF WebState, WebPC
<1>6. v = [web[u] EXCEPT !.walk = walk, !.offset = next] /\ w = [v EXCEPT !.pc = pc]
  <2>1. v.offset = next /\ v.total = web[u].total
    BY <1>0, <1>2 DEF WebState
  <2>. QED BY <1>2, <2>1
<1>. HIDE DEF v, w, walk, next, pc
<1>7. /\ v \in WebState /\ v.found = web[u].found /\ v.begin = web[u].begin
      /\ v.rows = web[u].rows /\ v.job = web[u].job /\ v.due = web[u].due
      /\ v.total = web[u].total /\ v.walk = walk /\ v.offset = next
  BY <1>0, <1>5, <1>6 DEF WebState
<1>8. /\ w \in WebState /\ w.pc = pc /\ w.found = web[u].found /\ w.begin = web[u].begin
      /\ w.rows = web[u].rows /\ w.job = web[u].job /\ w.due = web[u].due /\ w.still = web[u].still
      /\ w.total = web[u].total /\ w.walk = walk /\ w.offset = next
  BY <1>5, <1>6, <1>7 DEF WebState
<1>9. CASE WebBecome(u, w) /\ UNCHANGED spent
  <2>1. Follows(u) /\ web'[u].pc = pc /\ web'[u].total = web[u].total /\ web'[u].walk = walk
        /\ web'[u].offset = next
    BY <1>0, <1>8, <1>9, WebRecord DEF Follows, KeepsRequest
  <2>. QED BY <1>0, <1>1, <1>2, <1>3, <1>9, <2>1 DEF TurnsTaskPage, walk, next, pc, page
<1>10. CASE WebError(u)
  BY <1>0, <1>3, <1>10, WebErrorLeaves DEF WebError
<1>. QED BY <1>3, <1>9, <1>10

-----------------------------------------------------------------------------
(* The steps of Console *)

\* A handler that only reads, and a page that is closed.
Looks(u) ==
  /\ UNCHANGED schedulerVars /\ (UNCHANGED spent \/ Spend("error"))
  /\ \/ ListsArchived(u) \/ ListsRetrying(u) \/ ListsRefs(u) \/ ListsRows(u) \/ Leaves(u)
     \/ \E j \in JobID : /\ Clicks(u, j)
                         /\ \/ web'[u].pc = IF job[j].triggerFailure THEN "countForRetry" ELSE "retryJob"
                            \/ /\ web'[u].pc = "countTasks" /\ web'[u].due = TasksOf(j)
                               /\ web'[u].walk = <<>> /\ web'[u].offset = 0
     \/ /\ Follows(u) /\ web[u].pc = "countForRetry"
        /\ web'[u].pc = IF TasksOf(web[u].job) = {} THEN "retryTrigger" ELSE "retryJob"
     \/ CountsTasks(u) \/ TurnsTaskPage(u)

\* A caller's step, by asynq or from the console.
Calls(c) ==
  \/ Trigger(c) \/ (\E j \in JobID : RetryTriggerJob(c, j)) \/ Redeliver(c)
  \/ CallerStep(c) \/ CrashCaller(c)

\* Inspector.RunTask on a failed task.
RunsTask(c) ==
  /\ c \in FailedCalls /\ UNCHANGED <<repositoryVars, spent, brokerVars, finalizerVars>>
  /\ JobExecutorTypeOK' /\ Others(c) /\ caller'[c].pc = "find"
  /\ caller'[c].turn = caller[c].turn /\ caller'[c].maxRetry = caller[c].maxRetry
  /\ caller'[c].again = caller[c].again
  /\ caller'[c].retry = IF c \in RetryTasks THEN caller[c].retry + 1 ELSE caller[c].retry

\* A retrier's step, or the click that sets it off.
Retries(r) ==
  \/ RetrierStep(r) \/ CrashRetrier(r)
  \/ r \in Users /\ web[r].pc = "retryJob" /\ RetryJob(r, web[r].job)

LEMMA RetriesKinds ==
  ASSUME WebInv, NEW r \in Retriers, Retries(r)
  PROVE  (\E j \in JobID : RetryJob(r, j)) \/ RetrierStep(r) \/ CrashRetrier(r)
BY DEF WebInv, WebOK, Acting, Retries

\* The users' requests stay, or one is over.
WebRests == UNCHANGED web \/ \E u \in Users : Leaves(u)

LEMMA RunTaskEffect ==
  ASSUME TypeInv, NEW u \in Users, RetryAsynqTask(u)
  PROVE  /\ \E c \in FailedCalls : RunsTask(c)
         /\ UNCHANGED retrier /\ Leaves(u)
<1>0. WebTypeOK /\ FaultsTypeOK /\ JobExecutorTypeOK
  BY DEF TypeInv, WebInv, CallInv, SharedInv
<1>1. PICK c \in FailedCalls :
        caller' = [caller EXCEPT ![c].pc = "find",
                                 ![c].retry = IF c \in RetryTasks THEN @ + 1 ELSE @]
  BY DEF RetryAsynqTask
<1>2. c \in Callers /\ caller[c].retry \in Nat
  BY FailedFacts
<1>. DEFINE retry == IF c \in RetryTasks THEN caller[c].retry + 1 ELSE caller[c].retry
            w == [caller[c] EXCEPT !.pc = "find", !.retry = retry]
<1>3. retry \in Nat /\ caller[c] \in CallerState /\ "find" \in CallerPC
  BY <1>0, <1>2 DEF JobExecutorTypeOK, CallerPC
<1>4. caller' = [caller EXCEPT ![c] = w]
  BY <1>0, <1>1, <1>2, <1>3 DEF JobExecutorTypeOK, CallerState
<1>. HIDE DEF retry
<1>5. /\ w \in CallerState /\ w.pc = "find" /\ w.retry = retry /\ w.turn = caller[c].turn
      /\ w.maxRetry = caller[c].maxRetry /\ w.again = caller[c].again
  BY <1>3 DEF CallerState
<1>. HIDE DEF w
<1>6. JobExecutorTypeOK' /\ Others(c) /\ caller'[c] = w
  BY <1>0, <1>2, <1>4, <1>5, CallerRecord
<1>7. RunsTask(c)
  BY <1>5, <1>6 DEF RunsTask, retry, RetryAsynqTask
<1>. QED BY <1>0, <1>7, WebErrorLeaves DEF RetryAsynqTask

\* Every step is one of these.
LEMMA StepKinds ==
  ASSUME TypeInv, [Next]_vars
  PROVE  \/ \E u \in Users : Looks(u)
         \/ /\ \E c \in Callers : Calls(c) \/ RunsTask(c)
            /\ UNCHANGED retrier /\ WebRests
         \/ /\ \E r \in Retriers : Retries(r)
            /\ UNCHANGED caller /\ WebRests
         \/ /\ FinalizerInv' /\ FaultsTypeOK' /\ Updated
            /\ UNCHANGED <<brokerVars, caller, retrier>> /\ WebRests
<1>0. /\ WebTypeOK /\ FaultsTypeOK /\ RepositoryTypeOK /\ FinalizerInv /\ OwnTasks
      /\ \A u \in Users : WebOK(u)
  BY DEF TypeInv, WebInv, CallInv, SharedInv
<1>1. Users \subseteq Callers /\ Users \subseteq Retriers
  BY ConsoleAssumption
<1>. DEFINE Goal == \/ \E u \in Users : Looks(u)
                    \/ /\ \E c \in Callers : Calls(c) \/ RunsTask(c)
                       /\ UNCHANGED retrier /\ WebRests
                    \/ /\ \E r \in Retriers : Retries(r)
                       /\ UNCHANGED caller /\ WebRests
                    \/ /\ FinalizerInv' /\ FaultsTypeOK' /\ Updated
                       /\ UNCHANGED <<brokerVars, caller, retrier>> /\ WebRests
<1>. SUFFICES Goal
  OBVIOUS
<1>2. ASSUME UNCHANGED <<repositoryVars, spent, brokerVars, finalizerVars, caller, retrier>>, WebRests PROVE Goal
  <2>1. FaultsTypeOK' /\ FinalizerInv' /\ Updated
    BY <1>0, <1>2, UnchangedRows, UnchangedShared DEF TypeInv, CallInv
  <2>. QED BY <1>2, <2>1
<1>3. ASSUME NEW u \in Users, WebStep(u) PROVE Goal
  <2>0. u \in Callers /\ u \in Retriers
    BY <1>1
  <2>1. CASE ListArchivedTasks(u) \/ ListRetryTasks(u) \/ ListExistingRefIDs(u) \/ ListJobs(u)
    BY <2>1, ListArchivedEffect, ListRetryEffect, ListRefsEffect, ListJobsEffect DEF Looks
  <2>2. CASE Close(u)
    BY <1>0, <2>2, WebErrorLeaves DEF Looks, Close
  <2>3. CASE RetryAsynqTask(u)
    <3>1. PICK c \in FailedCalls : RunsTask(c)
      BY <2>3, RunTaskEffect
    <3>2. c \in Callers
      BY FailedFacts
    <3>. QED BY <2>3, <3>1, <3>2, RunTaskEffect DEF WebRests
  <2>4. CASE CountTasksForJob(u)
    BY <2>4, CountForRetryEffect DEF Looks
  <2>5. CASE HandleRetryTrigger(u)
    <3>1. web[u].job \in JobID
      BY <1>0, <2>5 DEF HandleRetryTrigger, WebAt, WebOK, Acting
    <3>2. Calls(u) /\ UNCHANGED retrier
      BY <2>5, <3>1 DEF HandleRetryTrigger, Calls
    <3>3. Leaves(u)
      BY <1>0, <2>5, WebErrorLeaves DEF HandleRetryTrigger
    <3>. QED BY <2>0, <3>2, <3>3 DEF WebRests
  <2>6. CASE HandleRetryJob(u)
    <3>2. Leaves(u) /\ UNCHANGED caller
      BY <1>0, <2>6, WebErrorLeaves DEF HandleRetryJob
    <3>3. \/ Retries(u)
          \/ UNCHANGED <<repositoryVars, spent, brokerVars, finalizerVars, retrier>>
      BY <2>6 DEF HandleRetryJob, Retries, WebAt
    <3>. QED BY <1>2, <2>0, <3>2, <3>3 DEF WebRests
  <2>7. CASE CountTasks(u) \/ PageTasks(u)
    BY <2>7, CountTasksEffect, PageTasksEffect DEF Looks
  <2>8. ASSUME NEW j \in JobID, FindForRetry(u, j) PROVE Goal
    BY <2>8, FindForRetryEffect DEF Looks
  <2>9. ASSUME NEW j \in JobID, HandleTerminate(u, j) PROVE Goal
    <3>1. Updated
      BY <1>0, <2>9, CancelRows DEF HandleTerminate
    <3>2. FinalizerInv' /\ FaultsTypeOK'
      BY <2>9, UnchangedShared DEF HandleTerminate, TypeInv, CallInv
    <3>3. Leaves(u)
      BY <1>0, <2>9, WebErrorLeaves DEF HandleTerminate
    <3>. QED BY <2>9, <3>1, <3>2, <3>3 DEF HandleTerminate, WebRests
  <2>10. ASSUME NEW j \in JobID, OpenJob(u, j) PROVE Goal
    BY <2>10, OpenJobEffect DEF Looks
  <2>. HIDE DEF Goal
  <2>. QED BY <1>3, <2>1, <2>2, <2>3, <2>4, <2>5, <2>6, <2>7, <2>8, <2>9, <2>10 DEF WebStep
<1>4. ASSUME NEW c \in Callers,
             (c \notin Users /\ Trigger(c)) \/ Redeliver(c) \/ CallerStep(c) \/ CrashCaller(c),
             UNCHANGED <<retrier, web>>
      PROVE  Goal
  BY <1>4 DEF Calls, WebRests
<1>5. ASSUME NEW r \in Retriers, RetrierStep(r) \/ CrashRetrier(r), UNCHANGED <<caller, web>> PROVE Goal
  BY <1>5 DEF Retries, WebRests
<1>6. ASSUME NEW f \in Finalizers, FinalizerStep(f), UNCHANGED <<brokerVars, caller, retrier, web>> PROVE Goal
  <2>1. FinalizerEffects(f)
    BY <1>0, <1>6, FinalizerSteps
  <2>2. Updated
    BY <1>0, <2>1, FinalizerUpdates
  <2>. QED BY <1>6, <2>1, <2>2 DEF FinalizerEffects, WebRests
<1>7. UNCHANGED vars => Goal
  BY <1>2 DEF vars, WebRests
<1>. HIDE DEF Goal
<1>. QED BY <1>3, <1>4, <1>5, <1>6, <1>7 DEF Next

-----------------------------------------------------------------------------
(* Type correctness *)

LEMMA GrowsRows == ASSUME Grows PROVE Rows \subseteq Rows'
BY DEF Grows, Rows

LEMMA LeavesOK == ASSUME NEW u \in Users, Leaves(u) PROVE WebOK(u)'
BY NoRequestType DEF Leaves, WebOK, Acting

\* A request that is not the one that moves keeps what it knows.
LEMMA WebStands ==
  ASSUME WebInv, Grows, NEW u \in Users, OtherUsers(u), WebOK(u)'
  PROVE  WebInv'
<1>1. ASSUME NEW v \in Users PROVE WebOK(v)'
  <2>1. CASE v = u
    BY <2>1
  <2>2. CASE v # u
    <3>1. web'[v] = web[v] /\ WebOK(v)
      BY <2>2 DEF OtherUsers, WebInv
    <3>. QED BY <3>1, GrowsRows DEF WebOK, Grows
  <2>. QED BY <2>1, <2>2
<1>. QED BY <1>1 DEF WebInv, OtherUsers

LEMMA WebRestsInv == ASSUME WebInv, Grows, WebRests PROVE WebInv'
<1>1. CASE UNCHANGED web
  <2>1. ASSUME NEW v \in Users PROVE WebOK(v)'
    BY <1>1, GrowsRows DEF WebOK, WebInv, Grows
  <2>. QED BY <1>1, <2>1 DEF WebInv, WebTypeOK
<1>2. ASSUME NEW u \in Users, Leaves(u) PROVE WebInv'
  <2>1. OtherUsers(u)
    BY <1>2 DEF Leaves
  <2>. QED BY <1>2, <2>1, LeavesOK, WebStands
<1>. QED BY <1>1, <1>2 DEF WebRests

LEMMA LooksOK == ASSUME WebInv, NEW u \in Users, Looks(u) PROVE OtherUsers(u) /\ WebOK(u)'
<1>0. WebOK(u) /\ Rows' = Rows /\ job' = job
  BY DEF WebInv, Looks, schedulerVars, repositoryVars, Rows
<1>1. CASE Leaves(u)
  BY <1>1, LeavesOK DEF Leaves
<1>2. CASE ListsArchived(u)
  BY <1>0, <1>2 DEF ListsArchived, WebOK, Acting
<1>3. CASE ListsRetrying(u) \/ ListsRefs(u) \/ ListsRows(u)
  BY <1>0, <1>3 DEF ListsRetrying, ListsRefs, ListsRows, KeepsRequest, WebOK, Acting
<1>4. ASSUME NEW j \in JobID, Clicks(u, j) PROVE OtherUsers(u) /\ WebOK(u)'
  <2>1. NoRequest.begin.rows = {}
    BY NoRequestType
  <2>2. j \in Rows
    BY <1>0, <1>4 DEF Clicks, WebOK
  <2>3. Exists(job[j])
    BY <2>2 DEF Rows
  <2>. QED BY <1>0, <1>4, <2>1, <2>3 DEF Clicks, WebOK
<1>5. ASSUME Follows(u), web[u].pc \in Acting PROVE OtherUsers(u) /\ WebOK(u)'
  BY <1>0, <1>5 DEF Follows, KeepsRequest, WebOK
<1>. QED
  BY <1>1, <1>2, <1>3, <1>4, <1>5 DEF Looks, CountsTasks, TurnsTaskPage, Acting

LEMMA CallsTurn ==
  ASSUME CallInv, TurnInv, NEW c \in Callers, Calls(c), CallInv'
  PROVE  TurnInv'
<1>1. Kind(c)
  BY CallerKinds DEF Calls
<1>2. Others(c)
  BY <1>1
  DEF Kind, BeginsNext, BeginsAgain, Begins, Reads, Marks, Cancels, Quiet, Misses, Hits, Inserts
<1>3. caller[c].pc # "idle" => caller[c].turn >= 1
  BY CallFacts DEF CallerOK
<1>4. caller'[c].pc # "idle" => caller'[c].turn >= 1
  BY DEF CallInv, CallerInv, CallerOK
<1>5. CASE CallerStep(c) \/ CrashCaller(c)
  <2>1. caller[c].pc # "idle"
    BY <1>5 DEF CallerStep, CrashCaller, CallAt, FindExisting, FindExistingTasks, Split, RecheckRef,
      PersistTriggerFailure, CreateRun, SyncTasks, AlreadyRunning, BeginPublish, PublishTask,
      MarkFailed, CancelOthers, StartJob, EndFinalize
  <2>2. SameCall(c) \/ caller'[c].pc = "find"
    BY <1>1
    DEF Kind, BeginsNext, BeginsAgain, Begins, Reads, Marks, Cancels, Quiet, Misses, Hits, Inserts
  <2>3. caller'[c].turn >= 1
    BY <1>3, <1>4, <2>1, <2>2 DEF SameCall
  <2>. QED BY <1>2, <2>3 DEF TurnInv, Others
<1>6. CASE Trigger(c) \/ (\E j \in JobID : RetryTriggerJob(c, j)) \/ Redeliver(c)
  <2>1. caller'[c].pc = "find"
    BY <1>6, CallFacts DEF Trigger, RetryTriggerJob, NextCall, Redeliver, JobExecutorTypeOK, CallerState
  <2>. QED BY <1>2, <1>4, <2>1 DEF TurnInv, Others
<1>. QED BY <1>5, <1>6 DEF Calls

LEMMA RunsTaskType ==
  ASSUME TypeInv, NEW c \in Callers, RunsTask(c)
  PROVE  CallInv' /\ TurnInv' /\ Grows
<1>0. CallInv /\ c \in FailedCalls /\ JobExecutorTypeOK' /\ Others(c)
  BY DEF RunsTask, TypeInv
<1>1. /\ RepositoryTypeOK' /\ OwnTasks' /\ FaultsTypeOK' /\ BrokerTypeOK(TaskID)' /\ FinalizerInv'
      /\ \A j \in JobID : Exists(job[j]) => Exists(job'[j])
  BY <1>0, UnchangedShared DEF RunsTask, CallInv, Updated
<1>2. caller[c].turn = 1 /\ CallerOK(c) /\ CallRefs[c] \in Seq(Refs)
  BY <1>0, FailedFacts, CallFacts
<1>3. CallerOK(c)'
  BY <1>2 DEF CallerOK, RunsTask, Holding, Starting
<1>4. CallInv' /\ Grows
  BY <1>0, <1>1, <1>3, AssembleCall
<1>5. TurnInv'
  BY <1>0, <1>2 DEF TypeInv, TurnInv, Others, RunsTask
<1>. QED BY <1>4, <1>5

LEMMA InitTypes == Init => TypeInv
<1>. SUFFICES ASSUME Init PROVE TypeInv
  OBVIOUS
<1>. USE RepositoryAssumption, BrokerAssumption DEF Init
<1>1. RepositoryTypeOK /\ OwnTasks
  <2>1. NoJobRow \in JobRow
    BY DEF NoJobRow, JobRow, NoParent
  <2>2. job \in [JobID -> JobRow]
    BY <2>1
  <2>3. task \in [TaskID -> TaskRow] /\ \A t \in TaskID : ~Exists(task[t])
    BY DEF TaskRow, Exists
  <2>. QED BY <2>2, <2>3 DEF RepositoryTypeOK, OwnTasks
<1>2. FaultsTypeOK
  BY DEF FaultsInit, FaultsTypeOK
<1>3. BrokerTypeOK(TaskID)
  <2>1. log \in [Partitions -> Seq(TaskID)]
    <3>1. <<>> \in Seq(TaskID)
      OBVIOUS
    <3>. QED BY <3>1
  <2>. QED BY <2>1 DEF BrokerTypeOK
<1>4. JobFinalizerTypeOK /\ Visiting
  BY DEF JobFinalizerInit, JobFinalizerTypeOK, Visiting, Resting, FinalizerState, FinalizerPC
<1>5. JobExecutorTypeOK /\ CallerInv
  <2>1. "idle" \in CallerPC /\ 0 \in 0..MaxTasks /\ {} \in SUBSET TaskID
    BY DEF CallerPC
  <2>2. JobExecutorTypeOK
    BY <2>1 DEF JobExecutorInit, JobExecutorTypeOK, CallerState
  <2>3. \A c \in Callers : Len(CallRefs[c]) \in Nat
    BY JobExecutorAssumption
  <2>. QED BY <2>2, <2>3 DEF JobExecutorInit, CallerInv, CallerOK, Holding, Starting
<1>6. JobRetryTypeOK /\ RetrierInv
  BY NotRetryingType DEF JobRetryInit, JobRetryTypeOK, RetrierInv, RetrierOK, OnClone, Streaming
<1>7. WebInv
  BY NoRequestType DEF WebInv, WebTypeOK, WebOK, Acting
<1>8. TurnInv
  BY DEF TurnInv, JobExecutorInit
<1>. QED BY <1>1, <1>2, <1>3, <1>4, <1>5, <1>6, <1>7, <1>8
  DEF TypeInv, CallInv, RetryInv, SharedInv, FinalizerInv

LEMMA TypeStep ==
  ASSUME TypeInv, [Next]_vars
  PROVE  TypeInv' /\ Grows
<1>0. CallInv /\ RetryInv /\ WebInv /\ TurnInv /\ SharedInv
  BY DEF TypeInv, CallInv
<1>1. ASSUME NEW u \in Users, Looks(u) PROVE TypeInv' /\ Grows
  <2>1. UNCHANGED <<repositoryVars, brokerVars, finalizerVars, caller, retrier>>
    BY <1>1 DEF Looks, schedulerVars
  <2>2. FaultsTypeOK'
    BY <1>0, <1>1, SpendKeeps DEF Looks, SharedInv
  <2>3. SharedInv' /\ Grows
    BY <1>0, <2>1, <2>2, UnchangedShared, SharedKept
  <2>4. CallInv' /\ RetryInv' /\ TurnInv'
    BY <1>0, <2>1, <2>3, CallKept, RetryKept DEF TurnInv
  <2>5. WebInv'
    BY <1>0, <1>1, <2>3, LooksOK, WebStands
  <2>. QED BY <2>3, <2>4, <2>5 DEF TypeInv
<1>2. ASSUME NEW c \in Callers, Calls(c) \/ RunsTask(c), UNCHANGED retrier, WebRests PROVE TypeInv' /\ Grows
  <2>1. CallInv' /\ Grows /\ TurnInv'
    <3>1. CASE Calls(c)
      <4>1. CallInv' /\ Grows
        BY <1>0, <3>1, CallerTypeStep DEF Calls
      <4>. QED BY <1>0, <3>1, <4>1, CallsTurn
    <3>2. CASE RunsTask(c)
      BY <3>2, RunsTaskType
    <3>. QED BY <1>2, <3>1, <3>2
  <2>2. SharedInv'
    BY <2>1 DEF CallInv
  <2>. QED BY <1>0, <1>2, <2>1, <2>2, RetryKept, WebRestsInv DEF TypeInv
<1>3. ASSUME NEW r \in Retriers, Retries(r), UNCHANGED caller, WebRests PROVE TypeInv' /\ Grows
  <2>1. RetryInv' /\ Grows
    BY <1>0, <1>3, RetriesKinds, RetrierTypeStep
  <2>2. SharedInv' /\ TurnInv'
    BY <1>0, <1>3, <2>1 DEF RetryInv, TurnInv
  <2>. QED BY <1>0, <1>3, <2>1, <2>2, CallKept, WebRestsInv DEF TypeInv
<1>4. ASSUME FinalizerInv', FaultsTypeOK', Updated, UNCHANGED <<brokerVars, caller, retrier>>, WebRests
      PROVE  TypeInv' /\ Grows
  <2>1. SharedInv' /\ Grows
    BY <1>0, <1>4, UnchangedShared, SharedKept
  <2>2. TurnInv'
    BY <1>0, <1>4 DEF TurnInv
  <2>. QED BY <1>0, <1>4, <2>1, <2>2, CallKept, RetryKept, WebRestsInv DEF TypeInv
<1>. QED BY <1>1, <1>2, <1>3, <1>4, StepKinds

LEMMA Types == Spec => []TypeInv
<1>1. TypeInv /\ [Next]_vars => TypeInv'
  BY TypeStep
<1>. QED BY <1>1, InitTypes, PTL DEF Spec

\* Every variable of Console keeps its type for every value of the constants:
\* the pages of tasks that GetJobTasks returns are sequences of tasks, and a
\* user acts on runs that are in the table.
THEOREM ConsoleTypeCorrect == Spec => []TypeOK
<1>1. TypeInv => TypeOK
  BY DEF TypeInv, TypeOK, CallInv, RetryInv, SharedInv, FinalizerInv, WebInv, WebTypeOK
<1>. QED BY <1>1, Types, PTL

-----------------------------------------------------------------------------
(* The record of a failed trigger is not cloned *)

\* The record of a failed trigger has no tasks, and neither is it a clone nor
\* has it one.
RowsInv ==
  /\ \A t \in TaskID : Exists(task[t]) => ~job[t[1]].triggerFailure
  /\ \A j \in JobID : job[j].parent # NoParent =>
       /\ ~job[j].triggerFailure
       /\ Exists(job[job[j].parent]) /\ ~job[job[j].parent].triggerFailure

\* A retrier works on runs, and a user who is about to call RetryJob has one.
WorksOnRuns(r) ==
  /\ retrier[r].pc # "idle" => ~job[retrier[r].source].triggerFailure
  /\ retrier[r].pc \in OnClone => ~job[retrier[r].clone].triggerFailure
ChoseRun(u) == web[u].pc = "retryJob" => ~job[web[u].job].triggerFailure

RecordInv ==
  /\ RowsInv
  /\ \A r \in Retriers : WorksOnRuns(r)
  /\ \A u \in Users : ChoseRun(u)

\* A row that is there keeps its flag and its reference.
KeepsRecords ==
  \A j \in JobID : Exists(job[j]) =>
    job'[j].triggerFailure = job[j].triggerFailure /\ job'[j].ref = job[j].ref

LEMMA UpdatedRecords ==
  ASSUME RepositoryTypeOK, RowsInv, Updated PROVE RowsInv' /\ KeepsRecords
<1>1. \A t \in TaskID : t[1] \in JobID
  BY TaskBelongs
<1>2. \A j \in JobID : job[j].parent \in JobID \cup {NoParent}
  BY DEF RepositoryTypeOK, JobRow
<1>3. \A t \in TaskID : Exists(task'[t]) => ~job'[t[1]].triggerFailure
  BY <1>1 DEF Updated, RowsInv
<1>4. ASSUME NEW j \in JobID, job'[j].parent # NoParent
      PROVE  /\ ~job'[j].triggerFailure
             /\ Exists(job'[job'[j].parent]) /\ ~job'[job'[j].parent].triggerFailure
  <2>1. job'[j].parent = job[j].parent /\ job'[j].triggerFailure = job[j].triggerFailure
    BY DEF Updated
  <2>2. PICK p \in JobID : p = job[j].parent
    BY <1>2, <1>4, <2>1
  <2>3. /\ Exists(job'[p]) <=> Exists(job[p])
        /\ job'[p].triggerFailure = job[p].triggerFailure
    BY DEF Updated
  <2>. QED BY <1>4, <2>1, <2>2, <2>3 DEF RowsInv
<1>. QED BY <1>3, <1>4 DEF RowsInv, KeepsRecords, Updated

LEMMA InsertedRecords ==
  ASSUME RepositoryTypeOK, RowsInv, NEW k \in JobID, NEW row \in JobRow, NEW n \in Nat,
         Inserted(k, row, n), row.triggerFailure => n = 0,
         row.parent # NoParent => /\ ~row.triggerFailure
                                  /\ Exists(job[row.parent]) /\ ~job[row.parent].triggerFailure
  PROVE  RowsInv' /\ KeepsRecords
<1>1. \A t \in TaskID : t[1] \in JobID /\ t[2] \in Nat
  BY TaskBelongs
<1>2. \A j \in JobID : job[j].parent \in JobID \cup {NoParent}
  BY DEF RepositoryTypeOK, JobRow
<1>3. ASSUME NEW t \in TaskID, Exists(task'[t]) PROVE ~job'[t[1]].triggerFailure
  <2>1. CASE t[1] = k
    <3>1. t[2] < n /\ job'[k] = row
      BY <1>3, <2>1 DEF Inserted
    <3>. QED BY <1>1, <2>1, <3>1
  <2>2. CASE t[1] # k
    BY <1>1, <1>3, <2>2 DEF Inserted, RowsInv
  <2>. QED BY <2>1, <2>2
<1>4. ASSUME NEW p \in JobID, Exists(job[p]) PROVE job'[p] = job[p]
  BY <1>4 DEF Inserted
<1>5. row.parent \in JobID \cup {NoParent}
  BY DEF JobRow
<1>6. ASSUME NEW j \in JobID, job'[j].parent # NoParent
      PROVE  /\ ~job'[j].triggerFailure
             /\ Exists(job'[job'[j].parent]) /\ ~job'[job'[j].parent].triggerFailure
  <2>1. CASE j = k
    <3>1. job'[j] = row
      BY <2>1 DEF Inserted
    <3>2. PICK p \in JobID : p = row.parent
      BY <1>5, <1>6, <3>1
    <3>3. Exists(job[p]) /\ ~job[p].triggerFailure /\ ~row.triggerFailure
      BY <1>6, <3>1, <3>2
    <3>. QED BY <1>4, <3>1, <3>2, <3>3
  <2>2. CASE j # k
    <3>1. job'[j] = job[j]
      BY <2>2 DEF Inserted
    <3>2. PICK p \in JobID : p = job[j].parent
      BY <1>2, <1>6, <3>1
    <3>3. Exists(job[p]) /\ ~job[p].triggerFailure /\ ~job[j].triggerFailure
      BY <1>6, <3>1, <3>2 DEF RowsInv
    <3>. QED BY <1>4, <3>1, <3>2, <3>3
  <2>. QED BY <2>1, <2>2
<1>7. KeepsRecords
  BY <1>4 DEF KeepsRecords
<1>. QED BY <1>3, <1>6, <1>7 DEF RowsInv

LEMMA CallsRecords ==
  ASSUME CallInv, RowsInv, NEW c \in Callers, Calls(c)
  PROVE  RowsInv' /\ KeepsRecords
<1>0. RepositoryTypeOK /\ Kind(c)
  BY CallerKinds DEF Calls, CallInv, SharedInv
<1>1. CASE Updated
  BY <1>0, <1>1, UpdatedRecords
<1>2. ASSUME NEW k \in JobID, NEW status \in Status, NEW failure \in BOOLEAN, NEW n \in 0..MaxTasks,
             Inserts(c, k, status, failure, n)
      PROVE  RowsInv' /\ KeepsRecords
  <2>. DEFINE row == NewJob(c, status, failure)
  <2>1. CallName[c] \in Names /\ RefID(c) \in Refs
    BY <1>2, CallFacts DEF Inserts
  <2>2. row \in JobRow
    BY <2>1 DEF NewJob, JobRow
  <2>3. row.parent = NoParent /\ row.triggerFailure = failure
    BY DEF NewJob
  <2>4. Inserted(k, row, n) /\ (failure => n = 0) /\ n \in Nat
    BY <1>2 DEF Inserts
  <2>. HIDE DEF row
  <2>. QED BY <1>0, <2>2, <2>3, <2>4, InsertedRecords
<1>. QED BY <1>0, <1>1, <1>2
  DEF Kind, BeginsNext, BeginsAgain, Reads, Marks, Cancels, Quiet, Misses, Hits

LEMMA RetriesRecords ==
  ASSUME TypeInv, RecordInv, NEW r \in Retriers, Retries(r)
  PROVE  RowsInv' /\ KeepsRecords /\ OtherRetriers(r) /\ WorksOnRuns(r)'
<1>0. /\ RetryInv /\ WebInv /\ RepositoryTypeOK /\ OwnTasks /\ RowsInv /\ WorksOnRuns(r) /\ RetrierOK(r)
      /\ retrier[r] \in RetrierState
  BY RetrierFacts DEF TypeInv, RecordInv
<1>. DEFINE Goal == RowsInv' /\ KeepsRecords /\ OtherRetriers(r) /\ WorksOnRuns(r)'
<1>. SUFFICES Goal
  OBVIOUS
<1>1. UNCHANGED repositoryVars => Updated /\ job' = job
  BY <1>0, UnchangedRows
<1>2. ASSUME RowsInv', KeepsRecords, RetryEnds(r) PROVE Goal
  BY <1>2 DEF RetryEnds, WorksOnRuns, OnClone, Streaming
\* It goes on with the runs it has.
<1>3. ASSUME RowsInv', KeepsRecords, SameJobs(r), retrier[r].pc # "idle",
             retrier'[r].pc \in OnClone => retrier[r].pc \in OnClone
      PROVE  Goal
  <2>1. PICK s \in JobID : s = retrier[r].source /\ Exists(job[s])
    BY <1>0, <1>3 DEF RetrierOK
  <2>2. ~job[s].triggerFailure /\ job'[s].triggerFailure = job[s].triggerFailure
    BY <1>0, <1>3, <2>1 DEF WorksOnRuns, KeepsRecords
  <2>3. ~job'[retrier'[r].source].triggerFailure
    BY <1>3, <2>1, <2>2 DEF SameJobs
  <2>4. retrier'[r].pc \in OnClone => ~job'[retrier'[r].clone].triggerFailure
    <3>. SUFFICES ASSUME retrier'[r].pc \in OnClone PROVE ~job'[retrier'[r].clone].triggerFailure
      OBVIOUS
    <3>1. PICK k \in JobID : k = retrier[r].clone /\ Exists(job[k])
      BY <1>0, <1>3 DEF RetrierOK
    <3>2. ~job[k].triggerFailure /\ job'[k].triggerFailure = job[k].triggerFailure
      BY <1>0, <1>3, <3>1 DEF WorksOnRuns, KeepsRecords
    <3>. QED BY <1>3, <3>1, <3>2 DEF SameJobs
  <2>. QED BY <1>3, <2>3, <2>4 DEF SameJobs, WorksOnRuns
<1>4. Updated => RowsInv' /\ KeepsRecords
  BY <1>0, UpdatedRecords
<1>. HIDE DEF Goal
<1>5. CASE r \in Users /\ web[r].pc = "retryJob" /\ RetryJob(r, web[r].job)
  <2>1. PICK j \in JobID : j = web[r].job
    BY <1>0, <1>5 DEF WebInv, WebOK, Acting
  <2>2. ~job[j].triggerFailure
    BY <1>5, <2>1 DEF RecordInv, ChoseRun
  <2>3. RetryBegins(r, j) /\ UNCHANGED repositoryVars
    BY <1>0, <1>5, <2>1, RetryJobEffect
  <2>. QED BY <1>1, <1>4, <2>2, <2>3 DEF Goal, RetryBegins, WorksOnRuns, OnClone, Streaming
<1>6. CASE FindClone(r)
  <2>1. UNCHANGED repositoryVars /\ retrier[r].pc = "findClone"
    BY <1>0, <1>6, FindCloneEffect
  <2>2. CASE RetryMoves(r, "create")
    BY <1>1, <1>3, <1>4, <2>1, <2>2 DEF RetryMoves, OnClone, Streaming
  <2>3. ASSUME NEW k \in JobID, job[k].parent = retrier[r].source, Reuses(r, k) PROVE Goal
    <3>1. PICK s \in JobID : s = retrier[r].source
      BY <1>0, <2>1 DEF RetrierOK
    <3>2. s # NoParent
      BY DEF JobID, NoParent
    <3>3. ~job[k].triggerFailure /\ ~job[s].triggerFailure
      BY <1>0, <2>1, <2>3, <3>1, <3>2 DEF RowsInv, WorksOnRuns
    <3>4. ~job'[retrier'[r].source].triggerFailure /\ ~job'[retrier'[r].clone].triggerFailure
      BY <1>1, <2>1, <2>3, <3>1, <3>3 DEF Reuses
    <3>. QED BY <1>1, <1>4, <2>1, <2>3, <3>4 DEF Goal, Reuses, WorksOnRuns
  <2>. QED BY <1>0, <1>1, <1>2, <1>4, <1>6, <2>1, <2>2, <2>3, FindCloneEffect
<1>7. CASE CreateClone(r)
  <2>0. retrier[r].pc = "create"
    BY <1>0, <1>7, CreateCloneEffect
  <2>1. PICK s \in JobID : s = retrier[r].source
    BY <1>0, <2>0 DEF RetrierOK
  <2>2. ~job[s].triggerFailure /\ Exists(job[s])
    BY <1>0, <2>0, <2>1 DEF WorksOnRuns, RetrierOK
  <2>3. CASE UNCHANGED repositoryVars /\ RetryEnds(r)
    BY <1>1, <1>2, <1>4, <2>3
  <2>4. ASSUME NEW k \in JobID, NEW row \in JobRow, Inserted(k, row, 0), row.parent = retrier[r].source,
               row.triggerFailure = job[retrier[r].source].triggerFailure,
               RetryEnds(r) \/ CreatesClone(r, k)
        PROVE  Goal
    <3>1. RowsInv' /\ KeepsRecords
      BY <1>0, <2>1, <2>2, <2>4, InsertedRecords
    <3>2. CASE CreatesClone(r, k)
      <4>1. ~job'[retrier'[r].source].triggerFailure
        BY <2>1, <2>2, <3>1, <3>2 DEF CreatesClone, KeepsRecords
      <4>2. ~job'[retrier'[r].clone].triggerFailure
        BY <2>1, <2>2, <2>4, <3>2 DEF CreatesClone, Inserted
      <4>. QED BY <3>1, <3>2, <4>1, <4>2 DEF Goal, CreatesClone, WorksOnRuns
    <3>. QED BY <1>2, <2>4, <3>1, <3>2
  <2>. QED BY <1>0, <1>7, <2>3, <2>4, CreateCloneEffect
<1>8. CASE ReadSource(r)
  <2>1. UNCHANGED repositoryVars /\ retrier[r].pc = "read"
    BY <1>0, <1>8, ReadSourceEffect
  <2>2. RetryEnds(r) \/ SameJobs(r)
    BY <1>0, <1>8, ReadSourceEffect DEF RetryMoves, TurnsPage
  <2>. QED BY <1>1, <1>2, <1>3, <1>4, <2>1, <2>2 DEF OnClone, Streaming
<1>9. CASE ReadClone(r)
  <2>1. UNCHANGED repositoryVars /\ retrier[r].pc = "reread"
    BY <1>0, <1>9, ReadCloneEffect
  <2>2. RetryEnds(r) \/ SameJobs(r)
    BY <1>0, <1>9, ReadCloneEffect DEF RetryMoves, TurnsPage
  <2>. QED BY <1>1, <1>2, <1>3, <1>4, <2>1, <2>2 DEF OnClone, Streaming
<1>10. CASE InsertClones(r)
  <2>1. retrier[r].pc = "insert" /\ job' = job /\ (Filled(retrier[r].batch) \/ task' = task)
    BY <1>0, <1>10, InsertEffect
  <2>2. PICK k \in JobID : k = retrier[r].clone
    BY <1>0, <2>1 DEF RetrierOK, OnClone, Streaming
  <2>3. ~job[k].triggerFailure /\ \A t \in retrier[r].batch : t[1] = k
    BY <1>0, <2>1, <2>2 DEF WorksOnRuns, RetrierOK, OnClone, Streaming
  <2>4. RowsInv' /\ KeepsRecords
    BY <1>0, <2>1, <2>3 DEF RowsInv, KeepsRecords, Filled
  <2>5. RetryEnds(r) \/ SameJobs(r)
    BY <1>0, <1>10, InsertEffect DEF RetryMoves
  <2>. QED BY <1>2, <1>3, <2>1, <2>4, <2>5 DEF OnClone, Streaming
<1>11. CASE PublishClone(r)
  <2>1. UNCHANGED repositoryVars /\ retrier[r].pc = "publish"
    BY <1>0, <1>11, PublishCloneEffect
  <2>2. RetryEnds(r) \/ SameJobs(r)
    BY <1>0, <1>11, PublishCloneEffect DEF PublishesOne
  <2>. QED BY <1>1, <1>2, <1>3, <1>4, <2>1, <2>2 DEF OnClone, Streaming
<1>12. CASE CountClone(r)
  <2>1. UNCHANGED repositoryVars /\ retrier[r].pc = "summary"
    BY <1>0, <1>12, CountEffect
  <2>2. RetryEnds(r) \/ SameJobs(r)
    BY <1>0, <1>12, CountEffect DEF RetryMoves
  <2>. QED BY <1>1, <1>2, <1>3, <1>4, <2>1, <2>2 DEF OnClone, Streaming
<1>13. CASE CloneAlreadyRunning(r) \/ EndRetry(r) \/ CrashRetrier(r)
  <2>1. UNCHANGED repositoryVars /\ RetryEnds(r)
    BY <1>0, <1>13, CloneAlreadyRunningEffect, EndRetryEffect, CrashRetrierEffect
  <2>. QED BY <1>1, <1>2, <1>4, <2>1
<1>14. CASE StartClonedJob(r)
  <2>1. Updated /\ retrier[r].pc = "start"
    BY <1>0, <1>14, StartClonedEffect
  <2>2. RetryEnds(r) \/ SameJobs(r)
    BY <1>0, <1>14, StartClonedEffect DEF RetryMoves
  <2>. QED BY <1>2, <1>3, <1>4, <2>1, <2>2 DEF OnClone, Streaming
<1>. QED BY <1>5, <1>6, <1>7, <1>8, <1>9, <1>10, <1>11, <1>12, <1>13, <1>14
  DEF Retries, RetrierStep

\* What a retrier and a user know of their runs outlasts a step of the others.
LEMMA RetrierRecordKept ==
  ASSUME RetryInv, KeepsRecords, NEW r \in Retriers, WorksOnRuns(r), retrier'[r] = retrier[r]
  PROVE  WorksOnRuns(r)'
<1>0. RetrierOK(r)
  BY RetrierFacts
<1>1. \A j \in JobID : Exists(job[j]) /\ ~job[j].triggerFailure => ~job'[j].triggerFailure
  BY DEF KeepsRecords
<1>2. retrier[r].pc # "idle" => ~job'[retrier[r].source].triggerFailure
  BY <1>0, <1>1 DEF RetrierOK, WorksOnRuns
<1>3. retrier[r].pc \in OnClone => ~job'[retrier[r].clone].triggerFailure
  BY <1>0, <1>1 DEF RetrierOK, WorksOnRuns
<1>. QED BY <1>2, <1>3 DEF WorksOnRuns

LEMMA ChoiceKept ==
  ASSUME WebInv, KeepsRecords, NEW u \in Users, ChoseRun(u), web'[u] = web[u] \/ web'[u].pc = "idle"
  PROVE  ChoseRun(u)'
<1>1. \A j \in JobID : Exists(job[j]) /\ ~job[j].triggerFailure => ~job'[j].triggerFailure
  BY DEF KeepsRecords
<1>2. web[u].pc = "retryJob" => ~job'[web[u].job].triggerFailure
  BY <1>1 DEF WebInv, WebOK, ChoseRun, Acting
<1>. QED BY <1>2 DEF ChoseRun

LEMMA WebRestsUsers ==
  ASSUME WebRests, NEW u \in Users PROVE web'[u] = web[u] \/ web'[u] = NoRequest
BY DEF WebRests, Leaves, OtherUsers

LEMMA RecordRests ==
  ASSUME TypeInv, RecordInv, RowsInv', KeepsRecords, WebRests, \A r \in Retriers : WorksOnRuns(r)'
  PROVE  RecordInv'
<1>1. ASSUME NEW u \in Users PROVE ChoseRun(u)'
  <2>1. web'[u] = web[u] \/ web'[u].pc = "idle"
    BY WebRestsUsers, NoRequestType
  <2>. QED BY <2>1, ChoiceKept DEF TypeInv, RecordInv
<1>. QED BY <1>1 DEF RecordInv

LEMMA RecordStep ==
  ASSUME TypeInv, RecordInv, [Next]_vars
  PROVE  RecordInv'
<1>0. CallInv /\ RetryInv /\ WebInv /\ RepositoryTypeOK /\ OwnTasks /\ RowsInv
  BY DEF TypeInv, CallInv, SharedInv, RecordInv
<1>1. ASSUME KeepsRecords, UNCHANGED retrier PROVE \A r \in Retriers : WorksOnRuns(r)'
  BY <1>0, <1>1, RetrierRecordKept DEF RecordInv
<1>2. ASSUME NEW u \in Users, Looks(u) PROVE RecordInv'
  <2>1. UNCHANGED repositoryVars /\ UNCHANGED retrier
    BY <1>2 DEF Looks, schedulerVars
  <2>2. Updated /\ job' = job
    BY <1>0, <2>1, UnchangedRows
  <2>3. RowsInv' /\ KeepsRecords
    BY <1>0, <2>2, UpdatedRecords
  <2>4. \A r \in Retriers : WorksOnRuns(r)'
    BY <1>1, <2>1, <2>3
  <2>5. OtherUsers(u)
    BY <1>0, <1>2, LooksOK
  <2>6. ASSUME NEW v \in Users, v # u PROVE ChoseRun(v)'
    BY <1>0, <2>3, <2>5, <2>6, ChoiceKept DEF OtherUsers, RecordInv
  <2>7. ChoseRun(u)'
    <3>1. CASE web'[u].pc # "retryJob"
      BY <3>1 DEF ChoseRun
    <3>2. ASSUME NEW j \in JobID, Clicks(u, j),
                 web'[u].pc = IF job[j].triggerFailure THEN "countForRetry" ELSE "retryJob"
          PROVE  ChoseRun(u)'
      <4>1. web'[u].pc = "retryJob" => ~job[j].triggerFailure
        BY <3>2
      <4>. QED BY <2>2, <3>2, <4>1 DEF ChoseRun, Clicks
    <3>3. CASE /\ Follows(u) /\ web[u].pc = "countForRetry"
               /\ web'[u].pc = IF TasksOf(web[u].job) = {} THEN "retryTrigger" ELSE "retryJob"
      <4>1. PICK j \in JobID : j = web[u].job
        BY <1>0, <3>3 DEF WebInv, WebOK, Acting
      <4>2. web'[u].pc = "retryJob" => TasksOf(j) # {}
        BY <3>3, <4>1
      <4>3. TasksOf(j) # {} => ~job[j].triggerFailure
        BY <1>0 DEF TasksOf, RowsInv
      <4>. QED BY <2>2, <3>3, <4>1, <4>2, <4>3 DEF ChoseRun, Follows, KeepsRequest
    <3>. QED BY <1>2, <3>1, <3>2, <3>3, NoRequestType
      DEF Looks, ListsArchived, ListsRetrying, ListsRefs, ListsRows, Leaves, CountsTasks, TurnsTaskPage
  <2>. QED BY <2>3, <2>4, <2>6, <2>7 DEF RecordInv
<1>3. ASSUME NEW c \in Callers, Calls(c) \/ RunsTask(c), UNCHANGED retrier, WebRests PROVE RecordInv'
  <2>1. CASE Calls(c)
    BY <1>0, <1>1, <1>3, <2>1, CallsRecords, RecordRests
  <2>2. CASE RunsTask(c)
    <3>1. Updated
      BY <1>0, <2>2, UnchangedRows DEF RunsTask
    <3>. QED BY <1>0, <1>1, <1>3, <3>1, UpdatedRecords, RecordRests
  <2>. QED BY <1>3, <2>1, <2>2
<1>4. ASSUME NEW r \in Retriers, Retries(r), WebRests PROVE RecordInv'
  <2>1. RowsInv' /\ KeepsRecords /\ OtherRetriers(r) /\ WorksOnRuns(r)'
    BY <1>4, RetriesRecords
  <2>2. ASSUME NEW q \in Retriers PROVE WorksOnRuns(q)'
    BY <1>0, <2>1, RetrierRecordKept DEF OtherRetriers, RecordInv
  <2>. QED BY <1>4, <2>1, <2>2, RecordRests
<1>5. ASSUME Updated, UNCHANGED retrier, WebRests PROVE RecordInv'
  BY <1>0, <1>1, <1>5, UpdatedRecords, RecordRests
<1>. QED BY <1>2, <1>3, <1>4, <1>5, StepKinds

LEMMA InitRecords == Init => RecordInv
<1>. SUFFICES ASSUME Init PROVE RecordInv
  OBVIOUS
<1>1. \A t \in TaskID : ~Exists(task[t])
  BY DEF Init, Exists
<1>2. \A j \in JobID : job[j].parent = NoParent
  BY DEF Init, NoJobRow
<1>3. \A r \in Retriers : retrier[r].pc = "idle"
  BY NotRetryingType DEF Init, JobRetryInit
<1>4. \A u \in Users : web[u].pc = "idle"
  BY NoRequestType DEF Init
<1>. QED BY <1>1, <1>2, <1>3, <1>4 DEF RecordInv, RowsInv, WorksOnRuns, ChoseRun, OnClone, Streaming

LEMMA Records == Spec => [](TypeInv /\ RecordInv)
<1>1. Init => TypeInv /\ RecordInv
  BY InitTypes, InitRecords
<1>2. TypeInv /\ RecordInv /\ [Next]_vars => (TypeInv /\ RecordInv)'
  BY TypeStep, RecordStep
<1>. QED BY <1>1, <1>2, PTL DEF Spec

\* A run's parent is never the record of a failed trigger: handleRetry sends a
\* record to RetryTriggerJob, whatever else happens between IsTriggerFailureJob,
\* CountTasksForJob and the call.
THEOREM FailedTriggersAreNotClonedHolds == Spec => []FailedTriggersAreNotCloned
<1>1. TypeInv /\ RecordInv => FailedTriggersAreNotCloned
  BY DEF RecordInv, RowsInv, FailedTriggersAreNotCloned, Rows
<1>. QED BY <1>1, Records, PTL

-----------------------------------------------------------------------------
(* The list of runs *)

\* Every step leaves the flags and the references of the rows alone.
LEMMA StepKeepsRecords ==
  ASSUME TypeInv, RecordInv, [Next]_vars
  PROVE  KeepsRecords
<1>0. CallInv /\ RepositoryTypeOK /\ OwnTasks /\ RowsInv
  BY DEF TypeInv, CallInv, SharedInv, RecordInv
<1>1. Updated => KeepsRecords
  BY <1>0, UpdatedRecords
<1>2. UNCHANGED repositoryVars => Updated
  BY <1>0, UnchangedRows
<1>3. ASSUME NEW u \in Users, Looks(u) PROVE KeepsRecords
  BY <1>1, <1>2, <1>3 DEF Looks, schedulerVars
<1>4. ASSUME NEW c \in Callers, Calls(c) \/ RunsTask(c) PROVE KeepsRecords
  BY <1>0, <1>1, <1>2, <1>4, CallsRecords DEF RunsTask
<1>5. ASSUME NEW r \in Retriers, Retries(r) PROVE KeepsRecords
  BY <1>5, RetriesRecords
<1>. QED BY <1>1, <1>3, <1>4, <1>5, StepKinds

\* What a user's request does in a step: nothing, or a step of its own during
\* which nothing else changes, or it is over.
LEMMA UserKinds ==
  ASSUME TypeInv, [Next]_vars, NEW u \in Users
  PROVE  web'[u] = web[u] \/ web'[u] = NoRequest \/ Looks(u)
<1>1. ASSUME NEW v \in Users, Looks(v), v # u PROVE web'[u] = web[u]
  BY <1>1, LooksOK DEF TypeInv, OtherUsers
<1>. QED BY <1>1, StepKinds, WebRestsUsers

\* What a task found in asynq and left out of the answer has is a row.
Shown(u) ==
  /\ web[u].pc = "rows" => web[u].found \subseteq web[u].cand \cup RefsOf(Rows)
  /\ web[u].pc = "listed" =>
       /\ web[u].found \subseteq web[u].cand \cup RefsOf(web[u].rows)
       /\ web[u].begin.rows \subseteq web[u].rows

ShownInv == \A u \in Users : Shown(u)

LEMMA ShownStep ==
  ASSUME TypeInv, RecordInv, ShownInv, [Next]_vars
  PROVE  ShownInv'
<1>. SUFFICES ASSUME NEW u \in Users PROVE Shown(u)'
  BY DEF ShownInv
<1>0. Shown(u) /\ WebOK(u) /\ Grows /\ KeepsRecords
  BY TypeStep, StepKeepsRecords DEF ShownInv, TypeInv, WebInv
<1>1. \A rows \in SUBSET Rows : {job'[j].ref : j \in rows} = {job[j].ref : j \in rows}
  BY <1>0 DEF KeepsRecords, Rows
<1>2. CASE web'[u] = NoRequest
  BY <1>2, NoRequestType DEF Shown
<1>3. CASE web'[u] = web[u]
  <2>1. {job'[j].ref : j \in web[u].rows} = {job[j].ref : j \in web[u].rows}
    BY <1>0, <1>1 DEF WebOK
  <2>2. RefsOf(Rows) \subseteq RefsOf(Rows)'
    <3>1. Rows \subseteq Rows' /\ {job'[j].ref : j \in Rows} = {job[j].ref : j \in Rows}
      BY <1>0, <1>1, GrowsRows
    <3>. QED BY <3>1 DEF RefsOf
  <2>. QED BY <1>0, <1>3, <2>1, <2>2 DEF Shown, RefsOf
<1>4. CASE Looks(u)
  <2>0. job' = job /\ Rows' = Rows
    BY <1>4 DEF Looks, schedulerVars, repositoryVars, Rows
  <2>1. CASE ListsRefs(u)
    BY <2>0, <2>1 DEF ListsRefs, Shown, RefsOf
  <2>2. CASE ListsRows(u)
    BY <1>0, <2>0, <2>2 DEF ListsRows, KeepsRequest, Shown, WebOK, RefsOf
  <2>3. CASE web'[u].pc \notin {"rows", "listed"}
    BY <2>3 DEF Shown
  <2>4. \/ ListsRefs(u) \/ ListsRows(u) \/ web'[u].pc \notin {"rows", "listed"}
    BY <1>4, NoRequestType DEF Looks, ListsArchived, ListsRetrying, Leaves, CountsTasks, TurnsTaskPage
  <2>. QED BY <2>1, <2>2, <2>3, <2>4
<1>. QED BY <1>2, <1>3, <1>4, UserKinds

\* asynq's tasks have ids of their own, and the id is the reference of the call.
DistinctTriggers == \A c, d \in Callers \ Users : c # d => CallRefs[c][1] # CallRefs[d][1]

\* A pair of a reference and an attempt that failed before the request is of a
\* caller that is at that attempt or past it; and while the caller is still at
\* it, the request has found the task or will find it among the tasks to retry.
Attempt(c) == <<CallRefs[c][1], caller[c].retry>>
FromCaller(d, pair) ==
  caller[d].turn >= 1 /\ pair[1] = CallRefs[d][1] /\ pair[2] <= caller[d].retry
FoundOrWaiting(u, c) ==
  \/ CallRefs[c][1] \in web[u].found
  \/ web[u].pc = "retrying" /\ c \in RetryTasks
Follow(u) ==
  /\ \A pair \in web[u].begin.failing : \E d \in Callers \ Users : FromCaller(d, pair)
  /\ \A c \in Callers \ Users :
       caller[c].turn >= 1 /\ Attempt(c) \in web[u].begin.failing => FoundOrWaiting(u, c)

\* What was failing the same attempt at both queries of asynq was found.
StillFound(u) ==
  web[u].pc # "retrying" => \A f \in web[u].begin.failing \cap web[u].still : f[1] \in web[u].found

FailingInv == \A u \in Users : Follow(u) /\ StillFound(u)

LEMMA CallShape ==
  ASSUME CallInv, NEW c \in Callers, Calls(c)
  PROVE  /\ Others(c)
         /\ \/ SameCall(c) /\ caller[c].pc # "idle"
            \/ /\ caller'[c].turn = caller[c].turn + 1 /\ caller[c].turn < Len(CallRefs[c])
               /\ caller'[c].retry = 0
            \/ caller'[c].turn = caller[c].turn /\ caller'[c].retry = caller[c].retry + 1
<1>1. Kind(c)
  BY CallerKinds DEF Calls
<1>2. CASE CallerStep(c) \/ CrashCaller(c)
  <2>1. caller[c].pc # "idle"
    BY <1>2 DEF CallerStep, CrashCaller, CallAt, FindExisting, FindExistingTasks, Split, RecheckRef,
      PersistTriggerFailure, CreateRun, SyncTasks, AlreadyRunning, BeginPublish, PublishTask,
      MarkFailed, CancelOthers, StartJob, EndFinalize
  <2>2. Others(c) /\ SameCall(c)
    BY <1>1, <2>1
    DEF Kind, BeginsNext, BeginsAgain, Begins, Reads, Marks, Cancels, Quiet, Misses, Hits, Inserts
  <2>. QED BY <2>1, <2>2
<1>3. CASE Redeliver(c)
  BY <1>3, RedeliverEffect DEF Begins
<1>4. CASE Trigger(c) \/ \E j \in JobID : RetryTriggerJob(c, j)
  <2>1. PICK m \in Nat \cup {NoAsynq} : NextCall(c, m)
    BY <1>4, JobExecutorAssumption DEF Trigger, RetryTriggerJob
  <2>. QED BY <2>1, NextCallEffect DEF Begins
<1>. QED BY <1>2, <1>3, <1>4 DEF Calls

\* How asynq's tasks move on.
Steady(c) ==
  /\ caller'[c].turn = caller[c].turn /\ caller'[c].retry = caller[c].retry
  /\ c \in RetryTasks => c \in RetryTasks'
Advances(c) ==
  \/ caller[c].turn = 0
  \/ caller'[c].turn = caller[c].turn /\ caller'[c].retry = caller[c].retry + 1

LEMMA CallerMoves ==
  ASSUME TypeInv, [Next]_vars, NEW c \in Callers \ Users
  PROVE  Steady(c) \/ Advances(c)
<1>0. CallInv /\ c \in Callers /\ caller[c] \in CallerState /\ Len(CallRefs[c]) = 1
  BY CallFacts, ConsoleAssumption DEF TypeInv
<1>1. caller'[c] = caller[c] => Steady(c)
  BY DEF Steady, RetryTasks, FailedCalls, CallAt
<1>2. ASSUME NEW d \in Callers, Calls(d) PROVE Steady(c) \/ Advances(c)
  <2>1. CASE d # c
    BY <1>0, <1>1, <1>2, <2>1, CallShape DEF Others
  <2>2. CASE SameCall(c) /\ caller[c].pc # "idle"
    BY <2>2 DEF SameCall, Steady, RetryTasks, FailedCalls, CallAt
  <2>3. CASE /\ caller'[c].turn = caller[c].turn + 1 /\ caller[c].turn < Len(CallRefs[c])
             /\ caller'[c].retry = 0
    <3>1. caller[c].turn \in Nat
      BY <1>0 DEF CallerState
    <3>. QED BY <1>0, <2>3, <3>1 DEF Advances
  <2>4. CASE caller'[c].turn = caller[c].turn /\ caller'[c].retry = caller[c].retry + 1
    BY <2>4 DEF Advances
  <2>. QED BY <1>0, <1>2, <2>1, <2>2, <2>3, <2>4, CallShape
<1>3. ASSUME NEW d \in Callers, RunsTask(d) PROVE Steady(c) \/ Advances(c)
  <2>1. CASE d # c
    BY <1>0, <1>1, <1>3, <2>1 DEF RunsTask, Others
  <2>2. CASE d = c
    BY <1>3, <2>2 DEF RunsTask, Steady, Advances
  <2>. QED BY <2>1, <2>2
<1>4. UNCHANGED caller => Steady(c)
  BY <1>1
<1>. QED BY <1>2, <1>3, <1>4, StepKinds DEF Looks, schedulerVars

LEMMA FollowKept ==
  ASSUME TypeInv, DistinctTriggers, [Next]_vars, NEW u \in Users, Follow(u), web'[u] = web[u]
  PROVE  Follow(u)'
<1>0. /\ web[u].begin.failing \in SUBSET (Refs \X Nat)
      /\ \A c \in Callers : caller[c].retry \in Nat /\ caller[c].turn \in Nat
  BY CallFacts DEF TypeInv, WebInv, WebTypeOK, WebState, CallerState
<1>1. ASSUME NEW pair \in web[u].begin.failing PROVE \E d \in Callers \ Users : FromCaller(d, pair)'
  <2>1. PICK d \in Callers \ Users : FromCaller(d, pair)
    BY DEF Follow
  <2>2. pair[2] \in Nat
    BY <1>0
  <2>3. FromCaller(d, pair)'
    BY <1>0, <2>1, <2>2, CallerMoves DEF FromCaller, Steady, Advances
  <2>. QED BY <2>3
<1>2. ASSUME NEW c \in Callers \ Users, caller'[c].turn >= 1,
             <<CallRefs[c][1], caller'[c].retry>> \in web[u].begin.failing
      PROVE  FoundOrWaiting(u, c)'
  <2>1. PICK d \in Callers \ Users : FromCaller(d, <<CallRefs[c][1], caller'[c].retry>>)
    BY <1>2 DEF Follow
  <2>2. d = c
    BY <2>1 DEF FromCaller, DistinctTriggers
  <2>3. caller[c].turn >= 1 /\ caller'[c].retry <= caller[c].retry
    BY <2>1, <2>2 DEF FromCaller
  <2>4. Steady(c)
    BY <1>0, <2>3, CallerMoves DEF Advances
  <2>5. FoundOrWaiting(u, c)
    BY <1>2, <2>3, <2>4 DEF Follow, Attempt, Steady
  <2>. QED BY <2>4, <2>5 DEF FoundOrWaiting, Steady
<1>. QED BY <1>1, <1>2 DEF Follow, Attempt

LEMMA FollowLooks ==
  ASSUME TypeInv, DistinctTriggers, NEW u \in Users, Follow(u), Looks(u)
  PROVE  Follow(u)'
<1>0. caller' = caller /\ RetryTasks' = RetryTasks
  BY DEF Looks, schedulerVars, RetryTasks, FailedCalls, CallAt
<1>1. ASSUME web'[u].begin.failing = {} PROVE Follow(u)'
  BY <1>1 DEF Follow
<1>2. CASE ListsArchived(u)
  <2>1. ASSUME NEW pair \in Failing PROVE \E d \in Callers \ Users : FromCaller(d, pair)'
    <3>1. PICK d \in FailedCalls : pair = <<RefID(d), caller[d].retry>>
      BY DEF Failing
    <3>2. /\ d \in Callers \ Users /\ caller[d].turn = 1 /\ RefID(d) = CallRefs[d][1]
          /\ caller[d].retry \in Nat
      BY FailedFacts
    <3>3. FromCaller(d, pair)'
      BY <1>0, <3>1, <3>2 DEF FromCaller
    <3>. QED BY <3>2, <3>3
  <2>2. ASSUME NEW c \in Callers \ Users, Attempt(c) \in Failing PROVE FoundOrWaiting(u, c)'
    <3>1. PICK d \in FailedCalls : Attempt(c) = <<RefID(d), caller[d].retry>>
      BY <2>2 DEF Failing
    <3>2. d \in Callers \ Users /\ RefID(d) = CallRefs[d][1]
      BY FailedFacts
    <3>3. d = c
      BY <3>1, <3>2 DEF Attempt, DistinctTriggers
    <3>4. c \in RetryTasks \/ c \in ArchivedTasks
      BY <3>3 DEF ArchivedTasks
    <3>5. c \in ArchivedTasks => CallRefs[c][1] \in web'[u].found
      BY <1>2, <3>2, <3>3 DEF ListsArchived
    <3>. QED BY <1>0, <1>2, <3>4, <3>5 DEF FoundOrWaiting, ListsArchived
  <2>. QED BY <1>0, <1>2, <2>1, <2>2 DEF Follow, ListsArchived, Attempt
<1>3. ASSUME web'[u].begin = web[u].begin, web[u].found \subseteq web'[u].found,
             web[u].pc = "retrying" => \A c \in RetryTasks : CallRefs[c][1] \in web'[u].found
      PROVE  Follow(u)'
  <2>1. \A c \in Callers \ Users : FoundOrWaiting(u, c) => FoundOrWaiting(u, c)'
    BY <1>3 DEF FoundOrWaiting
  <2>. QED BY <1>0, <1>3, <2>1 DEF Follow, Attempt, FromCaller
<1>4. CASE ListsRetrying(u)
  <2>1. \A c \in RetryTasks : RefID(c) = CallRefs[c][1]
    BY FailedFacts DEF RetryTasks
  <2>. QED BY <1>3, <1>4, <2>1 DEF ListsRetrying
<1>5. CASE ListsRefs(u) \/ ListsRows(u)
  BY <1>3, <1>5 DEF ListsRefs, ListsRows, KeepsRequest
<1>6. CASE Leaves(u) \/ \E j \in JobID : Clicks(u, j)
  BY <1>1, <1>6, NoRequestType DEF Leaves, Clicks
<1>7. CASE Follows(u) /\ web[u].pc # "retrying"
  BY <1>3, <1>7 DEF Follows, KeepsRequest
<1>. QED BY <1>2, <1>4, <1>5, <1>6, <1>7 DEF Looks, CountsTasks, TurnsTaskPage

LEMMA StillLooks ==
  ASSUME TypeInv, NEW u \in Users, Follow(u), StillFound(u), Looks(u)
  PROVE  StillFound(u)'
<1>1. CASE ListsArchived(u)
  BY <1>1 DEF ListsArchived, StillFound
<1>2. CASE ListsRetrying(u)
  <2>1. ASSUME NEW f \in web[u].begin.failing, f \in Failing PROVE f[1] \in web'[u].found
    <3>1. PICK c \in FailedCalls : f = <<RefID(c), caller[c].retry>>
      BY <2>1 DEF Failing
    <3>2. c \in Callers \ Users /\ caller[c].turn = 1 /\ RefID(c) = CallRefs[c][1]
      BY FailedFacts
    <3>3. FoundOrWaiting(u, c)
      BY <2>1, <3>1, <3>2 DEF Follow, Attempt
    <3>. QED BY <1>2, <3>1, <3>2, <3>3 DEF ListsRetrying, FoundOrWaiting
  <2>. QED BY <1>2, <2>1 DEF ListsRetrying, StillFound
<1>3. ASSUME web[u].pc # "retrying", KeepsRequest(u), web'[u].found = web[u].found PROVE StillFound(u)'
  BY <1>3 DEF KeepsRequest, StillFound
<1>4. CASE ListsRefs(u) \/ ListsRows(u)
  BY <1>3, <1>4 DEF ListsRefs, ListsRows
<1>5. CASE Leaves(u) \/ \E j \in JobID : Clicks(u, j)
  BY <1>5, NoRequestType DEF Leaves, Clicks, StillFound
<1>6. CASE Follows(u) /\ web[u].pc # "retrying"
  BY <1>3, <1>6 DEF Follows
<1>. QED BY <1>1, <1>2, <1>4, <1>5, <1>6 DEF Looks, CountsTasks, TurnsTaskPage

LEMMA FailingStep ==
  ASSUME TypeInv, DistinctTriggers, FailingInv, [Next]_vars
  PROVE  FailingInv'
<1>. SUFFICES ASSUME NEW u \in Users PROVE Follow(u)' /\ StillFound(u)'
  BY DEF FailingInv
<1>0. Follow(u) /\ StillFound(u)
  BY DEF FailingInv
<1>1. CASE web'[u] = NoRequest
  BY <1>1, NoRequestType DEF Follow, StillFound
<1>2. CASE web'[u] = web[u]
  BY <1>0, <1>2, FollowKept DEF StillFound
<1>3. CASE Looks(u)
  BY <1>0, <1>3, FollowLooks, StillLooks
<1>. QED BY <1>1, <1>2, <1>3, UserKinds

\* The answer of handleListJobs misses no run there was when the request began,
\* no asynq task its two queries found, and no trigger that had failed the same
\* attempt at both of them, whatever is created, fails or succeeds between its
\* four queries.  The last part needs what asynq guarantees, that its tasks have
\* ids of their own.
THEOREM ListingIsCompleteHolds == DistinctTriggers /\ Spec => []ListingIsComplete
<1>. DEFINE Following == DistinctTriggers => FailingInv
<1>1. Init => ShownInv /\ Following
  <2>. SUFFICES ASSUME Init, NEW u \in Users PROVE Shown(u) /\ Follow(u) /\ StillFound(u)
    BY DEF ShownInv, FailingInv
  <2>1. web[u] = NoRequest
    BY DEF Init
  <2>. QED BY <2>1, NoRequestType DEF Shown, Follow, StillFound
<1>2. TypeInv /\ RecordInv /\ ShownInv /\ [Next]_vars => ShownInv'
  BY ShownStep
<1>3. TypeInv /\ Following /\ [Next]_vars => Following'
  BY FailingStep DEF DistinctTriggers
<1>4. ShownInv /\ Following /\ DistinctTriggers => ListingIsComplete
  <2>. SUFFICES ASSUME ShownInv, FailingInv, NEW u \in Users, web[u].pc = "listed"
                PROVE  /\ web[u].begin.rows \subseteq web[u].rows
                       /\ web[u].found \subseteq ShownRefs(u)
                       /\ \A f \in web[u].begin.failing \cap web[u].still : f[1] \in ShownRefs(u)
    BY DEF ListingIsComplete, WebAt
  <2>1. /\ web[u].begin.rows \subseteq web[u].rows /\ web[u].found \subseteq ShownRefs(u)
    BY DEF ShownInv, Shown, ShownRefs
  <2>. QED BY <2>1 DEF FailingInv, StillFound
<1>. HIDE DEF Following
<1>5. Spec => [](TypeInv /\ RecordInv /\ ShownInv /\ Following)
  BY <1>1, <1>2, <1>3, Records, PTL DEF Spec
<1>6. DistinctTriggers => DistinctTriggers'
  BY DEF DistinctTriggers
<1>. QED BY <1>4, <1>5, <1>6, PTL DEF Spec

-----------------------------------------------------------------------------
(* How a run's tasks come *)

LEMMA CallsKeepTasks ==
  ASSUME CallInv, NEW c \in Callers, Calls(c) PROVE KeepsTasks
<1>0. Kind(c)
  BY CallerKinds DEF Calls
<1>2. ASSUME NEW k \in JobID, NEW status \in Status, NEW failure \in BOOLEAN, NEW n \in 0..MaxTasks,
             Inserts(c, k, status, failure, n)
      PROVE  KeepsTasks
  <2>1. \A t \in TaskID : t[1] \in JobID
    BY TaskBelongs
  <2>. QED BY <1>2, <2>1 DEF Inserts, Inserted, KeepsTasks
<1>. QED BY <1>0, <1>2, KeepingTasks
  DEF Kind, BeginsNext, BeginsAgain, Reads, Marks, Cancels, Quiet, Misses, Hits

LEMMA FillStep ==
  ASSUME TypeInv, FillInv, [Next]_vars
  PROVE  FillInv'
<1>0. CallInv /\ RetryInv /\ RepositoryTypeOK /\ OwnTasks
  BY DEF TypeInv, CallInv, SharedInv
<1>1. ASSUME KeepsTasks, UNCHANGED retrier PROVE FillInv'
  BY <1>0, <1>1, FillKept
<1>2. UNCHANGED repositoryVars => KeepsTasks
  BY <1>0, UnchangedRows, KeepingTasks
<1>3. ASSUME NEW u \in Users, Looks(u) PROVE FillInv'
  BY <1>1, <1>2, <1>3 DEF Looks, schedulerVars
<1>4. ASSUME NEW c \in Callers, Calls(c) \/ RunsTask(c), UNCHANGED retrier PROVE FillInv'
  BY <1>0, <1>1, <1>2, <1>4, CallsKeepTasks DEF RunsTask
<1>5. ASSUME NEW r \in Retriers, Retries(r) PROVE FillInv'
  BY <1>0, <1>5, RetriesKinds, RetrierFillStep DEF TypeInv
<1>6. ASSUME Updated, UNCHANGED retrier PROVE FillInv'
  BY <1>1, <1>6, KeepingTasks
<1>. QED BY <1>3, <1>4, <1>5, <1>6, StepKinds

\* A run that is there keeps its tasks, and a task it gets comes after them.
Appends ==
  \A t \in TaskID : Exists(job[t[1]]) =>
    /\ Exists(task[t]) => Exists(task'[t])
    /\ Exists(task'[t]) /\ ~Exists(task[t]) =>
         \A x \in TaskID : x[1] = t[1] /\ Exists(task[x]) => x[2] < t[2]

LEMMA StepAppends ==
  ASSUME TypeInv, FillInv, [Next]_vars
  PROVE  Appends
<1>0. CallInv /\ RetryInv /\ RepositoryTypeOK /\ OwnTasks
  BY DEF TypeInv, CallInv, SharedInv
<1>1. KeepsTasks => Appends
  BY DEF KeepsTasks, Appends
<1>2. UNCHANGED repositoryVars => KeepsTasks
  BY <1>0, UnchangedRows, KeepingTasks
<1>3. ASSUME NEW u \in Users, Looks(u) PROVE Appends
  BY <1>1, <1>2, <1>3 DEF Looks, schedulerVars
<1>4. ASSUME NEW c \in Callers, Calls(c) \/ RunsTask(c) PROVE Appends
  BY <1>0, <1>1, <1>2, <1>4, CallsKeepTasks DEF RunsTask
<1>5. ASSUME NEW r \in Retriers, Retries(r) PROVE Appends
  <2>1. CASE FillsPage(r)
    <3>1. retrier[r].pc = "insert" /\ Ahead(r)
      BY <2>1 DEF FillsPage, FillInv, Filling
    <3>2. ASSUME NEW t \in TaskID, Exists(task[t]) PROVE Exists(task'[t])
      BY <2>1, <3>2 DEF FillsPage, Filled
    <3>3. ASSUME NEW t \in TaskID, Exists(task'[t]), ~Exists(task[t]),
                 NEW x \in TaskID, x[1] = t[1], Exists(task[x])
          PROVE  x[2] < t[2]
      <4>1. t \in retrier[r].batch /\ t[1] = retrier[r].clone
        BY <2>1, <3>3 DEF FillsPage, Filled
      <4>. QED BY <3>1, <3>3, <4>1 DEF Ahead
    <3>. QED BY <3>2, <3>3 DEF Appends
  <2>2. KeepsTasks \/ FillsPage(r)
    BY <1>0, <1>5, RetriesKinds, RetrierFills DEF TypeInv
  <2>. QED BY <1>1, <2>1, <2>2
<1>. QED BY <1>1, <1>3, <1>4, <1>5, StepKinds, KeepingTasks

-----------------------------------------------------------------------------
(* The pages of a run's tasks *)

\* Tasks that come after the others leave their positions alone.
LEMMA RankStable ==
  ASSUME NEW S, NEW T, Ordered(T), S \subseteq T, \A t \in T \ S : \A x \in S : x[2] < t[2]
  PROVE  /\ Ordered(S) /\ Cardinality(S) \in Nat /\ Cardinality(T) \in Nat
         /\ Cardinality(S) <= Cardinality(T) /\ \A t \in S : Rank(T, t) = Rank(S, t)
<1>1. IsFiniteSet(S) /\ IsFiniteSet(T) /\ Cardinality(S) <= Cardinality(T)
  BY FS_Subset DEF Ordered
<1>2. ASSUME NEW t \in S PROVE Below(T, t) = Below(S, t)
  <2>1. ASSUME NEW x \in T, x \notin S PROVE ~(x[2] < t[2])
    <3>1. t[2] < x[2] /\ t[2] \in Nat /\ x[2] \in Nat
      BY <2>1 DEF Ordered
    <3>. QED BY <3>1
  <2>. QED BY <2>1 DEF Below
<1>. QED BY <1>1, <1>2, FS_CardinalityType DEF Rank, Ordered

Walking == {"countTasks", "pageTasks", "walked"}

\* A walk w through the tasks S of a run: what was shown are the first tasks in
\* order; the tasks of the beginning are first ones too, and there are no more
\* of them than are shown in the end, or than the walk is still to show.
Walked(w, S) ==
  /\ \A i \in 1..Len(w.walk) : w.walk[i] \in S /\ Rank(S, w.walk[i]) = i - 1
  /\ w.due \subseteq S /\ \A t \in w.due : \A x \in S : x[2] < t[2] => x \in w.due
  /\ w.pc \in {"countTasks", "pageTasks"} => Len(w.walk) = w.offset
  /\ w.pc = "pageTasks" => Cardinality(w.due) <= w.total /\ w.total <= Cardinality(S)
  /\ w.pc = "walked" => Cardinality(w.due) <= Len(w.walk)

TasksIn(rows, j) == {t \in TaskID : t[1] = j /\ Exists(rows[t])}

WalkInv == \A u \in Users : web[u].pc \in Walking => Walked(web[u], TasksIn(task, web[u].job))

LEMMA WalkedKept ==
  ASSUME NEW w \in WebState, NEW S, NEW T, Walked(w, S), Ordered(T), S \subseteq T,
         \A t \in T \ S : \A x \in S : x[2] < t[2]
  PROVE  Walked(w, T)
<1>1. /\ Cardinality(S) \in Nat /\ Cardinality(T) \in Nat
      /\ Cardinality(S) <= Cardinality(T) /\ \A t \in S : Rank(T, t) = Rank(S, t)
  BY RankStable
<1>2. \A t \in w.due : \A x \in T : x[2] < t[2] => x \in w.due
  <2>. SUFFICES ASSUME NEW t \in w.due, NEW x \in T, x[2] < t[2], x \notin S PROVE FALSE
    BY DEF Walked
  <2>1. t \in S /\ t[2] < x[2]
    BY DEF Walked
  <2>2. t[2] \in Nat /\ x[2] \in Nat
    BY <2>1 DEF Ordered
  <2>. QED BY <2>1, <2>2
<1>3. w.total \in Nat
  BY DEF WebState
<1>4. w.pc = "pageTasks" => Cardinality(w.due) <= w.total /\ w.total <= Cardinality(T)
  BY <1>1, <1>3 DEF Walked
<1>. QED BY <1>1, <1>2, <1>4 DEF Walked

LEMMA Joined ==
  ASSUME NEW a \in Seq(TaskID), NEW b \in Seq(TaskID)
  PROVE  /\ Len(a) \in Nat /\ Len(b) \in Nat /\ Len(a \o b) = Len(a) + Len(b)
         /\ \A i \in 1..Len(a) : (a \o b)[i] = a[i]
         /\ \A i \in 1..Len(b) : (a \o b)[Len(a) + i] = b[i]
OBVIOUS

\* The next page takes a walk on, and the last one ends it.
LEMMA WalkedOn ==
  ASSUME NEW S, Ordered(S), NEW size \in Nat, NEW offset \in Nat, NEW page \in Seq(TaskID),
         Len(page) = Cardinality(Slice(S, offset, size)),
         \A i \in 1..Len(page) : page[i] \in S /\ Rank(S, page[i]) = offset + i - 1,
         NEW w \in WebState, NEW v \in WebState, Walked(w, S), w.pc = "pageTasks", w.offset = offset,
         v.due = w.due, v.walk = w.walk \o page, v.offset = offset + size,
         v.pc = IF offset + size < w.total THEN "countTasks" ELSE "walked"
  PROVE  Walked(v, S)
<1>. DEFINE n == Cardinality(S)
            m == Len(page)
            d == Cardinality(w.due)
<1>0. w.total \in Nat /\ w.walk \in Seq(TaskID)
  BY DEF WebState
<1>1. Len(w.walk) = offset /\ d <= w.total /\ w.total <= n
  BY DEF Walked
<1>2. n \in Nat
  BY RankGrows
<1>3. /\ m \in Nat
      /\ offset + size <= n => m = size
      /\ (offset + size > n /\ n >= offset) => m = n - offset
      /\ n <= offset => m = 0
  BY SliceSize
<1>4. d \in Nat
  <2>1. w.due \in SUBSET S /\ IsFiniteSet(S)
    BY DEF Walked, Ordered
  <2>. QED BY <2>1, FS_Subset, FS_CardinalityType
<1>5. /\ Len(v.walk) = offset + m
      /\ \A i \in 1..offset : v.walk[i] = w.walk[i]
      /\ \A i \in 1..m : v.walk[offset + i] = page[i]
  <2>1. PICK a \in Seq(TaskID) : a = w.walk
    BY <1>0
  <2>2. /\ Len(a \o page) = Len(a) + m
        /\ \A i \in 1..Len(a) : (a \o page)[i] = a[i]
        /\ \A i \in 1..m : (a \o page)[Len(a) + i] = page[i]
    BY Joined
  <2>3. v.walk = a \o page /\ Len(a) = offset
    BY <1>1, <2>1
  <2>. QED BY <2>1, <2>2, <2>3
<1>6. ASSUME NEW i \in 1..Len(v.walk) PROVE v.walk[i] \in S /\ Rank(S, v.walk[i]) = i - 1
  <2>1. CASE i \in 1..offset
    BY <1>1, <1>5, <2>1 DEF Walked
  <2>2. CASE i \notin 1..offset
    <3>1. PICK k \in 1..m : i = offset + k
      <4>1. i - offset \in 1..m /\ i = offset + (i - offset)
        BY <1>3, <1>5, <2>2
      <4>. QED BY <4>1
    <3>2. v.walk[i] = page[k] /\ page[k] \in S /\ Rank(S, page[k]) = offset + k - 1
      BY <1>5, <3>1
    <3>. QED BY <3>1, <3>2
  <2>. QED BY <2>1, <2>2
<1>. HIDE DEF m, n, d
<1>7. v.pc = "countTasks" => Len(v.walk) = v.offset
  BY <1>0, <1>1, <1>2, <1>3, <1>5
<1>8. v.pc = "walked" => d <= Len(v.walk)
  BY <1>0, <1>1, <1>2, <1>3, <1>4, <1>5
<1>9. v.pc \in {"countTasks", "walked"}
  OBVIOUS
<1>10. v.due \subseteq S /\ \A t \in v.due : \A x \in S : x[2] < t[2] => x \in v.due
  BY DEF Walked
<1>. QED BY <1>6, <1>7, <1>8, <1>9, <1>10 DEF Walked, d

LEMMA WalkBegins ==
  ASSUME NEW S, NEW v, v.pc = "countTasks", v.walk = <<>>, v.offset = 0, v.due = S
  PROVE  Walked(v, S)
<1>1. Len(v.walk) = 0
  OBVIOUS
<1>2. 1..Len(v.walk) = {}
  BY <1>1
<1>. QED BY <1>1, <1>2 DEF Walked

LEMMA WalkCounts ==
  ASSUME NEW S, Ordered(S), NEW w, NEW v, Walked(w, S), w.pc = "countTasks", v.pc = "pageTasks",
         v.walk = w.walk, v.offset = w.offset, v.due = w.due, v.total = Cardinality(S)
  PROVE  Walked(v, S)
<1>1. w.due \in SUBSET S /\ IsFiniteSet(S)
  BY DEF Walked, Ordered
<1>2. Cardinality(w.due) <= Cardinality(S) /\ Cardinality(S) \in Nat
  BY <1>1, FS_Subset, FS_CardinalityType
<1>. QED BY <1>2 DEF Walked

LEMMA TasksInOrdered ==
  ASSUME NEW rows, NEW j \in JobID PROVE Ordered(TasksIn(rows, j))
<1>1. \A t \in TaskID : t[2] \in Nat /\ t = <<t[1], t[2]>>
  BY DEF TaskID
<1>2. IsFiniteSet(TasksIn(rows, j))
  <2>1. IsFiniteSet({j}) /\ IsFiniteSet(0..(MaxTasks - 1))
    <3>1. 0 \in Int /\ MaxTasks - 1 \in Int
      BY RepositoryAssumption
    <3>2. IsFiniteSet(0..(MaxTasks - 1))
      BY <3>1, FS_Interval
    <3>. QED BY <3>2, FS_Singleton
  <2>2. IsFiniteSet({j} \X (0..(MaxTasks - 1)))
    BY <2>1, FS_Product
  <2>3. TasksIn(rows, j) \in SUBSET ({j} \X (0..(MaxTasks - 1)))
    BY DEF TasksIn, TaskID
  <2>. QED BY <2>2, <2>3, FS_Subset
<1>. QED BY <1>1, <1>2 DEF Ordered, TasksIn

LEMMA WalkLooks ==
  ASSUME TypeInv, NEW u \in Users, Looks(u), web'[u].pc \in Walking,
         web[u].pc \in Walking => Walked(web[u], TasksIn(task, web[u].job))
  PROVE  Walked(web'[u], TasksIn(task', web'[u].job))
<1>0. task' = task /\ web[u] \in WebState /\ web'[u] \in WebState /\ WebOK(u)
  BY LooksOK DEF Looks, schedulerVars, repositoryVars, TypeInv, WebInv, OtherUsers, WebTypeOK
<1>1. ASSUME NEW j \in JobID, Clicks(u, j), web'[u].pc = "countTasks", web'[u].due = TasksOf(j),
             web'[u].walk = <<>>, web'[u].offset = 0
      PROVE  Walked(web'[u], TasksIn(task', web'[u].job))
  <2>1. web'[u].job = j /\ TasksIn(task', j) = TasksOf(j)
    BY <1>0, <1>1 DEF Clicks, TasksIn, TasksOf
  <2>2. Walked(web'[u], TasksOf(j))
    BY <1>1, WalkBegins
  <2>. QED BY <2>1, <2>2
<1>2. CASE CountsTasks(u) \/ TurnsTaskPage(u)
  <2>1. PICK j \in JobID : j = web[u].job
    BY <1>0, <1>2 DEF CountsTasks, TurnsTaskPage, WebOK, Acting
  <2>2. web'[u].job = j /\ web'[u].due = web[u].due
    BY <1>2, <2>1 DEF CountsTasks, TurnsTaskPage, Follows, KeepsRequest
  <2>3. PICK S : S = TasksOf(j)
    OBVIOUS
  <2>4. TasksIn(task, j) = S /\ TasksIn(task', j) = S
    BY <1>0, <2>3 DEF TasksIn, TasksOf
  <2>5. Ordered(S) /\ Walked(web[u], S)
    BY <1>2, <2>1, <2>3, <2>4, TasksOrdered DEF CountsTasks, TurnsTaskPage, Walking
  <2>6. PICK w \in WebState : w = web[u]
    BY <1>0
  <2>7. PICK v \in WebState : v = web'[u]
    BY <1>0
  <2>8. CASE CountsTasks(u)
    <3>1. /\ w.pc = "countTasks" /\ v.pc = "pageTasks" /\ v.walk = w.walk /\ v.offset = w.offset
          /\ v.due = w.due /\ v.total = Cardinality(S) /\ Walked(w, S)
      BY <2>1, <2>2, <2>3, <2>5, <2>6, <2>7, <2>8 DEF CountsTasks
    <3>2. Walked(v, S)
      BY <2>5, <3>1, WalkCounts
    <3>. QED BY <2>2, <2>4, <2>7, <3>2
  <2>9. CASE TurnsTaskPage(u)
    <3>1. PICK offset \in Nat : offset = w.offset
      BY <2>6 DEF WebState
    <3>2. PICK size \in Nat : size = TaskPageSize
      BY ConsoleAssumption
    <3>3. PICK page : page = TaskPage(j, offset, size)
      OBVIOUS
    <3>4. /\ page \in Seq(TaskID) /\ Len(page) = Cardinality(Slice(S, offset, size))
          /\ \A i \in 1..Len(page) : page[i] \in S /\ Rank(S, page[i]) = offset + i - 1
      BY <2>3, <3>3, TaskPageFacts
    <3>5. /\ w.pc = "pageTasks" /\ v.due = w.due /\ v.walk = w.walk \o page
          /\ v.offset = offset + size /\ Walked(w, S)
          /\ v.pc = IF offset + size < w.total THEN "countTasks" ELSE "walked"
      BY <2>1, <2>2, <2>5, <2>6, <2>7, <2>9, <3>1, <3>2, <3>3 DEF TurnsTaskPage
    <3>6. Walked(v, S)
      BY <2>5, <3>1, <3>4, <3>5, WalkedOn
    <3>. QED BY <2>2, <2>4, <2>7, <3>6
  <2>. QED BY <1>2, <2>8, <2>9
<1>. QED BY <1>1, <1>2, NoRequestType
  DEF Looks, Walking, ListsArchived, ListsRetrying, ListsRefs, ListsRows, Leaves

LEMMA WalkStep ==
  ASSUME TypeInv, FillInv, WalkInv, [Next]_vars
  PROVE  WalkInv'
<1>. SUFFICES ASSUME NEW u \in Users, web'[u].pc \in Walking
              PROVE  Walked(web'[u], TasksIn(task', web'[u].job))
  BY DEF WalkInv
<1>0. web[u].pc \in Walking => Walked(web[u], TasksIn(task, web[u].job))
  BY DEF WalkInv
<1>1. CASE web'[u] = NoRequest
  BY <1>1, NoRequestType DEF Walking
<1>2. CASE web'[u] = web[u]
  <2>1. web[u].job \in JobID /\ Exists(job[web[u].job]) /\ web[u] \in WebState
    BY <1>2 DEF TypeInv, WebInv, WebTypeOK, WebOK, Acting, Walking
  <2>2. PICK j \in JobID : j = web[u].job
    BY <2>1
  <2>3. PICK S : S = TasksIn(task, j)
    OBVIOUS
  <2>4. PICK T : T = TasksIn(task', j)
    OBVIOUS
  <2>5. Ordered(T)
    BY <2>4, TasksInOrdered
  <2>6. S \subseteq T /\ \A t \in T \ S : \A x \in S : x[2] < t[2]
    BY <2>1, <2>2, <2>3, <2>4, StepAppends DEF Appends, TasksIn
  <2>7. PICK w \in WebState : w = web[u]
    BY <2>1
  <2>8. Walked(w, S)
    BY <1>0, <1>2, <2>2, <2>3, <2>7
  <2>9. Walked(w, T)
    BY <2>5, <2>6, <2>8, WalkedKept
  <2>. QED BY <1>2, <2>2, <2>4, <2>7, <2>9
<1>3. CASE Looks(u)
  BY <1>0, <1>3, WalkLooks
<1>. QED BY <1>1, <1>2, <1>3, UserKinds

\* What a walk that is over has shown.
LEMMA WalkedAll ==
  ASSUME NEW S, Ordered(S), NEW w \in WebState, Walked(w, S), w.pc = "walked"
  PROVE  /\ \A i, k \in 1..Len(w.walk) : i < k => w.walk[i][2] < w.walk[k][2]
         /\ \A t \in w.due : \E i \in 1..Len(w.walk) : w.walk[i] = t
<1>1. ASSUME NEW i \in 1..Len(w.walk), NEW k \in 1..Len(w.walk), i < k
      PROVE  w.walk[i][2] < w.walk[k][2]
  <2>1. /\ w.walk[i] \in S /\ Rank(S, w.walk[i]) = i - 1
        /\ w.walk[k] \in S /\ Rank(S, w.walk[k]) = k - 1
    BY DEF Walked
  <2>2. Rank(S, w.walk[i]) < Rank(S, w.walk[k])
    BY <1>1, <2>1
  <2>. QED BY <2>1, <2>2, RankGrows
<1>2. ASSUME NEW t \in w.due PROVE \E i \in 1..Len(w.walk) : w.walk[i] = t
  <2>1. t \in S /\ w.due \in SUBSET S /\ \A x \in S : x[2] < t[2] => x \in w.due
    BY DEF Walked
  <2>2. IsFiniteSet(w.due) /\ Cardinality(w.due) \in Nat
    BY <2>1, FS_Subset, FS_CardinalityType DEF Ordered
  <2>3. t \notin Below(S, t) /\ Below(S, t) \cup {t} \in SUBSET w.due /\ Below(S, t) \in SUBSET w.due
    BY <2>1 DEF Below, Ordered
  <2>4. IsFiniteSet(Below(S, t))
    BY <2>2, <2>3, FS_Subset
  <2>5. Cardinality(Below(S, t) \cup {t}) = Cardinality(Below(S, t)) + 1
    BY <2>3, <2>4, FS_AddElement
  <2>6. Cardinality(Below(S, t) \cup {t}) <= Cardinality(w.due)
    BY <2>2, <2>3, FS_Subset
  <2>7. PICK n \in Nat : n = Rank(S, t)
    BY <2>4, FS_CardinalityType DEF Rank
  <2>8. n + 1 <= Cardinality(w.due) /\ Cardinality(w.due) <= Len(w.walk) /\ Len(w.walk) \in Nat
    BY <2>5, <2>6, <2>7 DEF Rank, Walked, WebState
  <2>9. n + 1 \in 1..Len(w.walk)
    BY <2>2, <2>8
  <2>10. w.walk[n + 1] \in S /\ Rank(S, w.walk[n + 1]) = n + 1 - 1
    BY <2>9 DEF Walked
  <2>11. Rank(S, w.walk[n + 1]) = Rank(S, t)
    BY <2>7, <2>10
  <2>12. w.walk[n + 1] = t
    BY <2>1, <2>10, <2>11, RankGrows
  <2>. QED BY <2>9, <2>12
<1>. QED BY <1>1, <1>2

\* Page after page, a user sees every task that a run had when it was opened,
\* once and in the order of generation, whatever the size of a page: GetJobTasks
\* counts and pages by offset in two queries, but a run keeps its tasks and gets
\* new ones only at the end, from the one RetryJob that fills a clone.
THEOREM TaskPagesCompleteHolds == Spec => []TaskPagesComplete
<1>1. Init => FillInv /\ WalkInv
  <2>. SUFFICES ASSUME Init PROVE FillInv /\ WalkInv
    OBVIOUS
  <2>1. \A r \in Retriers : retrier[r].pc = "idle"
    BY NotRetryingType DEF Init, JobRetryInit
  <2>2. \A u \in Users : web[u].pc = "idle"
    BY NoRequestType DEF Init
  <2>. QED BY <2>1, <2>2 DEF FillInv, Filling, WalkInv, Walking
<1>2. TypeInv /\ FillInv /\ WalkInv /\ [Next]_vars => FillInv' /\ WalkInv'
  BY FillStep, WalkStep
<1>3. TypeInv /\ WalkInv => TaskPagesComplete
  <2>. SUFFICES ASSUME TypeInv, WalkInv, NEW u \in Users, web[u].pc = "walked"
                PROVE  /\ \A i, k \in DOMAIN web[u].walk : i < k => web[u].walk[i][2] < web[u].walk[k][2]
                       /\ web[u].due \subseteq {web[u].walk[i] : i \in DOMAIN web[u].walk}
    BY DEF TaskPagesComplete, WebAt
  <2>1. PICK w \in WebState : w = web[u]
    BY DEF TypeInv, WebInv, WebTypeOK
  <2>2. PICK j \in JobID : j = web[u].job
    BY DEF TypeInv, WebInv, WebOK, Acting
  <2>3. PICK S : S = TasksIn(task, j)
    OBVIOUS
  <2>4. Ordered(S) /\ Walked(w, S) /\ w.pc = "walked"
    BY <2>1, <2>2, <2>3, TasksInOrdered DEF WalkInv, Walking
  <2>5. /\ \A i, k \in 1..Len(w.walk) : i < k => w.walk[i][2] < w.walk[k][2]
        /\ \A t \in w.due : \E i \in 1..Len(w.walk) : w.walk[i] = t
    BY <2>4, WalkedAll
  <2>6. DOMAIN w.walk = 1..Len(w.walk)
    BY DEF WebState
  <2>. QED BY <2>1, <2>5, <2>6
<1>. QED BY <1>1, <1>2, <1>3, Types, PTL DEF Spec

=============================================================================
