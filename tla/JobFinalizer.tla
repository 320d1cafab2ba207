---------------------------- MODULE JobFinalizer ----------------------------
(***************************************************************************)
(* job_finalizer.go: CheckJobCompletions, the handler of a job's           *)
(* JobCompletionCron, and maybeFinalizeJob, which the paths that create an *)
(* empty job call as well.  Several finalizers run at once: overlapping    *)
(* ticks, other instances of the service, explicit calls.                  *)
(***************************************************************************)
EXTENDS Repository, Faults, Sequences

CONSTANTS
  Finalizers,      \* goroutines that may run maybeFinalizeJob
  BatchSize        \* defaultCompletionCheckBatchSize

ASSUME FinalizerAssumption == BatchSize \in Nat \ {0}

VARIABLES
  fin,             \* finalizer -> where it is and what it has read
  finished         \* job -> statuses OnJobFinished was called with by a finalizer

finalizerVars == <<fin, finished>>

FinalizerPC == {"idle", "next", "summary", "cas", "hook"}

NoJob == 0

\* todo: job ids of the batch still to visit; job: the one being visited;
\* outcome: the terminal status resolved for it.
FinalizerState ==
  [pc : FinalizerPC, todo : SUBSET JobID, job : JobID \cup {NoJob},
   outcome : Status \cup {Absent}]

Resting == [pc |-> "idle", todo |-> {}, job |-> NoJob, outcome |-> Absent]

JobFinalizerTypeOK ==
  /\ fin \in [Finalizers -> FinalizerState]
  /\ finished \in [JobID -> Seq(Status)]

JobFinalizerInit ==
  /\ fin = [f \in Finalizers |-> Resting]
  /\ finished = [j \in JobID |-> <<>>]

-----------------------------------------------------------------------------
FinAt(f, pc) == fin[f].pc = pc

\* On to the next id of the batch; the handler returns after the last one.
Visited(f) ==
  fin' = [fin EXCEPT ![f] = IF fin[f].todo = {} THEN Resting
                            ELSE [Resting EXCEPT !.pc = "next", !.todo = fin[f].todo]]

\* checkJobCompletions: one query, at most BatchSize ids.  An error of the
\* query ends the tick and changes nothing.
CheckJobCompletions(f, name) ==
  /\ FinAt(f, "idle")
  /\ \E batch \in FindCompletableJobIDs(name, BatchSize) :
       /\ batch # {}
       /\ fin' = [fin EXCEPT ![f] = [Resting EXCEPT !.pc = "next", !.todo = batch]]
  /\ UNCHANGED <<repositoryVars, spent, finished>>

\* maybeFinalizeJob, FindJobByID: a job that is no longer RUNNING is skipped.
\* (A read that fails skips it too, with an error in the log.)
FindJob(f) ==
  /\ FinAt(f, "next")
  /\ \E j \in fin[f].todo :
       LET rest == [fin[f] EXCEPT !.todo = @ \ {j}] IN
       \/ /\ job[j].status = "RUNNING"
          /\ fin' = [fin EXCEPT ![f] = [rest EXCEPT !.pc = "summary", !.job = j]]
          /\ UNCHANGED spent
       \/ /\ \/ job[j].status # "RUNNING" /\ UNCHANGED spent
             \/ Spend("error")
          /\ fin' = [fin EXCEPT ![f] = IF rest.todo = {} THEN Resting ELSE rest]
  /\ UNCHANGED <<repositoryVars, finished>>

\* GetTaskStatusSummary and the decision on it.
Summarize(f) ==
  LET outcome == resolveJobTerminalStatusFromSummary(GetTaskStatusSummary(fin[f].job)) IN
  /\ FinAt(f, "summary")
  /\ \/ /\ outcome # NotReady /\ UNCHANGED spent
        /\ fin' = [fin EXCEPT ![f].pc = "cas", ![f].outcome = jobStatusToAction(outcome).dst]
     \/ /\ \/ outcome = NotReady /\ UNCHANGED spent
           \/ Spend("error")
        /\ Visited(f)
  /\ UNCHANGED <<repositoryVars, finished>>

\* Seeded fault: RowsAffected is not looked at.
FinalizeAlwaysAnnounces(f) ==
  /\ FinAt(f, "cas")
  /\ UpdateJobIfStatus(fin[f].job, "RUNNING", fin[f].outcome)
  /\ fin' = [fin EXCEPT ![f].pc = "hook"]
  /\ UNCHANGED <<task, spent, finished>>

\* finalizeRunningJob: the UPDATE is guarded by status = RUNNING, and only
\* the caller whose UPDATE hit the row goes on to the hook.  An error may be
\* reported after the UPDATE was applied.
FinalizeRunningJob(f) ==
  LET j == fin[f].job IN
  /\ FinAt(f, "cas")
  /\ \/ /\ UpdateJobIfStatus(j, "RUNNING", fin[f].outcome) /\ UNCHANGED spent
        /\ IF job[j].status = "RUNNING" THEN fin' = [fin EXCEPT ![f].pc = "hook"]
                                        ELSE Visited(f)
     \/ /\ Spend("error")
        /\ UpdateJobIfStatus(j, "RUNNING", fin[f].outcome) \/ UNCHANGED job
        /\ Visited(f)
  /\ UNCHANGED <<task, finished>>

\* The OnJobFinished hook, called if the job's name is registered.
FireHook(f) ==
  LET j == fin[f].job IN
  /\ FinAt(f, "hook")
  /\ finished' = IF job[j].name \in Registered
                 THEN [finished EXCEPT ![j] = Append(@, fin[f].outcome)] ELSE finished
  /\ Visited(f)
  /\ UNCHANGED <<repositoryVars, spent>>

CrashFinalizer(f) ==
  /\ ~FinAt(f, "idle")
  /\ Spend("crash")
  /\ fin' = [fin EXCEPT ![f] = Resting]
  /\ UNCHANGED <<repositoryVars, finished>>

\* maybeFinalizeJob from its first query to its return.
FinalizerStep(f) ==
  FindJob(f) \/ Summarize(f) \/ FinalizeRunningJob(f) \/ FireHook(f)

=============================================================================
