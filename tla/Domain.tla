------------------------------- MODULE Domain -------------------------------
(***************************************************************************)
(* The vocabulary of internal/domain: job and task statuses, the two       *)
(* finite state machines, and the pure decisions the executor takes on     *)
(* them.  No state lives here.                                             *)
(***************************************************************************)
EXTENDS Integers, FiniteSets

JobStatus == {"PENDING", "RUNNING", "COMPLETED", "FAILED", "PARTIAL_FAILED",
              "REJECTED", "CANCELLED"}

TaskStatus == {"PENDING", "RUNNING", "COMPLETED", "FAILED", "REJECTED",
               "CANCELLED", "MAX_RETRIES_EXHAUSTED"}

\* Both status columns are text; the executor also writes job statuses into
\* the task column, so a row may hold any of these.
Status == JobStatus \cup TaskStatus

\* The status of a row that has not been inserted.
Absent == "ABSENT"

NonTerminalJobStates == {"RUNNING", "PENDING"}

TerminalJobStates == {"COMPLETED", "FAILED", "PARTIAL_FAILED", "REJECTED", "CANCELLED"}

\* FAILED is left out: Task.IsTerminal says a failed task may be retried.
TerminalTaskStates == {"COMPLETED", "REJECTED", "CANCELLED", "MAX_RETRIES_EXHAUSTED"}

\* The states the finalizer's queries and isTaskTerminal count as finished.
\* FAILED is among these.
FinishedTaskStates == TerminalTaskStates \cup {"FAILED"}

\* The event tables.  Rows of one event share their destination, so an event
\* is its set of sources and its destination.
jobTransitions ==
  [start        |-> [src |-> {"PENDING"},            dst |-> "RUNNING"],
   reject       |-> [src |-> {"PENDING"},            dst |-> "REJECTED"],
   cancel       |-> [src |-> {"PENDING", "RUNNING"}, dst |-> "CANCELLED"],
   fail         |-> [src |-> {"PENDING", "RUNNING"}, dst |-> "FAILED"],
   complete     |-> [src |-> {"RUNNING"},            dst |-> "COMPLETED"],
   partial_fail |-> [src |-> {"RUNNING"},            dst |-> "PARTIAL_FAILED"]]

taskTransitions ==
  [start           |-> [src |-> {"PENDING", "RUNNING"}, dst |-> "RUNNING"],
   reject          |-> [src |-> {"PENDING"},            dst |-> "REJECTED"],
   cancel          |-> [src |-> {"PENDING", "RUNNING"}, dst |-> "CANCELLED"],
   complete        |-> [src |-> {"RUNNING"},            dst |-> "COMPLETED"],
   fail            |-> [src |-> {"RUNNING"},            dst |-> "FAILED"],
   retry           |-> [src |-> {"FAILED"},             dst |-> "PENDING"],
   exhaust_retries |-> [src |-> {"FAILED"},             dst |-> "MAX_RETRIES_EXHAUSTED"]]

\* fsm.Event succeeds from a source state (a self-loop is reported as a
\* NoTransitionError, which the callers accept).
CanFire(event, status) == status \in event.src

IsExecutionPending(status) == status \in NonTerminalJobStates

IsTerminal(status) == status \in TerminalTaskStates

isTaskTerminal(status) == status \in FinishedTaskStates

\* The job event that jobStatusToAction picks for an outcome.
jobStatusToAction(status) ==
  CASE status = "COMPLETED"      -> jobTransitions.complete
    [] status = "FAILED"         -> jobTransitions.fail
    [] status = "PARTIAL_FAILED" -> jobTransitions.partial_fail

\* "NOT_READY" is the (status "", ready false) result.
NotReady == "NOT_READY"

\* From the counters of one aggregate query over the job's tasks.
resolveJobTerminalStatusFromSummary(s) ==
  CASE s.total = 0                                  -> "COMPLETED"
    [] s.total # 0 /\ s.nonTerminal > 0             -> NotReady
    [] s.total # 0 /\ s.nonTerminal = 0 /\ s.completed = s.total -> "COMPLETED"
    [] s.total # 0 /\ s.nonTerminal = 0 /\ s.completed = 0       -> "FAILED"
    [] OTHER                                        -> "PARTIAL_FAILED"

=============================================================================
