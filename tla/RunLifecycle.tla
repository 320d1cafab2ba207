---------------------------- MODULE RunLifecycle ----------------------------
(***************************************************************************)
(* What the library promises of a run, seen from outside: its status moves *)
(* along the job state machine and never leaves a terminal state, and the  *)
(* end of a run is announced (OnJobFinished from a finalizer) at most      *)
(* once, after it, with the status the run ended in.                       *)
(***************************************************************************)
EXTENDS Domain, Sequences

CONSTANT Runs

VARIABLES
  status,       \* run -> its status
  due,          \* runs that ended and are about to be announced
  announced     \* run -> announcements made

vars == <<status, due, announced>>

Init ==
  /\ status \in [Runs -> JobStatus \cup {Absent}]
  /\ due = {}
  /\ announced = [r \in Runs |-> <<>>]

\* Events that no finalizer announces: start, cancel, reject, fail.
Move(r) ==
  /\ \E event \in {jobTransitions.start, jobTransitions.cancel,
                   jobTransitions.reject, jobTransitions.fail} :
       /\ CanFire(event, status[r])
       /\ status' = [status EXCEPT ![r] = event.dst]
  /\ UNCHANGED <<due, announced>>

\* All tasks are through.  The announcement may be lost with the process.
Finish(r) ==
  /\ \E event \in {jobTransitions.complete, jobTransitions.partial_fail, jobTransitions.fail} :
       /\ status[r] = "RUNNING"
       /\ status' = [status EXCEPT ![r] = event.dst]
  /\ due' \in {due, due \cup {r}}
  /\ UNCHANGED announced

Announce(r) ==
  /\ r \in due
  /\ due' = due \ {r}
  /\ announced' \in {announced, [announced EXCEPT ![r] = Append(@, status[r])]}
  /\ UNCHANGED status

Next == \E r \in Runs : Move(r) \/ Finish(r) \/ Announce(r)

Spec == Init /\ [][Next]_vars

=============================================================================
