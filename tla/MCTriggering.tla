---------------------------- MODULE MCTriggering ----------------------------
(* Instances of Triggering for TLC. *)
EXTENDS Triggering

MCName       == [c \in Callers |-> CHOOSE n \in Registered : TRUE]
MCMaxRetry   == [c \in Callers |-> IF c = "cron" THEN 1 ELSE -1]

MCSuccessive == [c \in Callers |-> <<"r1", "r2">>]
MCOwnRef     == [c \in Callers |-> IF c = "cron" THEN <<"r1">> ELSE <<"r2">>]

MCSplits     == {-1, 0, 2}
MCNoFaults   == [error |-> 0, crash |-> 0, rebalance |-> 0]
MCFaults     == [error |-> 2, crash |-> 1, rebalance |-> 0]
=============================================================================
