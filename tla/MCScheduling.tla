---------------------------- MODULE MCScheduling ----------------------------
(* Instances of Scheduling for TLC. *)
EXTENDS Scheduling

MCName      == [c \in Callers |-> CHOOSE n \in Registered : TRUE]
MCMaxRetry  == [c \in Callers |-> 1]
MCOneRef    == [c \in Callers |-> <<"r1">>]
MCSplits    == {-1, 0, 1}

MCNoFaults  == [error |-> 0, crash |-> 0, rebalance |-> 0]
MCCrash     == [error |-> 0, crash |-> 1, rebalance |-> 0]
=============================================================================
