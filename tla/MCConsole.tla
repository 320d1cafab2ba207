----------------------------- MODULE MCConsole ------------------------------
(* Instances of Console for TLC. *)
EXTENDS Console

MCName      == [c \in Callers |-> CHOOSE n \in Registered : TRUE]
MCMaxRetry  == [c \in Callers |-> IF c \in Users THEN NoAsynq ELSE 1]
MCCallRefs  == [c \in Callers |-> IF c \in Users THEN <<"r2">> ELSE <<"r1">>]
MCSplits    == {-1, 0, 2}
MCFull      == [r \in Retriers |-> TRUE]
MCRetryRef  == [r \in Retriers |-> "r3"]
MCErrors    == [error |-> 1, crash |-> 1, rebalance |-> 0]
=============================================================================
