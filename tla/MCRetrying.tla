----------------------------- MODULE MCRetrying -----------------------------
(* Instances of Retrying for TLC. *)
EXTENDS Retrying

MCPartial   == [r \in Retriers |-> FALSE]
MCRef       == [r \in Retriers |-> "r2"]
MCFaults    == [error |-> 1, crash |-> 1, rebalance |-> 0]
MCCrash     == [error |-> 0, crash |-> 1, rebalance |-> 0]
=============================================================================
