------------------------------- MODULE Faults -------------------------------
(***************************************************************************)
(* What may go wrong around the library, counted so that a model is        *)
(* finite: a statement or a Kafka call returns an error ("error"), a       *)
(* goroutine or its process dies ("crash"), a consumer group rebalances    *)
(* ("rebalance").                                                          *)
(***************************************************************************)
EXTENDS Integers

CONSTANT FaultBudget    \* bound: how often each kind may happen

FaultKind == {"error", "crash", "rebalance"}

ASSUME FaultAssumption == FaultBudget \in [FaultKind -> Nat]

VARIABLE spent          \* faults so far, by kind

FaultsTypeOK == spent \in [FaultKind -> Nat]

FaultsInit == spent = [k \in FaultKind |-> 0]

Spend(kind) ==
  /\ spent[kind] < FaultBudget[kind]
  /\ spent' = [spent EXCEPT ![kind] = @ + 1]

Never(kind) == spent[kind] = 0

=============================================================================
