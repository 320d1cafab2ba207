------------------------------- MODULE Broker -------------------------------
(***************************************************************************)
(* Kafka as internal/transport uses it: append-only partitions, one        *)
(* committed offset per partition and group, a reader that runs ahead of   *)
(* the commit.  A message is the id of the task it carries: executeTask    *)
(* reloads the row and ignores the rest of the payload.                    *)
(*                                                                         *)
(* A rebalance gives a partition to a consumer of its group, perhaps the   *)
(* same, which starts again at the committed offset; the one that had it   *)
(* may still be working on a message it fetched, and its late commit may   *)
(* be accepted or refused.                                                 *)
(***************************************************************************)
EXTENDS Sequences, Faults

CONSTANTS
  TaskPartitions, RetryPartitions,  \* of TaskTopic and of TaskRetryTopic ({}: none configured)
  TaskConsumers, RetryConsumers     \* consumer goroutines of the two groups

Partitions == TaskPartitions \cup RetryPartitions
Consumers  == TaskConsumers \cup RetryConsumers

ASSUME BrokerAssumption ==
  /\ TaskPartitions \cap RetryPartitions = {}
  /\ TaskConsumers \cap RetryConsumers = {}
  /\ TaskPartitions # {} => TaskConsumers # {}
  /\ RetryPartitions # {} => RetryConsumers # {}

VARIABLES
  log,          \* partition -> sequence of messages
  committed,    \* partition -> offset committed for the group
  position,     \* partition -> offset up to which its owner has fetched
  owner         \* partition -> the consumer it is assigned to

brokerVars == <<log, committed, position, owner>>

\* The consumers that may be assigned a partition.
GroupOf(p) == IF p \in TaskPartitions THEN TaskConsumers ELSE RetryConsumers

BrokerTypeOK(Message) ==
  /\ log \in [Partitions -> Seq(Message)]
  /\ committed \in [Partitions -> Nat]
  /\ position \in [Partitions -> Nat]
  /\ owner \in [Partitions -> Consumers]

\* The offsets of a partition the current owner has yet to fetch.
Unfetched(p) == (position[p] + 1)..Len(log[p])

\* The message is in one of the partitions, fetched or not.
Written(m) == \E p \in Partitions : \E i \in 1..Len(log[p]) : log[p][i] = m

\* WriteMessages of one message; the balancer picks the partition.
Publish(m, parts) ==
  /\ \E p \in parts : log' = [log EXCEPT ![p] = Append(@, m)]
  /\ UNCHANGED <<committed, position, owner>>

\* Seeded fault: ReadMessage instead of FetchMessage, which commits on fetch.
ReadMessage(c, p) ==
  /\ owner[p] = c
  /\ Unfetched(p) # {}
  /\ position' = [position EXCEPT ![p] = @ + 1]
  /\ committed' = [committed EXCEPT ![p] = position[p] + 1]
  /\ UNCHANGED <<log, owner>>

\* FetchMessage moves the position and commits nothing.
FetchMessage(c, p) ==
  /\ owner[p] = c
  /\ Unfetched(p) # {}
  /\ position' = [position EXCEPT ![p] = @ + 1]
  /\ UNCHANGED <<log, committed, owner>>

\* CommitMessages stores the offset of the message, whatever was there before.
CommitMessages(p, offset) ==
  /\ committed' = [committed EXCEPT ![p] = offset]
  /\ UNCHANGED <<log, position, owner>>

\* The partition is assigned to c, which resumes from the committed offset.
Rebalance(p, c) ==
  /\ c \in GroupOf(p)
  /\ c # owner[p] \/ position[p] # committed[p]
  /\ Spend("rebalance")
  /\ owner' = [owner EXCEPT ![p] = c]
  /\ position' = [position EXCEPT ![p] = committed[p]]
  /\ UNCHANGED <<log, committed>>

\* A restarted consumer rejoins and resumes from the committed offsets of
\* its partitions.
Rejoin(c) ==
  /\ position' = [p \in Partitions |-> IF owner[p] = c THEN committed[p] ELSE position[p]]
  /\ UNCHANGED <<log, committed, owner>>

=============================================================================
