---------------------------- MODULE Registration ----------------------------
(***************************************************************************)
(* The registration calls of scheduler.Service and what they leave behind: *)
(* the jobs map, the consumers of transport.ConsumerRegistry, the pairs    *)
(* reserved by RegisterShared, the entries of the asynq scheduler and the  *)
(* handlers that Service.Start installs.                                   *)
(*                                                                         *)
(* One goroutine makes the calls.  Consumers run from the moment a call    *)
(* starts them and look names up in the map while it is still being        *)
(* filled; other goroutines trigger jobs meanwhile.  The map has no lock:  *)
(* a lookup that races an insert finds the job, does not find it, or ends  *)
(* the process, which may die at any point and is started again with empty *)
(* memory and the offsets its groups have committed.                       *)
(*                                                                         *)
(* A reader joins its consumer group when it is made, and nothing closes   *)
(* one that gets no consumer: the group may give it a partition that then  *)
(* nobody reads.  The log is one partition of each topic, with one reader  *)
(* of its group to read it.                                                *)
(*                                                                         *)
(* A message that is accepted is executed at once, without failures: those *)
(* are TaskExecutor's.  Calls after Stop are left out.                     *)
(***************************************************************************)
EXTENDS Integers, FiniteSets, Sequences

CONSTANTS
  JobConfigs,      \* the JobConfig arguments of Register and RegisterManual
  SharedConfigs,   \* the SharedKafkaConfig arguments of RegisterShared
  RetryGroup,      \* consumer group -> the group with "-retry" appended
  MaxMessages,     \* bound: messages published
  MaxLives         \* bound: processes, one after the other

\* The fields that validation looks at.
KafkaField == {"Brokers", "TaskTopic", "TaskRetryTopic", "TaskDLQTopic", "ConsumerGroup", "WriterConfig"}
ClientField == {"Publisher", "TaskReader", "RetryReader"}
JobField == {"Name", "JobExecutor", "TaskExecutor", "JobCompletionCron", "Schedule"}
              \cup KafkaField \cup ClientField

\* set: the fields that are not empty; bad: cron fields asynq cannot parse.
JobConfig ==
  [name : STRING, set : SUBSET JobField, bad : SUBSET {"JobCompletionCron", "Schedule"},
   maxRetries : Nat, group : STRING, topic : STRING, retryTopic : STRING]
SharedKafkaConfig ==
  [jobs : Seq(JobConfig), set : SUBSET ({"TaskExecutor"} \cup KafkaField \cup ClientField),
   group : STRING, topic : STRING, retryTopic : STRING]

ASSUME RegistrationAssumption ==
  /\ JobConfigs \subseteq JobConfig /\ SharedConfigs \subseteq SharedKafkaConfig
  /\ \A cfg \in JobConfigs \cup SharedConfigs : cfg.group \in DOMAIN RetryGroup
  /\ \A g \in DOMAIN RetryGroup : RetryGroup[g] # g
  /\ MaxMessages \in Nat /\ MaxLives \in Nat \ {0}

VARIABLES
  jobs,            \* job name -> its finished configuration, for the names registered
  consumers,       \* ConsumerRegistry.consumers: (group, topic) pairs
  left,            \* pairs with a reader in their group that has no consumer
  starved,         \* pairs whose partition such a reader has been given
  shared,          \* sharedConsumers
  entries,         \* asynq scheduler entries: (task type, job name) pairs
  handlers,        \* patterns of the ServeMux: (task type, job name) pairs
  phase,           \* "new", "started" by Start, "stopped" by Stop
  call,            \* the registration call in progress and the jobs it has yet to insert
  life,            \* number of the process
  log,             \* task topic -> messages: the job's name and the process that published it
  position,        \* (group, topic) -> messages fetched by its consumer in this process
  committed,       \* (group, topic) -> offset committed
  handled,         \* messages executed: (group, topic) and offset
  refused          \* messages refused: (group, topic), offset and the process that refused it

registryVars == <<jobs, consumers, left, starved, shared, entries, handlers, phase, call>>
messageVars  == <<life, log, position, committed, handled, refused>>
vars == <<registryVars, messageVars>>

Names == {cfg.name : cfg \in JobConfigs}
           \cup UNION {{q.jobs[i].name : i \in DOMAIN q.jobs} : q \in SharedConfigs}
Keys == DOMAIN RetryGroup \cup {RetryGroup[g] : g \in DOMAIN RetryGroup}

Key(cfg)      == <<cfg.group, cfg.topic>>
RetryKey(cfg) == <<RetryGroup[cfg.group], cfg.retryTopic>>

\* The consumers a call starts: the retry one if a retry topic or reader is set.
ConsumersOf(cfg) ==
  {Key(cfg)} \cup {k \in {RetryKey(cfg)} : {"TaskRetryTopic", "RetryReader"} \cap cfg.set # {}}

\* The readers it makes for them, where the configuration brings none.
NewReaders(cfg) ==
  {k \in {Key(cfg)} : "TaskReader" \notin cfg.set}
    \cup {k \in {RetryKey(cfg)} : "TaskRetryTopic" \in cfg.set /\ "RetryReader" \notin cfg.set}

TaskKeys == {Key(cfg) : cfg \in JobConfigs} \cup {<<q.group, q.topic>> : q \in SharedConfigs}
Topics   == {k[2] : k \in TaskKeys}

Registered(name) == name \in DOMAIN jobs

Idle == [pc |-> "idle", todo |-> <<>>]

TypeOK ==
  /\ DOMAIN jobs \subseteq Names
  /\ \A n \in DOMAIN jobs : jobs[n].maxRetries \in Nat \ {0}
  /\ \A k \in consumers \cup left \cup shared : k[1] \in Keys
  /\ starved \subseteq left
  /\ entries \cup handlers \subseteq {"run", "completion-check"} \X Names
  /\ phase \in {"new", "started", "stopped"}
  /\ call.pc \in {"idle", "manual", "scheduled", "shared", "schedule"}
  /\ life \in 1..MaxLives
  /\ \A t \in Topics : log[t] \in Seq([name : Names, life : 1..MaxLives])
  /\ \A k \in TaskKeys : committed[k] <= position[k] /\ position[k] <= Len(log[k[2]])
  /\ \A h \in handled : h[1] \in TaskKeys /\ h[2] \in 1..Len(log[h[1][2]])
  /\ \A r \in refused : r[1] \in TaskKeys /\ r[2] \in 1..Len(log[r[1][2]]) /\ r[3] \in 1..life

Empty ==
  /\ jobs = << >> /\ consumers = {} /\ left = {} /\ starved = {} /\ shared = {} /\ entries = {} /\ handlers = {}
  /\ phase = "new" /\ call = Idle

Init ==
  /\ Empty /\ life = 1
  /\ log = [t \in Topics |-> <<>>]
  /\ position = [k \in TaskKeys |-> 0] /\ committed = [k \in TaskKeys |-> 0]
  /\ handled = {} /\ refused = {}

-----------------------------------------------------------------------------
(* jobconfig: validation *)

ValidateManual(cfg) ==
  {"Name", "JobExecutor", "TaskExecutor", "Brokers", "TaskTopic", "ConsumerGroup", "JobCompletionCron"}
    \subseteq cfg.set

Validate(cfg) == ValidateManual(cfg) /\ "Schedule" \in cfg.set

\* What a job of a shared configuration must have, and must leave to it.
validateSharedJob(cfg) ==
  /\ {"Name", "JobExecutor", "JobCompletionCron"} \subseteq cfg.set
  /\ cfg.set \cap ({"TaskExecutor"} \cup KafkaField \cup ClientField) = {}

ValidateShared(q) ==
  /\ {"Brokers", "TaskTopic", "ConsumerGroup", "TaskExecutor"} \subseteq q.set
  /\ Len(q.jobs) >= 2
  /\ \A i \in DOMAIN q.jobs : validateSharedJob(q.jobs[i])
  /\ \A i, k \in DOMAIN q.jobs : q.jobs[i].name = q.jobs[k].name => i = k

-----------------------------------------------------------------------------
\* Seeded fault: the default is missing.
WithoutDefaults(cfg) == cfg

\* Retry.MaxRetries defaults to 3.
WithDefaults(cfg) == [cfg EXCEPT !.maxRetries = IF @ = 0 THEN 3 ELSE @]

isSharedConsumer(key) == key \in shared

\* A pair that is already in use: reserved, or the task consumer of a job.
consumerOwner(key) == isSharedConsumer(key) \/ \E n \in DOMAIN jobs : Key(jobs[n]) = key

Insert(cfg) == jobs' = [n \in DOMAIN jobs \cup {cfg.name} |-> IF n = cfg.name THEN cfg ELSE jobs[n]]

Ready == phase # "stopped" /\ call.pc = "idle"

\* The readers, and ConsumerRegistry.Start for each: a pair that has a consumer
\* keeps the one it has, and the new reader stays in the group without one.
StartConsumers(cfg) ==
  /\ consumers' = consumers \cup ConsumersOf(cfg)
  /\ left' = left \cup (NewReaders(cfg) \cap consumers)
  /\ UNCHANGED starved

\* Seeded fault: a plain registration may join a reserved pair.
MayUse(cfg) == TRUE

\* setupJobInfra refuses a pair reserved by RegisterShared.  It does not look
\* at the pairs of other jobs.
Admitted(cfg) == ~isSharedConsumer(Key(cfg))

\* Seeded fault: the readers are made before the name is looked up.
SetupMakesReadersFirst(cfg, pc) ==
  /\ Admitted(cfg)
  /\ \/ /\ Registered(cfg.name)
        /\ left' = left \cup NewReaders(cfg)
        /\ UNCHANGED <<consumers, starved, call>>
     \/ /\ ~Registered(cfg.name)
        /\ StartConsumers(cfg)
        /\ call' = [pc |-> pc, todo |-> <<WithDefaults(cfg)>>]
  /\ UNCHANGED <<jobs, shared, entries, handlers, phase, messageVars>>

\* setupJobInfra up to the start of the consumers.
Setup(cfg, pc) ==
  /\ ~Registered(cfg.name) /\ Admitted(cfg)
  /\ StartConsumers(cfg)
  /\ call' = [pc |-> pc, todo |-> <<WithDefaults(cfg)>>]
  /\ UNCHANGED <<jobs, shared, entries, handlers, phase, messageVars>>

Register(cfg) == Ready /\ Validate(cfg) /\ Setup(cfg, "scheduled")

RegisterManual(cfg) == Ready /\ ValidateManual(cfg) /\ Setup(cfg, "manual")

\* The rest of setupJobInfra, the completion cron, and the insert: only a job
\* whose cron asynq accepts is put into the map; its consumers stay anyway.
InsertJob ==
  LET cfg == call.todo[1] IN
  /\ call.pc \in {"manual", "scheduled"}
  /\ \/ /\ "JobCompletionCron" \in cfg.bad
        /\ call' = Idle
        /\ UNCHANGED <<jobs, entries>>
     \/ /\ "JobCompletionCron" \notin cfg.bad
        /\ Insert(cfg)
        /\ entries' = entries \cup {<<"completion-check", cfg.name>>}
        /\ call' = IF call.pc = "scheduled" THEN [call EXCEPT !.pc = "schedule"] ELSE Idle
  /\ UNCHANGED <<consumers, left, starved, shared, handlers, phase, messageVars>>

\* Seeded fault: a job whose schedule is refused is taken out of the map again.
AddScheduleOrRemove ==
  LET cfg == call.todo[1] IN
  /\ call.pc = "schedule" /\ call' = Idle
  /\ \/ "Schedule" \notin cfg.bad /\ entries' = entries \cup {<<"run", cfg.name>>} /\ UNCHANGED jobs
     \/ "Schedule" \in cfg.bad /\ jobs' = [n \in DOMAIN jobs \ {cfg.name} |-> jobs[n]] /\ UNCHANGED entries
  /\ UNCHANGED <<consumers, left, starved, shared, handlers, phase, messageVars>>

\* The schedule is added after the job is in the map, which keeps the job if
\* asynq cannot parse it.
AddSchedule ==
  LET cfg == call.todo[1] IN
  /\ call.pc = "schedule" /\ call' = Idle
  /\ entries' = IF "Schedule" \in cfg.bad THEN entries ELSE entries \cup {<<"run", cfg.name>>}
  /\ UNCHANGED <<jobs, consumers, left, starved, shared, handlers, phase, messageVars>>

\* The configuration a job of q ends up with.
Prepared(q, i) ==
  [WithDefaults(q.jobs[i]) EXCEPT
     !.group = q.group, !.topic = q.topic, !.retryTopic = q.retryTopic,
     !.set = @ \cup (q.set \cap ({"TaskExecutor"} \cup KafkaField))]

\* The entries of the first n jobs.
EntriesOf(q, n) ==
  UNION {{<<"completion-check", q.jobs[i].name>>}
           \cup (IF "Schedule" \in q.jobs[i].set THEN {<<"run", q.jobs[i].name>>} ELSE {})
         : i \in 1..n}

Parses(cfg) == cfg.bad \cap cfg.set = {}

Unused(q) ==
  /\ \A i \in DOMAIN q.jobs : ~Registered(q.jobs[i].name)
  /\ ~consumerOwner(<<q.group, q.topic>>)

\* Every cron and schedule is added before the consumers start.
RegisterShared(q) ==
  /\ Ready /\ ValidateShared(q) /\ Unused(q)
  /\ \A i \in DOMAIN q.jobs : Parses(q.jobs[i])
  /\ entries' = entries \cup EntriesOf(q, Len(q.jobs))
  /\ StartConsumers(q)
  /\ call' = [pc |-> "shared", todo |-> [i \in DOMAIN q.jobs |-> Prepared(q, i)]]
  /\ UNCHANGED <<jobs, shared, handlers, phase, messageVars>>

\* The jobs are put into the map one by one; the pair is reserved at the end.
InsertShared ==
  LET cfg == call.todo[1] IN
  /\ call.pc = "shared"
  /\ Insert(cfg)
  /\ \/ /\ Len(call.todo) > 1
        /\ call' = [call EXCEPT !.todo = Tail(@)]
        /\ UNCHANGED shared
     \/ /\ Len(call.todo) = 1
        /\ call' = Idle
        /\ shared' = shared \cup {Key(cfg)}
  /\ UNCHANGED <<consumers, left, starved, entries, handlers, phase, messageVars>>

\* The call fails at the first job whose cron or schedule asynq cannot parse;
\* the entries added until then stay, and so do the readers, without consumers.
RegisterSharedFails(q) ==
  /\ Ready /\ ValidateShared(q) /\ Unused(q)
  /\ \E i \in DOMAIN q.jobs :
       /\ ~Parses(q.jobs[i]) /\ \A k \in 1..(i - 1) : Parses(q.jobs[k])
       /\ entries' = entries \cup EntriesOf(q, i - 1)
            \cup (IF "JobCompletionCron" \in q.jobs[i].bad THEN {}
                  ELSE {<<"completion-check", q.jobs[i].name>>})
  /\ left' = left \cup NewReaders(q)
  /\ UNCHANGED <<jobs, consumers, starved, shared, handlers, phase, call, messageVars>>

\* Start: a handler for each schedule and each completion cron in the map.
Start ==
  /\ phase = "new" /\ call.pc = "idle"
  /\ handlers' = {<<"run", n>> : n \in {m \in DOMAIN jobs : "Schedule" \in jobs[m].set}}
                   \cup {<<"completion-check", n>> : n \in DOMAIN jobs}
  /\ phase' = "started"
  /\ UNCHANGED <<jobs, consumers, left, starved, shared, entries, call, messageVars>>

\* Stop: every consumer is cancelled, its reader closed, and forgotten.
Stop ==
  /\ phase # "stopped" /\ call.pc = "idle"
  /\ phase' = "stopped" /\ consumers' = {}
  /\ UNCHANGED <<jobs, left, starved, shared, entries, handlers, call, messageVars>>

-----------------------------------------------------------------------------
(* Messages *)

Published == UNION {{<<t, i>> : i \in DOMAIN log[t]} : t \in Topics}

\* Trigger, from any goroutine: a run of one task for a name in the map.
Trigger(n) ==
  /\ Registered(n) /\ Cardinality(Published) < MaxMessages
  /\ log' = [log EXCEPT ![jobs[n].topic] = Append(@, [name |-> n, life |-> life])]
  /\ UNCHANGED <<registryVars, life, position, committed, handled, refused>>

\* The group deals its partition out again, after a reader has joined or at any
\* time: to the consumer's reader or to one without a consumer.  Whoever gets it
\* begins at the committed offset.
Rebalance(k) ==
  /\ k \in consumers
  /\ \/ starved' = starved \ {k}
     \/ k \in left /\ starved' = starved \cup {k}
  /\ position' = [x \in TaskKeys |-> IF x = k THEN committed[x] ELSE position[x]]
  /\ UNCHANGED <<jobs, consumers, left, shared, entries, handlers, phase, call>>
  /\ UNCHANGED <<life, log, committed, handled, refused>>

\* taskConsumer.run: executeTask refuses a name that is not in the map; only
\* what it accepts is committed, and the loop goes on with the next message.
Consume(k) ==
  LET o == position[k] + 1 IN
  /\ k \in consumers \ starved /\ position[k] < Len(log[k[2]])
  /\ position' = [position EXCEPT ![k] = o]
  /\ \/ /\ Registered(log[k[2]][o].name)
        /\ handled' = handled \cup {<<k, o>>}
        /\ committed' = [committed EXCEPT ![k] = o]
        /\ UNCHANGED refused
     \/ /\ ~Registered(log[k[2]][o].name)
        /\ refused' = refused \cup {<<k, o, life>>}
        /\ UNCHANGED <<handled, committed>>
  /\ UNCHANGED <<registryVars, life, log>>

\* The process ends, also after Stop, and a new one begins.
Restart ==
  /\ life < MaxLives /\ life' = life + 1
  /\ jobs' = << >> /\ consumers' = {} /\ left' = {} /\ starved' = {} /\ shared' = {} /\ entries' = {} /\ handlers' = {}
  /\ phase' = "new" /\ call' = Idle
  /\ position' = committed
  /\ UNCHANGED <<log, committed, handled, refused>>

Next ==
  \/ \E cfg \in JobConfigs : Register(cfg) \/ RegisterManual(cfg)
  \/ \E q \in SharedConfigs : RegisterShared(q) \/ RegisterSharedFails(q)
  \/ InsertJob \/ AddSchedule \/ InsertShared
  \/ Start \/ Stop \/ Restart
  \/ \E n \in Names : Trigger(n)
  \/ \E k \in TaskKeys : Consume(k)
  \/ \E k \in consumers : Rebalance(k)

Spec == Init /\ [][Next]_vars

-----------------------------------------------------------------------------
\* A pair that one configuration names and no other, one that asynq accepts.
Claimants(k) == {cfg \in JobConfigs \cup SharedConfigs : k \in ConsumersOf(cfg)}
Uncontested(k) ==
  \/ \E cfg \in JobConfigs : Claimants(k) = {cfg} /\ "JobCompletionCron" \notin cfg.bad
  \/ \E q \in SharedConfigs : Claimants(k) = {q} /\ \A i \in DOMAIN q.jobs : Parses(q.jobs[i])

\* The tasks of every job in the map are consumed and its completion cron is
\* scheduled, however often registrations were called, refused or failed before:
\* its consumers run, it has both executors, and the partition of a pair that is
\* its own is with the consumer, not with a reader an earlier call left in the
\* group.  A pair that is also another configuration's, or one whose call failed
\* before, may lose its partition to such a reader.  A job that asynq has a
\* handler for is also finished: its completion cron has a handler too, which a
\* job registered after Start has not.
RegisteredJobsRun ==
  /\ phase # "stopped" => \A n \in DOMAIN jobs :
       /\ ConsumersOf(jobs[n]) \subseteq consumers
       /\ \A k \in ConsumersOf(jobs[n]) \cap starved : ~Uncontested(k)
       /\ <<"completion-check", n>> \in entries
       /\ {"JobExecutor", "TaskExecutor"} \subseteq jobs[n].set
  /\ \A h \in handlers : h[2] \in DOMAIN jobs /\ <<"completion-check", h[2]>> \in entries \cap handlers

\* The jobs on a pair reserved by RegisterShared are those of one call of it:
\* no other registration joins them, before or after.
SharedConsumerExclusive ==
  \A k \in shared : \E q \in SharedConfigs :
    /\ <<q.group, q.topic>> = k
    /\ {n \in DOMAIN jobs : Key(jobs[n]) = k} = {q.jobs[i].name : i \in DOMAIN q.jobs}

\* A process accepts every message of the runs it started itself: its consumers
\* refuse only messages from before it had registered their job again.
OwnMessagesAccepted ==
  \A r \in refused : log[r[1][2]][r[2]].life < r[3]

\* The loop goes on after a refused message, and the commit of a later one
\* covers it.  What is passed over in this way without having been executed was
\* left by an earlier process and refused by a later one that had not registered
\* its job again; restarts and rebalances, which go back to the committed
\* offset, pass over nothing else.
OnlyLeftoversPassedOver ==
  \A k \in TaskKeys : \A o \in 1..committed[k] :
    \/ <<k, o>> \in handled
    \/ \E l \in 1..life : <<k, o, l>> \in refused /\ log[k[2]][o].life < l

=============================================================================
