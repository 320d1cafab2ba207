------------------------ MODULE Registration_proofs -------------------------
(***************************************************************************)
(* Proofs about Registration, for any configurations, any number of        *)
(* messages and any number of restarts.                                    *)
(***************************************************************************)
EXTENDS Registration, TLAPS

\* A finished configuration: what validation and the defaults leave of it.
Finished(cfg) ==
  /\ cfg \in JobConfig /\ cfg.maxRetries # 0
  /\ cfg.name \in Names /\ Key(cfg) \in TaskKeys /\ cfg.group \in DOMAIN RetryGroup
  /\ {"JobExecutor", "TaskExecutor"} \subseteq cfg.set

\* The jobs map: what is in it can be executed and finished.
MapInv ==
  \A n \in DOMAIN jobs :
    /\ n \in Names /\ Finished(jobs[n])
    /\ <<"completion-check", n>> \in entries
    /\ phase # "stopped" => ConsumersOf(jobs[n]) \subseteq consumers

\* A handler is installed only for jobs in the map, and never without the
\* handler of its completion cron.
HandlerInv ==
  \A h \in handlers : h[2] \in DOMAIN jobs /\ <<"completion-check", h[2]>> \in handlers

\* A configuration on its way into the map: its consumers run already.
Underway(cfg) ==
  /\ Finished(cfg) /\ cfg.name \notin DOMAIN jobs
  /\ Key(cfg) \notin shared
  /\ ConsumersOf(cfg) \subseteq consumers

\* A plain registration between the start of its consumers and the insert.
PlainInv ==
  call.pc \in {"manual", "scheduled"} => Len(call.todo) = 1 /\ Underway(call.todo[1])

\* The schedule of a job in the map is still to be added.
ScheduleInv ==
  call.pc = "schedule" => Len(call.todo) = 1 /\ Finished(call.todo[1])

Pair(q) == <<q.group, q.topic>>

\* The names of the jobs in the map whose task consumer is k.
UsersOf(k) == {n \in DOMAIN jobs : Key(jobs[n]) = k}

\* RegisterShared(q) after m inserts: nobody else uses its pair, and the jobs
\* left are ready to be inserted.
SharedCall(q, m) ==
  /\ ValidateShared(q)
  /\ Len(call.todo) = Len(q.jobs) - m
  /\ UsersOf(Pair(q)) = {q.jobs[i].name : i \in 1..m}
  /\ \A i \in 1..Len(call.todo) :
       /\ call.todo[i] = Prepared(q, i + m)
       /\ Underway(call.todo[i])
       /\ <<"completion-check", call.todo[i].name>> \in entries

SharedInv ==
  call.pc = "shared" =>
    \E q \in SharedConfigs : \E m \in 0..(Len(q.jobs) - 1) : SharedCall(q, m)

CallInv ==
  /\ call \in [pc : {"idle", "manual", "scheduled", "shared", "schedule"}, todo : Seq(JobConfig)]
  /\ call.pc # "idle" => phase # "stopped"
  /\ PlainInv /\ ScheduleInv /\ SharedInv

-----------------------------------------------------------------------------
(* The readers that a call leaves in a group without a consumer. *)

\* A configuration that asynq accepts, and the names it registers.
Sound(x) ==
  \/ x \in JobConfigs /\ "JobCompletionCron" \notin x.bad
  \/ x \in SharedConfigs /\ \A i \in DOMAIN x.jobs : Parses(x.jobs[i])
NamesOf(x) == IF x \in SharedConfigs THEN {x.jobs[i].name : i \in DOMAIN x.jobs} ELSE {x.name}

\* The name that the call in progress is about to insert.
Pending ==
  {n \in {call.todo[1].name} :
     \/ call.pc = "shared"
     \/ call.pc \in {"manual", "scheduled"} /\ "JobCompletionCron" \notin call.todo[1].bad}

\* A pair that only x names: its consumer runs because a call accepted x, so
\* another call with x is refused before it makes a reader.
ReaderInv ==
  /\ starved \subseteq left
  /\ \A k \in left : k[1] \in Keys
  /\ \A k, x : Claimants(k) = {x} /\ Sound(x) =>
       /\ k \notin left
       /\ k \in consumers => NamesOf(x) \cap (DOMAIN jobs \cup Pending) # {}

\* The registry: maps, consumers, asynq entries and the call in progress.
RegistryInv ==
  /\ phase \in {"new", "started", "stopped"}
  /\ \A k \in consumers \cup shared : k[1] \in Keys
  /\ entries \cup handlers \subseteq {"run", "completion-check"} \X Names
  /\ MapInv /\ HandlerInv /\ CallInv /\ SharedConsumerExclusive

Message == [name : Names, life : 1..MaxLives]

\* The messages: a process has in its map every name it ever published for.
LogInv ==
  /\ life \in 1..MaxLives
  /\ log \in [Topics -> Seq(Message)]
  /\ \A t \in Topics : \A i \in 1..Len(log[t]) :
       /\ log[t][i].life <= life
       /\ log[t][i].life = life => log[t][i].name \in DOMAIN jobs

OffsetInv ==
  /\ committed \in [TaskKeys -> Nat] /\ position \in [TaskKeys -> Nat]
  /\ \A k \in TaskKeys : committed[k] <= position[k] /\ position[k] <= Len(log[k[2]])
  /\ \A h \in handled : h[1] \in TaskKeys /\ h[2] \in 1..Len(log[h[1][2]])
  /\ \A r \in refused : r[1] \in TaskKeys /\ r[2] \in 1..Len(log[r[1][2]]) /\ r[3] \in 1..life

\* Every message that was fetched was executed, or refused as a leftover.
PassedInv ==
  \A k \in TaskKeys : \A o \in 1..position[k] :
    \/ <<k, o>> \in handled
    \/ \E l \in 1..life : <<k, o, l>> \in refused /\ log[k[2]][o].life < l

MessageInv == LogInv /\ OffsetInv /\ OwnMessagesAccepted /\ PassedInv

RegInv == RegistryInv /\ ReaderInv /\ MessageInv

-----------------------------------------------------------------------------
(* What the operators on configurations return. *)

\* WithDefaults changes maxRetries only, and never leaves it at 0.
LEMMA DefaultsFacts ==
  ASSUME NEW cfg \in JobConfig
  PROVE  LET w == WithDefaults(cfg) IN
         /\ w \in JobConfig /\ w.maxRetries # 0
         /\ w.name = cfg.name /\ w.set = cfg.set /\ w.bad = cfg.bad
         /\ w.group = cfg.group /\ w.topic = cfg.topic /\ w.retryTopic = cfg.retryTopic
BY DEF WithDefaults, JobConfig

\* A configuration that passed ValidateManual or Validate is finished once it
\* has its defaults, and keeps its consumers.
LEMMA PlainConfig ==
  ASSUME NEW cfg \in JobConfigs, ValidateManual(cfg)
  PROVE  /\ Finished(WithDefaults(cfg))
         /\ WithDefaults(cfg).name = cfg.name
         /\ Key(WithDefaults(cfg)) = Key(cfg)
         /\ ConsumersOf(WithDefaults(cfg)) = ConsumersOf(cfg)
<1>1. cfg \in JobConfig /\ cfg.group \in DOMAIN RetryGroup
  BY RegistrationAssumption
<1>. DEFINE w == WithDefaults(cfg)
<1>2. /\ w \in JobConfig /\ w.maxRetries # 0
      /\ w.name = cfg.name /\ w.set = cfg.set
      /\ w.group = cfg.group /\ w.topic = cfg.topic /\ w.retryTopic = cfg.retryTopic
  BY <1>1, DefaultsFacts
<1>. HIDE DEF w
<1>3. Key(w) = Key(cfg) /\ ConsumersOf(w) = ConsumersOf(cfg)
  BY <1>2 DEF Key, ConsumersOf, RetryKey
<1>4. w.name \in Names /\ Key(w) \in TaskKeys
  BY <1>2, <1>3 DEF Names, TaskKeys
<1>5. {"JobExecutor", "TaskExecutor"} \subseteq w.set
  BY <1>2 DEF ValidateManual, JobField
<1>6. Finished(w)
  BY <1>1, <1>2, <1>4, <1>5 DEF Finished
<1>. QED BY <1>2, <1>3, <1>6 DEF w

\* A job of a shared configuration becomes a finished one on its pair.
LEMMA SharedConfig ==
  ASSUME NEW q \in SharedConfigs, ValidateShared(q), NEW i \in 1..Len(q.jobs)
  PROVE  /\ Finished(Prepared(q, i))
         /\ Prepared(q, i).name = q.jobs[i].name
         /\ Key(Prepared(q, i)) = Pair(q)
         /\ ConsumersOf(Prepared(q, i)) \subseteq ConsumersOf(q)
<1>1. /\ q \in SharedKafkaConfig /\ q.group \in DOMAIN RetryGroup
      /\ q.jobs \in Seq(JobConfig)
  BY RegistrationAssumption DEF SharedKafkaConfig
<1>2. q.jobs[i] \in JobConfig /\ i \in DOMAIN q.jobs
  BY <1>1
<1>. DEFINE d == WithDefaults(q.jobs[i])
            p == Prepared(q, i)
<1>3. d \in JobConfig /\ d.maxRetries # 0 /\ d.name = q.jobs[i].name /\ d.set = q.jobs[i].set
  BY <1>2, DefaultsFacts
<1>4. p = [d EXCEPT !.group = q.group, !.topic = q.topic, !.retryTopic = q.retryTopic,
                    !.set = @ \cup (q.set \cap ({"TaskExecutor"} \cup KafkaField))]
  BY DEF Prepared
<1>. HIDE DEF d, p
<1>5. /\ p.maxRetries = d.maxRetries /\ p.name = d.name
      /\ p.group = q.group /\ p.topic = q.topic /\ p.retryTopic = q.retryTopic
      /\ p.set = d.set \cup (q.set \cap ({"TaskExecutor"} \cup KafkaField))
  BY <1>3, <1>4 DEF JobConfig
<1>6. p \in JobConfig
  <2>1. p.set \subseteq JobField
    BY <1>3, <1>5 DEF JobConfig, KafkaField, JobField
  <2>2. q.group \in STRING /\ q.topic \in STRING /\ q.retryTopic \in STRING
    BY <1>1 DEF SharedKafkaConfig
  <2>. QED BY <1>3, <1>4, <1>5, <2>1, <2>2 DEF JobConfig
<1>7. validateSharedJob(q.jobs[i])
  BY <1>2 DEF ValidateShared
<1>8. "RetryReader" \notin p.set /\ ("TaskRetryTopic" \in p.set => "TaskRetryTopic" \in q.set)
  BY <1>1, <1>3, <1>5, <1>7 DEF validateSharedJob, KafkaField, ClientField, SharedKafkaConfig
<1>9. {"JobExecutor", "TaskExecutor"} \subseteq p.set
  BY <1>3, <1>5, <1>7 DEF validateSharedJob, ValidateShared
<1>10. p.name \in Names /\ Key(p) = Pair(q) /\ Key(p) \in TaskKeys
  BY <1>2, <1>3, <1>5 DEF Names, Key, Pair, TaskKeys
<1>11. ConsumersOf(p) \subseteq ConsumersOf(q)
  BY <1>5, <1>8 DEF ConsumersOf, Key, RetryKey
<1>12. Finished(p)
  BY <1>1, <1>3, <1>5, <1>6, <1>9, <1>10 DEF Finished
<1>. QED BY <1>3, <1>5, <1>10, <1>11, <1>12 DEF p

\* The map after an insert of a new name: the others keep what they have, and
\* one pair gets one more user.
LEMMA InsertFacts ==
  ASSUME NEW cfg, cfg.name \notin DOMAIN jobs, Insert(cfg)
  PROVE  /\ DOMAIN jobs' = DOMAIN jobs \cup {cfg.name}
         /\ jobs'[cfg.name] = cfg
         /\ \A n \in DOMAIN jobs : jobs'[n] = jobs[n]
         /\ UsersOf(Key(cfg))' = UsersOf(Key(cfg)) \cup {cfg.name}
         /\ \A k : k # Key(cfg) => UsersOf(k)' = UsersOf(k)
<1>1. /\ DOMAIN jobs' = DOMAIN jobs \cup {cfg.name}
      /\ jobs'[cfg.name] = cfg
      /\ \A n \in DOMAIN jobs : jobs'[n] = jobs[n]
  BY DEF Insert
<1>2. UsersOf(Key(cfg))' = UsersOf(Key(cfg)) \cup {cfg.name}
  BY <1>1 DEF UsersOf, Key
<1>3. ASSUME NEW k, k # Key(cfg) PROVE UsersOf(k)' = UsersOf(k)
  BY <1>1, <1>3 DEF UsersOf, Key
<1>. QED BY <1>1, <1>2, <1>3

-----------------------------------------------------------------------------
(* The messages. *)

\* Registration calls do not touch messages, and the map only grows.
LEMMA MessageFrame ==
  ASSUME MessageInv, UNCHANGED messageVars, DOMAIN jobs \subseteq DOMAIN jobs'
  PROVE  MessageInv'
BY DEF messageVars, MessageInv, LogInv, OffsetInv, OwnMessagesAccepted, PassedInv

\* A task consumer's pair names a topic of the log.
LEMMA TopicOfKey == ASSUME NEW k \in TaskKeys PROVE k[2] \in Topics
BY DEF Topics

\* A sequence and its extension by one element.
LEMMA AppendFacts ==
  ASSUME NEW S, NEW s \in Seq(S), NEW e \in S, NEW x, x = s \/ x = Append(s, e)
  PROVE  /\ x \in Seq(S) /\ Len(s) <= Len(x) /\ Len(s) \in Nat /\ Len(x) \in Nat
         /\ \A i \in 1..Len(s) : x[i] = s[i]
         /\ \A i \in 1..Len(x) : i \notin 1..Len(s) => x[i] = e
<1>1. CASE x = s
  BY <1>1
<1>2. CASE x = Append(s, e)
  BY <1>2
<1>. QED BY <1>1, <1>2

LEMMA ElementFacts == ASSUME NEW S, NEW s \in Seq(S), NEW i \in 1..Len(s) PROVE s[i] \in S
OBVIOUS

\* A message is appended for a name that is in the map.
LEMMA TriggerMessages ==
  ASSUME MessageInv, NEW n \in Names, Trigger(n)
  PROVE  MessageInv'
<1>. DEFINE m == [name |-> n, life |-> life]
<1>1. log \in [Topics -> Seq(Message)] /\ life \in 1..MaxLives /\ m \in Message
  BY DEF MessageInv, LogInv, Message
<1>2. /\ n \in DOMAIN jobs /\ UNCHANGED <<jobs, life, position, committed, handled, refused>>
      /\ log' = [log EXCEPT ![jobs[n].topic] = Append(@, m)]
  BY DEF Trigger, Registered, registryVars
<1>3. m.name = n /\ m.life = life
  OBVIOUS
<1>. HIDE DEF m
<1>4. ASSUME NEW t \in Topics
      PROVE  /\ log'[t] \in Seq(Message) /\ Len(log[t]) <= Len(log'[t])
             /\ Len(log[t]) \in Nat /\ Len(log'[t]) \in Nat
             /\ \A i \in 1..Len(log[t]) : log'[t][i] = log[t][i]
             /\ \A i \in 1..Len(log'[t]) : i \notin 1..Len(log[t]) => log'[t][i] = m
  <2>1. log[t] \in Seq(Message)
    BY <1>1
  <2>2. log'[t] = log[t] \/ log'[t] = Append(log[t], m)
    BY <1>1, <1>2
  <2>. QED BY <1>1, <2>1, <2>2, AppendFacts
<1>5. LogInv'
  <2>1. log' \in [Topics -> Seq(Message)]
    BY <1>1, <1>2, <1>4
  <2>2. ASSUME NEW t \in Topics, NEW i \in 1..Len(log'[t])
        PROVE  /\ log'[t][i].life <= life
               /\ log'[t][i].life = life => log'[t][i].name \in DOMAIN jobs
    <3>1. CASE i \in 1..Len(log[t])
      <4>1. log'[t][i] = log[t][i]
        BY <1>4, <3>1
      <4>. QED BY <3>1, <4>1 DEF MessageInv, LogInv
    <3>2. CASE i \notin 1..Len(log[t])
      <4>1. log'[t][i] = m
        BY <1>4, <3>2
      <4>. QED BY <1>1, <1>2, <1>3, <4>1
    <3>. QED BY <3>1, <3>2
  <2>. QED BY <1>1, <1>2, <2>1, <2>2 DEF LogInv
<1>6. OffsetInv'
  <2>1. ASSUME NEW k \in TaskKeys
        PROVE  Len(log[k[2]]) <= Len(log'[k[2]]) /\ Len(log[k[2]]) \in Nat /\ Len(log'[k[2]]) \in Nat
    BY <1>4, TopicOfKey
  <2>2. ASSUME NEW k \in TaskKeys PROVE committed[k] <= position[k] /\ position[k] <= Len(log'[k[2]])
    BY <2>1, <2>2 DEF MessageInv, OffsetInv
  <2>3. ASSUME NEW k \in TaskKeys, NEW i \in 1..Len(log[k[2]]) PROVE i \in 1..Len(log'[k[2]])
    BY <2>1, <2>3
  <2>4. \A h \in handled : h[1] \in TaskKeys /\ h[2] \in 1..Len(log'[h[1][2]])
    BY <2>3 DEF MessageInv, OffsetInv
  <2>5. \A r \in refused : r[1] \in TaskKeys /\ r[2] \in 1..Len(log'[r[1][2]]) /\ r[3] \in 1..life
    BY <2>3 DEF MessageInv, OffsetInv
  <2>. QED BY <1>2, <2>2, <2>4, <2>5 DEF MessageInv, OffsetInv
<1>7. OwnMessagesAccepted'
  BY <1>2, <1>4, TopicOfKey DEF MessageInv, OffsetInv, OwnMessagesAccepted
<1>8. PassedInv'
  <2>1. ASSUME NEW k \in TaskKeys, NEW i \in 1..position[k] PROVE log'[k[2]][i] = log[k[2]][i]
    <3>1. i \in 1..Len(log[k[2]])
      BY <1>4, TopicOfKey DEF MessageInv, OffsetInv
    <3>. QED BY <1>4, <3>1, TopicOfKey
  <2>. QED BY <1>2, <2>1 DEF MessageInv, PassedInv
<1>. QED BY <1>5, <1>6, <1>7, <1>8 DEF MessageInv

\* A message that is refused was published by an earlier process; one that is
\* accepted is executed in the step that commits it.
LEMMA ConsumeMessages ==
  ASSUME MessageInv, NEW k \in TaskKeys, Consume(k)
  PROVE  MessageInv'
<1>. DEFINE o == position[k] + 1
            m == log[k[2]][o]
<1>1. /\ UNCHANGED <<jobs, life, log>> /\ k[2] \in Topics
      /\ position' = [position EXCEPT ![k] = o]
  BY TopicOfKey DEF Consume, registryVars
<1>2. /\ position \in [TaskKeys -> Nat] /\ committed \in [TaskKeys -> Nat]
      /\ log[k[2]] \in Seq(Message) /\ life \in 1..MaxLives
  BY <1>1 DEF MessageInv, LogInv, OffsetInv
<1>3. o \in 1..Len(log[k[2]]) /\ o \in Nat /\ Len(log[k[2]]) \in Nat
  BY <1>2 DEF Consume
<1>4. m.life \in Nat /\ m.life <= life /\ (m.life = life => m.name \in DOMAIN jobs)
  <2>1. m \in Message
    BY <1>2, <1>3, ElementFacts
  <2>2. m.life <= life /\ (m.life = life => m.name \in DOMAIN jobs)
    BY <1>1, <1>3, Zenon DEF MessageInv, LogInv
  <2>. QED BY <2>1, <2>2, RegistrationAssumption DEF Message
<1>5. \/ /\ handled' = handled \cup {<<k, o>>}
         /\ committed' = [committed EXCEPT ![k] = o]
         /\ refused' = refused
      \/ /\ m.name \notin DOMAIN jobs
         /\ refused' = refused \cup {<<k, o, life>>}
         /\ handled' = handled /\ committed' = committed
  BY DEF Consume, Registered
<1>. HIDE DEF o, m
<1>6. LogInv'
  BY <1>1 DEF MessageInv, LogInv
<1>7. OffsetInv'
  <2>1. position' \in [TaskKeys -> Nat] /\ committed' \in [TaskKeys -> Nat]
    BY <1>1, <1>2, <1>3, <1>5
  <2>2. ASSUME NEW x \in TaskKeys
        PROVE  committed'[x] <= position'[x] /\ position'[x] <= Len(log[x[2]])
    <3>1. committed[k] <= o
      BY <1>2 DEF o, MessageInv, OffsetInv
    <3>. QED BY <1>1, <1>2, <1>3, <1>5, <3>1 DEF MessageInv, OffsetInv
  <2>3. ASSUME NEW h \in handled'
        PROVE  h[1] \in TaskKeys /\ h[2] \in 1..Len(log[h[1][2]])
    BY <1>3, <1>5 DEF MessageInv, OffsetInv
  <2>4. ASSUME NEW r \in refused'
        PROVE  r[1] \in TaskKeys /\ r[2] \in 1..Len(log[r[1][2]]) /\ r[3] \in 1..life
    BY <1>2, <1>3, <1>5 DEF MessageInv, OffsetInv
  <2>. QED BY <1>1, <2>1, <2>2, <2>3, <2>4 DEF OffsetInv
<1>8. OwnMessagesAccepted'
  <2>1. ASSUME NEW r \in refused' PROVE log[r[1][2]][r[2]].life < r[3]
    <3>1. CASE r \in refused
      BY <3>1 DEF MessageInv, OwnMessagesAccepted
    <3>2. CASE r \notin refused
      <4>1. r = <<k, o, life>> /\ m.name \notin DOMAIN jobs
        BY <1>5, <3>2
      <4>. QED BY <1>2, <1>4, <4>1 DEF m
    <3>. QED BY <3>1, <3>2
  <2>. QED BY <1>1, <2>1 DEF OwnMessagesAccepted
<1>9. PassedInv'
  <2>1. ASSUME NEW x \in TaskKeys, NEW i \in 1..position'[x]
        PROVE  \/ <<x, i>> \in handled'
               \/ \E l \in 1..life : <<x, i, l>> \in refused' /\ log[x[2]][i].life < l
    <3>1. CASE i \in 1..position[x]
      BY <1>5, <3>1 DEF MessageInv, PassedInv
    <3>2. CASE i \notin 1..position[x]
      <4>1. x = k /\ i = o
        BY <1>1, <1>2, <3>2 DEF o
      <4>2. CASE handled' = handled \cup {<<k, o>>}
        BY <4>1, <4>2
      <4>3. CASE m.name \notin DOMAIN jobs /\ refused' = refused \cup {<<k, o, life>>}
        <5>1. life \in Nat /\ life \in 1..life /\ m.life < life
          BY <1>2, <1>4, <4>3, RegistrationAssumption
        <5>. QED BY <4>1, <4>3, <5>1 DEF m
      <4>. QED BY <1>5, <4>2, <4>3
    <3>. QED BY <3>1, <3>2
  <2>. QED BY <1>1, <2>1 DEF PassedInv
<1>. QED BY <1>6, <1>7, <1>8, <1>9 DEF MessageInv

\* A new process starts at the committed offsets; every message is of an
\* earlier one.
LEMMA RestartMessages ==
  ASSUME MessageInv, Restart
  PROVE  MessageInv'
<1>1. /\ life' = life + 1 /\ life' \in 1..MaxLives /\ life \in Nat
      /\ position' = committed /\ UNCHANGED <<log, committed, handled, refused>>
  BY RegistrationAssumption DEF Restart, MessageInv, LogInv
<1>2. LogInv'
  <2>1. ASSUME NEW t \in Topics, NEW i \in 1..Len(log[t])
        PROVE  log[t][i].life <= life + 1 /\ log[t][i].life # life + 1
    <3>1. log[t][i] \in Message
      BY ElementFacts DEF MessageInv, LogInv
    <3>2. log[t][i].life \in Nat
      BY <3>1, RegistrationAssumption DEF Message
    <3>3. log[t][i].life <= life
      BY Zenon DEF MessageInv, LogInv
    <3>. QED BY <1>1, <3>2, <3>3
  <2>. QED BY <1>1, <2>1 DEF MessageInv, LogInv
<1>3. OffsetInv'
  <2>1. ASSUME NEW k \in TaskKeys PROVE committed[k] <= committed[k] /\ committed[k] <= Len(log[k[2]])
    BY TopicOfKey DEF MessageInv, LogInv, OffsetInv
  <2>. QED BY <1>1, <2>1 DEF MessageInv, OffsetInv
<1>4. PassedInv'
  <2>1. ASSUME NEW k \in TaskKeys, NEW o \in 1..committed[k] PROVE o \in 1..position[k]
    BY DEF MessageInv, OffsetInv
  <2>2. 1..life \subseteq 1..(life + 1)
    BY <1>1
  <2>. QED BY <1>1, <2>1, <2>2 DEF MessageInv, PassedInv
<1>. QED BY <1>1, <1>2, <1>3, <1>4 DEF MessageInv, OwnMessagesAccepted

\* A rebalance takes one pair back to its committed offset.
LEMMA RebalanceMessages ==
  ASSUME MessageInv, NEW k, Rebalance(k)
  PROVE  MessageInv'
<1>1. /\ UNCHANGED <<jobs, life, log, committed, handled, refused>>
      /\ position' = [x \in TaskKeys |-> IF x = k THEN committed[x] ELSE position[x]]
  BY DEF Rebalance
<1>2. ASSUME NEW x \in TaskKeys
      PROVE  /\ committed[x] \in Nat /\ position[x] \in Nat /\ committed[x] <= position[x]
             /\ position[x] <= Len(log[x[2]]) /\ Len(log[x[2]]) \in Nat
             /\ position'[x] \in Nat /\ committed[x] <= position'[x] /\ position'[x] <= position[x]
  BY <1>1, TopicOfKey DEF MessageInv, LogInv, OffsetInv
<1>3. OffsetInv'
  <2>1. position' \in [TaskKeys -> Nat]
    BY <1>1, <1>2
  <2>2. \A x \in TaskKeys : committed[x] <= position'[x] /\ position'[x] <= Len(log[x[2]])
    BY <1>2
  <2>. QED BY <1>1, <2>1, <2>2 DEF MessageInv, OffsetInv
<1>4. PassedInv'
  <2>1. ASSUME NEW x \in TaskKeys, NEW o \in 1..position'[x] PROVE o \in 1..position[x]
    BY <1>2
  <2>. QED BY <1>1, <2>1 DEF MessageInv, PassedInv
<1>. QED BY <1>1, <1>3, <1>4 DEF MessageInv, LogInv, OwnMessagesAccepted

-----------------------------------------------------------------------------
(* The registry. *)

\* The jobs on reserved pairs are those of one shared registration each.
LEMMA SharedFrame ==
  ASSUME SharedConsumerExclusive, shared' \subseteq shared,
         \A k \in shared' : UsersOf(k)' = UsersOf(k)
  PROVE  SharedConsumerExclusive'
<1>1. ASSUME NEW k \in shared'
      PROVE  \E q \in SharedConfigs : /\ <<q.group, q.topic>> = k
                                      /\ UsersOf(k)' = {q.jobs[i].name : i \in DOMAIN q.jobs}
  BY DEF SharedConsumerExclusive, UsersOf
<1>. QED BY <1>1 DEF SharedConsumerExclusive, UsersOf

LEMMA RegistryFrame ==
  ASSUME RegistryInv, UNCHANGED <<jobs, consumers, shared, entries, handlers, phase, call>>
  PROVE  RegistryInv'
<1>1. MapInv' /\ HandlerInv'
  BY DEF RegistryInv, MapInv, HandlerInv
<1>2. ASSUME NEW k PROVE UsersOf(k)' = UsersOf(k)
  BY DEF UsersOf
<1>3. SharedConsumerExclusive'
  BY <1>2, SharedFrame DEF RegistryInv
<1>4. PlainInv' /\ ScheduleInv' /\ (\A x : Underway(x)' <=> Underway(x))
  BY DEF RegistryInv, CallInv, PlainInv, ScheduleInv, Underway
<1>5. SharedInv'
  <2>1. ASSUME NEW q, NEW m, SharedCall(q, m) PROVE SharedCall(q, m)'
    BY <1>2, <1>4, <2>1 DEF SharedCall
  <2>. QED BY <2>1 DEF RegistryInv, CallInv, SharedInv
<1>. QED BY <1>1, <1>3, <1>4, <1>5 DEF RegistryInv, CallInv

\* The groups that consumers are started with.
LEMMA ConsumerKeys ==
  ASSUME NEW cfg \in JobConfigs \cup SharedConfigs, NEW k \in ConsumersOf(cfg)
  PROVE  k[1] \in Keys
BY RegistrationAssumption DEF ConsumersOf, Key, RetryKey, Keys

\* The map's jobs keep what they need when nothing is taken away.
LEMMA MapFrame ==
  ASSUME MapInv, jobs' = jobs, entries \subseteq entries',
         phase' # "stopped" => phase # "stopped" /\ consumers \subseteq consumers'
  PROVE  MapInv'
BY DEF MapInv

\* No call is in progress.
LEMMA IdleCall == ASSUME call' = Idle PROVE CallInv'
<1>1. <<>> \in Seq(JobConfig)
  OBVIOUS
<1>. QED BY <1>1 DEF Idle, CallInv, PlainInv, ScheduleInv, SharedInv

\* setupJobInfra starts the consumers of a job that is not in the map.
LEMMA SetupRegistry ==
  ASSUME RegistryInv, NEW cfg \in JobConfigs, NEW pc \in {"manual", "scheduled"},
         Ready, ValidateManual(cfg), Setup(cfg, pc)
  PROVE  RegistryInv'
<1>. DEFINE w == WithDefaults(cfg)
<1>1. /\ Finished(w) /\ w.name = cfg.name /\ Key(w) = Key(cfg)
      /\ ConsumersOf(w) = ConsumersOf(cfg)
  BY PlainConfig
<1>2. /\ cfg.name \notin DOMAIN jobs /\ Key(cfg) \notin shared /\ phase # "stopped"
      /\ consumers' = consumers \cup ConsumersOf(cfg)
      /\ call' = [pc |-> pc, todo |-> <<w>>]
      /\ UNCHANGED <<jobs, shared, entries, handlers, phase>>
  BY DEF Setup, Registered, Admitted, isSharedConsumer, StartConsumers, Ready
<1>. HIDE DEF w
<1>3. <<w>> \in Seq(JobConfig) /\ Len(<<w>>) = 1 /\ <<w>>[1] = w
  BY <1>1 DEF Finished
<1>4. CallInv'
  <2>1. call' \in [pc : {"idle", "manual", "scheduled", "shared", "schedule"}, todo : Seq(JobConfig)]
    BY <1>2, <1>3
  <2>2. call'.pc \in {"manual", "scheduled"} /\ call'.todo = <<w>>
    BY <1>2
  <2>3. Underway(w)'
    BY <1>1, <1>2 DEF Underway
  <2>. QED
    BY <1>2, <1>3, <2>1, <2>2, <2>3 DEF CallInv, PlainInv, ScheduleInv, SharedInv, Underway
<1>5. MapInv'
  BY <1>2, MapFrame DEF RegistryInv
<1>6. \A k \in consumers' \cup shared' : k[1] \in Keys
  BY <1>2, ConsumerKeys DEF RegistryInv
<1>. QED
  BY <1>2, <1>4, <1>5, <1>6, SharedFrame DEF RegistryInv, HandlerInv, UsersOf

\* The insert of a finished configuration whose consumers run and whose
\* completion cron is scheduled.
LEMMA InsertRegistry ==
  ASSUME RegistryInv, NEW cfg, Underway(cfg), Insert(cfg),
         entries \subseteq entries', <<"completion-check", cfg.name>> \in entries',
         UNCHANGED <<consumers, handlers, phase>>
  PROVE  MapInv' /\ HandlerInv'
<1>1. cfg.name \notin DOMAIN jobs /\ Finished(cfg) /\ ConsumersOf(cfg) \subseteq consumers
  BY DEF Underway
<1>2. /\ DOMAIN jobs' = DOMAIN jobs \cup {cfg.name} /\ jobs'[cfg.name] = cfg
      /\ \A n \in DOMAIN jobs : jobs'[n] = jobs[n]
  BY <1>1, InsertFacts
<1>3. MapInv'
  BY <1>1, <1>2 DEF RegistryInv, MapInv, Finished
<1>4. HandlerInv'
  BY <1>2 DEF RegistryInv, HandlerInv
<1>. QED BY <1>3, <1>4

LEMMA InsertJobRegistry == ASSUME RegistryInv, InsertJob PROVE RegistryInv'
<1>. DEFINE cfg == call.todo[1]
<1>1. call.pc \in {"manual", "scheduled"} /\ UNCHANGED <<consumers, shared, handlers, phase>>
  BY DEF InsertJob
<1>2. Underway(cfg) /\ Len(call.todo) = 1 /\ phase # "stopped"
  BY <1>1 DEF RegistryInv, CallInv, PlainInv
<1>3. CASE call' = Idle /\ UNCHANGED <<jobs, entries>>
  BY <1>1, <1>3, IdleCall, MapFrame DEF RegistryInv, HandlerInv, SharedConsumerExclusive
<1>4. CASE /\ Insert(cfg)
           /\ entries' = entries \cup {<<"completion-check", cfg.name>>}
           /\ call' = IF call.pc = "scheduled" THEN [call EXCEPT !.pc = "schedule"] ELSE Idle
  <2>1. /\ Finished(cfg) /\ cfg.name \in Names /\ cfg.name \notin DOMAIN jobs
        /\ Key(cfg) \notin shared
    BY <1>2 DEF Underway, Finished
  <2>2. MapInv' /\ HandlerInv'
    BY <1>1, <1>2, <1>4, InsertRegistry
  <2>3. CallInv'
    <3>1. CASE call' = Idle
      BY <3>1, IdleCall
    <3>2. CASE call' = [call EXCEPT !.pc = "schedule"]
      <4>1. /\ call' \in [pc : {"idle", "manual", "scheduled", "shared", "schedule"},
                          todo : Seq(JobConfig)]
            /\ call'.pc = "schedule" /\ call'.todo = call.todo
        BY <3>2 DEF RegistryInv, CallInv
      <4>. QED
        BY <1>1, <1>2, <2>1, <4>1 DEF CallInv, PlainInv, ScheduleInv, SharedInv
    <3>. QED BY <1>4, <3>1, <3>2
  <2>4. SharedConsumerExclusive'
    <3>1. ASSUME NEW k \in shared PROVE UsersOf(k)' = UsersOf(k)
      BY <1>4, <2>1, InsertFacts
    <3>. QED BY <1>1, <3>1 DEF SharedConsumerExclusive, RegistryInv, UsersOf
  <2>. QED BY <1>1, <1>4, <2>1, <2>2, <2>3, <2>4 DEF RegistryInv
<1>. QED BY <1>3, <1>4 DEF InsertJob

LEMMA AddScheduleRegistry == ASSUME RegistryInv, AddSchedule PROVE RegistryInv'
<1>. DEFINE cfg == call.todo[1]
<1>1. /\ call.pc = "schedule" /\ call' = Idle /\ UNCHANGED <<jobs, consumers, shared, handlers, phase>>
      /\ entries' = entries \/ entries' = entries \cup {<<"run", cfg.name>>}
  BY DEF AddSchedule
<1>2. cfg.name \in Names
  BY <1>1 DEF RegistryInv, CallInv, ScheduleInv, Finished
<1>3. MapInv'
  BY <1>1, MapFrame DEF RegistryInv
<1>. QED
  BY <1>1, <1>2, <1>3, IdleCall, SharedFrame DEF RegistryInv, HandlerInv, UsersOf

\* The entries a shared registration adds are for its own jobs.
LEMMA EntriesFacts ==
  ASSUME NEW q \in SharedConfigs, NEW n \in 0..Len(q.jobs)
  PROVE  /\ EntriesOf(q, n) \subseteq {"run", "completion-check"} \X Names
         /\ \A i \in 1..n : <<"completion-check", q.jobs[i].name>> \in EntriesOf(q, n)
<1>1. q.jobs \in Seq(JobConfig) /\ Len(q.jobs) \in Nat /\ DOMAIN q.jobs = 1..Len(q.jobs)
  BY RegistrationAssumption DEF SharedKafkaConfig
<1>2. ASSUME NEW i \in 1..n PROVE q.jobs[i].name \in Names
  BY <1>1 DEF Names
<1>. QED BY <1>2 DEF EntriesOf

\* RegisterShared starts the consumers of a pair nobody uses.
LEMMA RegisterSharedRegistry ==
  ASSUME RegistryInv, NEW q \in SharedConfigs, RegisterShared(q)
  PROVE  RegistryInv'
<1>1. /\ Ready /\ ValidateShared(q) /\ Unused(q)
      /\ entries' = entries \cup EntriesOf(q, Len(q.jobs))
      /\ consumers' = consumers \cup ConsumersOf(q)
      /\ call' = [pc |-> "shared", todo |-> [i \in DOMAIN q.jobs |-> Prepared(q, i)]]
      /\ UNCHANGED <<jobs, shared, handlers, phase>>
  BY DEF RegisterShared, StartConsumers
<1>2. /\ q.jobs \in Seq(JobConfig) /\ Len(q.jobs) \in Nat /\ Len(q.jobs) >= 2
      /\ DOMAIN q.jobs = 1..Len(q.jobs)
  BY <1>1, RegistrationAssumption DEF SharedKafkaConfig, ValidateShared
<1>3. /\ UsersOf(Pair(q)) = {} /\ Pair(q) \notin shared
      /\ \A i \in 1..Len(q.jobs) : q.jobs[i].name \notin DOMAIN jobs
  BY <1>1, <1>2 DEF Unused, UsersOf, Pair, consumerOwner, isSharedConsumer, Registered
<1>4. ASSUME NEW i \in 1..Len(q.jobs)
      PROVE  /\ Finished(Prepared(q, i)) /\ Prepared(q, i).name = q.jobs[i].name
             /\ Key(Prepared(q, i)) = Pair(q) /\ ConsumersOf(Prepared(q, i)) \subseteq ConsumersOf(q)
  BY <1>1, SharedConfig
<1>5. /\ EntriesOf(q, Len(q.jobs)) \subseteq {"run", "completion-check"} \X Names
      /\ \A i \in 1..Len(q.jobs) : <<"completion-check", q.jobs[i].name>> \in EntriesOf(q, Len(q.jobs))
  BY <1>2, EntriesFacts
<1>. DEFINE todo == [i \in 1..Len(q.jobs) |-> Prepared(q, i)]
<1>6. todo \in Seq(JobConfig) /\ Len(todo) = Len(q.jobs)
  BY <1>2, <1>4 DEF Finished
<1>7. \A i \in 1..Len(q.jobs) : todo[i] = Prepared(q, i)
  OBVIOUS
<1>8. call' = [pc |-> "shared", todo |-> todo]
  BY <1>1, <1>2
<1>. HIDE DEF todo
<1>9. call'.todo = todo /\ call'.pc = "shared"
  BY <1>8
<1>10. SharedCall(q, 0)'
  <2>1. ASSUME NEW i \in 1..Len(todo)
        PROVE  /\ todo[i] = Prepared(q, i + 0) /\ Underway(todo[i])'
               /\ <<"completion-check", todo[i].name>> \in entries'
    <3>1. i \in 1..Len(q.jobs) /\ i + 0 = i /\ todo[i] = Prepared(q, i)
      BY <1>2, <1>6, <1>7
    <3>. QED BY <1>1, <1>3, <1>4, <1>5, <3>1 DEF Underway
  <2>2. Len(todo) = Len(q.jobs) - 0
    BY <1>2, <1>6
  <2>3. UsersOf(Pair(q))' = {q.jobs[i].name : i \in 1..0}
    BY <1>1, <1>3 DEF UsersOf
  <2>. QED BY <1>1, <1>9, <2>1, <2>2, <2>3 DEF SharedCall, Underway
<1>11. CallInv'
  <2>1. 0 \in 0..(Len(q.jobs) - 1)
    BY <1>2
  <2>2. call' \in [pc : {"idle", "manual", "scheduled", "shared", "schedule"}, todo : Seq(JobConfig)]
    BY <1>6, <1>8
  <2>3. phase' # "stopped"
    BY <1>1 DEF Ready
  <2>. QED BY <1>9, <1>10, <2>1, <2>2, <2>3 DEF CallInv, PlainInv, ScheduleInv, SharedInv
<1>12. MapInv'
  BY <1>1, MapFrame DEF RegistryInv
<1>13. \A k \in consumers' \cup shared' : k[1] \in Keys
  BY <1>1, ConsumerKeys DEF RegistryInv
<1>. QED
  BY <1>1, <1>5, <1>11, <1>12, <1>13, SharedFrame DEF RegistryInv, HandlerInv, UsersOf

\* A failed shared registration leaves entries behind and nothing else.
LEMMA SharedFailsRegistry ==
  ASSUME RegistryInv, NEW q \in SharedConfigs, RegisterSharedFails(q)
  PROVE  RegistryInv'
<1>1. /\ q.jobs \in Seq(JobConfig) /\ Len(q.jobs) \in Nat /\ DOMAIN q.jobs = 1..Len(q.jobs)
  BY RegistrationAssumption DEF SharedKafkaConfig
<1>2. PICK i \in 1..Len(q.jobs) :
        entries' = entries \cup EntriesOf(q, i - 1)
            \cup (IF "JobCompletionCron" \in q.jobs[i].bad THEN {}
                  ELSE {<<"completion-check", q.jobs[i].name>>})
  BY <1>1 DEF RegisterSharedFails
<1>3. i - 1 \in 0..Len(q.jobs) /\ q.jobs[i].name \in Names
  BY <1>1 DEF Names
<1>4. entries \subseteq entries' /\ entries' \subseteq {"run", "completion-check"} \X Names
  BY <1>2, <1>3, EntriesFacts DEF RegistryInv
<1>5. call.pc = "idle" /\ UNCHANGED <<jobs, consumers, shared, handlers, phase, call>>
  BY DEF RegisterSharedFails, Ready
<1>6. MapInv'
  BY <1>4, <1>5, MapFrame DEF RegistryInv
<1>7. CallInv'
  BY <1>5 DEF RegistryInv, CallInv, PlainInv, ScheduleInv, SharedInv
<1>. QED
  BY <1>4, <1>5, <1>6, <1>7, SharedFrame DEF RegistryInv, HandlerInv, UsersOf

\* One more job of a shared registration; with the last one the pair is
\* reserved, and its users are the jobs of this call.
LEMMA InsertSharedRegistry == ASSUME RegistryInv, InsertShared PROVE RegistryInv'
<1>. DEFINE cfg == call.todo[1]
<1>1. /\ call.pc = "shared" /\ Insert(cfg)
      /\ UNCHANGED <<consumers, entries, handlers, phase>>
      /\ \/ Len(call.todo) > 1 /\ call' = [call EXCEPT !.todo = Tail(@)] /\ shared' = shared
         \/ Len(call.todo) = 1 /\ call' = Idle /\ shared' = shared \cup {Key(cfg)}
  BY DEF InsertShared
<1>2. PICK q \in SharedConfigs : \E m \in 0..(Len(q.jobs) - 1) : SharedCall(q, m)
  BY <1>1 DEF RegistryInv, CallInv, SharedInv
<1>3. PICK m \in 0..(Len(q.jobs) - 1) : SharedCall(q, m)
  BY <1>2
<1>4. /\ q.jobs \in Seq(JobConfig) /\ Len(q.jobs) \in Nat /\ DOMAIN q.jobs = 1..Len(q.jobs)
      /\ ValidateShared(q) /\ m \in Nat /\ m + 1 \in 1..Len(q.jobs)
  BY <1>3, RegistrationAssumption DEF SharedKafkaConfig, SharedCall
<1>5. /\ call.todo \in Seq(JobConfig) /\ Len(call.todo) \in Nat
      /\ Len(call.todo) = Len(q.jobs) - m /\ phase # "stopped"
  BY <1>1, <1>3 DEF RegistryInv, CallInv, SharedCall
<1>6. ASSUME NEW i \in 1..Len(call.todo)
      PROVE  /\ i + m \in 1..Len(q.jobs) /\ call.todo[i] = Prepared(q, i + m) /\ Underway(call.todo[i])
             /\ call.todo[i].name = q.jobs[i + m].name /\ Key(call.todo[i]) = Pair(q)
             /\ <<"completion-check", call.todo[i].name>> \in entries
  <2>1. i + m \in 1..Len(q.jobs)
    BY <1>4, <1>5
  <2>2. /\ call.todo[i] = Prepared(q, i + m) /\ Underway(call.todo[i])
        /\ <<"completion-check", call.todo[i].name>> \in entries
    BY <1>3 DEF SharedCall
  <2>. QED BY <1>4, <2>1, <2>2, SharedConfig
<1>7. 1 \in 1..Len(call.todo)
  BY <1>4, <1>5
<1>8. /\ Underway(cfg) /\ cfg.name = q.jobs[m + 1].name /\ Key(cfg) = Pair(q)
      /\ <<"completion-check", cfg.name>> \in entries
  <2>1. 1 + m = m + 1
    BY <1>4
  <2>. QED BY <1>6, <1>7, <2>1
<1>9. cfg.name \notin DOMAIN jobs /\ Pair(q) \notin shared
  BY <1>8 DEF Underway
<1>. HIDE DEF cfg
<1>10. MapInv' /\ HandlerInv'
  BY <1>1, <1>8, InsertRegistry
<1>11. /\ UsersOf(Pair(q))' = UsersOf(Pair(q)) \cup {cfg.name}
       /\ \A k : k # Pair(q) => UsersOf(k)' = UsersOf(k)
       /\ DOMAIN jobs' = DOMAIN jobs \cup {cfg.name}
  BY <1>1, <1>8, <1>9, InsertFacts
<1>12. UsersOf(Pair(q))' = {q.jobs[i].name : i \in 1..(m + 1)}
  <2>1. UsersOf(Pair(q)) = {q.jobs[i].name : i \in 1..m}
    BY <1>3 DEF SharedCall
  <2>2. 1..(m + 1) = 1..m \cup {m + 1}
    BY <1>4
  <2>. QED BY <1>8, <1>11, <2>1, <2>2
<1>13. ASSUME NEW i \in 1..Len(q.jobs), NEW k \in 1..Len(q.jobs), q.jobs[i].name = q.jobs[k].name
       PROVE  i = k
  BY <1>4, <1>13 DEF ValidateShared
<1>14. CASE Len(call.todo) > 1 /\ call' = [call EXCEPT !.todo = Tail(@)] /\ shared' = shared
  <2>1. /\ call'.pc = "shared" /\ call'.todo = Tail(call.todo)
        /\ call' \in [pc : {"idle", "manual", "scheduled", "shared", "schedule"}, todo : Seq(JobConfig)]
    <3>1. Tail(call.todo) \in Seq(JobConfig)
      BY <1>5, <1>7
    <3>. QED BY <1>1, <1>14, <3>1 DEF RegistryInv, CallInv
  <2>2. /\ Len(Tail(call.todo)) = Len(call.todo) - 1
        /\ \A i \in 1..Len(Tail(call.todo)) : Tail(call.todo)[i] = call.todo[i + 1]
    BY <1>5, <1>7
  <2>3. ASSUME NEW i \in 1..Len(Tail(call.todo))
        PROVE  /\ Tail(call.todo)[i] = Prepared(q, i + (m + 1))
               /\ Finished(Tail(call.todo)[i]) /\ Tail(call.todo)[i].name \notin DOMAIN jobs'
               /\ Key(Tail(call.todo)[i]) \notin shared'
               /\ ConsumersOf(Tail(call.todo)[i]) \subseteq consumers'
               /\ <<"completion-check", Tail(call.todo)[i].name>> \in entries'
    <3>1. i + 1 \in 1..Len(call.todo) /\ (i + 1) + m = i + (m + 1) /\ i + (m + 1) # m + 1
      BY <1>4, <1>5, <2>2
    <3>2. /\ Tail(call.todo)[i] = Prepared(q, i + (m + 1)) /\ Underway(Tail(call.todo)[i])
          /\ Tail(call.todo)[i].name = q.jobs[i + (m + 1)].name
          /\ i + (m + 1) \in 1..Len(q.jobs)
          /\ <<"completion-check", Tail(call.todo)[i].name>> \in entries
      BY <1>6, <2>2, <3>1
    <3>3. Tail(call.todo)[i].name # cfg.name
      BY <1>4, <1>8, <1>13, <3>1, <3>2
    <3>. QED BY <1>1, <1>11, <1>14, <3>2, <3>3 DEF Underway
  <2>4. SharedCall(q, m + 1)'
    <3>1. Len(Tail(call.todo)) = Len(q.jobs) - (m + 1)
      BY <1>4, <1>5, <2>2
    <3>. QED BY <1>4, <1>12, <2>1, <2>3, <3>1 DEF SharedCall, Underway
  <2>5. m + 1 \in 0..(Len(q.jobs) - 1)
    BY <1>4, <1>5, <1>14
  <2>6. CallInv'
    BY <1>1, <1>5, <2>1, <2>4, <2>5 DEF CallInv, PlainInv, ScheduleInv, SharedInv
  <2>7. SharedConsumerExclusive'
    BY <1>9, <1>11, <1>14, SharedFrame DEF RegistryInv
  <2>. QED BY <1>1, <1>10, <1>14, <2>6, <2>7 DEF RegistryInv
<1>15. CASE Len(call.todo) = 1 /\ call' = Idle /\ shared' = shared \cup {Key(cfg)}
  <2>1. m + 1 = Len(q.jobs)
    <3>1. Len(q.jobs) \in Nat /\ m \in Nat /\ 1 = Len(q.jobs) - m
      BY <1>4, <1>5, <1>15
    <3>. QED BY <3>1
  <2>2. UsersOf(Pair(q))' = {q.jobs[i].name : i \in DOMAIN q.jobs}
    BY <1>4, <1>12, <2>1
  <2>3. ASSUME NEW k \in shared'
        PROVE  \E x \in SharedConfigs : /\ Pair(x) = k
                                        /\ UsersOf(k)' = {x.jobs[i].name : i \in DOMAIN x.jobs}
    <3>1. CASE k = Pair(q)
      BY <2>2, <3>1
    <3>2. CASE k # Pair(q)
      <4>1. k \in shared /\ UsersOf(k)' = UsersOf(k)
        BY <1>8, <1>11, <1>15, <3>2
      <4>2. \E x \in SharedConfigs : /\ Pair(x) = k
                                     /\ UsersOf(k) = {x.jobs[i].name : i \in DOMAIN x.jobs}
        BY <4>1 DEF RegistryInv, SharedConsumerExclusive, UsersOf, Pair
      <4>. QED BY <4>1, <4>2
    <3>. QED BY <3>1, <3>2
  <2>4. SharedConsumerExclusive'
    BY <2>3 DEF SharedConsumerExclusive, UsersOf, Pair
  <2>5. Key(cfg)[1] \in Keys
    BY <1>8 DEF Underway, Finished, Key, Keys
  <2>. QED BY <1>1, <1>10, <1>15, <2>4, <2>5, IdleCall DEF RegistryInv
<1>. QED BY <1>1, <1>14, <1>15

LEMMA StartStopRegistry == ASSUME RegistryInv, Start \/ Stop PROVE RegistryInv'
<1>1. call.pc = "idle" /\ UNCHANGED <<jobs, shared, entries, call>>
  BY DEF Start, Stop
<1>2. CallInv'
  BY <1>1 DEF RegistryInv, CallInv, PlainInv, ScheduleInv, SharedInv
<1>3. SharedConsumerExclusive'
  BY <1>1, SharedFrame DEF RegistryInv, UsersOf
<1>4. CASE Start
  <2>1. /\ phase' = "started" /\ phase # "stopped" /\ consumers' = consumers
        /\ handlers' = {<<"run", n>> : n \in {m \in DOMAIN jobs : "Schedule" \in jobs[m].set}}
                         \cup {<<"completion-check", n>> : n \in DOMAIN jobs}
    BY <1>4 DEF Start
  <2>2. MapInv'
    BY <1>1, <2>1, MapFrame DEF RegistryInv
  <2>3. ASSUME NEW h \in handlers'
        PROVE  /\ h \in {"run", "completion-check"} \X Names /\ h[2] \in DOMAIN jobs
               /\ <<"completion-check", h[2]>> \in handlers'
    <3>1. PICK n \in DOMAIN jobs : h = <<"run", n>> \/ h = <<"completion-check", n>>
      BY <2>1, Zenon
    <3>2. n \in Names
      BY DEF RegistryInv, MapInv
    <3>3. h[2] = n
      BY <3>1
    <3>. QED BY <2>1, <3>1, <3>2, <3>3
  <2>. QED BY <1>1, <1>2, <1>3, <2>1, <2>2, <2>3 DEF RegistryInv, HandlerInv
<1>5. CASE Stop
  <2>1. phase' = "stopped" /\ consumers' = {} /\ handlers' = handlers
    BY <1>5 DEF Stop
  <2>. QED
    BY <1>1, <1>2, <1>3, <2>1, MapFrame DEF RegistryInv, HandlerInv
<1>. QED BY <1>4, <1>5

\* A process that starts, for the first time or again.
LEMMA EmptyRegistry ==
  ASSUME jobs' = << >>, consumers' = {}, shared' = {}, entries' = {}, handlers' = {},
         phase' = "new", call' = Idle
  PROVE  RegistryInv'
<1>1. DOMAIN jobs' = {}
  OBVIOUS
<1>. QED BY <1>1, IdleCall DEF RegistryInv, MapInv, HandlerInv, SharedConsumerExclusive

-----------------------------------------------------------------------------
(* The readers. *)

LEMMA DistinctConfigs == ASSUME NEW x \in JobConfigs PROVE x \notin SharedConfigs
<1>1. x \in JobConfig
  BY RegistrationAssumption
<1>2. ASSUME x \in SharedKafkaConfig PROVE FALSE
  <2>1. "jobs" \in DOMAIN x
    BY <1>2 DEF SharedKafkaConfig
  <2>2. "jobs" \notin DOMAIN x
    BY <1>1 DEF JobConfig
  <2>. QED BY <2>1, <2>2
<1>. QED BY <1>2, RegistrationAssumption

\* Only the pair's one claimant makes readers for it.
LEMMA OnlyClaimant ==
  ASSUME NEW cfg \in JobConfigs \cup SharedConfigs, NEW k \in ConsumersOf(cfg) \cup NewReaders(cfg),
         NEW x, Claimants(k) = {x}
  PROVE  x = cfg
<1>1. k \in ConsumersOf(cfg)
  BY DEF ConsumersOf, NewReaders
<1>. QED BY <1>1 DEF Claimants

LEMMA ReaderKeys ==
  ASSUME NEW cfg \in JobConfigs \cup SharedConfigs, NEW k \in NewReaders(cfg)
  PROVE  k[1] \in Keys
BY RegistrationAssumption DEF NewReaders, Key, RetryKey, Keys

\* No reader is made, and no name is taken back.
LEMMA ReaderFrame ==
  ASSUME ReaderInv, consumers' \subseteq consumers, left' = left, starved' \subseteq left,
         DOMAIN jobs \cup Pending \subseteq (DOMAIN jobs \cup Pending)'
  PROVE  ReaderInv'
BY DEF ReaderInv

\* The readers and consumers of an accepted configuration.
LEMMA ReadersMade ==
  ASSUME ReaderInv, NEW cfg \in JobConfigs \cup SharedConfigs, StartConsumers(cfg), jobs' = jobs,
         Pending = {}, NamesOf(cfg) \cap DOMAIN jobs = {},
         Sound(cfg) => NamesOf(cfg) \cap Pending' # {}
  PROVE  ReaderInv'
<1>1. /\ consumers' = consumers \cup ConsumersOf(cfg)
      /\ left' = left \cup (NewReaders(cfg) \cap consumers) /\ starved' = starved
  BY DEF StartConsumers
<1>2. ASSUME NEW k, NEW x, Claimants(k) = {x}, Sound(x)
      PROVE  /\ k \notin left'
             /\ k \in consumers' => NamesOf(x) \cap (DOMAIN jobs \cup Pending') # {}
  <2>1. CASE k \in ConsumersOf(cfg) \cup NewReaders(cfg)
    <3>1. x = cfg
      BY <1>2, <2>1, OnlyClaimant
    <3>2. k \notin consumers
      BY <1>2, <3>1 DEF ReaderInv
    <3>. QED BY <1>1, <1>2, <3>1, <3>2 DEF ReaderInv
  <2>2. CASE k \notin ConsumersOf(cfg) \cup NewReaders(cfg)
    BY <1>1, <1>2, <2>2 DEF ReaderInv
  <2>. QED BY <2>1, <2>2
<1>3. \A k \in left' : k[1] \in Keys
  BY <1>1, ReaderKeys DEF ReaderInv
<1>. QED BY <1>1, <1>2, <1>3 DEF ReaderInv

LEMMA SetupReaders ==
  ASSUME ReaderInv, NEW cfg \in JobConfigs, NEW pc \in {"manual", "scheduled"},
         Ready, Setup(cfg, pc)
  PROVE  ReaderInv'
<1>. DEFINE w == WithDefaults(cfg)
<1>1. w.name = cfg.name /\ w.bad = cfg.bad
  BY DefaultsFacts, RegistrationAssumption
<1>2. /\ StartConsumers(cfg) /\ jobs' = jobs /\ call.pc = "idle" /\ cfg.name \notin DOMAIN jobs
      /\ call' = [pc |-> pc, todo |-> <<w>>]
  BY DEF Setup, Ready, Registered
<1>. HIDE DEF w
<1>3. call'.pc = pc /\ call'.todo[1] = w
  BY <1>2
<1>4. Pending = {}
  BY <1>2 DEF Pending
<1>5. cfg \notin SharedConfigs /\ NamesOf(cfg) = {cfg.name}
  BY DistinctConfigs DEF NamesOf
<1>6. Sound(cfg) => cfg.name \in Pending'
  BY <1>1, <1>3, <1>5 DEF Sound, Pending
<1>. QED BY <1>2, <1>4, <1>5, <1>6, ReadersMade

LEMMA RegisterSharedReaders ==
  ASSUME ReaderInv, NEW q \in SharedConfigs, RegisterShared(q)
  PROVE  ReaderInv'
<1>1. /\ StartConsumers(q) /\ jobs' = jobs /\ call.pc = "idle" /\ ValidateShared(q)
      /\ \A i \in DOMAIN q.jobs : q.jobs[i].name \notin DOMAIN jobs
      /\ call' = [pc |-> "shared", todo |-> [i \in DOMAIN q.jobs |-> Prepared(q, i)]]
  BY DEF RegisterShared, Ready, Unused, Registered
<1>2. 1 \in 1..Len(q.jobs) /\ DOMAIN q.jobs = 1..Len(q.jobs)
  BY <1>1, RegistrationAssumption DEF SharedKafkaConfig, ValidateShared
<1>3. Prepared(q, 1).name = q.jobs[1].name
  BY <1>1, <1>2, SharedConfig
<1>4. call'.pc = "shared" /\ call'.todo[1] = Prepared(q, 1)
  BY <1>1, <1>2
<1>5. Pending = {} /\ Pending' = {q.jobs[1].name}
  BY <1>1, <1>3, <1>4 DEF Pending
<1>6. NamesOf(q) \cap DOMAIN jobs = {} /\ q.jobs[1].name \in NamesOf(q)
  BY <1>1, <1>2 DEF NamesOf
<1>. QED BY <1>1, <1>5, <1>6, ReadersMade

\* A shared registration that fails leaves readers only on the pairs of a
\* configuration that asynq does not accept.
LEMMA SharedFailsReaders ==
  ASSUME ReaderInv, NEW q \in SharedConfigs, RegisterSharedFails(q)
  PROVE  ReaderInv'
<1>1. /\ left' = left \cup NewReaders(q) /\ UNCHANGED <<jobs, consumers, starved, call>>
      /\ \E i \in DOMAIN q.jobs : ~Parses(q.jobs[i])
  BY DEF RegisterSharedFails
<1>2. ~Sound(q)
  BY <1>1, DistinctConfigs DEF Sound
<1>3. ASSUME NEW k, NEW x, Claimants(k) = {x}, Sound(x) PROVE k \notin left'
  BY <1>1, <1>2, <1>3, OnlyClaimant DEF ReaderInv
<1>4. Pending' = Pending
  BY <1>1 DEF Pending
<1>5. \A k \in left' : k[1] \in Keys
  BY <1>1, ReaderKeys DEF ReaderInv
<1>. QED BY <1>1, <1>3, <1>4, <1>5 DEF ReaderInv

LEMMA InsertReaders == ASSUME ReaderInv, InsertJob \/ InsertShared PROVE ReaderInv'
<1>1. UNCHANGED <<consumers, left, starved>> /\ starved \subseteq left
  BY DEF InsertJob, InsertShared, ReaderInv
<1>2. CASE Insert(call.todo[1])
  BY <1>1, <1>2, ReaderFrame DEF Insert, Pending
<1>3. CASE jobs' = jobs /\ call.pc # "shared" /\ "JobCompletionCron" \in call.todo[1].bad
  <2>1. Pending = {}
    BY <1>3 DEF Pending
  <2>. QED BY <1>1, <1>3, <2>1, ReaderFrame
<1>. QED BY <1>2, <1>3 DEF InsertJob, InsertShared

LEMMA OtherReaders ==
  ASSUME ReaderInv, \/ AddSchedule \/ Start \/ Stop \/ UNCHANGED registryVars \/ \E k \in consumers : Rebalance(k)
  PROVE  ReaderInv'
<1>1. consumers' \subseteq consumers /\ left' = left /\ jobs' = jobs /\ starved' \subseteq left
  BY DEF AddSchedule, Start, Stop, registryVars, Rebalance, ReaderInv
<1>2. Pending \subseteq Pending'
  <2>1. CASE call' = call
    BY <2>1 DEF Pending
  <2>2. CASE call.pc = "schedule"
    BY <2>2 DEF Pending
  <2>. QED BY <2>1, <2>2 DEF AddSchedule, Start, Stop, registryVars, Rebalance
<1>. QED BY <1>1, <1>2, ReaderFrame

-----------------------------------------------------------------------------
LEMMA InitReg == Init => RegInv
<1>. SUFFICES ASSUME Init PROVE RegInv
  OBVIOUS
<1>1. DOMAIN jobs = {} /\ <<>> \in Seq(JobConfig)
  BY DEF Init, Empty
<1>2. CallInv
  BY <1>1 DEF Init, Empty, Idle, CallInv, PlainInv, ScheduleInv, SharedInv
<1>3. RegistryInv
  BY <1>1, <1>2 DEF Init, Empty, RegistryInv, MapInv, HandlerInv, SharedConsumerExclusive
<1>4. LogInv
  <2>1. <<>> \in Seq(Message) /\ Len(<<>>) = 0
    OBVIOUS
  <2>. QED BY <2>1, RegistrationAssumption DEF Init, LogInv
<1>5. OffsetInv
  <2>1. ASSUME NEW k \in TaskKeys PROVE Len(log[k[2]]) = 0
    BY TopicOfKey DEF Init
  <2>. QED BY <2>1 DEF Init, OffsetInv
<1>6. PassedInv
  <2>1. \A k \in TaskKeys : 1..position[k] = {}
    BY DEF Init
  <2>. QED BY <2>1 DEF PassedInv
<1>7. ReaderInv
  BY DEF Init, Empty, ReaderInv
<1>. QED
  BY <1>3, <1>4, <1>5, <1>6, <1>7 DEF Init, RegInv, MessageInv, OwnMessagesAccepted

\* Every step of the registry is a step of the messages' frame, and the
\* other way round.
LEMMA RegInvStep == RegInv /\ [Next]_vars => RegInv'
<1>. SUFFICES ASSUME RegInv, [Next]_vars PROVE RegInv'
  OBVIOUS
<1>0. RegistryInv /\ ReaderInv /\ MessageInv
  BY DEF RegInv
<1>1. ASSUME NEW cfg \in JobConfigs, Register(cfg) \/ RegisterManual(cfg) PROVE RegInv'
  <2>1. \E pc \in {"manual", "scheduled"} : Ready /\ ValidateManual(cfg) /\ Setup(cfg, pc)
    BY <1>1 DEF Register, RegisterManual, Validate
  <2>2. UNCHANGED messageVars /\ jobs' = jobs
    BY <2>1 DEF Setup
  <2>. QED BY <1>0, <2>1, <2>2, SetupRegistry, SetupReaders, MessageFrame DEF RegInv
<1>2. ASSUME NEW q \in SharedConfigs, RegisterShared(q) \/ RegisterSharedFails(q) PROVE RegInv'
  <2>1. UNCHANGED messageVars /\ jobs' = jobs
    BY <1>2 DEF RegisterShared, RegisterSharedFails
  <2>. QED
    BY <1>0, <1>2, <2>1, RegisterSharedRegistry, SharedFailsRegistry, RegisterSharedReaders,
       SharedFailsReaders, MessageFrame DEF RegInv
<1>3. ASSUME InsertJob \/ InsertShared PROVE RegInv'
  <2>1. UNCHANGED messageVars
    BY <1>3 DEF InsertJob, InsertShared
  <2>2. DOMAIN jobs \subseteq DOMAIN jobs'
    BY <1>3 DEF InsertJob, InsertShared, Insert
  <2>. QED
    BY <1>0, <1>3, <2>1, <2>2, InsertJobRegistry, InsertSharedRegistry, InsertReaders,
       MessageFrame DEF RegInv
<1>4. ASSUME AddSchedule \/ Start \/ Stop PROVE RegInv'
  <2>1. UNCHANGED messageVars /\ jobs' = jobs
    BY <1>4 DEF AddSchedule, Start, Stop
  <2>. QED
    BY <1>0, <1>4, <2>1, AddScheduleRegistry, StartStopRegistry, OtherReaders, MessageFrame DEF RegInv
<1>5. ASSUME Restart PROVE RegInv'
  <2>1. ReaderInv'
    BY <1>5 DEF Restart, ReaderInv
  <2>. QED BY <1>0, <1>5, <2>1, EmptyRegistry, RestartMessages DEF Restart, RegInv
<1>6. ASSUME NEW n \in Names, Trigger(n) PROVE RegInv'
  BY <1>0, <1>6, RegistryFrame, OtherReaders, TriggerMessages DEF Trigger, registryVars, RegInv
<1>7. ASSUME NEW k \in TaskKeys, Consume(k) PROVE RegInv'
  BY <1>0, <1>7, RegistryFrame, OtherReaders, ConsumeMessages DEF Consume, registryVars, RegInv
<1>8. ASSUME UNCHANGED vars PROVE RegInv'
  <2>1. UNCHANGED registryVars /\ UNCHANGED messageVars /\ jobs' = jobs
    BY <1>8 DEF vars, registryVars
  <2>. QED BY <1>0, <2>1, RegistryFrame, OtherReaders, MessageFrame DEF registryVars, RegInv
<1>9. ASSUME NEW k \in consumers, Rebalance(k) PROVE RegInv'
  <2>1. RegistryInv'
    BY <1>0, <1>9, RegistryFrame DEF Rebalance
  <2>. QED BY <1>0, <1>9, <2>1, OtherReaders, RebalanceMessages DEF RegInv
<1>. QED BY <1>1, <1>2, <1>3, <1>4, <1>5, <1>6, <1>7, <1>8, <1>9 DEF Next

LEMMA RegInvariant == Spec => []RegInv
BY InitReg, RegInvStep, PTL DEF Spec

\* Registry, asynq entries, topics and offsets stay well-typed: in particular
\* every job in the map has its retry budget defaulted, and every recorded
\* offset is that of a published message.
THEOREM RegistrationTypeCorrect == Spec => []TypeOK
<1>1. RegInv => TypeOK
  <2>. SUFFICES ASSUME RegInv PROVE TypeOK
    OBVIOUS
  <2>1. DOMAIN jobs \subseteq Names /\ \A n \in DOMAIN jobs : jobs[n].maxRetries \in Nat \ {0}
    BY DEF RegInv, RegistryInv, MapInv, Finished, JobConfig
  <2>2. \A t \in Topics : log[t] \in Seq([name : Names, life : 1..MaxLives])
    BY DEF RegInv, MessageInv, LogInv, Message
  <2>. QED BY <2>1, <2>2 DEF RegInv, RegistryInv, CallInv, ReaderInv, MessageInv, LogInv, OffsetInv, TypeOK
<1>. QED BY RegInvariant, <1>1, PTL

\* Whatever Register, RegisterManual and RegisterShared did before, accepted
\* or refused, every job in the map has running consumers, a completion cron
\* and both executors, every job with an asynq handler has the handler of its
\* completion cron, and no reader without a consumer holds the partition of a
\* pair that one accepted configuration names and no other.
THEOREM RegisteredJobsRunHolds == Spec => []RegisteredJobsRun
<1>1. ASSUME RegInv PROVE RegisteredJobsRun
  <2>1. ASSUME NEW k, Uncontested(k) PROVE k \notin starved
    <3>1. PICK x : Claimants(k) = {x} /\ Sound(x)
      BY <2>1 DEF Uncontested, Sound
    <3>. QED BY <1>1, <3>1 DEF RegInv, ReaderInv
  <2>. QED BY <1>1, <2>1 DEF RegInv, RegistryInv, MapInv, HandlerInv, Finished, RegisteredJobsRun
<1>. QED BY RegInvariant, <1>1, PTL

\* A (group, topic) pair reserved by RegisterShared is used by the jobs of
\* that call and by no other, although the pair is reserved only after the
\* last insert.
THEOREM SharedConsumerExclusiveHolds == Spec => []SharedConsumerExclusive
<1>1. RegInv => SharedConsumerExclusive
  BY DEF RegInv, RegistryInv
<1>. QED BY RegInvariant, <1>1, PTL

\* executeTask never refuses a message of a run this process started: the
\* jobs map is inserted into before Trigger can publish, and never shrinks.
THEOREM OwnMessagesAcceptedHolds == Spec => []OwnMessagesAccepted
<1>1. RegInv => OwnMessagesAccepted
  BY DEF RegInv, MessageInv
<1>. QED BY RegInvariant, <1>1, PTL

\* What a commit covers without its having been executed is a leftover of an
\* earlier process that a later one refused, through restarts and rebalances.
THEOREM OnlyLeftoversPassedOverHolds == Spec => []OnlyLeftoversPassedOver
<1>1. ASSUME RegInv PROVE OnlyLeftoversPassedOver
  <2>1. ASSUME NEW k \in TaskKeys, NEW o \in 1..committed[k] PROVE o \in 1..position[k]
    BY <1>1 DEF RegInv, MessageInv, OffsetInv
  <2>. QED BY <1>1, <2>1 DEF RegInv, MessageInv, PassedInv, OnlyLeftoversPassedOver
<1>. QED BY RegInvariant, <1>1, PTL

=============================================================================
