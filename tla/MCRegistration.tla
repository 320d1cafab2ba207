--------------------------- MODULE MCRegistration ---------------------------
(* Instances of Registration for TLC. *)
EXTENDS Registration

LOCAL Full == {"Name", "JobExecutor", "TaskExecutor", "Brokers", "TaskTopic", "ConsumerGroup", "JobCompletionCron"}
LOCAL All == Full \cup {"TaskRetryTopic", "Schedule"}
LOCAL Config(name, fields, bad, topic, retryTopic) ==
  [name |-> name, set |-> fields, bad |-> bad, maxRetries |-> 0, group |-> "g",
   topic |-> topic, retryTopic |-> retryTopic]

\* Jobs that share a group: on one pair or on pairs of their own, with a retry
\* topic or none, a reader that the caller brings, cron expressions that do not
\* parse, a field that is missing.
MCJobConfigs ==
  {Config("a", Full, {}, "t", "none"),
   Config("b", All, {"Schedule"}, "t", "tr"),
   Config("b", Full, {"JobCompletionCron"}, "t", "none"),
   Config("c", All \cup {"RetryReader"}, {}, "v", "vr"),
   Config("d", All \ {"JobCompletionCron"}, {}, "u", "none")}

LOCAL Part(name, fields, bad) ==
  [Config(name, fields, bad, "none", "none") EXCEPT !.group = "none"]
LOCAL Bare == {"Name", "JobExecutor", "JobCompletionCron"}

LOCAL Share(parts, topic, retryTopic) ==
  [jobs |-> parts, set |-> {"Brokers", "TaskTopic", "TaskRetryTopic", "ConsumerGroup", "TaskExecutor"},
   group |-> "g", topic |-> topic, retryTopic |-> retryTopic]

MCSharedConfigs ==
  {Share(<<Part("a", Bare, {}), Part("d", Bare \cup {"Schedule"}, {})>>, "t", "tr"),
   Share(<<Part("c", Bare, {}), Part("d", Bare \cup {"Schedule"}, {"Schedule"})>>, "u", "ur"),
   Share(<<Part("b", Bare, {}), Part("b", Bare, {})>>, "u", "ur"),
   Share(<<Part("b", Bare, {}), Part("d", Bare \cup {"TaskExecutor"}, {})>>, "u", "ur")}

MCRetryGroup == [g \in {"g"} |-> "g-retry"]
=============================================================================
