------------------------------ MODULE Delivery ------------------------------
(***************************************************************************)
(* What KafkaService (shared/kafka/kafka.service.js) makes of a message:   *)
(* one partition of a topic, its consumer, the retry topics, the consumer  *)
(* that sends their messages back, and the dead-letter topic.  Kafka keeps *)
(* the order and the committed offsets; both consumers commit by hand.     *)
(* An offset is the index of a message in its topic.                       *)
(***************************************************************************)
EXTENDS Integers, Sequences

CONSTANTS Messages,  \* what may be sent
          Levels,    \* number of retry topics (4 in the code)
          Faults,    \* bound of the broker's failures and the restarts
          MaxLog     \* bound of the topic's length; Redrive may not reach it

ASSUME LevelsAssumption == Levels \in Nat
ASSUME FaultsAssumption == Faults \in Nat
ASSUME MaxLogAssumption == MaxLog \in Nat

VARIABLES
  topic,    \* the topic: messages with their x-retry-attempt
  next,     \* offset the consumer handles next
  commit,   \* the group's committed offset, 0 without one
  step,     \* what the consumer is doing with the message at next
  retry,    \* the retry topics
  rnext,    \* for each the offset to be sent back next,
  rread,    \* the one the client counts as not resolved yet,
  rcommit,  \* and the committed one, 0 without one
  dead,     \* messages in the dead-letter topic
  done,     \* history: messages the handler has handled
  missed,   \* history: messages whose way on failed
  faults    \* failures so far

log == <<topic, next, commit, step>>
retries == <<retry, rnext, rread, rcommit>>
delivery == <<log, retries, dead, done, missed, faults>>

Level == 1..Levels
Entry == [m : Messages, n : 0..Levels]
Fault == faults < Faults /\ faults' = faults + 1

DeliveryTypeOK ==
  /\ topic \in Seq(Entry)
  /\ next \in 1..Len(topic) + 1
  /\ commit \in 0..Len(topic) + 1
  /\ step \in {"idle", "commit", "forward", "pass"}
  /\ step # "idle" => next <= Len(topic)
  /\ retry \in [Level -> Seq(Messages)]
  /\ rnext \in [Level -> Nat] /\ rread \in [Level -> Nat]
  /\ rcommit \in [Level -> Nat]
  /\ \A l \in Level : /\ 1 <= rread[l] /\ rread[l] <= rnext[l]
                      /\ rnext[l] <= Len(retry[l]) + 1
                      /\ rcommit[l] <= Len(retry[l]) + 1
  /\ dead \subseteq Messages /\ done \subseteq Messages
  /\ missed \subseteq Messages
  /\ faults \in 0..Faults

DeliveryInit ==
  /\ topic = <<>> /\ next = 1 /\ commit = 0 /\ step = "idle"
  /\ retry = [l \in Level |-> <<>>]
  /\ rnext = [l \in Level |-> 1] /\ rread = [l \in Level |-> 1]
  /\ rcommit = [l \in Level |-> 0]
  /\ dead = {} /\ done = {} /\ missed = {} /\ faults = 0

From(seq, first) == {seq[o] : o \in first..Len(seq)}
InTopic(first) == {e.m : e \in From(topic, first)}
Sent == InTopic(1)
Current == topic[next]

\* createTopicSender: the message is in the topic when this returns.
Send(m) ==
  /\ topic' = Append(topic, [m |-> m, n |-> 0])
  /\ UNCHANGED <<next, commit, step, retries, dead, done, missed, faults>>
-----------------------------------------------------------------------------
\* createConsumer.  The handler returns or throws.
HandleOk ==
  /\ step = "idle" /\ next <= Len(topic)
  /\ step' = "commit"
  /\ done' = done \cup {Current.m}
  /\ UNCHANGED <<topic, next, commit, retries, dead, missed, faults>>

HandleFail ==
  /\ step = "idle" /\ next <= Len(topic)
  /\ step' = "forward"
  /\ UNCHANGED <<topic, next, commit, retries, dead, done, missed, faults>>

\* A commit that fails counts as the handler's failure.
Commit ==
  /\ step = "commit"
  /\ \/ /\ commit' = next + 1 /\ next' = next + 1 /\ step' = "idle"
        /\ UNCHANGED faults
     \/ Fault /\ step' = "forward" /\ UNCHANGED <<next, commit>>
  /\ UNCHANGED <<topic, retries, dead, done, missed>>

\* publishToNextTopic
Forward ==
  /\ step = "forward"
  /\ step' = "pass"
  /\ IF Current.n < Levels
       THEN /\ retry' = [retry EXCEPT ![Current.n + 1] = Append(@, Current.m)]
            /\ UNCHANGED dead
       ELSE dead' = dead \cup {Current.m} /\ UNCHANGED retry
  /\ UNCHANGED <<topic, next, commit, rnext, rread, rcommit, done, missed, faults>>

\* The publication failed: the offset is not committed "to avoid loss", but
\* the consumer goes on behind it, and so does its next commit.
ForwardFails ==
  /\ step = "forward"
  /\ Fault
  /\ missed' = missed \cup {Current.m}
  /\ next' = next + 1 /\ step' = "idle"
  /\ UNCHANGED <<topic, commit, retries, dead, done>>

\* A commit that fails here is only logged.
Pass ==
  /\ step = "pass"
  /\ commit' \in {commit, next + 1}
  /\ next' = next + 1 /\ step' = "idle"
  /\ UNCHANGED <<topic, retries, dead, done, missed, faults>>

\* The process dies or the group rebalances: back to the committed offset.
\* Without one the group starts at the end, for fromBeginning is FALSE.
Restart ==
  /\ Fault
  /\ step' = "idle"
  /\ IF commit = 0
       THEN next' = Len(topic) + 1 /\ missed' = missed \cup InTopic(next)
       ELSE next' = commit /\ UNCHANGED missed
  /\ UNCHANGED <<topic, commit, retries, dead, done>>
-----------------------------------------------------------------------------
\* What a later message resolves along with itself.
Behind(l) == {retry[l][o] : o \in rread[l]..rnext[l] - 1}

\* createGlobalRetryHandlerConsumer, after the delay: the message goes back
\* to its topic and is resolved, and with it whatever comes before it, even
\* if that could not be sent back.  commitOffsetsIfNecessary may think a
\* commit unnecessary, and may fail.
Redrive(l) ==
  /\ rnext[l] <= Len(retry[l])
  /\ Len(topic) < MaxLog
  /\ topic' = Append(topic, [m |-> retry[l][rnext[l]], n |-> l])
  /\ missed' = missed \cup Behind(l)
  /\ rnext' = [rnext EXCEPT ![l] = @ + 1]
  /\ rread' = [rread EXCEPT ![l] = rnext[l] + 1]
  /\ rcommit' \in {rcommit, [rcommit EXCEPT ![l] = rnext[l] + 1]}
  /\ UNCHANGED <<next, commit, step, retry, dead, done, faults>>

\* Mutant: resolved whether it could be sent or not.
RedriveAnyway(l) ==
  /\ rnext[l] <= Len(retry[l])
  /\ Fault
  /\ rnext' = [rnext EXCEPT ![l] = @ + 1]
  /\ rread' = [rread EXCEPT ![l] = rnext[l] + 1]
  /\ UNCHANGED <<log, retry, rcommit, dead, done, missed>>

RedriveFails(l) ==
  /\ rnext[l] <= Len(retry[l])
  /\ Fault
  /\ rnext' = [rnext EXCEPT ![l] = @ + 1]
  /\ UNCHANGED <<log, retry, rread, rcommit, dead, done, missed>>

\* Mutant: the next batch begins behind it.
NewBatchBehind(l) == rread[l] < rnext[l] /\ UNCHANGED delivery

\* The next batch begins with what is not resolved.
NewBatch(l) ==
  /\ rread[l] < rnext[l]
  /\ rnext' = [rnext EXCEPT ![l] = rread[l]]
  /\ UNCHANGED <<log, retry, rread, rcommit, dead, done, missed, faults>>

RetryRestart ==
  LET start == [l \in Level |-> IF rcommit[l] = 0 THEN Len(retry[l]) + 1
                                                  ELSE rcommit[l]]
  IN /\ Fault
     /\ rnext' = start /\ rread' = start
     /\ missed' = missed \cup
          UNION {From(retry[l], rread[l]) : l \in {k \in Level : rcommit[k] = 0}}
     /\ UNCHANGED <<log, retry, rcommit, dead, done>>

Deliver ==
  \/ Commit \/ Forward \/ ForwardFails \/ Pass \/ Restart \/ RetryRestart
  \/ \E l \in Level : Redrive(l) \/ RedriveFails(l) \/ NewBatch(l)

DeliverySpec ==
  DeliveryInit /\ [][\/ Deliver \/ HandleOk \/ HandleFail
                     \/ \E m \in Messages : Send(m)]_delivery

\* Both consumers run as long as there are messages.
DeliveryFairness ==
  /\ WF_delivery(HandleOk \/ HandleFail \/ Commit \/ Forward \/ Pass)
  /\ \A l \in Level : WF_delivery(Redrive(l)) /\ WF_delivery(NewBatch(l))
-----------------------------------------------------------------------------
Ended == done \cup dead \cup missed
Ahead == InTopic(next) \cup UNION {From(retry[l], rread[l]) : l \in Level}

\* A message that was sent is handled, dead, still ahead of a consumer, or
\* its way on failed, wherever the consumers were interrupted
\* (kafka.service.js:212).
NoneForgotten == Sent \subseteq Ended \cup Ahead

\* Every message ends, in a handler or among the dead, although failing ones
\* come back again and again (kafka.service.js:248).
AllEnd == []<>(Sent \subseteq Ended)
=============================================================================
