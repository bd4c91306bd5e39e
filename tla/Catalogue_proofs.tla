-------------------------- MODULE Catalogue_proofs --------------------------
(***************************************************************************)
(* Theorems about Delivery and Catalogue, for every number of messages,    *)
(* retry topics, requests and ticket types, and however often the broker   *)
(* fails.                                                                  *)
(***************************************************************************)
EXTENDS Catalogue, TLAPS

-----------------------------------------------------------------------------
(***************************************************************************)
(* Delivery.  The committed offsets are behind the ones the consumers have *)
(* come to; the message a consumer commits has been handled, and the one   *)
(* it passes over has gone on, unless its way on failed since.             *)
(***************************************************************************)
Waiting == UNION {From(retry[l], rread[l]) : l \in Level}
Lost == dead \cup missed

CommittedBehind == commit <= next /\ \A l \in Level : rcommit[l] <= rread[l]
CommitsHandled == step = "commit" => Current.m \in done
PassesForwarded == step = "pass" => Current.m \in Lost \cup InTopic(next + 1) \cup Waiting

\* Whatever is anywhere has been sent, and was the first time without a retry.
AllSent == /\ done \cup dead \cup missed \subseteq Sent
           /\ \A l \in Level : \A o \in 1..Len(retry[l]) : retry[l][o] \in Sent
FirstTries == \A m \in Sent : \E o \in 1..Len(topic) : topic[o].m = m /\ topic[o].n = 0

DeliveryInv == /\ DeliveryTypeOK /\ CommittedBehind /\ CommitsHandled /\ PassesForwarded
               /\ AllSent /\ FirstTries /\ NoneForgotten

LEMMA InTopicIs ==
  ASSUME NEW first, NEW m
  PROVE  m \in InTopic(first) <=> \E o \in first..Len(topic) : topic[o].m = m
BY DEF InTopic, From

LEMMA WaitingIs ==
  ASSUME NEW m
  PROVE  m \in Waiting <=> \E l \in Level : \E o \in rread[l]..Len(retry[l]) : retry[l][o] = m
BY DEF Waiting, From

LEMMA AheadIs == Ahead = InTopic(next) \cup Waiting
BY DEF Ahead, Waiting

LEMMA DeliveryStarts == DeliveryInit => DeliveryInv
<1> SUFFICES ASSUME DeliveryInit PROVE DeliveryInv
  OBVIOUS
<1>1. Sent = {}
  BY DEF DeliveryInit, Sent, InTopic, From
<1>2. DeliveryTypeOK
  BY LevelsAssumption, FaultsAssumption DEF DeliveryInit, DeliveryTypeOK, Level
<1>3. CommittedBehind /\ CommitsHandled /\ PassesForwarded
  BY DEF DeliveryInit, CommittedBehind, CommitsHandled, PassesForwarded
<1>4. AllSent /\ FirstTries
  BY <1>1 DEF DeliveryInit, AllSent, FirstTries
<1>5. NoneForgotten
  BY <1>1 DEF NoneForgotten
<1> QED
  BY <1>2, <1>3, <1>4, <1>5 DEF DeliveryInv

\* The topic gets a message.
LEMMA TopicGrows ==
  ASSUME DeliveryTypeOK, NEW e \in Entry, topic' = Append(topic, e)
  PROVE  /\ topic' \in Seq(Entry) /\ Len(topic') = Len(topic) + 1
         /\ \A o \in 1..Len(topic) : topic'[o] = topic[o]
         /\ topic'[Len(topic) + 1] = e
         /\ \A first \in 1..Len(topic) + 1 : InTopic(first)' = InTopic(first) \cup {e.m}
         /\ Sent' = Sent \cup {e.m}
<1>1. /\ topic' \in Seq(Entry) /\ Len(topic') = Len(topic) + 1 /\ Len(topic) \in Nat
      /\ \A o \in 1..Len(topic) : topic'[o] = topic[o]
      /\ topic'[Len(topic) + 1] = e
  BY DEF DeliveryTypeOK
<1>2. ASSUME NEW first \in 1..Len(topic) + 1 PROVE InTopic(first)' = InTopic(first) \cup {e.m}
  <2>1. ASSUME NEW x
        PROVE  (\E o \in first..Len(topic) + 1 : topic'[o].m = x)
                 <=> x = e.m \/ \E o \in first..Len(topic) : topic[o].m = x
    BY <1>1
  <2>2. \A x : x \in InTopic(first)' <=> \E o \in first..Len(topic) + 1 : topic'[o].m = x
    BY <1>1 DEF InTopic, From
  <2>3. \A x : x \in InTopic(first) <=> \E o \in first..Len(topic) : topic[o].m = x
    BY DEF InTopic, From
  <2> QED
    BY <2>1, <2>2, <2>3
<1>3. 1 \in 1..Len(topic) + 1
  BY <1>1
<1> QED
  BY <1>1, <1>2, <1>3 DEF Sent

\* What the invariant needs of a step that moves nothing in the retry topics.
LEMMA SendStep ==
  ASSUME DeliveryInv, NEW m \in Messages, Send(m)
  PROVE  DeliveryInv'
<1>1. PICK e \in Entry : e = [m |-> m, n |-> 0] /\ e.m = m /\ e.n = 0
  <2>1. [m |-> m, n |-> 0] \in Entry
    BY LevelsAssumption DEF Entry
  <2> QED
    BY <2>1
<1>2. /\ topic' = Append(topic, e)
      /\ UNCHANGED <<next, commit, step, retry, rnext, rread, rcommit, dead, done, missed, faults>>
  BY <1>1 DEF Send, retries
<1>3. DeliveryTypeOK
  BY DEF DeliveryInv
<1>4. /\ topic' \in Seq(Entry) /\ Len(topic') = Len(topic) + 1
      /\ \A o \in 1..Len(topic) : topic'[o] = topic[o]
      /\ topic'[Len(topic) + 1] = e
      /\ \A first \in 1..Len(topic) + 1 : InTopic(first)' = InTopic(first) \cup {e.m}
      /\ Sent' = Sent \cup {e.m}
  BY <1>2, <1>3, TopicGrows
<1>5. DeliveryTypeOK'
  BY <1>2, <1>3, <1>4 DEF DeliveryTypeOK
<1>6. step # "idle" => Current' = Current /\ next + 1 \in 1..Len(topic) + 1
  BY <1>2, <1>3, <1>4 DEF Current, DeliveryTypeOK
<1>7. Waiting' = Waiting /\ Lost' = Lost
  BY <1>2 DEF Waiting, From, Lost
<1>8. CommittedBehind' /\ CommitsHandled' /\ PassesForwarded'
  BY <1>2, <1>4, <1>6, <1>7 DEF DeliveryInv, CommittedBehind, CommitsHandled, PassesForwarded
<1>9. AllSent'
  BY <1>2, <1>4 DEF DeliveryInv, AllSent
<1>10. FirstTries'
  <2>1. ASSUME NEW s \in Sent' PROVE \E o \in 1..Len(topic') : topic'[o].m = s /\ topic'[o].n = 0
    BY SMTT(60), <1>1, <1>3, <1>4, <2>1 DEF DeliveryInv, FirstTries, DeliveryTypeOK
  <2> QED
    BY <2>1 DEF FirstTries
<1>11. NoneForgotten'
  <2>1. Ahead' = Ahead \cup {m}
    <3>1. InTopic(next)' = InTopic(next) \cup {m}
      BY <1>1, <1>2, <1>3, <1>4 DEF DeliveryTypeOK
    <3> QED
      BY <1>7, <3>1 DEF Ahead, Waiting
  <2> QED
    BY <1>1, <1>2, <1>4, <2>1 DEF DeliveryInv, NoneForgotten, Ended
<1> QED
  BY <1>5, <1>8, <1>9, <1>10, <1>11 DEF DeliveryInv

\* A message ahead of a consumer stays ahead of one, or is lost, or its handling
\* is being committed.
AheadKept == \A m \in Ahead : m \in Ahead' \cup Lost' \/ (step = "commit" /\ m = Current.m)

LEMMA NoneForgottenKept ==
  ASSUME DeliveryInv, AheadKept, Sent' = Sent,
         done \subseteq done', dead \subseteq dead', missed \subseteq missed'
  PROVE  NoneForgotten'
BY DEF DeliveryInv, NoneForgotten, AheadKept, Ended, Lost, CommitsHandled

\* The messages of the topic from the next one on, without that one.
LEMMA NextMoves ==
  ASSUME DeliveryTypeOK, next <= Len(topic)
  PROVE  /\ InTopic(next) = InTopic(next + 1) \cup {Current.m}
         /\ Current \in Entry /\ Current.m \in Messages /\ Current.n \in 0..Levels
         /\ Current.m \in Sent
<1>1. next \in 1..Len(topic) /\ Len(topic) \in Nat /\ topic \in Seq(Entry)
  BY DEF DeliveryTypeOK
<1>2. Current \in Entry /\ Current.m \in Messages /\ Current.n \in 0..Levels
  <2>1. Current \in Entry
    BY <1>1 DEF Current
  <2> QED
    BY <2>1 DEF Entry
<1>3. ASSUME NEW x
      PROVE  (\E o \in next..Len(topic) : topic[o].m = x)
               <=> x = Current.m \/ \E o \in next + 1..Len(topic) : topic[o].m = x
  BY <1>1 DEF Current
<1>4. InTopic(next) = InTopic(next + 1) \cup {Current.m}
  BY <1>3, InTopicIs
<1>5. Current.m \in Sent
  BY <1>1, InTopicIs DEF Current, Sent
<1> QED
  BY <1>2, <1>4, <1>5

LEMMA EarlierFirst ==
  ASSUME DeliveryTypeOK, NEW i \in Nat, NEW j \in Nat, i <= j
  PROVE  InTopic(j) \subseteq InTopic(i)
<1>1. Len(topic) \in Nat
  BY DEF DeliveryTypeOK
<1>2. i..Len(topic) \in SUBSET Int /\ j..Len(topic) \subseteq i..Len(topic)
  BY <1>1
<1> QED
  BY <1>2 DEF InTopic, From

LEMMA SentAreMessages == DeliveryTypeOK => Sent \subseteq Messages
<1> SUFFICES ASSUME DeliveryTypeOK, NEW x \in Sent PROVE x \in Messages
  OBVIOUS
<1>1. PICK o \in 1..Len(topic) : topic[o].m = x
  BY InTopicIs DEF Sent
<1>2. topic[o] \in Entry
  BY DEF DeliveryTypeOK
<1> QED
  BY <1>1, <1>2 DEF Entry

\* The consumer moves on or its step changes; nothing else does.
LEMMA HandleStep ==
  ASSUME DeliveryInv, HandleOk \/ HandleFail
  PROVE  DeliveryInv' /\ AheadKept /\ Sent' = Sent
<1>1. /\ UNCHANGED <<topic, next, commit, retry, rnext, rread, rcommit, dead, missed, faults>>
      /\ step = "idle" /\ next <= Len(topic)
      /\ \/ step' = "commit" /\ done' = done \cup {Current.m}
         \/ step' = "forward" /\ done' = done
  BY DEF HandleOk, HandleFail, retries
<1>2. DeliveryTypeOK /\ Current' = Current /\ Sent' = Sent
  BY <1>1 DEF DeliveryInv, Current, Sent, InTopic, From
<1>3. Current.m \in Messages /\ Current.m \in Sent
  BY <1>1, <1>2, NextMoves
<1>4. DeliveryTypeOK'
  BY <1>1, <1>2, <1>3 DEF DeliveryTypeOK
<1>5. CommittedBehind' /\ CommitsHandled' /\ PassesForwarded'
  BY <1>1, <1>2 DEF DeliveryInv, CommittedBehind, CommitsHandled, PassesForwarded
<1>6. AllSent' /\ FirstTries'
  BY <1>1, <1>2, <1>3 DEF DeliveryInv, AllSent, FirstTries
<1>7. AheadKept
  BY <1>1 DEF AheadKept, Ahead, InTopic, From
<1> QED
  BY <1>1, <1>2, <1>4, <1>5, <1>6, <1>7, NoneForgottenKept DEF DeliveryInv

LEMMA CommitStep ==
  ASSUME DeliveryInv, Commit
  PROVE  DeliveryInv' /\ AheadKept /\ Sent' = Sent
<1>1. /\ UNCHANGED <<topic, retry, rnext, rread, rcommit, dead, done, missed>>
      /\ step = "commit" /\ next <= Len(topic)
      /\ \/ commit' = next + 1 /\ next' = next + 1 /\ step' = "idle" /\ faults' = faults
         \/ /\ step' = "forward" /\ UNCHANGED <<next, commit>>
            /\ faults < Faults /\ faults' = faults + 1
  BY DEF Commit, retries, Fault, DeliveryInv, DeliveryTypeOK
<1>2. DeliveryTypeOK /\ Sent' = Sent /\ Waiting' = Waiting
  BY <1>1 DEF DeliveryInv, Sent, InTopic, From, Waiting
<1>3. DeliveryTypeOK'
  BY <1>1, <1>2, FaultsAssumption DEF DeliveryTypeOK
<1>4. CommittedBehind' /\ CommitsHandled' /\ PassesForwarded'
  BY <1>1, <1>2 DEF DeliveryInv, CommittedBehind, CommitsHandled, PassesForwarded, DeliveryTypeOK
<1>5. AllSent' /\ FirstTries'
  BY <1>1, <1>2 DEF DeliveryInv, AllSent, FirstTries
<1>6. AheadKept
  <2>1. InTopic(next) = InTopic(next + 1) \cup {Current.m}
    BY <1>1, <1>2, NextMoves
  <2>2. InTopic(next)' \in {InTopic(next), InTopic(next + 1)}
    BY <1>1 DEF InTopic, From
  <2> QED
    BY <1>1, <1>2, <2>1, <2>2, AheadIs DEF AheadKept, Ahead, Waiting
<1> QED
  BY <1>1, <1>2, <1>3, <1>4, <1>5, <1>6, NoneForgottenKept DEF DeliveryInv

LEMMA PassStep ==
  ASSUME DeliveryInv, Pass \/ ForwardFails
  PROVE  DeliveryInv' /\ AheadKept /\ Sent' = Sent
<1>1. /\ UNCHANGED <<topic, retry, rnext, rread, rcommit, dead, done>>
      /\ next <= Len(topic) /\ next' = next + 1 /\ step' = "idle"
      /\ \/ step = "pass" /\ commit' \in {commit, next + 1} /\ UNCHANGED <<missed, faults>>
         \/ /\ commit' = commit /\ missed' = missed \cup {Current.m}
            /\ faults < Faults /\ faults' = faults + 1
  BY DEF Pass, ForwardFails, retries, Fault, DeliveryInv, DeliveryTypeOK
<1>2. DeliveryTypeOK /\ Sent' = Sent /\ Waiting' = Waiting
  BY <1>1 DEF DeliveryInv, Sent, InTopic, From, Waiting
<1>3. /\ InTopic(next) = InTopic(next + 1) \cup {Current.m}
      /\ Current.m \in Messages /\ Current.m \in Sent
  BY <1>1, <1>2, NextMoves
<1>4. DeliveryTypeOK'
  BY <1>1, <1>2, <1>3, FaultsAssumption DEF DeliveryTypeOK
<1>5. CommittedBehind' /\ CommitsHandled' /\ PassesForwarded'
  BY <1>1, <1>2 DEF DeliveryInv, CommittedBehind, CommitsHandled, PassesForwarded, DeliveryTypeOK
<1>6. AllSent' /\ FirstTries'
  BY <1>1, <1>2, <1>3 DEF DeliveryInv, AllSent, FirstTries
<1>7. AheadKept
  <2>1. InTopic(next)' = InTopic(next + 1)
    BY <1>1 DEF InTopic, From
  <2>2. Current.m \in Lost' \cup InTopic(next + 1) \cup Waiting
    BY <1>1 DEF DeliveryInv, PassesForwarded, Lost
  <2>3. Ahead' = InTopic(next + 1) \cup Waiting
    BY <1>2, <2>1 DEF Ahead, Waiting
  <2> QED
    BY <1>3, <2>2, <2>3, AheadIs DEF AheadKept
<1> QED
  BY <1>1, <1>2, <1>4, <1>5, <1>6, <1>7, NoneForgottenKept DEF DeliveryInv

LEMMA ForwardStep ==
  ASSUME DeliveryInv, Forward
  PROVE  DeliveryInv' /\ AheadKept /\ Sent' = Sent
<1>1. /\ UNCHANGED <<topic, next, commit, rnext, rread, rcommit, done, missed, faults>>
      /\ step = "forward" /\ step' = "pass" /\ next <= Len(topic)
      /\ \/ /\ Current.n < Levels /\ dead' = dead
            /\ retry' = [retry EXCEPT ![Current.n + 1] = Append(@, Current.m)]
         \/ retry' = retry /\ dead' = dead \cup {Current.m}
  BY DEF Forward, DeliveryInv, DeliveryTypeOK
<1>2. /\ DeliveryTypeOK /\ Sent' = Sent /\ Current' = Current
      /\ \A first : InTopic(first)' = InTopic(first)
  BY <1>1 DEF DeliveryInv, Sent, InTopic, From, Current
<1>3. /\ Current.m \in Messages /\ Current.m \in Sent /\ Current.n \in 0..Levels
      /\ Current.n < Levels => Current.n + 1 \in Level
  BY <1>1, <1>2, NextMoves, LevelsAssumption DEF Level
<1>4. /\ retry' \in [Level -> Seq(Messages)]
      /\ \A l \in Level : /\ Len(retry[l]) \in Nat /\ Len(retry'[l]) \in Nat
                          /\ Len(retry[l]) <= Len(retry'[l])
                          /\ \A o \in 1..Len(retry[l]) : retry'[l][o] = retry[l][o]
                          /\ \A o \in 1..Len(retry'[l]) :
                               o \in 1..Len(retry[l]) \/ retry'[l][o] = Current.m
  <2>1. CASE retry' = retry
    BY <1>2, <2>1 DEF DeliveryTypeOK
  <2>2. CASE Current.n < Levels /\ retry' = [retry EXCEPT ![Current.n + 1] = Append(@, Current.m)]
    <3>1. PICK k \in Level, m \in Messages : k = Current.n + 1 /\ m = Current.m
      BY <1>3, <2>2
    <3>2. retry' = [retry EXCEPT ![k] = Append(@, m)] /\ retry \in [Level -> Seq(Messages)]
      BY <1>2, <2>2, <3>1 DEF DeliveryTypeOK
    <3>3. retry' \in [Level -> Seq(Messages)]
      BY <3>2
    <3>4. ASSUME NEW l \in Level
          PROVE  /\ Len(retry[l]) \in Nat /\ Len(retry'[l]) \in Nat
                 /\ Len(retry[l]) <= Len(retry'[l])
                 /\ \A o \in 1..Len(retry[l]) : retry'[l][o] = retry[l][o]
                 /\ \A o \in 1..Len(retry'[l]) :
                      o \in 1..Len(retry[l]) \/ retry'[l][o] = m
      <4>1. CASE l = k
        <5>1. retry'[l] = Append(retry[l], m) /\ retry[l] \in Seq(Messages)
          BY <3>2, <4>1
        <5> QED
          BY ONLY <5>1, m \in Messages
      <4>2. CASE l # k
        <5>1. retry'[l] = retry[l] /\ retry[l] \in Seq(Messages)
          BY <3>2, <4>2
        <5> QED
          BY ONLY <5>1
      <4> QED
        BY <4>1, <4>2
    <3> QED
      BY <3>1, <3>3, <3>4
  <2> QED
    BY <1>1, <2>1, <2>2
<1>5. DeliveryTypeOK'
  <2>1. /\ UNCHANGED <<topic, next, commit, rnext, rread, rcommit, done, missed, faults>>
        /\ step' = "pass" /\ next <= Len(topic) /\ dead' \subseteq Messages
    BY <1>1, <1>2, <1>3 DEF DeliveryTypeOK
  <2>2. \A l \in Level : /\ 1 <= rread[l] /\ rread[l] <= rnext[l]
                         /\ rnext[l] \in Nat /\ rcommit[l] \in Nat
                         /\ rnext[l] <= Len(retry'[l]) + 1 /\ rcommit[l] <= Len(retry'[l]) + 1
    BY <1>2, <1>4 DEF DeliveryTypeOK
  <2> QED
    BY <1>2, <1>4, <2>1, <2>2 DEF DeliveryTypeOK
<1>6. Waiting \subseteq Waiting'
  <2>1. ASSUME NEW l \in Level, NEW o \in rread[l]..Len(retry[l])
        PROVE  o \in rread'[l]..Len(retry'[l]) /\ retry'[l][o] = retry[l][o]
    <3>1. rread[l] \in Nat /\ 1 <= rread[l] /\ rread' = rread
      BY <1>1, <1>2 DEF DeliveryTypeOK
    <3> QED
      BY ONLY <1>4, <3>1, o \in rread[l]..Len(retry[l]), l \in Level
  <2>2. ASSUME NEW x \in Waiting PROVE x \in Waiting'
    <3>1. PICK l \in Level : \E o \in rread[l]..Len(retry[l]) : retry[l][o] = x
      BY WaitingIs
    <3> QED
      BY <2>1, <3>1 DEF Waiting, From
  <2> QED
    BY <2>2
<1>7. Current.m \in Lost' \/ Current.m \in Waiting'
  <2>1. CASE dead' = dead \cup {Current.m}
    BY <2>1 DEF Lost
  <2>2. CASE /\ Current.n < Levels
             /\ retry' = [retry EXCEPT ![Current.n + 1] = Append(@, Current.m)]
    <3>1. PICK l \in Level : l = Current.n + 1
      BY <1>3, <2>2
    <3>2. PICK o \in rread'[l]..Len(retry'[l]) : retry'[l][o] = Current.m
      <4>1. /\ retry[l] \in Seq(Messages) /\ retry'[l] = Append(retry[l], Current.m)
            /\ rread'[l] \in Nat /\ rread'[l] <= Len(retry[l]) + 1
        BY SMTT(60), <1>1, <1>2, <2>2, <3>1 DEF DeliveryTypeOK
      <4> QED
        BY ONLY SMTT(60), <4>1, <1>3
    <3> QED
      BY <3>2 DEF Waiting, From
  <2> QED
    BY <1>1, <2>1, <2>2
<1>8. CommittedBehind' /\ CommitsHandled' /\ PassesForwarded'
  BY <1>1, <1>2, <1>7 DEF DeliveryInv, CommittedBehind, CommitsHandled, PassesForwarded
<1>9. AllSent' /\ FirstTries'
  <2>1. ASSUME NEW l \in Level, NEW o \in 1..Len(retry'[l]) PROVE retry'[l][o] \in Sent
    BY <1>3, <1>4 DEF DeliveryInv, AllSent
  <2> QED
    BY <1>1, <1>2, <1>3, <2>1 DEF DeliveryInv, AllSent, FirstTries
<1>10. AheadKept
  <2>1. Ahead' = InTopic(next) \cup Waiting'
    BY <1>1, <1>2 DEF Ahead, Waiting
  <2> QED
    BY <1>6, <2>1, AheadIs DEF AheadKept
<1>11. done \subseteq done' /\ dead \subseteq dead' /\ missed \subseteq missed'
  BY <1>1
<1> QED
  BY <1>2, <1>5, <1>8, <1>9, <1>10, <1>11, NoneForgottenKept DEF DeliveryInv

LEMMA RestartStep ==
  ASSUME DeliveryInv, Restart
  PROVE  DeliveryInv' /\ AheadKept /\ Sent' = Sent
<1>1. /\ UNCHANGED <<topic, commit, retry, rnext, rread, rcommit, dead, done>>
      /\ step' = "idle" /\ faults < Faults /\ faults' = faults + 1
      /\ \/ commit = 0 /\ next' = Len(topic) + 1 /\ missed' = missed \cup InTopic(next)
         \/ commit # 0 /\ next' = commit /\ missed' = missed
  BY DEF Restart, retries, Fault
<1>2. DeliveryTypeOK /\ Sent' = Sent /\ Waiting' = Waiting
  BY <1>1 DEF DeliveryInv, Sent, InTopic, From, Waiting
<1>3. InTopic(next) \subseteq Sent
  BY <1>2, EarlierFirst DEF Sent, DeliveryTypeOK
<1>4. Sent \subseteq Messages
  BY <1>2, SentAreMessages
<1>5. DeliveryTypeOK'
  BY <1>1, <1>2, <1>3, <1>4, FaultsAssumption DEF DeliveryInv, CommittedBehind, DeliveryTypeOK
<1>6. CommittedBehind' /\ CommitsHandled' /\ PassesForwarded'
  BY <1>1, <1>2 DEF DeliveryInv, CommittedBehind, CommitsHandled, PassesForwarded, DeliveryTypeOK
<1>7. AllSent' /\ FirstTries'
  BY <1>1, <1>2, <1>3 DEF DeliveryInv, AllSent, FirstTries
<1>8. AheadKept
  <2>1. CASE commit = 0
    BY <1>1, <1>2, <2>1, AheadIs DEF AheadKept, Lost, Ahead, Waiting
  <2>2. CASE commit # 0
    <3>1. InTopic(next)' = InTopic(commit)
      BY <1>1, <2>2 DEF InTopic, From
    <3>2. InTopic(next) \subseteq InTopic(commit)
      BY <1>2, EarlierFirst DEF DeliveryInv, CommittedBehind, DeliveryTypeOK
    <3> QED
      BY <1>2, <3>1, <3>2, AheadIs DEF AheadKept, Ahead, Waiting
  <2> QED
    BY <2>1, <2>2
<1> QED
  BY <1>1, <1>2, <1>5, <1>6, <1>7, <1>8, NoneForgottenKept DEF DeliveryInv

LEMMA RetryRestartStep ==
  ASSUME DeliveryInv, RetryRestart
  PROVE  DeliveryInv' /\ AheadKept /\ Sent' = Sent
<1> DEFINE start == [l \in Level |-> IF rcommit[l] = 0 THEN Len(retry[l]) + 1 ELSE rcommit[l]]
           unread == UNION {From(retry[l], rread[l]) : l \in {k \in Level : rcommit[k] = 0}}
<1>1. /\ UNCHANGED <<topic, next, commit, step, retry, rcommit, dead, done>>
      /\ rnext' = start /\ rread' = start /\ missed' = missed \cup unread
      /\ faults < Faults /\ faults' = faults + 1
  BY DEF RetryRestart, log, Fault
<1>2. /\ DeliveryTypeOK /\ Sent' = Sent /\ Current' = Current
      /\ \A first : InTopic(first)' = InTopic(first)
  BY <1>1 DEF DeliveryInv, Sent, InTopic, From, Current
<1>3. ASSUME NEW l \in Level
      PROVE  /\ start[l] \in Nat /\ 1 <= start[l] /\ start[l] <= Len(retry[l]) + 1
             /\ rcommit[l] <= start[l]
             /\ rcommit[l] = 0 \/ start[l] <= rread[l]
  BY <1>2 DEF DeliveryInv, CommittedBehind, DeliveryTypeOK
<1>4. unread \subseteq Waiting /\ Waiting \subseteq Sent
  <2>1. unread \subseteq Waiting
    BY DEF Waiting
  <2>2. ASSUME NEW l \in Level, NEW o \in rread[l]..Len(retry[l]) PROVE retry[l][o] \in Sent
    BY <1>2 DEF DeliveryInv, AllSent, DeliveryTypeOK
  <2> QED
    BY <2>1, <2>2, WaitingIs
<1>5. Sent \subseteq Messages
  BY <1>2, SentAreMessages
<1>6. DeliveryTypeOK'
  <2>1. start \in [Level -> Nat] /\ missed' \subseteq Messages
    BY <1>1, <1>2, <1>3, <1>4, <1>5 DEF DeliveryTypeOK
  <2> HIDE DEF start, unread
  <2> QED
    BY <1>1, <1>2, <1>3, <2>1, FaultsAssumption DEF DeliveryTypeOK
<1>7. Waiting \subseteq Waiting' \cup unread
  <2>1. ASSUME NEW l \in Level, NEW o \in rread[l]..Len(retry[l])
        PROVE  retry[l][o] \in unread \/ o \in rread'[l]..Len(retry'[l])
    <3>1. CASE rcommit[l] = 0
      BY <3>1 DEF From
    <3>2. CASE rcommit[l] # 0
      BY <1>1, <1>2, <1>3, <3>2 DEF DeliveryTypeOK
    <3> QED
      BY <3>1, <3>2
  <2>2. ASSUME NEW x \in Waiting PROVE x \in Waiting' \cup unread
    <3>1. PICK l \in Level : \E o \in rread[l]..Len(retry[l]) : retry[l][o] = x
      BY WaitingIs
    <3> HIDE DEF start, unread
    <3> QED
      BY <1>1, <2>1, <3>1 DEF Waiting, From
  <2> QED
    BY <2>2
<1> HIDE DEF start, unread
<1>8. CommittedBehind' /\ CommitsHandled' /\ PassesForwarded'
  BY <1>1, <1>2, <1>3, <1>7 DEF DeliveryInv, CommittedBehind, CommitsHandled, PassesForwarded, Lost
<1>9. AllSent' /\ FirstTries'
  BY <1>1, <1>2, <1>4 DEF DeliveryInv, AllSent, FirstTries
<1>10. AheadKept
  <2>1. Ahead' = InTopic(next) \cup Waiting'
    BY <1>1, <1>2 DEF Ahead, Waiting
  <2> QED
    BY <1>1, <1>7, <2>1, AheadIs DEF AheadKept, Lost
<1>11. done \subseteq done' /\ dead \subseteq dead' /\ missed \subseteq missed'
  BY <1>1
<1> QED
  BY <1>2, <1>6, <1>8, <1>9, <1>10, <1>11, NoneForgottenKept DEF DeliveryInv

LEMMA RedriveStep ==
  ASSUME DeliveryInv, NEW l \in Level, Redrive(l)
  PROVE  DeliveryInv' /\ AheadKept /\ Sent' = Sent
<1>1. PICK i \in Nat : i = rnext[l] /\ 1 <= rread[l] /\ rread[l] <= i /\ rread[l] \in Nat
  BY DEF DeliveryInv, DeliveryTypeOK
<1>2. DeliveryTypeOK /\ i \in 1..Len(retry[l]) /\ retry[l] \in Seq(Messages)
  BY SMTT(60), <1>1 DEF DeliveryInv, DeliveryTypeOK, Redrive
<1>3. PICK m \in Messages : m = retry[l][i]
  BY <1>2
<1>4. PICK e \in Entry : e = [m |-> m, n |-> l] /\ e.m = m
  <2>1. [m |-> m, n |-> l] \in Entry
    BY LevelsAssumption DEF Entry, Level
  <2> QED
    BY <2>1
<1>5. /\ topic' = Append(topic, e) /\ missed' = missed \cup Behind(l)
      /\ rnext' = [rnext EXCEPT ![l] = i + 1] /\ rread' = [rread EXCEPT ![l] = i + 1]
      /\ rcommit' \in {rcommit, [rcommit EXCEPT ![l] = i + 1]}
      /\ UNCHANGED <<next, commit, step, retry, dead, done, faults>>
  BY <1>1, <1>3, <1>4 DEF Redrive
<1>6. /\ topic' \in Seq(Entry) /\ Len(topic') = Len(topic) + 1 /\ Len(topic) \in Nat
      /\ \A o \in 1..Len(topic) : topic'[o] = topic[o]
      /\ \A first \in 1..Len(topic) + 1 : InTopic(first)' = InTopic(first) \cup {m}
      /\ Sent' = Sent \cup {m}
  <2>1. /\ topic' \in Seq(Entry) /\ Len(topic') = Len(topic) + 1
        /\ \A o \in 1..Len(topic) : topic'[o] = topic[o]
        /\ topic'[Len(topic) + 1] = e
        /\ \A first \in 1..Len(topic) + 1 : InTopic(first)' = InTopic(first) \cup {e.m}
        /\ Sent' = Sent \cup {e.m}
    BY <1>2, <1>5, TopicGrows
  <2> QED
    BY <1>2, <1>4, <2>1 DEF DeliveryTypeOK
<1>7. m \in Sent
  BY <1>2, <1>3 DEF DeliveryInv, AllSent
<1>8. Sent' = Sent
  BY <1>6, <1>7
<1>9. Behind(l) \subseteq Waiting /\ Behind(l) \subseteq Sent
  <2>1. ASSUME NEW o \in rread[l]..i - 1
        PROVE  retry[l][o] \in Sent /\ o \in rread[l]..Len(retry[l])
    BY <1>1, <1>2 DEF DeliveryInv, AllSent
  <2>2. ASSUME NEW x \in Behind(l) PROVE x \in Sent /\ x \in Waiting
    <3>1. PICK o \in rread[l]..i - 1 : x = retry[l][o]
      BY <1>1 DEF Behind
    <3> QED
      BY <2>1, <3>1, WaitingIs
  <2> QED
    BY <2>2
<1>10. Behind(l) \subseteq Messages
  BY <1>2, <1>9, SentAreMessages
<1>11. ASSUME NEW k \in Level
       PROVE  /\ rnext'[k] \in Nat /\ rread'[k] \in Nat /\ rcommit'[k] \in Nat
              /\ 1 <= rread'[k] /\ rread'[k] <= rnext'[k]
              /\ rnext'[k] <= Len(retry[k]) + 1 /\ rcommit'[k] <= Len(retry[k]) + 1
              /\ rcommit'[k] <= rread'[k]
              /\ k # l => rread'[k] = rread[k]
  <2>1. /\ rnext[k] \in Nat /\ rread[k] \in Nat /\ rcommit[k] \in Nat /\ Len(retry[k]) \in Nat
        /\ 1 <= rread[k] /\ rread[k] <= rnext[k] /\ rcommit[k] <= rread[k]
        /\ rnext[k] <= Len(retry[k]) + 1 /\ rcommit[k] <= Len(retry[k]) + 1
    BY <1>2 DEF DeliveryInv, DeliveryTypeOK, CommittedBehind
  <2>2. /\ rnext'[k] = IF k = l THEN i + 1 ELSE rnext[k]
        /\ rread'[k] = IF k = l THEN i + 1 ELSE rread[k]
        /\ rcommit'[k] = rcommit[k] \/ (k = l /\ rcommit'[k] = i + 1)
    <3>1. PICK j \in Nat : j = i + 1
      BY <1>1
    <3>2. rnext \in [Level -> Nat] /\ rread \in [Level -> Nat] /\ rcommit \in [Level -> Nat]
      BY <1>2 DEF DeliveryTypeOK
    <3>3. /\ [rnext EXCEPT ![l] = j][k] = IF k = l THEN j ELSE rnext[k]
          /\ [rread EXCEPT ![l] = j][k] = IF k = l THEN j ELSE rread[k]
          /\ [rcommit EXCEPT ![l] = j][k] = IF k = l THEN j ELSE rcommit[k]
      BY ONLY <3>2, k \in Level
    <3>4. rnext' = [rnext EXCEPT ![l] = j] /\ rread' = [rread EXCEPT ![l] = j]
      BY Zenon, <1>5, <3>1
    <3>5. rcommit' = rcommit \/ rcommit' = [rcommit EXCEPT ![l] = j]
      BY Zenon, <1>5, <3>1
    <3>6. rnext'[k] = IF k = l THEN j ELSE rnext[k]
      BY Zenon, <3>3, <3>4
    <3>7. rread'[k] = IF k = l THEN j ELSE rread[k]
      BY Zenon, <3>3, <3>4
    <3>8. rcommit'[k] = rcommit[k] \/ (k = l /\ rcommit'[k] = j)
      <4>1. \/ [rcommit EXCEPT ![l] = j][k] = rcommit[k]
            \/ k = l /\ [rcommit EXCEPT ![l] = j][k] = j
        BY <3>3
      <4>2. CASE rcommit' = rcommit
        BY Zenon, <4>2
      <4>3. CASE rcommit' = [rcommit EXCEPT ![l] = j]
        BY Zenon, <4>1, <4>3
      <4> QED
        BY Zenon, <3>5, <4>2, <4>3
    <3> QED
      BY <3>1, <3>6, <3>7, <3>8
  <2>3. i + 1 <= Len(retry[l]) + 1 /\ (k = l => rcommit[k] <= i + 1)
    BY SMTT(60), <1>1, <1>2, <2>1
  <2> QED
    BY <1>1, <2>1, <2>2, <2>3
<1>12. DeliveryTypeOK'
  <2>1. /\ rnext' \in [Level -> Nat] /\ rread' \in [Level -> Nat] /\ rcommit' \in [Level -> Nat]
    <3>1. rnext \in [Level -> Nat] /\ rread \in [Level -> Nat] /\ rcommit \in [Level -> Nat]
      BY <1>2 DEF DeliveryTypeOK
    <3>2. PICK j \in Nat : j = i + 1
      BY <1>1
    <3>3. /\ [rnext EXCEPT ![l] = j] \in [Level -> Nat]
          /\ [rread EXCEPT ![l] = j] \in [Level -> Nat]
          /\ [rcommit EXCEPT ![l] = j] \in [Level -> Nat]
      BY ONLY <3>1, j \in Nat, l \in Level
    <3> QED
      BY <1>5, <3>1, <3>2, <3>3
  <2>2. missed' \subseteq Messages
    BY <1>2, <1>5, <1>10 DEF DeliveryTypeOK
  <2>3. /\ next' \in 1..Len(topic') + 1 /\ commit' \in 0..Len(topic') + 1
        /\ step' # "idle" => next' <= Len(topic')
    BY <1>2, <1>5, <1>6 DEF DeliveryTypeOK
  <2> QED
    BY SMTT(60), <1>2, <1>5, <1>6, <1>11, <2>1, <2>2, <2>3 DEF DeliveryTypeOK
<1>13. Waiting \subseteq Waiting' \cup Behind(l) \cup {m}
  <2>1. ASSUME NEW k \in Level, NEW o \in rread[k]..Len(retry[k])
        PROVE  retry[k][o] \in Behind(l) \cup {m} \/ o \in rread'[k]..Len(retry'[k])
    <3>1. CASE k # l
      BY <1>5, <1>11, <3>1
    <3>2. CASE k = l
      <4>1. o <= i - 1 \/ o = i \/ o \in i + 1..Len(retry[k])
        BY <1>1, <1>2, <3>2
      <4>2. o <= i - 1 => retry[k][o] \in Behind(l)
        BY <1>1, <3>2 DEF Behind
      <4>3. rread'[k] = i + 1
        BY <1>2, <1>5, <3>2 DEF DeliveryTypeOK
      <4> QED
        BY <1>3, <1>5, <3>2, <4>1, <4>2, <4>3
    <3> QED
      BY <3>1, <3>2
  <2>2. ASSUME NEW x \in Waiting PROVE x \in Waiting' \cup Behind(l) \cup {m}
    <3>1. PICK k \in Level : \E o \in rread[k]..Len(retry[k]) : retry[k][o] = x
      BY WaitingIs
    <3> QED
      BY <1>5, <2>1, <3>1 DEF Waiting, From
  <2> QED
    BY <2>2
<1>14. InTopic(next)' = InTopic(next) \cup {m}
  BY <1>2, <1>5, <1>6 DEF DeliveryTypeOK
<1>15. CommittedBehind' /\ CommitsHandled' /\ PassesForwarded'
  <2>1. CommittedBehind'
    BY <1>5, <1>11 DEF DeliveryInv, CommittedBehind
  <2>2. step # "idle" => Current' = Current /\ next + 1 \in 1..Len(topic) + 1
    BY <1>2, <1>5, <1>6 DEF Current, DeliveryTypeOK
  <2>3. step = "pass" => InTopic(next + 1)' = InTopic(next + 1) \cup {m}
    BY <1>5, <1>6, <2>2
  <2> QED
    BY <1>5, <1>13, <2>1, <2>2, <2>3
    DEF DeliveryInv, CommitsHandled, PassesForwarded, Lost
<1>16. AllSent' /\ FirstTries'
  <2>1. AllSent'
    BY <1>5, <1>8, <1>9 DEF DeliveryInv, AllSent
  <2>2. ASSUME NEW s \in Sent PROVE \E o \in 1..Len(topic') : topic'[o].m = s /\ topic'[o].n = 0
    BY <1>6, <2>2 DEF DeliveryInv, FirstTries
  <2> QED
    BY <1>8, <2>1, <2>2 DEF FirstTries
<1>17. AheadKept
  <2>1. Ahead' = InTopic(next) \cup {m} \cup Waiting'
    BY <1>5, <1>14 DEF Ahead, Waiting
  <2> QED
    BY <1>5, <1>13, <2>1, AheadIs DEF AheadKept, Lost
<1>18. done \subseteq done' /\ dead \subseteq dead' /\ missed \subseteq missed'
  BY <1>5
<1> QED
  BY <1>8, <1>12, <1>15, <1>16, <1>17, <1>18, NoneForgottenKept DEF DeliveryInv

\* Only what is to be sent back next changes.
LEMMA SkipStep ==
  ASSUME DeliveryInv, NEW l \in Level, RedriveFails(l) \/ NewBatch(l)
  PROVE  DeliveryInv' /\ AheadKept /\ Sent' = Sent
<1>1. /\ UNCHANGED <<topic, next, commit, step, retry, rread, rcommit, dead, done, missed>>
      /\ \/ /\ rnext' = [rnext EXCEPT ![l] = @ + 1] /\ rnext[l] <= Len(retry[l])
            /\ faults < Faults /\ faults' = faults + 1
         \/ rnext' = [rnext EXCEPT ![l] = rread[l]] /\ rread[l] < rnext[l] /\ faults' = faults
  BY DEF RedriveFails, NewBatch, log, Fault
<1>2. /\ DeliveryTypeOK /\ Sent' = Sent /\ Waiting' = Waiting /\ Current' = Current
      /\ \A first : InTopic(first)' = InTopic(first)
  BY <1>1 DEF DeliveryInv, Sent, InTopic, From, Waiting, Current
<1>3. DeliveryTypeOK'
  <2>1. PICK j \in Nat : /\ rnext' = [rnext EXCEPT ![l] = j]
                         /\ rread[l] <= j /\ j <= Len(retry[l]) + 1
    <3>1. /\ rnext[l] \in Nat /\ rread[l] \in Nat /\ Len(retry[l]) \in Nat
          /\ rread[l] <= rnext[l] /\ rnext[l] <= Len(retry[l]) + 1
      BY <1>2 DEF DeliveryTypeOK
    <3> QED
      BY <1>1, <3>1
  <2>2. /\ rnext \in [Level -> Nat]
        /\ \A k \in Level : /\ 1 <= rread[k] /\ rread[k] <= rnext[k]
                            /\ rnext[k] <= Len(retry[k]) + 1 /\ rcommit[k] <= Len(retry[k]) + 1
    BY <1>2 DEF DeliveryTypeOK
  <2>3. rnext' \in [Level -> Nat]
    BY ONLY <2>1, <2>2, j \in Nat, l \in Level
  <2>4. \A k \in Level : /\ 1 <= rread[k] /\ rread[k] <= rnext'[k]
                         /\ rnext'[k] <= Len(retry[k]) + 1 /\ rcommit[k] <= Len(retry[k]) + 1
    BY <2>1, <2>2
  <2> QED
    BY SMTT(60), <1>1, <1>2, <2>3, <2>4, FaultsAssumption DEF DeliveryTypeOK
<1>4. CommittedBehind' /\ CommitsHandled' /\ PassesForwarded'
  BY <1>1, <1>2 DEF DeliveryInv, CommittedBehind, CommitsHandled, PassesForwarded, Lost
<1>5. AllSent' /\ FirstTries'
  BY <1>1, <1>2 DEF DeliveryInv, AllSent, FirstTries
<1>6. AheadKept
  BY <1>1, <1>2, AheadIs DEF AheadKept, Ahead, Waiting
<1> QED
  BY <1>1, <1>2, <1>3, <1>4, <1>5, <1>6, NoneForgottenKept DEF DeliveryInv

LEMMA DeliverStep ==
  ASSUME DeliveryInv, Deliver
  PROVE  DeliveryInv' /\ AheadKept /\ Sent' = Sent
BY CommitStep, ForwardStep, PassStep, RestartStep, RetryRestartStep, RedriveStep, SkipStep
DEF Deliver

LEMMA DeliveryStutters ==
  ASSUME DeliveryInv, UNCHANGED delivery
  PROVE  DeliveryInv'
<1>1. UNCHANGED <<topic, next, commit, step, retry, rnext, rread, rcommit, dead, done, missed, faults>>
  BY DEF delivery, log, retries
<1>2. /\ Sent' = Sent /\ Waiting' = Waiting /\ Current' = Current /\ Ahead' = Ahead
      /\ \A first : InTopic(first)' = InTopic(first)
  BY <1>1 DEF Sent, InTopic, From, Waiting, Current, Ahead
<1> QED
  BY <1>1, <1>2
  DEF DeliveryInv, DeliveryTypeOK, CommittedBehind, CommitsHandled, PassesForwarded,
      AllSent, FirstTries, NoneForgotten, Lost, Ended

\* A message that was sent is handled, dead, ahead of a consumer or known to
\* have failed on its way, for every number of messages, retry topics, faults
\* and restarts (kafka.service.js:212).
THEOREM NothingIsForgotten == DeliverySpec => []NoneForgotten
<1>1. DeliveryInit => DeliveryInv
  BY DeliveryStarts
<1>2. DeliveryInv /\ [\/ Deliver \/ HandleOk \/ HandleFail
                      \/ \E m \in Messages : Send(m)]_delivery => DeliveryInv'
  BY DeliverStep, HandleStep, SendStep, DeliveryStutters
<1>3. DeliveryInv => NoneForgotten
  BY DEF DeliveryInv
<1> QED
  BY <1>1, <1>2, <1>3, PTL DEF DeliverySpec

-----------------------------------------------------------------------------
(***************************************************************************)
(* Catalogue.  Outside of the lock there are creations only, of types that *)
(* nobody else can know of yet.  So at most one write of a type is still   *)
(* to be announced and it is the last one, announcements are sent in the   *)
(* order of the writes, and a snapshot is what the last of the messages    *)
(* that were handled in that order says: everything newer is still ahead.  *)
(***************************************************************************)
Request == [op : Ops \cup {"none", "publish"}, at : Steps,
            t : Types \cup {NoOne}, v : 0..MaxWrites]
Document == [v : 0..MaxWrites, here : BOOLEAN, published : BOOLEAN]
History == [raced : SUBSET Types, unsent : SUBSET Types,
            overtaken : SUBSET Types, free : SUBSET Types, kept : BOOLEAN]

RequestFits(q) ==
  /\ q.at = "idle" => q = Nothing
  /\ q.at = "add" => q.op = "create" /\ q.t = NoOne
  /\ q.at \in {"lock", "write"} =>
       /\ q.op \in {"update", "delete", "publish"} /\ q.v = 0
       /\ q.op # "publish" => q.t \in Types
  /\ q.v = 0 \/ (q.at \in {"drop", "send"} /\ q.op \in Ops /\ q.t \in Types)
  /\ q.at \in {"drop", "send"} => q.v # 0 \/ (q.op = "publish" /\ q.at = "drop")
RequestsFit == \A r \in Requests : RequestFits(req[r])

NeedsLock(q) == q.at \in {"write", "drop", "send"} /\ q.op # "create"
LocksHeld == Types \subseteq past.raced \/ \A r \in Requests : NeedsLock(req[r]) => lock = r

DocumentsFit == \A t \in Types : type[t].here => type[t].v > 0

Pending(r, t) == req[r].t = t /\ req[r].v # 0
PendingFits(t) ==
  \A r \in Requests : Pending(r, t) =>
    /\ req[r].v = type[t].v
    /\ req[r].op = "delete" <=> ~type[t].here
    /\ \A q \in Requests : Pending(q, t) => q = r
    /\ \A m \in Sent : m.t = t => m.v < type[t].v
SentFit(t) ==
  \A m \in Sent : m.t = t =>
    /\ m.v <= type[t].v
    /\ m.v = type[t].v => (m.op = "delete" <=> ~type[t].here)
    /\ m.zero => t \in past.free
LastSent(t) ==
  t \notin past.unsent /\ type[t].v > 0 =>
    \/ \E r \in Requests : Pending(r, t)
    \/ \E m \in Sent : m.t = t /\ m.v = type[t].v
InOrder(t) ==
  \A i, j \in 1..Len(topic) :
    /\ i < j /\ topic[i].n = 0 /\ topic[j].n = 0
    /\ topic[i].m.t = t /\ topic[j].m.t = t
    => topic[i].m.v < topic[j].m.v

Copied(m) == IF m.op = "delete" THEN 0 ELSE m.v
SnapOf(t, last) ==
  /\ snap[t] = Copied(last)
  /\ step = "commit" /\ Current.m.t = t => Current.m = last
  /\ \A m \in Sent : m.t = t /\ m.v > last.v => m \in Ahead
SnapFits(t) ==
  \/ \E m \in Lost : m.t = t
  \/ t \in past.overtaken \cup past.free
  \/ snap[t] = 0 /\ \A m \in done : m.t # t
  \/ \E last \in done : last.t = t /\ SnapOf(t, last)

WritesFollow(t) == PendingFits(t) /\ SentFit(t) /\ LastSent(t)
Ordered == \A t \in Types \ past.raced : WritesFollow(t) /\ InOrder(t) /\ SnapFits(t)

RequestsInv == RequestsFit /\ LocksHeld /\ DocumentsFit
CatalogueInv == DeliveryInv /\ TypeOK /\ RequestsInv /\ Ordered

LEMMA TypesAre ==
  TypeOK <=> /\ DeliveryTypeOK
             /\ answers \in BOOLEAN
             /\ type \in [Types -> Document]
             /\ snap \in [Types -> 0..MaxWrites]
             /\ list \in Lists /\ fill \in Lists
             /\ lock \in Requests \cup {NoOne}
             /\ req \in [Requests -> Request]
             /\ past \in History
BY DEF TypeOK, Document, Request, History

\* What the proofs read off a request, a document, a message and the history.
LEMMA RequestIs ==
  ASSUME NEW q \in Request
  PROVE  /\ q.op \in Ops \cup {"none", "publish"} /\ q.at \in Steps
         /\ q.t \in Types \cup {NoOne} /\ q.v \in 0..MaxWrites /\ q.v \in Nat
BY MaxWritesAssumption DEF Request

LEMMA DocumentIs ==
  ASSUME NEW d \in Document
  PROVE  d.v \in 0..MaxWrites /\ d.v \in Nat /\ d.here \in BOOLEAN /\ d.published \in BOOLEAN
BY MaxWritesAssumption DEF Document

LEMMA MessageIs ==
  ASSUME NEW m \in Messages
  PROVE  /\ m.op \in Ops /\ m.t \in Types /\ m.v \in 1..MaxWrites /\ m.v \in Nat
         /\ m.v # 0 /\ m.zero \in BOOLEAN
BY MaxWritesAssumption, MessagesAssumption DEF Announcement

LEMMA HistoryIs ==
  ASSUME NEW h \in History
  PROVE  /\ h.raced \subseteq Types /\ h.unsent \subseteq Types
         /\ h.overtaken \subseteq Types /\ h.free \subseteq Types /\ h.kept \in BOOLEAN
BY DEF History

LEMMA NothingIs ==
  /\ Nothing \in Request /\ RequestFits(Nothing) /\ ~NeedsLock(Nothing)
  /\ Nothing.v = 0 /\ Nothing.at = "idle" /\ Nothing.t = NoOne /\ Nothing.op = "none"
BY MaxWritesAssumption DEF Nothing, Request, RequestFits, NeedsLock, Ops, Steps

LEMMA CatalogueStarts == Init => CatalogueInv
<1> SUFFICES ASSUME Init PROVE CatalogueInv
  OBVIOUS
<1>1. DeliveryInv
  BY DeliveryStarts DEF Init
<1>2. TypeOK
  BY <1>1, MaxWritesAssumption
  DEF Init, TypeOK, DeliveryInv, Lists, Nothing, Ops, Steps
<1>3. Sent = {} /\ done = {} /\ topic = <<>>
  BY DEF Init, DeliveryInit, Sent, InTopic, From
<1>4. ASSUME NEW t \in Types PROVE type[t].v = 0 /\ ~type[t].here /\ snap[t] = 0
  BY DEF Init
<1>5. ASSUME NEW r \in Requests PROVE req[r] = Nothing
  BY DEF Init
<1>6. RequestsInv
  BY <1>4, <1>5, NothingIs DEF RequestsInv, RequestsFit, LocksHeld, DocumentsFit
<1>7. Ordered
  BY <1>3, <1>4, <1>5, NothingIs
  DEF Ordered, WritesFollow, PendingFits, SentFit, LastSent, InOrder, SnapFits, Pending
<1> QED
  BY <1>1, <1>2, <1>6, <1>7 DEF CatalogueInv

LEMMA DeliveryFixed ==
  ASSUME UNCHANGED delivery
  PROVE  /\ UNCHANGED <<topic, next, commit, step, retry, dead, done, missed>>
         /\ Sent' = Sent /\ Current' = Current /\ Ahead' = Ahead /\ Lost' = Lost
<1>1. UNCHANGED <<topic, next, commit, step, retry, rnext, rread, rcommit, dead, done, missed, faults>>
  BY DEF delivery, log, retries
<1> QED
  BY <1>1 DEF Sent, InTopic, From, Current, Ahead, Lost

\* One request moves on to q.
LEMMA RequestMoves ==
  ASSUME RequestsInv, req \in [Requests -> Request],
         NEW r \in Requests, NEW q \in Request, RequestFits(q),
         req' = [req EXCEPT ![r] = q],
         past.raced \subseteq past'.raced, DocumentsFit',
         NeedsLock(q) => lock' = r \/ Types \subseteq past.raced,
         \A p \in Requests : p # r /\ lock = p => lock' = p
  PROVE  /\ req' \in [Requests -> Request] /\ req'[r] = q
         /\ \A p \in Requests : p # r => req'[p] = req[p]
         /\ RequestsInv'
<1>1. /\ req' \in [Requests -> Request] /\ req'[r] = q
      /\ \A p \in Requests : p # r => req'[p] = req[p]
  OBVIOUS
<1>2. RequestsFit'
  BY <1>1 DEF RequestsInv, RequestsFit
<1>3. LocksHeld'
  BY <1>1 DEF RequestsInv, LocksHeld
<1> QED
  BY <1>1, <1>2, <1>3 DEF RequestsInv

\* Nothing is written, snapshots and messages stay; no request becomes pending and none
\* that is ends without its type being remembered.
LEMMA NothingPends ==
  ASSUME CatalogueInv, UNCHANGED <<snap, delivery>>,
         \A t \in Types : type'[t].v = type[t].v /\ type'[t].here = type[t].here,
         past.raced \subseteq past'.raced, past.unsent \subseteq past'.unsent,
         past'.overtaken = past.overtaken, past'.free = past.free,
         \A t \in Types : \A p \in Requests :
           /\ Pending(p, t)' => /\ Pending(p, t) /\ req'[p].v = req[p].v
                                /\ req'[p].op = req[p].op
           /\ Pending(p, t) => Pending(p, t)' \/ t \in past'.unsent
  PROVE  Ordered'
<1>1. /\ UNCHANGED <<topic, next, commit, step, retry, dead, done, missed>>
      /\ Sent' = Sent /\ Current' = Current /\ Ahead' = Ahead /\ Lost' = Lost
  BY DeliveryFixed
<1> SUFFICES ASSUME NEW t \in Types, t \notin past'.raced
             PROVE  (WritesFollow(t) /\ InOrder(t) /\ SnapFits(t))'
  BY DEF Ordered
<1>2. WritesFollow(t) /\ InOrder(t) /\ SnapFits(t)
  BY DEF CatalogueInv, Ordered
<1>3. InOrder(t)' /\ SnapFits(t)'
  BY <1>1, <1>2 DEF InOrder, SnapFits, SnapOf
<1>4. PendingFits(t)'
  BY <1>1, <1>2 DEF WritesFollow, PendingFits
<1>5. SentFit(t)' /\ LastSent(t)'
  BY <1>1, <1>2 DEF WritesFollow, SentFit, LastSent
<1> QED
  BY <1>3, <1>4, <1>5 DEF WritesFollow

\* The same of one request that moves on to q.
LEMMA RequestGoesOn ==
  ASSUME CatalogueInv, UNCHANGED <<type, snap, delivery>>,
         NEW r \in Requests, NEW q \in Request, RequestFits(q),
         req' = [req EXCEPT ![r] = q],
         q.v # 0 => q.t = req[r].t /\ q.v = req[r].v /\ q.op = req[r].op,
         q.v = 0 /\ req[r].v # 0 => req[r].t \in past'.unsent,
         NEW h \in History, past' = h,
         past.raced \subseteq h.raced, past.unsent \subseteq h.unsent,
         h.overtaken = past.overtaken, h.free = past.free,
         NeedsLock(q) => lock' = r \/ Types \subseteq past.raced,
         \A p \in Requests : p # r /\ lock = p => lock' = p,
         lock' \in Requests \cup {NoOne}, list' \in Lists, fill' \in Lists,
         answers' = answers
  PROVE  CatalogueInv'
<1>1. DeliveryInv'
  BY DeliveryStutters DEF CatalogueInv
<1>2. req \in [Requests -> Request]
  BY TypesAre DEF CatalogueInv
<1>3. /\ req' \in [Requests -> Request] /\ req'[r] = q
      /\ \A p \in Requests : p # r => req'[p] = req[p]
      /\ RequestsInv'
  <2>1. RequestsInv /\ DocumentsFit'
    BY DEF CatalogueInv, RequestsInv, DocumentsFit
  <2>2. past.raced \subseteq past'.raced
    OBVIOUS
  <2> QED
    BY <1>2, <2>1, <2>2, RequestMoves
<1>4. TypeOK'
  BY <1>1, <1>3, TypesAre DEF CatalogueInv, DeliveryInv, TypeOK, Request, Document, History
<1>5. ASSUME NEW t \in Types, NEW p \in Requests
      PROVE  /\ Pending(p, t)' => /\ Pending(p, t) /\ req'[p].v = req[p].v
                                  /\ req'[p].op = req[p].op
             /\ Pending(p, t) => Pending(p, t)' \/ t \in past'.unsent
  BY <1>3 DEF Pending
<1>6. Ordered'
  BY <1>5, NothingPends
<1> QED
  BY <1>1, <1>3, <1>4, <1>6 DEF CatalogueInv

LEMMA ListStep ==
  ASSUME CatalogueInv, ListQuery \/ ListStore \/ ListExpires
  PROVE  CatalogueInv'
<1>1. UNCHANGED <<answers, type, snap, lock, req, delivery>>
  BY DEF ListQuery, ListStore, ListExpires
<1>2. /\ DeliveryTypeOK /\ answers \in BOOLEAN /\ type \in [Types -> Document]
      /\ snap \in [Types -> 0..MaxWrites] /\ list \in Lists /\ fill \in Lists
      /\ lock \in Requests \cup {NoOne} /\ req \in [Requests -> Request] /\ past \in History
  BY TypesAre DEF CatalogueInv
<1>3. list' \in Lists /\ fill' \in Lists
  BY <1>2 DEF ListQuery, ListStore, ListExpires, Lists
<1>4. PICK h \in History :
        /\ past' = h /\ h.raced = past.raced /\ h.unsent = past.unsent
        /\ h.overtaken = past.overtaken /\ h.free = past.free
  <2>1. [past EXCEPT !.kept = @ \/ fill = "stale"] \in History
    BY <1>2 DEF History
  <2>2. past' = past \/ past' = [past EXCEPT !.kept = @ \/ fill = "stale"]
    BY DEF ListQuery, ListStore, ListExpires
  <2> QED
    BY <1>2, <2>1, <2>2 DEF History
<1>5. DeliveryInv'
  BY <1>1, DeliveryStutters DEF CatalogueInv
<1>6. TypeOK'
  BY <1>1, <1>2, <1>3, <1>4, <1>5 DEF DeliveryInv, TypeOK, Request, Document, History
<1>7. RequestsInv'
  BY <1>1, <1>4 DEF CatalogueInv, RequestsInv, RequestsFit, LocksHeld, DocumentsFit
<1>8. Ordered'
  BY <1>1, <1>4, NothingPends DEF Pending
<1> QED
  BY <1>5, <1>6, <1>7, <1>8 DEF CatalogueInv

LEMMA LockExpiresStep ==
  ASSUME CatalogueInv, LockExpires
  PROVE  CatalogueInv'
<1>1. /\ UNCHANGED <<answers, type, snap, list, fill, req, delivery>>
      /\ lock # NoOne /\ lock' = NoOne
  BY DEF LockExpires
<1>2. /\ DeliveryTypeOK /\ answers \in BOOLEAN /\ type \in [Types -> Document]
      /\ snap \in [Types -> 0..MaxWrites] /\ list \in Lists /\ fill \in Lists
      /\ lock \in Requests \cup {NoOne} /\ req \in [Requests -> Request] /\ past \in History
  BY TypesAre DEF CatalogueInv
<1>3. PICK h \in History :
        /\ past' = h /\ past.raced \subseteq h.raced /\ h.unsent = past.unsent
        /\ h.overtaken = past.overtaken /\ h.free = past.free
        /\ lock \in Busy => Types \subseteq h.raced
  <2>1. [past EXCEPT !.raced = @ \cup Types] \in History
    BY <1>2 DEF History
  <2>2. \/ lock \notin Busy /\ past' = past
        \/ past' = [past EXCEPT !.raced = @ \cup Types]
    <3>1. CASE lock \in Busy
      BY <3>1 DEF LockExpires
    <3>2. CASE lock \notin Busy
      BY <1>2, <3>2 DEF LockExpires, History
    <3> QED
      BY <3>1, <3>2
  <2> QED
    BY <1>2, <2>1, <2>2 DEF History
<1>4. DeliveryInv'
  BY <1>1, DeliveryStutters DEF CatalogueInv
<1>5. TypeOK'
  <2>1. lock' \in Requests \cup {NoOne}
    BY <1>1
  <2> QED
    BY <1>1, <1>2, <1>3, <1>4, <2>1 DEF DeliveryInv, TypeOK, Request, Document, History
<1>6. LocksHeld'
  <2>1. CASE lock \in Busy
    BY <1>3, <2>1 DEF LocksHeld
  <2>2. CASE lock \notin Busy
    <3>1. ASSUME NEW r \in Requests, NeedsLock(req[r]), ~(Types \subseteq past.raced) PROVE FALSE
      BY <2>2, <3>1 DEF CatalogueInv, RequestsInv, LocksHeld, NeedsLock, Busy, At
    <3> QED
      BY <1>1, <1>3, <3>1 DEF LocksHeld
  <2> QED
    BY <2>1, <2>2
<1>7. RequestsInv'
  BY <1>1, <1>6 DEF CatalogueInv, RequestsInv, RequestsFit, DocumentsFit
<1>8. Ordered'
  BY <1>1, <1>3, NothingPends DEF Pending
<1> QED
  BY <1>4, <1>5, <1>7, <1>8 DEF CatalogueInv

LEMMA StateIs ==
  ASSUME CatalogueInv
  PROVE  /\ DeliveryTypeOK /\ answers \in BOOLEAN /\ type \in [Types -> Document]
         /\ snap \in [Types -> 0..MaxWrites] /\ list \in Lists /\ fill \in Lists
         /\ lock \in Requests \cup {NoOne} /\ req \in [Requests -> Request] /\ past \in History
         /\ past.raced \subseteq past.raced /\ past.unsent \subseteq past.unsent
BY TypesAre DEF CatalogueInv

\* Requests begin: nothing is pending of them.
LEMMA BeginStep ==
  ASSUME CatalogueInv, NEW r \in Requests,
         Create(r) \/ Publish(r) \/ \E t \in Types, op \in {"update", "delete"} : Change(r, op, t)
  PROVE  CatalogueInv'
<1>1. UNCHANGED <<answers, type, snap, list, fill, lock, past, delivery>> /\ req[r].at = "idle"
  BY DEF Create, Publish, Change, At
<1>2. req[r].v = 0
  BY SMTT(60), <1>1, NothingIs DEF CatalogueInv, RequestsInv, RequestsFit, RequestFits
<1>3. PICK q \in Request :
        /\ req' = [req EXCEPT ![r] = q] /\ RequestFits(q) /\ q.v = 0 /\ ~NeedsLock(q)
  <2> DEFINE Fits(q) == q \in Request /\ RequestFits(q) /\ q.v = 0 /\ ~NeedsLock(q)
  <2>0. ASSUME NEW q \in Request, q.v = 0,
               \/ q.op = "create" /\ q.at = "add" /\ q.t = NoOne
               \/ q.op = "publish" /\ q.at = "lock"
               \/ q.op \in {"update", "delete"} /\ q.at = "lock" /\ q.t \in Types
        PROVE  Fits(q)
    BY <2>0 DEF RequestFits, NeedsLock
  <2>1. Fits([Nothing EXCEPT !.op = "create", !.at = "add"])
    <3>1. PICK q \in Request : q = [Nothing EXCEPT !.op = "create", !.at = "add"]
      BY NothingIs DEF Request, Ops, Steps
    <3>2. q.op = "create" /\ q.at = "add" /\ q.t = NoOne /\ q.v = 0
      BY <3>1, NothingIs DEF Request
    <3> QED
      BY <2>0, <3>1, <3>2
  <2>2. Fits([Nothing EXCEPT !.op = "publish", !.at = "lock"])
    <3>1. PICK q \in Request : q = [Nothing EXCEPT !.op = "publish", !.at = "lock"]
      BY NothingIs DEF Request, Ops, Steps
    <3>2. q.op = "publish" /\ q.at = "lock" /\ q.v = 0
      BY <3>1, NothingIs DEF Request
    <3> QED
      BY <2>0, <3>1, <3>2
  <2>3. ASSUME NEW t \in Types, NEW op \in {"update", "delete"}
        PROVE  Fits([Nothing EXCEPT !.op = op, !.at = "lock", !.t = t])
    <3>1. PICK q \in Request : q = [Nothing EXCEPT !.op = op, !.at = "lock", !.t = t]
      BY NothingIs DEF Request, Ops, Steps
    <3>2. q.op = op /\ q.at = "lock" /\ q.t = t /\ q.v = 0
      BY <3>1, NothingIs DEF Request
    <3> QED
      BY <2>0, <3>1, <3>2
  <2> QED
    BY <2>1, <2>2, <2>3 DEF Create, Publish, Change
<1>4. /\ lock \in Requests \cup {NoOne} /\ list \in Lists /\ fill \in Lists /\ past \in History
  BY StateIs
<1> QED
  BY <1>1, <1>2, <1>3, <1>4, RequestGoesOn

LEMMA AcquireStep ==
  ASSUME CatalogueInv, NEW r \in Requests, Acquire(r)
  PROVE  CatalogueInv'
<1>1. UNCHANGED <<answers, type, snap, list, fill, past, delivery>> /\ req[r].at = "lock"
  BY DEF Acquire, At
<1>2. /\ lock \in Requests \cup {NoOne} /\ list \in Lists /\ fill \in Lists /\ past \in History
      /\ req \in [Requests -> Request]
  BY StateIs
<1>3. req[r].v = 0 /\ req[r] \in Request /\ RequestFits(req[r])
  BY <1>1, <1>2 DEF CatalogueInv, RequestsInv, RequestsFit, RequestFits
<1>4. PICK q \in Request :
        /\ req' = [req EXCEPT ![r] = q] /\ RequestFits(q) /\ q.v = 0
        /\ \/ lock = NoOne /\ lock' = r
           \/ lock' = lock /\ ~NeedsLock(q)
  <2>1. CASE Free /\ lock' = r /\ GoTo(r, "write")
    <3>1. [req[r] EXCEPT !.at = "write"] \in Request
      BY <1>3 DEF Request, Steps
    <3>2. RequestFits([req[r] EXCEPT !.at = "write"])
      BY <1>1, <1>3 DEF Request, RequestFits
    <3>3. [req[r] EXCEPT !.at = "write"].v = 0
      BY <1>3 DEF Request
    <3>4. req' = [req EXCEPT ![r] = [req[r] EXCEPT !.at = "write"]]
      BY <2>1, <1>2 DEF GoTo
    <3> QED
      BY <2>1, <3>1, <3>2, <3>3, <3>4 DEF Free
  <2>2. CASE End(r) /\ UNCHANGED lock
    BY <2>2, NothingIs DEF End
  <2> QED
    BY <2>1, <2>2 DEF Acquire
<1>5. /\ NeedsLock(q) => lock' = r \/ Types \subseteq past.raced
      /\ \A p \in Requests : p # r /\ lock = p => lock' = p
      /\ lock' \in Requests \cup {NoOne}
  BY <1>2, <1>4, NoOneAssumption
<1> QED
  BY <1>1, <1>2, <1>3, <1>4, <1>5, RequestGoesOn

LEMMA UnlockIs ==
  ASSUME lock \in Requests \cup {NoOne}, NEW r \in Requests,
         Unlock(r) \/ lock' = lock
  PROVE  /\ lock' \in Requests \cup {NoOne}
         /\ \A p \in Requests : p # r /\ lock = p => lock' = p
BY DEF Unlock

LEMMA DropStep ==
  ASSUME CatalogueInv, NEW r \in Requests, Drop(r)
  PROVE  CatalogueInv'
<1>1. /\ UNCHANGED <<answers, type, snap, fill, delivery>> /\ req[r].at = "drop"
      /\ \/ req[r].op = "publish" /\ End(r) /\ Unlock(r)
         \/ req[r].op # "publish" /\ GoTo(r, "send") /\ lock' = lock
  BY DEF Drop, At
<1>2. /\ lock \in Requests \cup {NoOne} /\ list \in Lists /\ fill \in Lists /\ past \in History
      /\ req \in [Requests -> Request]
  BY StateIs
<1>3. req[r] \in Request /\ RequestFits(req[r])
  BY <1>2 DEF CatalogueInv, RequestsInv, RequestsFit
<1>4. list' \in Lists
  BY <1>2 DEF Drop, DropCache, KeepCache, Lists
<1>5. PICK h \in History :
        /\ past' = h /\ h.raced = past.raced /\ h.unsent = past.unsent
        /\ h.overtaken = past.overtaken /\ h.free = past.free
  <2>1. [past EXCEPT !.kept = TRUE] \in History
    BY <1>2 DEF History
  <2>2. past' = past \/ past' = [past EXCEPT !.kept = TRUE]
    BY DEF Drop, DropCache, KeepCache
  <2> QED
    BY <1>2, <2>1, <2>2 DEF History
<1>6. PICK q \in Request :
        /\ req' = [req EXCEPT ![r] = q] /\ RequestFits(q)
        /\ q.v # 0 => q.t = req[r].t /\ q.v = req[r].v /\ q.op = req[r].op
        /\ q.v = 0 => req[r].v = 0
        /\ NeedsLock(q) => lock' = lock /\ NeedsLock(req[r])
  <2>1. CASE req[r].op = "publish" /\ End(r)
    <3>1. req[r].v = 0
      BY <1>1, <1>3, <2>1 DEF RequestFits, Ops
    <3> QED
      BY <2>1, <3>1, NothingIs DEF End
  <2>2. CASE req[r].op # "publish" /\ GoTo(r, "send") /\ lock' = lock
    <3>1. [req[r] EXCEPT !.at = "send"] \in Request
      BY <1>3 DEF Request, Steps
    <3>2. PICK q \in Request : q = [req[r] EXCEPT !.at = "send"]
      BY <3>1
    <3>3. q.at = "send" /\ q.op = req[r].op /\ q.v = req[r].v /\ q.t = req[r].t
      BY <1>3, <3>2 DEF Request
    <3>4. RequestFits(q)
      BY <1>1, <1>3, <2>2, <3>3 DEF RequestFits
    <3>5. req' = [req EXCEPT ![r] = q]
      BY <1>2, <2>2, <3>2 DEF GoTo
    <3>6. NeedsLock(q) => NeedsLock(req[r])
      BY <1>1, <3>3 DEF NeedsLock
    <3> QED
      BY <2>2, <3>3, <3>4, <3>5, <3>6
  <2> QED
    BY <1>1, <2>1, <2>2
<1>7. NeedsLock(q) => lock' = r \/ Types \subseteq past.raced
  BY <1>6 DEF CatalogueInv, RequestsInv, LocksHeld
<1>8. /\ lock' \in Requests \cup {NoOne}
      /\ \A p \in Requests : p # r /\ lock = p => lock' = p
  BY <1>1, <1>2, UnlockIs
<1> QED
  BY <1>1, <1>2, <1>4, <1>5, <1>6, <1>7, <1>8, RequestGoesOn

LEMMA DieStep ==
  ASSUME CatalogueInv, NEW r \in Requests, Die(r)
  PROVE  CatalogueInv'
<1>1. /\ UNCHANGED <<answers, type, snap, list, fill, delivery>>
      /\ req' = [req EXCEPT ![r] = Nothing] /\ (Unlock(r) \/ lock' = lock)
  BY DEF Die, End, Unlock
<1>2. /\ lock \in Requests \cup {NoOne} /\ list \in Lists /\ fill \in Lists /\ past \in History
      /\ req \in [Requests -> Request]
  BY StateIs
<1>3. req[r] \in Request /\ RequestFits(req[r])
  BY <1>2 DEF CatalogueInv, RequestsInv, RequestsFit
<1>4. req[r].v # 0 => req[r].t \in Types
  BY <1>3 DEF RequestFits
<1>5. PICK h \in History :
        /\ past' = h /\ h.raced = past.raced /\ past.unsent \subseteq h.unsent
        /\ h.overtaken = past.overtaken /\ h.free = past.free
        /\ req[r].v # 0 => req[r].t \in h.unsent
  <2>1. past' = [past EXCEPT
                   !.unsent = IF req[r].v # 0 THEN @ \cup {req[r].t} ELSE @,
                   !.kept = @ \/ At(r, "drop")]
    BY DEF Die
  <2>2. PICK u \in SUBSET Types : u = IF req[r].v # 0 THEN past.unsent \cup {req[r].t} ELSE past.unsent
    BY <1>2, <1>4 DEF History
  <2>3. (past.kept \/ At(r, "drop")) \in BOOLEAN
    BY <1>2 DEF History
  <2>4. PICK k \in BOOLEAN : k = (past.kept \/ At(r, "drop"))
    BY <2>3
  <2>5. past' = [past EXCEPT !.unsent = u, !.kept = k]
    <3> DEFINE kept == past.kept \/ At(r, "drop")
               unsent == IF req[r].v # 0 THEN past.unsent \cup {req[r].t} ELSE past.unsent
    <3>1. past' = [past EXCEPT !.unsent = unsent, !.kept = kept]
      BY <2>1
    <3>2. kept = k /\ unsent = u
      BY <2>2, <2>4
    <3> HIDE DEF kept, unsent
    <3> QED
      BY ONLY <3>1, <3>2
  <2>6. [past EXCEPT !.unsent = u, !.kept = k] \in History
    BY <1>2 DEF History
  <2> QED
    BY <1>2, <2>2, <2>5, <2>6 DEF History
<1>6. /\ lock' \in Requests \cup {NoOne}
      /\ \A p \in Requests : p # r /\ lock = p => lock' = p
  BY <1>1, <1>2, UnlockIs
<1> QED
  BY <1>1, <1>2, <1>5, <1>6, NothingIs, RequestGoesOn

\* A type is written, and nothing else of it is pending.
LEMMA TypeIsWritten ==
  ASSUME CatalogueInv, UNCHANGED <<snap, delivery>>,
         NEW r \in Requests, NEW q \in Request, NEW t \in Types, NEW d \in Document,
         type' = [type EXCEPT ![t] = d], req' = [req EXCEPT ![r] = q],
         q.t = t, q.v = d.v, d.v = type[t].v + 1, q.op = "delete" <=> ~d.here,
         req[r].v = 0,
         past.raced \subseteq past'.raced, past'.unsent = past.unsent,
         past'.overtaken = past.overtaken, past'.free = past.free,
         t \in past'.raced \/ \A p \in Requests : ~Pending(p, t)
  PROVE  Ordered'
<1>1. /\ UNCHANGED <<topic, next, commit, step, retry, dead, done, missed>>
      /\ Sent' = Sent /\ Current' = Current /\ Ahead' = Ahead /\ Lost' = Lost
  BY DeliveryFixed
<1>2. DeliveryTypeOK /\ type \in [Types -> Document] /\ req \in [Requests -> Request]
  BY StateIs
<1>3. /\ req'[r] = q /\ \A p \in Requests : p # r => req'[p] = req[p]
      /\ type'[t] = d /\ \A s \in Types : s # t => type'[s] = type[s]
  BY <1>2
<1>4. type[t].v \in Nat /\ d.v \in Nat /\ q.v # 0
  BY <1>2, DocumentIs
<1>5. Sent \subseteq Messages
  BY <1>2, SentAreMessages
<1> SUFFICES ASSUME NEW s \in Types, s \notin past'.raced
             PROVE  (WritesFollow(s) /\ InOrder(s) /\ SnapFits(s))'
  BY DEF Ordered
<1>6. WritesFollow(s) /\ InOrder(s) /\ SnapFits(s)
  BY DEF CatalogueInv, Ordered
<1>7. InOrder(s)' /\ SnapFits(s)'
  BY <1>1, <1>6 DEF InOrder, SnapFits, SnapOf
<1>8. CASE s # t
  <2>1. ASSUME NEW p \in Requests
        PROVE  /\ Pending(p, s)' <=> Pending(p, s)
               /\ Pending(p, s) => req'[p] = req[p]
    BY <1>3, <1>8 DEF Pending
  <2>2. type'[s] = type[s]
    BY <1>3, <1>8
  <2>3. PendingFits(s)'
    BY <1>1, <1>6, <2>1, <2>2 DEF WritesFollow, PendingFits
  <2>4. SentFit(s)' /\ LastSent(s)'
    BY <1>1, <1>6, <2>1, <2>2 DEF WritesFollow, SentFit, LastSent
  <2> QED
    BY <1>7, <2>3, <2>4 DEF WritesFollow
<1>9. CASE s = t
  <2>1. ASSUME NEW p \in Requests PROVE Pending(p, t)' <=> p = r
    BY <1>3, <1>4, <1>9 DEF Pending
  <2>2. ASSUME NEW m \in Sent, m.t = t PROVE m.v < d.v /\ m.v \in Nat
    BY <1>4, <1>5, <1>6, <1>9, <2>2, MessageIs DEF WritesFollow, SentFit
  <2>3. PendingFits(t)'
    BY <1>1, <1>3, <2>1, <2>2 DEF PendingFits
  <2>4. SentFit(t)'
    <3>1. ASSUME NEW m \in Sent, m.t = t
          PROVE  m.v <= d.v /\ m.v # d.v /\ (m.zero => t \in past'.free)
      BY <1>4, <1>6, <1>9, <2>2, <3>1 DEF WritesFollow, SentFit
    <3> QED
      BY <1>1, <1>3, <3>1 DEF SentFit
  <2>5. LastSent(t)'
    BY <2>1 DEF LastSent
  <2> QED
    BY <1>7, <1>9, <2>3, <2>4, <2>5 DEF WritesFollow
<1> QED
  BY <1>8, <1>9

LEMMA StaleIs == ASSUME NEW l \in Lists PROVE Stale(l) \in Lists
BY DEF Stale, Lists

LEMMA CreateAddStep ==
  ASSUME CatalogueInv, NEW r \in Requests, CreateAdd(r)
  PROVE  CatalogueInv'
<1>1. /\ UNCHANGED <<answers, snap, lock, past, delivery>> /\ ListsStale
      /\ req[r].at = "add"
  BY DEF CreateAdd, At
<1>2. /\ DeliveryTypeOK /\ answers \in BOOLEAN /\ type \in [Types -> Document]
      /\ snap \in [Types -> 0..MaxWrites] /\ list \in Lists /\ fill \in Lists
      /\ lock \in Requests \cup {NoOne} /\ req \in [Requests -> Request] /\ past \in History
  BY StateIs
<1>3. req[r] \in Request /\ RequestFits(req[r]) /\ req[r].v = 0 /\ req[r].op = "create"
  BY <1>1, <1>2 DEF CatalogueInv, RequestsInv, RequestsFit, RequestFits
<1>4. PICK t \in Types :
        /\ type[t].v = 0
        /\ type' = [type EXCEPT ![t].v = 1, ![t].here = TRUE]
        /\ req' = [req EXCEPT ![r].at = "drop", ![r].t = t, ![r].v = 1]
  BY DEF CreateAdd
<1>5. PICK d \in Document : d = [type[t] EXCEPT !.v = 1, !.here = TRUE]
  <2>1. type[t] \in Document /\ 1 \in 0..MaxWrites
    BY <1>2, MaxWritesAssumption
  <2>2. [type[t] EXCEPT !.v = 1, !.here = TRUE] \in Document
    BY ONLY <2>1 DEF Document
  <2> QED
    BY <2>2
<1>6. d.v = 1 /\ d.here /\ type' = [type EXCEPT ![t] = d]
  <2>1. type[t] \in Document
    BY <1>2
  <2>2. d.v = 1 /\ d.here
    BY <1>5, <2>1 DEF Document
  <2> QED
    BY <1>2, <1>4, <1>5, <2>2
<1>7. PICK q \in Request : q = [req[r] EXCEPT !.at = "drop", !.t = t, !.v = 1]
  <2>1. 1 \in 0..MaxWrites /\ "drop" \in Steps
    BY MaxWritesAssumption DEF Steps
  <2>2. [req[r] EXCEPT !.at = "drop", !.t = t, !.v = 1] \in Request
    BY ONLY <1>3, <2>1, t \in Types DEF Request
  <2> QED
    BY <2>2
<1>8. /\ q.at = "drop" /\ q.t = t /\ q.v = 1 /\ q.op = "create"
      /\ req' = [req EXCEPT ![r] = q]
  <2>1. q.at = "drop" /\ q.t = t /\ q.v = 1 /\ q.op = "create"
    BY <1>3, <1>7 DEF Request
  <2> QED
    BY <1>2, <1>4, <1>7, <2>1
<1>9. RequestFits(q) /\ ~NeedsLock(q)
  BY <1>8 DEF RequestFits, NeedsLock, Ops
<1>10. DocumentsFit'
  BY <1>2, <1>6 DEF CatalogueInv, RequestsInv, DocumentsFit
<1>11. req' \in [Requests -> Request] /\ RequestsInv'
  <2>1. RequestsInv /\ past.raced \subseteq past'.raced
    BY <1>1 DEF CatalogueInv
  <2>2. /\ NeedsLock(q) => lock' = r \/ Types \subseteq past.raced
        /\ \A p \in Requests : p # r /\ lock = p => lock' = p
    BY <1>1, <1>9
  <2> QED
    BY ONLY <1>2, <1>8, <1>9, <1>10, <2>1, <2>2, RequestMoves, r \in Requests, q \in Request
<1>12. DeliveryInv'
  BY <1>1, DeliveryStutters DEF CatalogueInv
<1>13. TypeOK'
  <2>1. type' \in [Types -> Document] /\ list' \in Lists /\ fill' \in Lists
    BY <1>1, <1>2, <1>6, StaleIs DEF ListsStale
  <2> QED
    BY <1>1, <1>2, <1>11, <1>12, <2>1 DEF DeliveryInv, TypeOK, Request, Document, History
<1>14. ASSUME NEW p \in Requests, t \notin past.raced PROVE ~Pending(p, t)
  BY <1>4, <1>14 DEF CatalogueInv, Ordered, WritesFollow, PendingFits, Pending
<1>15. Ordered'
  <2>1. d.v = type[t].v + 1 /\ q.v = d.v /\ (q.op = "delete" <=> ~d.here)
    BY <1>4, <1>6, <1>8
  <2>2. past' = past /\ snap' = snap /\ delivery' = delivery
    BY <1>1
  <2> QED
    BY <1>3, <1>6, <1>8, <1>14, <2>1, <2>2, TypeIsWritten
<1> QED
  BY <1>11, <1>12, <1>13, <1>15 DEF CatalogueInv

LEMMA WriteStep ==
  ASSUME CatalogueInv, NEW r \in Requests, Write(r)
  PROVE  CatalogueInv'
<1> DEFINE t == req[r].t
           allowed == req[r].op = "update" => ~type[t].published
           writes == t \in Here /\ type[t].v < MaxWrites /\ allowed
<1>1. /\ UNCHANGED <<answers, snap, delivery>>
      /\ req[r].at = "write" /\ req[r].op \in {"update", "delete"}
  BY DEF Write, At
<1>2. /\ DeliveryTypeOK /\ answers \in BOOLEAN /\ type \in [Types -> Document]
      /\ snap \in [Types -> 0..MaxWrites] /\ list \in Lists /\ fill \in Lists
      /\ lock \in Requests \cup {NoOne} /\ req \in [Requests -> Request] /\ past \in History
  BY StateIs
<1>3. req[r] \in Request /\ RequestFits(req[r]) /\ req[r].v = 0 /\ NeedsLock(req[r])
  BY <1>1, <1>2 DEF CatalogueInv, RequestsInv, RequestsFit, RequestFits, NeedsLock
<1>4. DeliveryInv'
  BY <1>1, DeliveryStutters DEF CatalogueInv
<1>5. CASE ~writes
  <2>1. End(r) /\ Unlock(r) /\ UNCHANGED <<type, list, fill, past>>
    BY <1>5 DEF Write
  <2>2. /\ lock' \in Requests \cup {NoOne}
        /\ \A p \in Requests : p # r /\ lock = p => lock' = p
    BY <1>2, <2>1, UnlockIs
  <2>3. req' = [req EXCEPT ![r] = Nothing]
    BY <2>1 DEF End
  <2> HIDE DEF writes, allowed, t
  <2> QED
    BY <1>1, <1>2, <1>3, <2>1, <2>2, <2>3, NothingIs, RequestGoesOn
<1>6. CASE writes
  <2>1. /\ type' = [type EXCEPT ![t].v = @ + 1, ![t].here = req[r].op = "update"]
        /\ req' = [req EXCEPT ![r].at = "drop", ![r].v = type[t].v + 1]
        /\ past' = [past EXCEPT !.raced = IF Overlaps(t) THEN @ \cup {t} ELSE @]
        /\ ListsStale /\ lock' = lock
    BY <1>6 DEF Write
  <2>2. PICK s \in Types : s = t
    BY <1>6 DEF Here
  <2>3. PICK w \in Nat : w = type[s].v + 1 /\ w \in 0..MaxWrites /\ w # 0
    <3>1. type[s].v \in Nat /\ type[s].v < MaxWrites
      BY <1>2, <1>6, <2>2, DocumentIs
    <3> QED
      BY <3>1, MaxWritesAssumption
  <2>4. PICK here \in BOOLEAN : here = (req[r].op = "update")
    OBVIOUS
  <2> HIDE DEF writes, allowed, t
  <2>5. PICK d \in Document : d = [type[s] EXCEPT !.v = w, !.here = here]
    <3>1. type[s] \in Document
      BY <1>2
    <3> QED
      BY <2>3, <3>1 DEF Document
  <2>6. d.v = w /\ d.here = here /\ type' = [type EXCEPT ![s] = d]
    <3>1. type[s] \in Document
      BY <1>2
    <3>2. d.v = w /\ d.here = here
      BY <2>5, <3>1 DEF Document
    <3>3. type' = [type EXCEPT ![s].v = w, ![s].here = here]
      BY <2>1, <2>2, <2>3, <2>4
    <3> QED
      BY <1>2, <2>5, <3>2, <3>3
  <2>7. PICK q \in Request : q = [req[r] EXCEPT !.at = "drop", !.v = w]
    BY <1>3, <2>3 DEF Request, Steps
  <2>8. /\ q.at = "drop" /\ q.t = s /\ q.v = w /\ q.op = req[r].op
        /\ req' = [req EXCEPT ![r] = q]
    <3>1. q.at = "drop" /\ q.t = s /\ q.v = w /\ q.op = req[r].op
      BY <1>3, <2>2, <2>7 DEF Request, t
    <3>2. req' = [req EXCEPT ![r].at = "drop", ![r].v = w]
      BY <2>1, <2>2, <2>3
    <3> QED
      BY <1>2, <2>7, <3>1, <3>2
  <2>9. PICK h \in History :
          /\ past' = h /\ past.raced \subseteq h.raced /\ h.unsent = past.unsent
          /\ h.overtaken = past.overtaken /\ h.free = past.free
          /\ Overlaps(s) => s \in h.raced
    <3>1. [past EXCEPT !.raced = @ \cup {s}] \in History
      BY <1>2 DEF History
    <3>2. CASE Overlaps(s)
      BY <1>2, <2>1, <2>2, <3>1, <3>2 DEF History
    <3>3. CASE ~Overlaps(s)
      <4>1. past' = past
        BY <1>2, <2>1, <2>2, <3>3 DEF History
      <4> QED
        BY <1>2, <3>3, <4>1
    <3> QED
      BY <3>2, <3>3
  <2>10. RequestFits(q) /\ NeedsLock(q)
    BY <1>1, <2>3, <2>8 DEF RequestFits, NeedsLock, Ops
  <2>11. DocumentsFit'
    BY <1>2, <2>3, <2>6 DEF CatalogueInv, RequestsInv, DocumentsFit
  <2>12. lock = r \/ Types \subseteq past.raced
    BY <1>3 DEF CatalogueInv, RequestsInv, LocksHeld
  <2>13. req' \in [Requests -> Request] /\ RequestsInv'
    <3>1. RequestsInv /\ past.raced \subseteq past'.raced
      BY <2>9 DEF CatalogueInv
    <3>2. /\ NeedsLock(q) => lock' = r \/ Types \subseteq past.raced
          /\ \A p \in Requests : p # r /\ lock = p => lock' = p
      BY <2>1, <2>12
    <3> QED
      BY ONLY <1>2, <2>8, <2>10, <2>11, <3>1, <3>2, RequestMoves, r \in Requests, q \in Request
  <2>14. TypeOK'
    <3>1. type' \in [Types -> Document] /\ list' \in Lists /\ fill' \in Lists
      BY <1>2, <2>1, <2>6, StaleIs DEF ListsStale
    <3> QED
      BY <1>1, <1>2, <1>4, <2>1, <2>9, <2>13, <3>1
      DEF DeliveryInv, TypeOK, Request, Document, History
  <2>15. ASSUME NEW p \in Requests, s \notin past'.raced PROVE ~Pending(p, s)
    <3>1. ~(Types \subseteq past.raced) /\ lock = r
      BY <2>9, <2>12, <2>15
    <3>2. SUFFICES ASSUME Pending(p, s) PROVE FALSE
      OBVIOUS
    <3>3. RequestFits(req[p]) /\ req[p].v # 0 /\ req[p].t = s
      BY <3>2 DEF Pending, CatalogueInv, RequestsInv, RequestsFit
    <3>4. req[p].at \in {"drop", "send"}
      BY <3>3 DEF RequestFits
    <3>5. CASE req[p].op = "create"
      BY <2>9, <2>15, <3>3, <3>4, <3>5 DEF Overlaps, Busy, At
    <3>6. CASE req[p].op # "create"
      BY <1>3, <3>1, <3>3, <3>4, <3>6 DEF CatalogueInv, RequestsInv, LocksHeld, NeedsLock
    <3> QED
      BY <3>5, <3>6
  <2>16. q.op = "delete" <=> ~d.here
    BY <1>1, <2>4, <2>6, <2>8
  <2>17. Ordered'
    BY <1>1, <1>3, <2>3, <2>6, <2>8, <2>9, <2>15, <2>16, TypeIsWritten
  <2> QED
    BY <1>4, <2>13, <2>14, <2>17 DEF CatalogueInv
<1> QED
  BY <1>5, <1>6

LEMMA WritePublishedStep ==
  ASSUME CatalogueInv, NEW r \in Requests, WritePublished(r)
  PROVE  CatalogueInv'
<1>1. /\ UNCHANGED <<answers, snap, past, delivery>>
      /\ req[r].at = "write" /\ req[r].op = "publish"
  BY DEF WritePublished, At
<1>2. /\ DeliveryTypeOK /\ answers \in BOOLEAN /\ type \in [Types -> Document]
      /\ snap \in [Types -> 0..MaxWrites] /\ list \in Lists /\ fill \in Lists
      /\ lock \in Requests \cup {NoOne} /\ req \in [Requests -> Request] /\ past \in History
  BY StateIs
<1>3. req[r] \in Request /\ RequestFits(req[r]) /\ req[r].v = 0 /\ NeedsLock(req[r])
  BY <1>1, <1>2 DEF CatalogueInv, RequestsInv, RequestsFit, RequestFits, NeedsLock
<1>4. DeliveryInv'
  BY <1>1, DeliveryStutters DEF CatalogueInv
<1>5. CASE End(r) /\ Unlock(r) /\ UNCHANGED <<type, list, fill>>
  <2>1. /\ lock' \in Requests \cup {NoOne}
        /\ \A p \in Requests : p # r /\ lock = p => lock' = p
    BY <1>2, <1>5, UnlockIs
  <2>2. req' = [req EXCEPT ![r] = Nothing]
    BY <1>5 DEF End
  <2> QED
    BY <1>1, <1>2, <1>3, <1>5, <2>1, <2>2, NothingIs, RequestGoesOn
<1>6. CASE /\ type' = [t \in Types |-> [type[t] EXCEPT !.published = @ \/ t \in Here]]
           /\ ListsStale /\ GoTo(r, "drop") /\ lock' = lock
  <2>1. ASSUME NEW t \in Types
        PROVE  type'[t] \in Document /\ type'[t].v = type[t].v /\ type'[t].here = type[t].here
    <3>1. type[t] \in Document /\ (type[t].published \/ t \in Here) \in BOOLEAN
      BY <1>2 DEF Document
    <3>2. PICK p \in BOOLEAN : p = (type[t].published \/ t \in Here)
      BY <3>1
    <3>3. type'[t] = [type[t] EXCEPT !.published = p]
      BY <1>6, <3>2
    <3> QED
      BY <3>1, <3>3 DEF Document
  <2>2. type' \in [Types -> Document]
    <3>1. type' = [t \in Types |-> type'[t]]
      BY <1>6
    <3> QED
      BY <2>1, <3>1
  <2>3. PICK q \in Request : q = [req[r] EXCEPT !.at = "drop"]
    <3>1. [req[r] EXCEPT !.at = "drop"] \in Request
      BY <1>3 DEF Request, Steps
    <3> QED
      BY <3>1
  <2>4. /\ q.at = "drop" /\ q.op = "publish" /\ q.v = 0 /\ req' = [req EXCEPT ![r] = q]
    <3>1. q.at = "drop" /\ q.op = "publish" /\ q.v = 0
      BY <1>1, <1>3, <2>3 DEF Request
    <3> QED
      BY <1>2, <1>6, <2>3, <3>1 DEF GoTo
  <2>5. RequestFits(q) /\ NeedsLock(q)
    BY <2>4 DEF RequestFits, NeedsLock
  <2>6. DocumentsFit'
    BY <2>1 DEF CatalogueInv, RequestsInv, DocumentsFit
  <2>7. /\ req' \in [Requests -> Request] /\ req'[r] = q
        /\ \A p \in Requests : p # r => req'[p] = req[p]
        /\ RequestsInv'
    <3>1. RequestsInv /\ past.raced \subseteq past'.raced
      BY <1>1 DEF CatalogueInv
    <3>2. /\ NeedsLock(q) => lock' = r \/ Types \subseteq past.raced
          /\ \A p \in Requests : p # r /\ lock = p => lock' = p
      BY <1>3, <1>6 DEF CatalogueInv, RequestsInv, LocksHeld
    <3> QED
      BY ONLY <1>2, <2>4, <2>5, <2>6, <3>1, <3>2, RequestMoves, r \in Requests, q \in Request
  <2>8. TypeOK'
    <3>1. list' \in Lists /\ fill' \in Lists
      BY <1>2, <1>6, StaleIs DEF ListsStale
    <3> QED
      BY <1>1, <1>2, <1>4, <1>6, <2>2, <2>7, <3>1
      DEF DeliveryInv, TypeOK, Request, Document, History
  <2>9. ASSUME NEW t \in Types, NEW p \in Requests
        PROVE  /\ Pending(p, t)' => /\ Pending(p, t) /\ req'[p].v = req[p].v
                                    /\ req'[p].op = req[p].op
               /\ Pending(p, t) => Pending(p, t)' \/ t \in past'.unsent
    BY <1>3, <2>4, <2>7 DEF Pending
  <2>10. past' = past /\ snap' = snap /\ delivery' = delivery
    BY <1>1
  <2>11. Ordered'
    BY <2>1, <2>9, <2>10, NothingPends
  <2> QED
    BY <1>4, <2>7, <2>8, <2>11 DEF CatalogueInv
<1> QED
  BY <1>5, <1>6 DEF WritePublished

LEMMA AnnounceStep ==
  ASSUME CatalogueInv, NEW r \in Requests, Announce(r)
  PROVE  CatalogueInv'
<1>1. /\ UNCHANGED <<answers, type, snap, list, fill>> /\ req[r].at = "send"
      /\ req' = [req EXCEPT ![r] = Nothing] /\ Unlock(r)
  BY DEF Announce, At, End
<1>2. /\ DeliveryTypeOK /\ answers \in BOOLEAN /\ type \in [Types -> Document]
      /\ snap \in [Types -> 0..MaxWrites] /\ list \in Lists /\ fill \in Lists
      /\ lock \in Requests \cup {NoOne} /\ req \in [Requests -> Request] /\ past \in History
  BY StateIs
<1>3. req[r] \in Request /\ RequestFits(req[r])
  BY <1>2 DEF CatalogueInv, RequestsInv, RequestsFit
<1>4. PICK t \in Types, op \in Ops, v \in 1..MaxWrites :
        t = req[r].t /\ op = req[r].op /\ v = req[r].v
  <2>1. req[r].v \in 0..MaxWrites /\ req[r].v # 0
    BY <1>1, <1>3, RequestIs DEF RequestFits
  <2> QED
    BY <1>1, <1>3, <2>1, MaxWritesAssumption DEF RequestFits
<1>5. PICK zero \in BOOLEAN :
        /\ Send([op |-> op, t |-> t, v |-> v, zero |-> zero])
        /\ past' = IF zero THEN [past EXCEPT !.free = @ \cup {t}] ELSE past
  BY <1>4 DEF Announce
<1>6. PICK m \in Messages : m = [op |-> op, t |-> t, v |-> v, zero |-> zero]
  BY MessagesAssumption DEF Announcement
<1>7. m.t = t /\ m.op = op /\ m.v = v /\ m.zero = zero /\ Send(m) /\ v \in Nat
  BY <1>5, <1>6, MaxWritesAssumption
<1>8. DeliveryInv'
  BY <1>7, SendStep DEF CatalogueInv
<1>9. PICK h \in History :
        /\ past' = h /\ h.raced = past.raced /\ h.unsent = past.unsent
        /\ h.overtaken = past.overtaken /\ past.free \subseteq h.free
        /\ zero => t \in h.free
  <2>1. [past EXCEPT !.free = @ \cup {t}] \in History
    BY <1>2 DEF History
  <2>2. CASE zero
    BY <1>2, <1>5, <2>1, <2>2 DEF History
  <2>3. CASE ~zero
    BY <1>2, <1>5, <2>3
  <2> QED
    BY <2>2, <2>3
<1>10. /\ req' \in [Requests -> Request] /\ req'[r] = Nothing
       /\ \A p \in Requests : p # r => req'[p] = req[p]
       /\ RequestsInv'
  <2>1. RequestsInv /\ past.raced \subseteq past'.raced /\ DocumentsFit'
    BY <1>1, <1>9 DEF CatalogueInv, RequestsInv, DocumentsFit
  <2>2. \A p \in Requests : p # r /\ lock = p => lock' = p
    BY <1>1, <1>2, UnlockIs
  <2> QED
    BY ONLY <1>1, <1>2, <2>1, <2>2, NothingIs, RequestMoves, r \in Requests
<1>11. TypeOK'
  <2>1. lock' \in Requests \cup {NoOne}
    BY <1>1, <1>2, UnlockIs
  <2> QED
    BY <1>1, <1>2, <1>8, <1>9, <1>10, <2>1
    DEF DeliveryInv, TypeOK, Request, Document, History
<1>12. PICK e \in Entry : e = [m |-> m, n |-> 0] /\ e.m = m /\ e.n = 0
  <2>1. [m |-> m, n |-> 0] \in Entry
    BY LevelsAssumption DEF Entry
  <2> QED
    BY <2>1
<1>13. topic' = Append(topic, e) /\ UNCHANGED <<next, step, retry, rread, dead, done, missed>>
  BY <1>7, <1>12 DEF Send, retries
<1>14. /\ topic' \in Seq(Entry) /\ Len(topic') = Len(topic) + 1 /\ Len(topic) \in Nat
       /\ \A o \in 1..Len(topic) : topic'[o] = topic[o]
       /\ topic'[Len(topic) + 1] = e
       /\ \A first \in 1..Len(topic) + 1 : InTopic(first)' = InTopic(first) \cup {m}
       /\ Sent' = Sent \cup {m}
  <2>1. /\ topic' \in Seq(Entry) /\ Len(topic') = Len(topic) + 1
        /\ \A o \in 1..Len(topic) : topic'[o] = topic[o]
        /\ topic'[Len(topic) + 1] = e
        /\ \A first \in 1..Len(topic) + 1 : InTopic(first)' = InTopic(first) \cup {e.m}
        /\ Sent' = Sent \cup {e.m}
    BY <1>2, <1>13, TopicGrows
  <2> QED
    BY <1>2, <1>12, <2>1 DEF DeliveryTypeOK
<1>15. Ahead' = Ahead \cup {m} /\ Lost' = Lost
  <2>1. next \in 1..Len(topic) + 1
    BY <1>2 DEF DeliveryTypeOK
  <2>2. InTopic(next)' = InTopic(next) \cup {m}
    BY <1>13, <1>14, <2>1
  <2> QED
    BY <1>13, <2>2 DEF Ahead, Lost, From
<1>16. step' = step /\ (step = "commit" => Current' = Current)
  BY <1>2, <1>13, <1>14 DEF Current, DeliveryTypeOK
<1>17. ASSUME NEW s \in Types, s \notin past'.raced
       PROVE  (WritesFollow(s) /\ InOrder(s) /\ SnapFits(s))'
  <2>1. WritesFollow(s) /\ InOrder(s) /\ SnapFits(s)
    BY <1>9, <1>17 DEF CatalogueInv, Ordered
  <2>2. SnapFits(s)'
    BY <1>1, <1>9, <1>13, <1>14, <1>15, <1>16, <2>1 DEF SnapFits, SnapOf
  <2>3. ASSUME NEW p \in Requests
        PROVE  /\ Pending(p, s)' => Pending(p, s) /\ p # r /\ req'[p] = req[p]
               /\ Pending(p, s) /\ s # t => Pending(p, s)'
    BY <1>4, <1>10, NothingIs DEF Pending
  <2>4. s = t => Pending(r, s)
    BY <1>4, <1>7, MaxWritesAssumption DEF Pending
  <2>5. s = t => /\ \A p \in Requests : ~Pending(p, s)'
                 /\ v = type[s].v /\ (op = "delete" <=> ~type[s].here)
                 /\ \A x \in Sent : x.t = s => x.v < v
    BY <1>4, <2>1, <2>3, <2>4 DEF WritesFollow, PendingFits
  <2>6. PendingFits(s)'
    BY <1>1, <1>7, <1>14, <2>1, <2>3, <2>5 DEF WritesFollow, PendingFits
  <2>7. SentFit(s)'
    BY <1>1, <1>7, <1>9, <1>14, <2>1, <2>5 DEF WritesFollow, SentFit
  <2>8. LastSent(s)'
    BY <1>1, <1>7, <1>9, <1>14, <2>1, <2>3, <2>5 DEF WritesFollow, LastSent
  <2>9. InOrder(s)'
    <3>1. ASSUME NEW i \in 1..Len(topic'), NEW j \in 1..Len(topic'), i < j,
                 topic'[i].n = 0, topic'[j].n = 0, topic'[i].m.t = s, topic'[j].m.t = s
          PROVE  topic'[i].m.v < topic'[j].m.v
      <4>1. i \in 1..Len(topic) /\ topic'[i] = topic[i]
        BY <1>14, <3>1
      <4>2. CASE j \in 1..Len(topic)
        BY <1>14, <2>1, <3>1, <4>1, <4>2 DEF InOrder
      <4>3. CASE j = Len(topic) + 1
        <5>1. topic[i].m \in Sent
          BY <4>1, InTopicIs DEF Sent
        <5> QED
          BY <1>7, <1>12, <1>14, <2>5, <3>1, <4>1, <4>3, <5>1
      <4> QED
        BY <1>14, <4>2, <4>3
    <3> QED
      BY <3>1 DEF InOrder
  <2> QED
    BY <2>2, <2>6, <2>7, <2>8, <2>9 DEF WritesFollow
<1>18. Ordered'
  BY <1>17 DEF Ordered
<1> QED
  BY <1>8, <1>10, <1>11, <1>18 DEF CatalogueInv

LEMMA HandledStep ==
  ASSUME CatalogueInv, Handle
  PROVE  CatalogueInv'
<1>1. /\ UNCHANGED <<answers, type, list, fill, lock, req>>
      /\ UNCHANGED <<topic, next, retry, rread, dead, missed>>
      /\ HandleOk /\ step = "idle" /\ next <= Len(topic) /\ step' = "commit"
      /\ done' = done \cup {Current.m}
  BY DEF Handle, HandleOk, retries
<1>2. /\ DeliveryTypeOK /\ answers \in BOOLEAN /\ type \in [Types -> Document]
      /\ snap \in [Types -> 0..MaxWrites] /\ list \in Lists /\ fill \in Lists
      /\ lock \in Requests \cup {NoOne} /\ req \in [Requests -> Request] /\ past \in History
  BY StateIs
<1>3. DeliveryInv'
  BY <1>1, HandleStep DEF CatalogueInv
<1>4. PICK m \in Messages : m = Current.m
  BY <1>1, <1>2, NextMoves
<1>5. PICK t \in Types : t = m.t
  BY MessageIs
<1>6. m \in Sent /\ m.v \in 0..MaxWrites /\ m.op \in Ops
  BY <1>1, <1>2, <1>4, NextMoves, MessageIs
<1>7. /\ m.op = "update" => snap[t] # 0
      /\ snap' = [snap EXCEPT ![t] = Copies(m)]
      /\ past' = IF Current.n > 0 /\ \E o \in done : o.t = t /\ o.v > m.v
                   THEN [past EXCEPT !.overtaken = @ \cup {t}] ELSE past
  BY <1>4, <1>5 DEF Handle
<1>8. Copies(m) \in 0..MaxWrites /\ (~(m.op = "update" /\ m.zero) => Copies(m) = Copied(m))
  BY <1>2, <1>5, <1>6, MaxWritesAssumption DEF Copies, Copied, Ops
<1>9. PICK w \in 0..MaxWrites : w = Copies(m)
  BY <1>8
<1>10. /\ snap' \in [Types -> 0..MaxWrites] /\ snap'[t] = w
       /\ \A s \in Types : s # t => snap'[s] = snap[s]
  <2>1. snap' = [snap EXCEPT ![t] = w]
    BY <1>7, <1>9
  <2> QED
    BY ONLY <1>2, <2>1, t \in Types, w \in 0..MaxWrites
<1>11. PICK h \in History :
         /\ past' = h /\ h.raced = past.raced /\ h.unsent = past.unsent
         /\ past.overtaken \subseteq h.overtaken /\ h.free = past.free
         /\ Current.n > 0 /\ (\E o \in done : o.t = t /\ o.v > m.v) => t \in h.overtaken
  <2>1. [past EXCEPT !.overtaken = @ \cup {t}] \in History
    BY <1>2 DEF History
  <2>2. CASE Current.n > 0 /\ \E o \in done : o.t = t /\ o.v > m.v
    BY <1>2, <1>7, <2>1, <2>2 DEF History
  <2>3. CASE ~(Current.n > 0 /\ \E o \in done : o.t = t /\ o.v > m.v)
    <3>1. past' = past
      BY <1>7, <2>3
    <3> QED
      BY <1>2, <2>3, <3>1
  <2> QED
    BY <2>2, <2>3
<1>12. TypeOK'
  BY <1>1, <1>2, <1>3, <1>10, <1>11 DEF DeliveryInv, TypeOK, Request, Document, History
<1>13. RequestsInv'
  BY <1>1, <1>11 DEF CatalogueInv, RequestsInv, RequestsFit, LocksHeld, DocumentsFit
<1>14. /\ Sent' = Sent /\ Ahead' = Ahead /\ Lost' = Lost /\ Current' = Current
  BY <1>1 DEF Sent, Ahead, InTopic, From, Lost, Current
<1>15. ASSUME NEW s \in Types, s \notin past'.raced
       PROVE  (WritesFollow(s) /\ InOrder(s) /\ SnapFits(s))'
  <2>1. WritesFollow(s) /\ InOrder(s) /\ SnapFits(s)
    BY <1>11, <1>15 DEF CatalogueInv, Ordered
  <2>2. WritesFollow(s)'
    BY <1>1, <1>11, <1>14, <2>1
    DEF WritesFollow, PendingFits, SentFit, LastSent, Pending
  <2>3. InOrder(s)'
    BY <1>1, <2>1 DEF InOrder
  <2>4. CASE s # t
    <3>1. \A x \in done' : x.t = s => x \in done
      BY <1>1, <1>4, <1>5, <2>4
    <3>2. Current.m.t # s
      BY <1>4, <1>5, <2>4
    <3>3. SnapFits(s)'
      BY <1>1, <1>10, <1>11, <1>14, <2>1, <2>4, <3>1, <3>2 DEF SnapFits, SnapOf
    <3> QED
      BY <2>2, <2>3, <3>3
  <2>5. CASE s = t
    <3>1. SUFFICES ASSUME ~\E x \in Lost : x.t = t, t \notin h.overtaken \cup h.free
                   PROVE  SnapFits(t)'
      BY <1>11, <1>14, <2>2, <2>3, <2>5 DEF SnapFits
    <3>2. ~m.zero
      BY <1>5, <1>6, <1>11, <2>1, <2>5, <3>1 DEF WritesFollow, SentFit
    <3>3. snap'[t] = Copied(m)
      BY <1>8, <1>9, <1>10, <3>2
    <3>4. ASSUME NEW x \in Sent, x.t = t, x.v > m.v PROVE x \in Ahead
      <4>1. x \notin Lost
        BY <3>1, <3>4
      <4>2. CASE Current.n > 0
        <5>1. x \notin done
          BY <1>11, <3>1, <3>4, <4>2
        <5> QED
          BY <4>1, <5>1 DEF CatalogueInv, DeliveryInv, NoneForgotten, Ended, Lost
      <4>3. CASE Current.n = 0
        <5>1. PICK j \in 1..Len(topic) : topic[j].m = x /\ topic[j].n = 0
          BY DEF CatalogueInv, DeliveryInv, FirstTries
        <5>2. PICK i \in 1..Len(topic) :
                i = next /\ topic[i].m = m /\ topic[i].n = 0 /\ i \in Nat /\ j \in Nat
          BY <1>1, <1>2, <1>4, <4>3 DEF DeliveryTypeOK, Current
        <5>3. x \in Messages /\ x.v \in Nat /\ m.v \in Nat
          BY <1>2, SentAreMessages, MessageIs
        <5>4. ~(j < i) /\ j # i
          <6>1. j < i => x.v < m.v
            BY <1>5, <2>1, <2>5, <3>4, <5>1, <5>2 DEF InOrder
          <6> QED
            BY <3>4, <5>1, <5>2, <5>3, <6>1
        <5>5. j \in next..Len(topic)
          BY <5>2, <5>4
        <5> QED
          BY <5>1, <5>5, InTopicIs DEF Ahead
      <4>4. Current.n \in Nat
        BY <1>1, <1>2, NextMoves, LevelsAssumption
      <4> QED
        BY <4>2, <4>3, <4>4
    <3>5. SnapOf(t, m)'
      BY <1>4, <1>14, <3>3, <3>4 DEF SnapOf
    <3> QED
      BY <1>1, <1>4, <1>5, <3>5 DEF SnapFits
  <2> QED
    BY <2>4, <2>5
<1>16. Ordered'
  BY <1>15 DEF Ordered
<1> QED
  BY <1>3, <1>12, <1>13, <1>16 DEF CatalogueInv

\* What the catalogue sees of the transport.
LEMMA DeliverIs ==
  ASSUME DeliveryTypeOK, Deliver \/ HandleFail
  PROVE  /\ done' = done /\ Lost \subseteq Lost'
         /\ step' = "commit" => step = "commit" /\ next' = next
         /\ UNCHANGED topic
            \/ \E l \in Level, m \in Messages : topic' = Append(topic, [m |-> m, n |-> l])
<1>1. CASE HandleFail \/ Commit \/ Forward \/ ForwardFails \/ Pass \/ Restart
  BY <1>1 DEF HandleFail, Commit, Forward, ForwardFails, Pass, Restart, retries, Lost
<1>2. CASE RetryRestart
  BY <1>2 DEF RetryRestart, log, Lost
<1>3. ASSUME NEW l \in Level, RedriveFails(l) \/ NewBatch(l)
      PROVE  UNCHANGED <<topic, next, step, done, dead, missed>>
  BY <1>3 DEF RedriveFails, NewBatch, log
<1>4. ASSUME NEW l \in Level, Redrive(l)
      PROVE  /\ UNCHANGED <<next, step, done, dead>> /\ missed \subseteq missed'
             /\ \E m \in Messages : topic' = Append(topic, [m |-> m, n |-> l])
  <2>1. rnext[l] \in 1..Len(retry[l]) /\ retry[l] \in Seq(Messages)
    BY <1>4 DEF Redrive, DeliveryTypeOK
  <2>2. retry[l][rnext[l]] \in Messages
    BY <2>1
  <2> QED
    BY <1>4, <2>2 DEF Redrive
<1> QED
  BY <1>1, <1>2, <1>3, <1>4 DEF Deliver, Lost

LEMMA TransportStep ==
  ASSUME CatalogueInv, Refuse \/ Transport
  PROVE  CatalogueInv'
<1>1. UNCHANGED <<answers, type, snap, list, fill, lock, req, past>> /\ (Deliver \/ HandleFail)
  BY DEF Refuse, Transport, records
<1>2. /\ DeliveryTypeOK /\ answers \in BOOLEAN /\ type \in [Types -> Document]
      /\ snap \in [Types -> 0..MaxWrites] /\ list \in Lists /\ fill \in Lists
      /\ lock \in Requests \cup {NoOne} /\ req \in [Requests -> Request] /\ past \in History
  BY StateIs
<1>3. DeliveryInv' /\ AheadKept /\ Sent' = Sent
  BY <1>1, DeliverStep, HandleStep DEF CatalogueInv
<1>4. TypeOK'
  BY <1>1, <1>2, <1>3 DEF DeliveryInv, TypeOK, Request, Document, History
<1>5. RequestsInv'
  BY <1>1 DEF CatalogueInv, RequestsInv, RequestsFit, LocksHeld, DocumentsFit
<1>6. /\ done' = done /\ Lost \subseteq Lost'
      /\ step' = "commit" => step = "commit" /\ next' = next
      /\ UNCHANGED topic
         \/ \E l \in Level, m \in Messages : topic' = Append(topic, [m |-> m, n |-> l])
  BY <1>1, <1>2, DeliverIs
<1>7. /\ Len(topic) \in Nat
      /\ \A o \in 1..Len(topic) : topic'[o] = topic[o]
      /\ \A o \in 1..Len(topic') : o \in 1..Len(topic) \/ topic'[o].n # 0
  <2>1. CASE UNCHANGED topic
    BY <1>2, <2>1 DEF DeliveryTypeOK
  <2>2. ASSUME NEW l \in Level, NEW m \in Messages, topic' = Append(topic, [m |-> m, n |-> l])
        PROVE  /\ Len(topic) \in Nat
               /\ \A o \in 1..Len(topic) : topic'[o] = topic[o]
               /\ \A o \in 1..Len(topic') : o \in 1..Len(topic) \/ topic'[o].n # 0
    <3>1. PICK e \in Entry : e = [m |-> m, n |-> l] /\ e.n # 0
      <4>1. [m |-> m, n |-> l] \in Entry /\ l # 0
        BY LevelsAssumption DEF Entry, Level
      <4> QED
        BY <4>1
    <3>2. topic \in Seq(Entry) /\ topic' = Append(topic, e)
      BY <1>2, <2>2, <3>1 DEF DeliveryTypeOK
    <3> QED
      BY ONLY <3>1, <3>2
  <2> QED
    BY <1>6, <2>1, <2>2
<1>8. Sent' = Sent
  BY <1>3
<1>9. step' = "commit" => Current' = Current
  BY <1>2, <1>6, <1>7 DEF DeliveryTypeOK, Current
<1>10. ASSUME NEW t \in Types, t \notin past'.raced
       PROVE  (WritesFollow(t) /\ InOrder(t) /\ SnapFits(t))'
  <2>1. WritesFollow(t) /\ InOrder(t) /\ SnapFits(t)
    BY <1>1, <1>10 DEF CatalogueInv, Ordered
  <2>2. WritesFollow(t)'
    BY <1>1, <1>8, <2>1 DEF WritesFollow, PendingFits, SentFit, LastSent, Pending
  <2>3. InOrder(t)'
    BY <1>7, <2>1 DEF InOrder
  <2>4. SnapFits(t)'
    <3>1. SUFFICES ASSUME ~\E x \in Lost' : x.t = t, t \notin past.overtaken \cup past.free
                   PROVE  SnapFits(t)'
      BY <1>1 DEF SnapFits
    <3>2. CASE snap[t] = 0 /\ \A x \in done : x.t # t
      BY <1>1, <1>6, <3>2 DEF SnapFits
    <3>3. CASE \E last \in done : last.t = t /\ SnapOf(t, last)
      <4>1. PICK last \in done : last.t = t /\ SnapOf(t, last)
        BY <3>3
      <4>2. ASSUME NEW x \in Sent, x.t = t, x.v > last.v PROVE x \in Ahead'
        <5>1. x \in Ahead
          BY <4>1, <4>2 DEF SnapOf
        <5>2. x \in Messages /\ x.v \in Nat
          BY <1>2, SentAreMessages, MessageIs
        <5>3. ~(step = "commit" /\ x = Current.m)
          BY <4>1, <4>2, <5>2 DEF SnapOf
        <5> QED
          BY <1>3, <3>1, <4>2, <5>1, <5>3 DEF AheadKept
      <4>3. SnapOf(t, last)'
        BY <1>1, <1>6, <1>8, <1>9, <4>1, <4>2 DEF SnapOf
      <4> QED
        BY <1>6, <4>1, <4>3 DEF SnapFits
    <3> QED
      BY <1>6, <2>1, <3>1, <3>2, <3>3 DEF SnapFits
  <2> QED
    BY <2>2, <2>3, <2>4
<1>11. Ordered'
  BY <1>10 DEF Ordered
<1> QED
  BY <1>3, <1>4, <1>5, <1>11 DEF CatalogueInv

LEMMA CatalogueKept == CatalogueInv /\ [Next]_vars => CatalogueInv'
<1> SUFFICES ASSUME CatalogueInv, [Next]_vars PROVE CatalogueInv'
  OBVIOUS
<1>1. ASSUME NEW r \in Requests,
             \/ Create(r) \/ CreateAdd(r) \/ Publish(r)
             \/ \E t \in Types, op \in {"update", "delete"} : Change(r, op, t)
             \/ Acquire(r) \/ Write(r) \/ WritePublished(r) \/ Drop(r) \/ Announce(r)
             \/ Die(r)
      PROVE  CatalogueInv'
  BY <1>1, BeginStep, CreateAddStep, AcquireStep, WriteStep, WritePublishedStep, DropStep,
     AnnounceStep, DieStep
<1>2. CASE LockExpires \/ ListQuery \/ ListStore \/ ListExpires
  BY <1>2, LockExpiresStep, ListStep
<1>3. CASE Handle \/ Refuse \/ Transport
  BY <1>3, HandledStep, TransportStep
<1>4. CASE UNCHANGED vars
  <2>1. /\ UNCHANGED <<answers, type, snap, list, fill, lock, req, past>>
        /\ UNCHANGED delivery
    BY <1>4 DEF vars, records
  <2>2. DeliveryInv'
    BY <2>1, DeliveryStutters DEF CatalogueInv
  <2>3. TypeOK' /\ RequestsInv'
    BY <2>1, <2>2, StateIs
    DEF CatalogueInv, DeliveryInv, TypeOK, RequestsInv, RequestsFit, LocksHeld, DocumentsFit,
        Request, Document, History
  <2>4. Ordered'
    BY <2>1, NothingPends DEF Pending
  <2> QED
    BY <2>2, <2>3, <2>4 DEF CatalogueInv
<1> QED
  BY <1>1, <1>2, <1>3, <1>4 DEF Next

\* Once nothing of a type is on its way, its last write has been announced and
\* handled, and nothing else after it.
LEMMA SnapshotsFollow == CatalogueInv => SnapshotsAgree
<1> SUFFICES ASSUME CatalogueInv, NEW t \in Types, Quiet(t), ~Left(t)
             PROVE  snap[t] = IF type[t].here THEN type[t].v ELSE 0
  BY DEF SnapshotsAgree
<1>1. DeliveryTypeOK /\ type \in [Types -> Document] /\ snap \in [Types -> 0..MaxWrites]
  BY StateIs
<1>2. type[t].v \in Nat /\ type[t].here \in BOOLEAN
  BY <1>1, DocumentIs
<1>3. /\ t \notin past.raced \cup past.unsent \cup past.overtaken \cup past.free
      /\ ~\E m \in Lost : m.t = t
  BY DEF Left, Lost
<1>4. WritesFollow(t) /\ SnapFits(t)
  BY <1>3 DEF CatalogueInv, Ordered
<1>5. ASSUME NEW m \in Sent, m.t = t PROVE m \in done /\ m \notin Ahead
  BY <1>3, <1>5 DEF Quiet, CatalogueInv, DeliveryInv, NoneForgotten, Ended, Ahead, Lost
<1>6. done \subseteq Sent /\ Sent \subseteq Messages
  BY <1>1, SentAreMessages DEF CatalogueInv, DeliveryInv, AllSent
<1>7. ASSUME NEW r \in Requests PROVE ~Pending(r, t)
  BY DEF Quiet, Pending
<1>8. type[t].v > 0 => \E m \in Sent : m.t = t /\ m.v = type[t].v
  BY <1>3, <1>4, <1>7 DEF WritesFollow, LastSent
<1>9. CASE type[t].v = 0
  <2>1. ~type[t].here
    BY <1>2, <1>9 DEF CatalogueInv, RequestsInv, DocumentsFit
  <2>2. ASSUME NEW m \in done, m.t = t PROVE FALSE
    <3>1. m.v \in 1..MaxWrites /\ m.v <= 0
      BY <1>4, <1>6, <1>9, <2>2, MessageIs DEF WritesFollow, SentFit
    <3> QED
      BY <3>1, MaxWritesAssumption
  <2> QED
    BY <1>3, <1>4, <2>1, <2>2 DEF SnapFits
<1>10. CASE type[t].v # 0
  <2>1. PICK m \in Sent : m.t = t /\ m.v = type[t].v
    BY <1>2, <1>8, <1>10
  <2>2. PICK last \in done : last.t = t /\ SnapOf(t, last)
    BY <1>3, <1>4, <1>5, <2>1 DEF SnapFits
  <2>3. last.v \in Nat /\ last.v <= type[t].v /\ ~(m.v > last.v)
    BY <1>4, <1>5, <1>6, <2>1, <2>2, MessageIs DEF WritesFollow, SentFit, SnapOf
  <2>4. last.v = type[t].v
    BY <1>2, <2>1, <2>3
  <2>5. last.op = "delete" <=> ~type[t].here
    BY <1>4, <1>6, <2>2, <2>4 DEF WritesFollow, SentFit
  <2>6. snap[t] = Copied(last)
    BY <2>2 DEF SnapOf
  <2> QED
    BY <1>2, <2>4, <2>5, <2>6 DEF Copied
<1> QED
  BY <1>9, <1>10

LEMMA ListKept ==
  ASSUME CatalogueInv, ListFollows, [Next]_vars
  PROVE  ListFollows'
<1>1. req \in [Requests -> Request] /\ past \in History /\ list \in Lists
  BY StateIs
<1>2. ASSUME NEW r \in Requests, Create(r) \/ Publish(r) \/ Acquire(r)
                 \/ \E t \in Types, op \in {"update", "delete"} : Change(r, op, t)
      PROVE  ListFollows'
  <2>1. /\ list' = list /\ past' = past /\ ~At(r, "drop")
        /\ \E q : req' = [req EXCEPT ![r] = q]
    BY <1>2 DEF Create, Publish, Change, Acquire, GoTo, End, At
  <2> QED
    BY SMTT(60), <1>1, <2>1 DEF ListFollows, At
<1>3. ASSUME NEW r \in Requests, CreateAdd(r) \/ Write(r) \/ WritePublished(r)
      PROVE  ListFollows'
  <2>1. req[r] \in Request
    BY <1>1
  <2>2. \/ /\ req' = [req EXCEPT ![r] = Nothing] /\ list' = list /\ past' = past
           /\ ~At(r, "drop")
        \/ req'[r].at = "drop"
    <3>1. CASE CreateAdd(r)
      <4>1. PICK t \in Types : req' = [req EXCEPT ![r].at = "drop", ![r].t = t, ![r].v = 1]
        BY <3>1 DEF CreateAdd
      <4>2. req'[r] = [req[r] EXCEPT !.at = "drop", !.t = t, !.v = 1]
        BY <1>1, <4>1
      <4> QED
        BY <2>1, <4>2 DEF Request
    <3>2. CASE Write(r)
      <4>1. \/ End(r) /\ list' = list /\ past' = past /\ ~At(r, "drop")
            \/ req' = [req EXCEPT ![r].at = "drop", ![r].v = type[req[r].t].v + 1]
        BY <3>2 DEF Write, At
      <4>2. CASE req' = [req EXCEPT ![r].at = "drop", ![r].v = type[req[r].t].v + 1]
        <5>1. req'[r] = [req[r] EXCEPT !.at = "drop", !.v = type[req[r].t].v + 1]
          BY <1>1, <4>2
        <5> QED
          BY <2>1, <5>1 DEF Request
      <4> QED
        BY <4>1, <4>2 DEF End
    <3>3. CASE WritePublished(r)
      BY <1>1, <2>1, <3>3 DEF WritePublished, End, GoTo, At, Request
    <3> QED
      BY <1>3, <3>1, <3>2, <3>3
  <2> QED
    BY <1>1, <2>2 DEF ListFollows, At
<1>4. ASSUME NEW r \in Requests, Drop(r)
      PROVE  ListFollows'
  <2>1. list' = "none" \/ past' = [past EXCEPT !.kept = TRUE]
    BY <1>4 DEF Drop, DropCache, KeepCache
  <2> QED
    BY <1>1, <2>1 DEF ListFollows, History
<1>5. ASSUME NEW r \in Requests, Announce(r)
      PROVE  ListFollows'
  <2>1. /\ list' = list /\ ~At(r, "drop") /\ req' = [req EXCEPT ![r] = Nothing]
    BY <1>5 DEF Announce, At, End
  <2>2. past.kept => past'.kept
    BY <1>1, <1>5 DEF Announce, History
  <2> QED
    BY <1>1, <2>1, <2>2 DEF ListFollows, At
<1>6. ASSUME NEW r \in Requests, Die(r)
      PROVE  ListFollows'
  <2>1. /\ list' = list /\ req' = [req EXCEPT ![r] = Nothing]
        /\ past'.kept <=> past.kept \/ At(r, "drop")
    BY <1>1, <1>6 DEF Die, End, History
  <2> QED
    BY <1>1, <2>1 DEF ListFollows, At
<1>7. CASE LockExpires
  <2>1. list' = list /\ req' = req /\ past'.kept = past.kept
    BY <1>1, <1>7 DEF LockExpires, History
  <2> QED
    BY <2>1 DEF ListFollows, At
<1>8. CASE ListQuery \/ ListExpires
  BY <1>8 DEF ListQuery, ListExpires, ListFollows, At
<1>9. CASE ListStore
  <2>1. /\ list' \in {list, fill} /\ req' = req
        /\ past'.kept <=> past.kept \/ fill = "stale"
    BY <1>1, <1>9 DEF ListStore, History
  <2> QED
    BY <2>1 DEF ListFollows, At
<1>10. CASE Handle
  <2>1. list' = list /\ req' = req
    BY <1>10 DEF Handle
  <2>2. past'.kept = past.kept
    BY <1>1, <1>10 DEF Handle, History
  <2> QED
    BY <2>1, <2>2 DEF ListFollows, At
<1>11. CASE Refuse \/ Transport \/ UNCHANGED vars
  BY <1>11 DEF Refuse, Transport, vars, records, ListFollows, At
<1> QED
  BY <1>2, <1>3, <1>4, <1>5, <1>6, <1>7, <1>8, <1>9, <1>10, <1>11 DEF Next

\* The catalogue, its requests, its copies and the transport keep their types.
THEOREM CatalogueTypes == Spec => []TypeOK
<1>1. CatalogueInv => TypeOK
  BY DEF CatalogueInv
<1> QED
  BY <1>1, CatalogueStarts, CatalogueKept, PTL DEF Spec

\* The event service's snapshots and the cached list of the ticket types follow
\* them, for every number of types, requests, retry topics and faults
\* (ticket.service.js:184-188).
THEOREM CopiesAreFollowing == Spec => []CopiesFollow
<1>1. Init => CatalogueInv /\ ListFollows
  BY CatalogueStarts DEF Init, ListFollows
<1>2. (CatalogueInv /\ ListFollows) /\ [Next]_vars => (CatalogueInv /\ ListFollows)'
  BY CatalogueKept, ListKept
<1>3. CatalogueInv /\ ListFollows => CopiesFollow
  BY SnapshotsFollow DEF CopiesFollow
<1> QED
  BY <1>1, <1>2, <1>3, PTL DEF Spec
=============================================================================
