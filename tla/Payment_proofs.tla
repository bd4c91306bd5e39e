--------------------------- MODULE Payment_proofs ---------------------------
(***************************************************************************)
(* Theorems about Payment, for every number of requests, intents and keys: *)
(* a final status stays, is published unless publishing it failed, and     *)
(* nothing else is published; the two records of an intent agree, and one  *)
(* idempotency key creates one intent.                                     *)
(***************************************************************************)
EXTENDS Payment, FiniteSetTheorems, TLAPS

\* What a call knows of the intent it is about.
CallKnows(c) ==
  /\ call[c].at \in {"idle", "latch", "cache"} => call[c].id = 0
  /\ At(c, "doc") => /\ call[c].id \in Intents
                     /\ call[c].id # 0
                     /\ intent[call[c].id] = "none"
                     /\ \A d \in Calls \ {c} : call[d].id # call[c].id
  /\ call[c].at \in {"answer", "settle", "tell"} \cup PaySteps =>
       call[c].id \in Intents /\ intent[call[c].id] # "none"
  /\ call[c].at \in PaySteps => call[c].s \in Status
  /\ At(c, "tell") => call[c].s \in Final /\ call[c].s = intent[call[c].id]

CallsKnow == \A c \in Calls : CallKnows(c)
IssuedExist == \A i \in issued : intent[i] # "none"

IInv == TypeOK /\ CallsKnow /\ IssuedExist /\ SettledIsTold

LEMMA InitIInv == Init => IInv
<1> SUFFICES ASSUME Init PROVE IInv
  OBVIOUS
<1> USE DEF Init
<1>1. TypeOK
  BY DEF TypeOK, PastType, Nothing, Steps, Status
<1>2. CallsKnow
  BY DEF CallsKnow, CallKnows, At, Nothing, PaySteps
<1>3. IssuedExist
  BY DEF IssuedExist
<1>4. SettledIsTold
  BY DEF SettledIsTold, Final
<1> QED
  BY <1>1, <1>2, <1>3, <1>4 DEF IInv

-----------------------------------------------------------------------------
\* A step that leaves the intents and what was announced alone keeps what was
\* settled told, unless it takes a call away from announcing.
LEMMA NothingSettled ==
  ASSUME SettledIsTold, UNCHANGED <<intent, told>>,
         past.lost \subseteq past'.lost,
         \A c \in Calls : At(c, "tell") =>
           \/ call'[c] = call[c]
           \/ <<call[c].id, call[c].s>> \in past'.lost
  PROVE  SettledIsTold'
BY DEF SettledIsTold, At

\* One lemma for each action, from here to the next line.
LEMMA CreateLookStep ==
  ASSUME IInv, NEW c \in Calls, NEW k \in Keys \cup {NoKey}, CreateLook(c, k)
  PROVE  IInv'
<1> USE DEF IInv, CreateLook, docs, At
<1>1. TypeOK'
  <2>1. call' = [call EXCEPT ![c] = [call[c] EXCEPT
                   !.at = IF k = NoKey THEN "cache" ELSE "latch", !.k = k]]
    BY DEF TypeOK
  <2> QED
    BY <2>1 DEF TypeOK, Steps
<1>2. CallsKnow'
  BY DEF TypeOK, CallsKnow, CallKnows, PaySteps
<1>3. IssuedExist'
  BY DEF IssuedExist
<1>4. SettledIsTold'
  BY NothingSettled DEF TypeOK
<1> QED
  BY <1>1, <1>2, <1>3, <1>4

LEMMA CreateLatchStep ==
  ASSUME IInv, NEW c \in Calls, CreateLatch(c)
  PROVE  IInv'
<1> USE DEF IInv, CreateLatch, Latch, At, GoTo, End
<1>1. TypeOK'
  BY DEF TypeOK, Steps, Nothing
<1>2. CallsKnow'
  BY DEF TypeOK, CallsKnow, CallKnows, PaySteps, Nothing
<1>3. IssuedExist'
  BY DEF IssuedExist
<1>4. SettledIsTold'
  BY NothingSettled DEF TypeOK
<1> QED
  BY <1>1, <1>2, <1>3, <1>4

LEMMA CreateCacheStep ==
  ASSUME IInv, NEW c \in Calls, CreateCache(c)
  PROVE  IInv'
<1> USE DEF IInv, CreateCache, At
<1>1. TypeOK'
  BY DEF TypeOK, Steps, Status
<1>2. CallsKnow'
  BY DEF TypeOK, CallsKnow, CallKnows, PaySteps
<1>3. IssuedExist'
  BY DEF IssuedExist
<1>4. SettledIsTold'
  BY NothingSettled DEF TypeOK
<1> QED
  BY <1>1, <1>2, <1>3, <1>4

LEMMA CreateDocStep ==
  ASSUME IInv, NEW c \in Calls, CreateDoc(c)
  PROVE  IInv'
<1> USE DEF IInv, CreateDoc, At, GoTo
<1>1. TypeOK'
  <2>1. call[c].id \in Intents /\ call[c].k \in Keys \cup {NoKey}
    BY DEF TypeOK, CallsKnow, CallKnows
  <2>2. past' \in PastType
    BY <2>1 DEF TypeOK, PastType
  <2>3. call' = [call EXCEPT ![c] = [call[c] EXCEPT !.at = "answer"]]
    BY DEF TypeOK
  <2> QED
    BY <2>1, <2>2, <2>3 DEF TypeOK, Steps, Status
<1>2. CallsKnow'
  BY DEF TypeOK, CallsKnow, CallKnows, PaySteps, Final
<1>3. IssuedExist'
  BY DEF IssuedExist, TypeOK
<1>4. SettledIsTold'
  BY DEF SettledIsTold, TypeOK, Final, CallsKnow, CallKnows, PastType
<1> QED
  BY <1>1, <1>2, <1>3, <1>4

LEMMA CreateAnswerStep ==
  ASSUME IInv, NEW c \in Calls, CreateAnswer(c)
  PROVE  IInv'
<1> USE DEF IInv, CreateAnswer, At, End
<1>1. TypeOK'
  BY DEF TypeOK, Steps, Nothing, Answered, CallsKnow, CallKnows
<1>2. CallsKnow'
  BY DEF TypeOK, CallsKnow, CallKnows, PaySteps, Nothing
<1>3. IssuedExist'
  BY DEF IssuedExist, CallsKnow, CallKnows
<1>4. SettledIsTold'
  BY NothingSettled DEF TypeOK
<1> QED
  BY <1>1, <1>2, <1>3, <1>4

LEMMA CreateFailStep ==
  ASSUME IInv, NEW c \in Calls, CreateFail(c)
  PROVE  IInv'
<1> USE DEF IInv, CreateFail, At, End
<1>1. TypeOK'
  BY DEF TypeOK, Steps, Nothing, Answered
<1>2. CallsKnow'
  BY DEF TypeOK, CallsKnow, CallKnows, PaySteps, Nothing
<1>3. IssuedExist'
  BY DEF IssuedExist
<1>4. SettledIsTold'
  BY NothingSettled DEF TypeOK
<1> QED
  BY <1>1, <1>2, <1>3, <1>4
-----------------------------------------------------------------------------
LEMMA MockPayStep ==
  ASSUME IInv, NEW c \in Calls, NEW i \in Intents, MockPay(c, i)
  PROVE  IInv'
<1> USE DEF IInv, MockPay, docs, At
<1>1. Roll(i) \subseteq Status
  BY DEF Roll, Status, Final
<1>2. TypeOK'
  <2>1. past' \in PastType
    BY DEF TypeOK, PastType
  <2>2. PICK s \in Roll(i) :
          call' = [call EXCEPT ![c] = [at |-> "set", id |-> i, s |-> s, k |-> NoKey]]
    BY ZenonT(60) DEF Nothing
  <2>3. s \in Status
    BY <1>1, <2>2
  <2> QED
    BY <2>1, <2>2, <2>3 DEF TypeOK, Steps, PaySteps
<1>3. CallsKnow'
  BY <1>1 DEF TypeOK, CallsKnow, CallKnows, PaySteps, Nothing, IssuedExist
<1>4. IssuedExist'
  BY DEF IssuedExist
<1>5. SettledIsTold'
  <2>1. past'.lost = past.lost
    BY DEF TypeOK, PastType
  <2> QED
    BY <2>1, NothingSettled
<1> QED
  BY <1>2, <1>3, <1>4, <1>5

LEMMA MockPaySetStep ==
  ASSUME IInv, NEW c \in Calls, MockPaySet(c)
  PROVE  IInv'
<1> USE DEF IInv, MockPaySet, At, GoTo
<1> past' \in PastType /\ past'.lost = past.lost
  BY DEF TypeOK, PastType, CallsKnow, CallKnows, PaySteps
<1>1. TypeOK'
  BY DEF TypeOK, Steps, PaySteps, CallsKnow, CallKnows
<1>2. CallsKnow'
  BY DEF TypeOK, CallsKnow, CallKnows, PaySteps
<1>3. IssuedExist'
  BY DEF IssuedExist
<1>4. SettledIsTold'
  BY NothingSettled
<1> QED
  BY <1>1, <1>2, <1>3, <1>4

\* A final status stays.
LEMMA EffectiveStatus ==
  ASSUME TypeOK, NEW i \in Intents, NEW s \in Status, intent[i] # "none"
  PROVE  /\ Effective(i, s) \in Status
         /\ intent[i] \in Final => Effective(i, s) = intent[i]
         /\ Effective(i, s) # intent[i] =>
              intent[i] = "PENDING" /\ Effective(i, s) = s /\ s \in Final
BY DEF TypeOK, Effective, Status

\* A call settles an intent and goes on to announce it, or leaves it alone.
LEMMA SettleStep ==
  ASSUME IInv, NEW c \in Calls, NEW s \in Status,
         NEW new \in [at : Steps, id : Intents \cup {0},
                      s : Status \cup {"none"}, k : Keys \cup {NoKey}],
         call[c].at \in {"settle", "update"},
         NEW i, i = call[c].id,
         NEW e, e = Effective(i, s),
         intent' = [intent EXCEPT ![i] = e],
         \/ e = intent[i] /\ new = Nothing
         \/ e \in Final /\ new.at = "tell" /\ new.id = i /\ new.s = e,
         call' = [call EXCEPT ![c] = new],
         past' \in PastType, past'.lost = past.lost,
         UNCHANGED <<wired, tx, issued, late, idem, told>>
  PROVE  IInv'
<1> USE DEF IInv
<1>1. i \in Intents /\ intent[i] # "none"
  BY DEF CallsKnow, CallKnows, PaySteps
<1>2. /\ e \in Status
      /\ intent[i] \in Final => e = intent[i]
  BY <1>1, EffectiveStatus
<1>3. \A j \in Intents : intent'[j] = IF j = i THEN e ELSE intent[j]
  BY <1>1 DEF TypeOK
<1>4. \A d \in Calls : call'[d] = IF d = c THEN new ELSE call[d]
  BY DEF TypeOK
<1>5. TypeOK'
  BY <1>1, <1>2 DEF TypeOK
<1>6. CallsKnow'
  <2> SUFFICES ASSUME NEW d \in Calls PROVE CallKnows(d)'
    BY DEF CallsKnow
  <2>1. CASE d = c
    <3>1. CASE new = Nothing
      BY <1>4, <2>1, <3>1 DEF CallKnows, At, Nothing, PaySteps
    <3>2. CASE e \in Final /\ new.at = "tell" /\ new.id = i /\ new.s = e
      BY <1>1, <1>3, <1>4, <2>1, <3>2 DEF CallKnows, At, PaySteps, Final
    <3> QED
      BY <3>1, <3>2
  <2>2. CASE d # c
    <3>1. call'[d] = call[d] /\ CallKnows(d)
      BY <1>4, <2>2 DEF CallsKnow
    <3>2. new.id \in {0, call[c].id}
      BY DEF Nothing
    <3>3. \A x \in Calls \ {d} : At(d, "doc") => call'[x].id # call[d].id
      BY <1>4, <2>2, <3>1, <3>2 DEF CallKnows
    <3> QED
      BY <1>1, <1>2, <1>3, <2>2, <3>1, <3>3 DEF CallKnows, At, Status, Final
  <2> QED
    BY <2>1, <2>2
<1>7. IssuedExist'
  BY <1>1, <1>2, <1>3 DEF IssuedExist, Status, Final, TypeOK
<1>8. SettledIsTold'
  <2> SUFFICES ASSUME NEW j \in Intents, intent'[j] \in Final
               PROVE  \/ <<j, intent'[j]>> \in told \cup past.lost
                      \/ \E d \in Calls : /\ call'[d].at = "tell"
                                          /\ call'[d].id = j
                                          /\ call'[d].s = intent'[j]
    BY DEF SettledIsTold, At
  <2>1. CASE intent'[j] = intent[j]
    <3>1. CASE <<j, intent[j]>> \in told \cup past.lost
      BY <2>1, <3>1
    <3>2. CASE <<j, intent[j]>> \notin told \cup past.lost
      <4>1. PICK d \in Calls : /\ call[d].at = "tell" /\ call[d].id = j
                               /\ call[d].s = intent[j]
        BY <2>1, <3>2 DEF SettledIsTold, At
      <4> QED
        BY <1>4, <2>1, <4>1
    <3> QED
      BY <3>1, <3>2
  <2>2. CASE intent'[j] # intent[j]
    <3>1. j = i /\ intent'[j] = e /\ e # intent[i]
      BY <1>3, <2>2
    <3>2. new.at = "tell" /\ new.id = i /\ new.s = e
      BY <3>1
    <3> QED
      BY <1>4, <3>1, <3>2
  <2> QED
    BY <2>1, <2>2
<1> QED
  BY <1>5, <1>6, <1>7, <1>8

LEMMA UpdateStep ==
  ASSUME IInv, NEW c \in Calls, UpdateIntentStatus(c)
  PROVE  IInv'
<1> DEFINE i == call[c].id
           s == call[c].s
           e == Effective(i, s)
           new == IF e = intent[i] THEN Nothing
                  ELSE [call[c] EXCEPT !.at = "tell", !.s = e]
<1> USE DEF IInv, UpdateIntentStatus, At
<1>1. i \in Intents /\ intent[i] # "none" /\ s \in Status
  BY DEF CallsKnow, CallKnows, PaySteps
<1>2. e \in Status /\ (e # intent[i] => e = s /\ e \in Final)
  BY <1>1, EffectiveStatus
<1>3. call' = [call EXCEPT ![c] = new]
  <2>1. CASE e = intent[i]
    BY <2>1 DEF End
  <2>2. CASE e # intent[i]
    <3>1. call' = [call EXCEPT ![c] = [call[c] EXCEPT !.at = "tell"]]
      BY <2>2 DEF GoTo, TypeOK
    <3>2. [call[c] EXCEPT !.at = "tell"] = [call[c] EXCEPT !.at = "tell", !.s = s]
      BY DEF TypeOK
    <3> QED
      BY <1>2, <2>2, <3>1, <3>2
  <2> QED
    BY <2>1, <2>2
<1>4. new \in [at : Steps, id : Intents \cup {0}, s : Status \cup {"none"},
               k : Keys \cup {NoKey}]
  BY ZenonT(60), <1>2 DEF TypeOK, Nothing, Steps
<1>5. past' \in PastType /\ past'.lost = past.lost
  BY DEF TypeOK
<1> QED
  BY <1>1, <1>2, <1>3, <1>4, <1>5, SettleStep

LEMMA RefreshStep ==
  ASSUME IInv, NEW c \in Calls, NEW i \in Intents, Refresh(c, i)
  PROVE  IInv'
<1> USE DEF IInv, Refresh, docs, At
<1>1. TypeOK'
  BY DEF TypeOK, Steps, Nothing
<1>2. CallsKnow'
  BY DEF TypeOK, CallsKnow, CallKnows, PaySteps, Nothing
<1>3. IssuedExist'
  BY DEF IssuedExist
<1>4. SettledIsTold'
  BY NothingSettled DEF TypeOK
<1> QED
  BY <1>1, <1>2, <1>3, <1>4

LEMMA ProviderStep ==
  ASSUME IInv, NEW c \in Calls, Settle(c)
  PROVE  IInv'
<1> USE DEF IInv, At
<1> DEFINE i == call[c].id
<1>1. PICK answer \in Status :
        /\ intent' = [intent EXCEPT ![i] = Effective(i, answer)]
        /\ call' = [call EXCEPT ![c] =
             IF Effective(i, answer) = "PENDING" THEN Nothing
             ELSE [@ EXCEPT !.at = "tell", !.s = Effective(i, answer)]]
        /\ past' = IF Effective(i, answer) # intent[i]
                     THEN [past EXCEPT !.mixed = @ \cup {i}] ELSE past
  BY DEF Settle
<1> DEFINE e == Effective(i, answer)
           new == IF e = "PENDING" THEN Nothing
                  ELSE [call[c] EXCEPT !.at = "tell", !.s = e]
<1>2. call[c].at = "settle" /\ i \in Intents /\ intent[i] # "none"
  BY DEF Settle, CallsKnow, CallKnows
<1>3. /\ e \in Status
      /\ intent[i] \in Final => e = intent[i]
      /\ e # intent[i] => intent[i] = "PENDING" /\ e = answer
  BY <1>2, EffectiveStatus
<1>4. \/ e = intent[i] /\ new = Nothing
      \/ e \in Final /\ new = [call[c] EXCEPT !.at = "tell", !.s = e]
  <2>1. CASE e = "PENDING"
    BY <1>2, <1>3, <2>1 DEF TypeOK, Status, Final
  <2>2. CASE e # "PENDING"
    BY <1>3, <2>2 DEF Status
  <2> QED
    BY <2>1, <2>2
<1>5. new \in [at : Steps, id : Intents \cup {0}, s : Status \cup {"none"},
               k : Keys \cup {NoKey}]
  <2>1. CASE e = "PENDING"
    BY <2>1 DEF Nothing, Steps
  <2>2. CASE e # "PENDING"
    <3>1. call[c] \in [at : Steps, id : Intents \cup {0},
                      s : Status \cup {"none"}, k : Keys \cup {NoKey}]
      BY DEF TypeOK
    <3>2. new = [call[c] EXCEPT !.at = "tell", !.s = e]
      BY <2>2
    <3> HIDE DEF new, e
    <3> QED
      BY <1>3, <3>1, <3>2 DEF Steps
  <2> QED
    BY <2>1, <2>2
<1>6. past' \in PastType /\ past'.lost = past.lost
  BY <1>1, <1>2 DEF TypeOK, PastType
<1>7. call' = [call EXCEPT ![c] = new]
  BY <1>1
<1>8. UNCHANGED <<wired, tx, issued, late, idem, told>>
  BY DEF Settle
<1>9. \/ e = intent[i] /\ new = Nothing
      \/ e \in Final /\ new.at = "tell" /\ new.id = i /\ new.s = e
  BY <1>4 DEF TypeOK
<1>10. intent' = [intent EXCEPT ![i] = e]
  BY <1>1
<1>11. i = call[c].id /\ e = Effective(i, answer)
  OBVIOUS
<1> HIDE DEF i, e, new
<1> QED
  BY <1>2, <1>5, <1>6, <1>7, <1>8, <1>9, <1>10, <1>11, SettleStep

LEMMA TellStep ==
  ASSUME IInv, NEW c \in Calls, Tell(c)
  PROVE  IInv'
<1> USE DEF IInv, Tell, At, End, Lose
<1>1. call[c].id \in Intents /\ call[c].s \in Final
  BY DEF CallsKnow, CallKnows
<1>2. TypeOK'
  BY <1>1 DEF TypeOK, Steps, Nothing, PastType
<1>3. CallsKnow'
  BY DEF TypeOK, CallsKnow, CallKnows, PaySteps, Nothing
<1>4. IssuedExist'
  BY DEF IssuedExist
<1>5. SettledIsTold'
  <2>1. told \cup past.lost \cup {<<call[c].id, call[c].s>>}
          = told' \cup past'.lost
    BY DEF TypeOK, PastType
  <2> QED
    BY <2>1 DEF SettledIsTold, TypeOK
<1> QED
  BY <1>2, <1>3, <1>4, <1>5
-----------------------------------------------------------------------------
LEMMA DieStep ==
  ASSUME IInv, NEW c \in Calls, Die(c)
  PROVE  IInv'
<1> USE DEF IInv, Die, At, End, Lose, docs
<1>1. call[c].at = "tell" => call[c].id \in Intents /\ call[c].s \in Final
  BY DEF CallsKnow, CallKnows
<1>2. call[c].at = "update" => call[c].id \in Intents
  BY DEF CallsKnow, CallKnows, PaySteps
<1>3. TypeOK'
  BY SMTT(60), <1>1, <1>2 DEF TypeOK, Steps, Nothing, PastType
<1>4. CallsKnow'
  BY DEF TypeOK, CallsKnow, CallKnows, PaySteps, Nothing
<1>5. IssuedExist'
  BY DEF IssuedExist
<1>6. SettledIsTold'
  <2>1. /\ past.lost \subseteq past'.lost
        /\ call[c].at = "tell" => <<call[c].id, call[c].s>> \in past'.lost
    BY DEF TypeOK, PastType
  <2> QED
    BY <2>1, NothingSettled DEF TypeOK
<1> QED
  BY <1>3, <1>4, <1>5, <1>6

\* Time passes, or a repeated request is answered.
LEMMA QuietStep ==
  ASSUME IInv,
         \/ \E k \in Keys : CreateRepeat(k) \/ KeyExpires(k)
         \/ \E i \in Intents : Expire(i) \/ TxExpires(i)
  PROVE  IInv'
<1> USE DEF IInv, CreateRepeat, KeyExpires, Expire, TxExpires
<1>1. TypeOK'
  BY DEF TypeOK, PastType
<1>2. CallsKnow'
  BY DEF CallsKnow, CallKnows, At
<1>3. IssuedExist'
  BY DEF IssuedExist
<1>4. SettledIsTold'
  <2>1. past'.lost = past.lost /\ UNCHANGED <<intent, told, call>>
    BY DEF TypeOK, PastType
  <2> QED
    BY <2>1, NothingSettled
<1> QED
  BY <1>1, <1>2, <1>3, <1>4

LEMMA NextIInv == IInv /\ [Next]_vars => IInv'
<1> SUFFICES ASSUME IInv, [Next]_vars PROVE IInv'
  OBVIOUS
<1>1. ASSUME NEW c \in Calls, Step(c) PROVE IInv'
  BY <1>1, CreateLatchStep, CreateCacheStep, CreateDocStep, CreateAnswerStep,
     CreateFailStep, MockPaySetStep, UpdateStep, ProviderStep, TellStep, DieStep
     DEF Step
<1>2. ASSUME NEW c \in Calls,
             \/ \E k \in Keys \cup {NoKey} : CreateLook(c, k)
             \/ \E i \in Intents : MockPay(c, i) \/ Refresh(c, i)
      PROVE  IInv'
  BY <1>2, CreateLookStep, MockPayStep, RefreshStep
<1>3. CASE UNCHANGED vars
  BY <1>3 DEF vars, docs, IInv, TypeOK, CallsKnow, CallKnows, At, IssuedExist,
              SettledIsTold
<1> QED
  BY <1>1, <1>2, <1>3, QuietStep DEF Next

LEMMA Invariant == Spec => []IInv
BY InitIInv, NextIInv, PTL DEF Spec

\* The payment part keeps its types, whatever the numbers of requests,
\* intents and keys.
THEOREM TypeCorrect == Spec => []TypeOK
<1>1. IInv => TypeOK
  BY DEF IInv
<1> QED
  BY <1>1, Invariant, PTL

\* Every final status of an intent has been published, is about to be, or its
\* publication failed (payment.service.js:510, :665).
THEOREM FinalStatusIsTold == Spec => []SettledIsTold
<1>1. IInv => SettledIsTold
  BY DEF IInv
<1> QED
  BY <1>1, Invariant, PTL
-----------------------------------------------------------------------------
\* Every step opens, settles or announces one intent, or is none of the
\* abstract specification's business.
LEMMA InitOnce == Init => Once!Init
  BY DEF Init, Once!Init, Once!Ids

LEMMA SettlesOnce ==
  ASSUME IInv, NEW i \in Intents, NEW s \in Status, intent[i] # "none",
         intent' = [intent EXCEPT ![i] = Effective(i, s)], told' = told
  PROVE  Once!Next \/ UNCHANGED Once!vars
<1> DEFINE e == Effective(i, s)
<1>1. CASE e = intent[i]
  <2>1. intent' = intent
    BY <1>1 DEF IInv, TypeOK
  <2> QED
    BY <2>1 DEF Once!vars
<1>2. CASE e # intent[i]
  <2>1. intent[i] = "PENDING" /\ e \in Final
    BY <1>2, EffectiveStatus DEF IInv
  <2>2. Once!Settle(i, e)
    BY <2>1 DEF Once!Settle
  <2> QED
    BY <2>1, <2>2 DEF Once!Next, Once!Ids, Once!Final, Final
<1> QED
  BY <1>1, <1>2

LEMMA StepOnce ==
  IInv /\ [Next]_vars => [Once!Next]_(Once!vars)
<1> SUFFICES ASSUME IInv, [Next]_vars
             PROVE  Once!Next \/ UNCHANGED Once!vars
  OBVIOUS
<1>1. ASSUME UNCHANGED <<intent, told>> PROVE UNCHANGED Once!vars
  BY <1>1 DEF Once!vars
<1>2. ASSUME NEW c \in Calls, Step(c)
      PROVE  Once!Next \/ UNCHANGED Once!vars
  <2>1. CASE CreateDoc(c)
    <3>1. call[c].id \in Intents /\ intent[call[c].id] = "none"
      BY <2>1 DEF CreateDoc, IInv, CallsKnow, CallKnows, At
    <3>2. Once!Open(call[c].id)
      BY <2>1, <3>1 DEF CreateDoc, Once!Open
    <3> QED
      BY <3>1, <3>2 DEF Once!Next, Once!Ids
  <2>2. CASE UpdateIntentStatus(c)
    <3>1. /\ call[c].id \in Intents
          /\ intent[call[c].id] # "none"
          /\ call[c].s \in Status
      BY <2>2 DEF UpdateIntentStatus, IInv, CallsKnow, CallKnows, At, PaySteps
    <3> QED
      BY <2>2, <3>1, SettlesOnce DEF UpdateIntentStatus
  <2>3. CASE Settle(c)
    <3>1. call[c].id \in Intents /\ intent[call[c].id] # "none"
      BY <2>3 DEF Settle, IInv, CallsKnow, CallKnows, At
    <3>2. PICK answer \in Status :
            intent' = [intent EXCEPT ![call[c].id] =
                         Effective(call[c].id, answer)]
      BY <2>3 DEF Settle
    <3>3. told' = told
      BY <2>3 DEF Settle
    <3> QED
      BY <3>1, <3>2, <3>3, SettlesOnce
  <2>4. CASE Tell(c)
    <3>1. /\ call[c].id \in Intents
          /\ call[c].s \in Final
          /\ call[c].s = intent[call[c].id]
      BY <2>4 DEF Tell, IInv, CallsKnow, CallKnows, At
    <3>2. CASE told' = told
      BY <1>1, <2>4, <3>2 DEF Tell
    <3>3. CASE told' = told \cup {<<call[c].id, call[c].s>>}
      <4>1. Once!Announce(call[c].id)
        BY <2>4, <3>1, <3>3 DEF Tell, Once!Announce, Once!Final, Final
      <4> QED
        BY <3>1, <4>1 DEF Once!Next, Once!Ids
    <3> QED
      BY <2>4, <3>2, <3>3 DEF Tell
  <2>5. CASE \/ CreateLatch(c) \/ CreateCache(c) \/ CreateAnswer(c)
             \/ CreateFail(c) \/ MockPaySet(c) \/ Die(c)
    BY <1>1, <2>5 DEF CreateLatch, CreateCache, CreateAnswer, CreateFail,
       MockPaySet, Die, docs
  <2> QED
    BY <1>2, <2>1, <2>2, <2>3, <2>4, <2>5 DEF Step
<1>3. ASSUME NEW c \in Calls,
             \/ \E k \in Keys \cup {NoKey} : CreateLook(c, k)
             \/ \E i \in Intents : MockPay(c, i) \/ Refresh(c, i)
      PROVE  UNCHANGED Once!vars
  BY <1>1, <1>3 DEF CreateLook, MockPay, Refresh, docs
<1>4. ASSUME \/ \E k \in Keys : CreateRepeat(k) \/ KeyExpires(k)
             \/ \E i \in Intents : Expire(i) \/ TxExpires(i)
      PROVE  UNCHANGED Once!vars
  BY <1>1, <1>4 DEF CreateRepeat, KeyExpires, Expire, TxExpires
<1>5. CASE UNCHANGED vars
  BY <1>1, <1>5 DEF vars, docs
<1> QED
  BY <1>2, <1>3, <1>4, <1>5 DEF Next

\* However requests overlap, die or repeat themselves, an intent gets one final
\* status and no other is published for it (payment.service.js:437).
THEOREM SettlesIntentsOnce == Spec => PaymentSettlesOnce
BY Invariant, InitOnce, StepOnce, PTL
   DEF Spec, PaymentSettlesOnce, Once!Spec

-----------------------------------------------------------------------------
(* One intent for each key.                                                *)

Creating(c, k) == call[c].k = k /\ call[c].at \in {"cache", "doc", "answer"}

\* While the record of a key lives, one request works under it and makes one
\* intent at most.
KeyInv(k) ==
  k \notin past.lapsed =>
    /\ past.made[k] = {} \/ \E i \in Intents : past.made[k] = {i}
    /\ idem[k] = "free" => past.made[k] = {} /\ \A c \in Calls : ~ Creating(c, k)
    /\ \A c, d \in Calls : Creating(c, k) /\ Creating(d, k) => c = d
    /\ \A c \in Calls :
         Creating(c, k) /\ call[c].at # "answer" => past.made[k] = {}

KeysInv == \A k \in Keys : KeyInv(k)

\* A step that creates nothing and frees no key.
LEMMA KeyKept ==
  ASSUME NEW k \in Keys, KeyInv(k), past.lapsed \subseteq past'.lapsed,
         past'.made[k] = past.made[k], idem'[k] = "free" => idem[k] = "free",
         \A c \in Calls : Creating(c, k)' => Creating(c, k) /\ call'[c].at = call[c].at
  PROVE  KeyInv(k)'
BY DEF KeyInv

LEMMA StepKey ==
  ASSUME IInv, NEW c \in Calls, Step(c), NEW k \in Keys, KeyInv(k)
  PROVE  KeyInv(k)'
<1> DEFINE type == [at : Steps, id : Intents \cup {0}, s : Status \cup {"none"},
                    k : Keys \cup {NoKey}]
<1>1. call \in [Calls -> type] /\ call[c] \in type /\ idem \in [Keys -> {"free", "pending", "done"}]
  BY DEF IInv, TypeOK
<1>2. past \in PastType
  BY DEF IInv, TypeOK
<1>3. \A step : GoTo(c, step) =>
        /\ \A d \in Calls \ {c} : call'[d] = call[d]
        /\ call'[c].k = call[c].k /\ call'[c].at = step /\ call'[c].id = call[c].id
  BY <1>1 DEF GoTo
<1>4. End(c) => /\ \A d \in Calls \ {c} : call'[d] = call[d]
                /\ call'[c].at = "idle"
  BY <1>1 DEF End, Nothing
<1> HIDE DEF type
<1>5. CASE CreateLatch(c)
  <2>1. CASE call[c].k = k /\ idem[k] = "free"
    <3>1. /\ idem'[k] = "pending" /\ past' = past /\ call'[c].k = k /\ call'[c].at = "cache"
          /\ \A d \in Calls \ {c} : call'[d] = call[d]
      BY <1>1, <1>3, <1>5, <2>1 DEF CreateLatch, Latch
    <3> QED
      BY <2>1, <3>1 DEF KeyInv, Creating
  <2>2. CASE ~ (call[c].k = k /\ idem[k] = "free")
    <3>1. past' = past /\ (idem'[k] = "free" => idem[k] = "free")
      BY <1>1, <1>5, <2>2 DEF CreateLatch, Latch
    <3>2. \A d \in Calls : Creating(d, k)' => d # c
      BY <1>3, <1>4, <1>5, <2>2 DEF CreateLatch, Latch, Creating
    <3>3. \A d \in Calls \ {c} : call'[d] = call[d]
      BY <1>3, <1>4, <1>5 DEF CreateLatch, Latch
    <3> QED
      BY <3>1, <3>2, <3>3, KeyKept DEF Creating
  <2> QED
    BY <2>1, <2>2
<1>6. CASE CreateCache(c)
  <2>1. PICK i : call' = [call EXCEPT ![c].at = "doc", ![c].id = i]
    BY <1>6 DEF CreateCache
  <2>2. /\ \A d \in Calls \ {c} : call'[d] = call[d]
        /\ call'[c].k = call[c].k /\ call'[c].at = "doc"
    BY <1>1, <2>1 DEF type
  <2>3. past' = past /\ idem' = idem /\ call[c].at = "cache"
    BY <1>6 DEF CreateCache, At
  <2> QED
    BY <2>2, <2>3 DEF KeyInv, Creating
<1>7. CASE CreateDoc(c)
  <2>1. call[c].id \in Intents /\ call[c].at = "doc" /\ idem' = idem
    BY <1>7 DEF CreateDoc, IInv, CallsKnow, CallKnows, At
  <2>2. /\ \A d \in Calls \ {c} : call'[d] = call[d]
        /\ call'[c].k = call[c].k /\ call'[c].at = "answer"
    BY <1>3, <1>7 DEF CreateDoc
  <2>3. CASE call[c].k = k
    <3>1. /\ past'.lapsed = past.lapsed
          /\ past'.made[k] = past.made[k] \cup {call[c].id}
      BY <1>2, <1>7, <2>3, PaymentAssumption DEF CreateDoc, PastType
    <3>2. k \notin past.lapsed => past.made[k] = {}
      BY <2>1, <2>3 DEF KeyInv, Creating
    <3>3. k \notin past.lapsed => past'.made[k] = {call[c].id}
      BY <3>1, <3>2
    <3> QED
      BY <2>1, <2>2, <2>3, <3>1, <3>3 DEF KeyInv, Creating
  <2>4. CASE call[c].k # k
    <3>1. past'.lapsed = past.lapsed /\ past'.made[k] = past.made[k]
      BY <1>2, <1>7, <2>4 DEF CreateDoc, PastType
    <3> QED
      BY <2>1, <2>2, <2>4, <3>1, KeyKept DEF Creating
  <2> QED
    BY <2>3, <2>4
<1>8. CASE CreateAnswer(c) \/ CreateFail(c)
  <2>1. past' = past /\ (idem'[k] = "free" => idem[k] = "free") /\ End(c)
    BY <1>1, <1>8 DEF CreateAnswer, CreateFail, Answered
  <2> QED
    BY <1>4, <2>1, KeyKept DEF Creating
<1>9. CASE MockPaySet(c) \/ UpdateIntentStatus(c) \/ Tell(c) \/ Die(c)
  <2>1. idem' = idem /\ (End(c) \/ GoTo(c, "update") \/ GoTo(c, "tell"))
    BY <1>9 DEF MockPaySet, UpdateIntentStatus, Tell, Die, docs
  <2>2. past'.lapsed = past.lapsed /\ past'.made = past.made
    BY <1>2, <1>9 DEF MockPaySet, UpdateIntentStatus, Tell, Die, Lose, PastType
  <2> QED
    BY <1>3, <1>4, <2>1, <2>2, KeyKept DEF Creating
<1>10. CASE Settle(c)
  <2>1. PICK s : call' = [call EXCEPT ![c] = IF s = "PENDING" THEN Nothing
                                             ELSE [@ EXCEPT !.at = "tell", !.s = s]]
    BY <1>10 DEF Settle
  <2>2. /\ \A d \in Calls \ {c} : call'[d] = call[d]
        /\ call'[c].at \in {"idle", "tell"}
    BY <1>1, <2>1 DEF type, Nothing
  <2>3. past'.lapsed = past.lapsed /\ past'.made = past.made /\ idem' = idem
    BY <1>2, <1>10 DEF Settle, PastType
  <2> QED
    BY <2>2, <2>3, KeyKept DEF Creating
<1> QED
  BY <1>5, <1>6, <1>7, <1>8, <1>9, <1>10 DEF Step

LEMMA NextKey == IInv /\ KeysInv /\ [Next]_vars => KeysInv'
<1> SUFFICES ASSUME IInv, [Next]_vars, NEW k \in Keys, KeyInv(k) PROVE KeyInv(k)'
  BY DEF KeysInv
<1> DEFINE type == [at : Steps, id : Intents \cup {0}, s : Status \cup {"none"},
                    k : Keys \cup {NoKey}]
<1>1. call \in [Calls -> type] /\ idem \in [Keys -> {"free", "pending", "done"}]
      /\ past \in PastType
  BY DEF IInv, TypeOK
<1>2. ASSUME NEW c \in Calls, NEW j \in Keys \cup {NoKey}, CreateLook(c, j)
      PROVE  KeyInv(k)'
  <2>1. \A d \in Calls : Creating(d, k)' => d # c /\ call'[d] = call[d]
    <3>1. /\ \A d \in Calls \ {c} : call'[d] = call[d]
          /\ call'[c].k = j
          /\ call'[c].at = IF j = NoKey THEN "cache" ELSE "latch"
      BY <1>1, <1>2 DEF CreateLook
    <3> QED
      BY <3>1, PaymentAssumption DEF Creating
  <2> QED
    BY <1>2, <2>1, KeyKept DEF CreateLook, Creating, docs
<1>3. ASSUME NEW c \in Calls, NEW i \in Intents, MockPay(c, i) \/ Refresh(c, i)
      PROVE  KeyInv(k)'
  <2>1. \A d \in Calls : Creating(d, k)' => d # c /\ call'[d] = call[d]
    <3>1. /\ \A d \in Calls \ {c} : call'[d] = call[d]
          /\ call'[c].at \in {"set", "settle"}
      BY ZenonT(60), <1>1, <1>3 DEF MockPay, Refresh, Nothing
    <3> QED
      BY <3>1 DEF Creating
  <2>2. past'.made = past.made /\ past'.lapsed = past.lapsed /\ idem' = idem
    BY <1>1, <1>3 DEF MockPay, Refresh, PastType, docs
  <2> QED
    BY <2>1, <2>2, KeyKept DEF Creating
<1>4. ASSUME NEW j \in Keys, CreateRepeat(j) \/ KeyExpires(j)
      PROVE  KeyInv(k)'
  <2>1. CASE KeyExpires(j) /\ j = k
    BY <1>1, <2>1 DEF KeyExpires, KeyInv, PastType
  <2>2. CASE ~ (KeyExpires(j) /\ j = k)
    <3>1. /\ past.lapsed \subseteq past'.lapsed /\ past'.made = past.made
          /\ idem'[k] = "free" => idem[k] = "free"
      BY <1>1, <1>4, <2>2 DEF KeyExpires, CreateRepeat, PastType
    <3> QED
      BY <1>4, <3>1, KeyKept DEF KeyExpires, CreateRepeat, Creating
  <2> QED
    BY <2>1, <2>2
<1>5. ASSUME NEW i \in Intents, Expire(i) \/ TxExpires(i)
      PROVE  KeyInv(k)'
  BY <1>5, KeyKept DEF Expire, TxExpires, Creating
<1>6. CASE UNCHANGED vars
  BY <1>6, KeyKept DEF vars, docs, Creating
<1> QED
  BY <1>2, <1>3, <1>4, <1>5, <1>6, StepKey DEF Next

\* One idempotency key creates one intent while its record lives, for every
\* number of requests under it, whichever fail (payment.intent.routes.js:161).
THEOREM OneIntentForKey == Spec => []OneIntentPerKey
<1>1. Init => KeysInv
  BY DEF Init, KeysInv, KeyInv, Creating, Nothing
<1>2. KeysInv => OneIntentPerKey
  <2> SUFFICES ASSUME KeysInv, NEW k \in Keys, k \notin past.lapsed
               PROVE  Cardinality(past.made[k]) <= 1
    BY DEF OneIntentPerKey
  <2>1. past.made[k] = {} \/ \E i \in Intents : past.made[k] = {i}
    BY DEF KeysInv, KeyInv
  <2> QED
    BY SMTT(60), <2>1, FS_EmptySet, FS_Singleton
<1> QED
  BY <1>1, <1>2, Invariant, NextKey, PTL DEF Spec

-----------------------------------------------------------------------------
(* The two records of an intent.                                           *)

\* An intent on which one request pays at a time is PENDING until it has paid.
RecordInv(i) ==
  i \notin past.mixed =>
    /\ \A c, d \in Calls :
         /\ call[c].at \in PaySteps /\ call[c].id = i
         /\ call[d].at \in PaySteps /\ call[d].id = i
         => c = d
    /\ \A c \in Calls :
         call[c].at \in PaySteps /\ call[c].id = i =>
           /\ intent[i] = "PENDING"
           /\ tx[i] \in {"none", IF At(c, "set") THEN "PENDING" ELSE call[c].s}
    /\ intent[i] # "none" /\ ~(\E c \in Calls : At(c, "update") /\ call[c].id = i)
         => tx[i] \in {"none", intent[i]}

\* The Redis record is written first, if it is; only an intent that is there pays
\* or expires.
DocInv(i) ==
  intent[i] = "none" => i \notin late /\ tx[i] \in {"none", "PENDING"}

RecordsInv == \A i \in Intents : RecordInv(i) /\ DocInv(i)

\* A step that does not pay and leaves both records as they are.
LEMMA RecordKept ==
  ASSUME NEW i \in Intents, RecordInv(i), past.mixed \subseteq past'.mixed,
         intent'[i] = intent[i],
         tx'[i] \in {"none", tx[i]},
         \A c \in Calls :
           \/ call'[c] = call[c]
           \/ call'[c].at \notin PaySteps /\ (At(c, "update") => call[c].id \in past'.mixed)
  PROVE  RecordInv(i)'
BY DEF RecordInv, At, PaySteps

LEMMA StepRecord ==
  ASSUME IInv, NEW c \in Calls, Step(c), NEW i \in Intents, RecordInv(i), DocInv(i)
  PROVE  RecordInv(i)' /\ DocInv(i)'
<1> DEFINE type == [at : Steps, id : Intents \cup {0}, s : Status \cup {"none"},
                    k : Keys \cup {NoKey}]
<1>1. /\ call \in [Calls -> type] /\ call[c] \in type /\ past \in PastType
      /\ intent \in [Intents -> Status \cup {"none"}]
      /\ tx \in [Intents -> Status \cup {"none"}]
  BY DEF IInv, TypeOK
<1>2. CallKnows(c) /\ \A d \in Calls : CallKnows(d)
  BY DEF IInv, CallsKnow
<1>3. \A step : GoTo(c, step) =>
        /\ \A d \in Calls \ {c} : call'[d] = call[d]
        /\ call'[c].at = step /\ call'[c].id = call[c].id /\ call'[c].s = call[c].s
  BY <1>1 DEF GoTo
<1>4. End(c) => /\ \A d \in Calls \ {c} : call'[d] = call[d]
                /\ call'[c].at = "idle" /\ call'[c].id = 0
  BY <1>1 DEF End, Nothing
<1> HIDE DEF type
<1>5. CASE CreateLatch(c) \/ CreateAnswer(c) \/ CreateFail(c) \/ Tell(c)
  <2>1. /\ intent' = intent /\ tx' = tx /\ late' = late /\ past'.mixed = past.mixed
        /\ call[c].at # "update"
        /\ End(c) \/ GoTo(c, "cache")
    BY <1>1, <1>5 DEF CreateLatch, Latch, CreateAnswer, CreateFail, Tell, Lose, At, PastType
  <2>2. RecordInv(i)'
    BY <1>3, <1>4, <2>1, RecordKept DEF At, PaySteps
  <2> QED
    BY <1>3, <1>4, <2>1, <2>2 DEF DocInv, At
<1>6. CASE CreateCache(c)
  <2>1. PICK j \in Intents :
          /\ intent[j] = "none" /\ \A d \in Calls : call[d].id # j
          /\ tx' \in {tx, [tx EXCEPT ![j] = "PENDING"]}
          /\ call' = [call EXCEPT ![c].at = "doc", ![c].id = j]
    BY <1>6 DEF CreateCache
  <2>2. /\ \A d \in Calls \ {c} : call'[d] = call[d]
        /\ call'[c].at = "doc" /\ call'[c].id = j
    BY <1>1, <2>1 DEF type
  <2>3. intent' = intent /\ late' = late /\ past' = past /\ call[c].at = "cache"
    BY <1>6 DEF CreateCache, At
  <2>4. DocInv(i)'
    BY <1>1, <2>1, <2>2, <2>3 DEF DocInv, At
  <2>5. CASE i = j
    <3>1. intent'[i] = "none"
      BY <2>1, <2>3, <2>5
    <3>2. \A d \in Calls : call'[d].at \in PaySteps => call'[d].id # i
      <4>1. \A d \in Calls \ {c} : call'[d].id # i
        BY <2>1, <2>2, <2>5
      <4>2. call'[c].at \notin PaySteps
        BY <2>2 DEF PaySteps
      <4> QED
        BY <4>1, <4>2
    <3> QED
      BY <2>4, <3>1, <3>2 DEF RecordInv, At, PaySteps
  <2>6. CASE i # j
    BY <1>1, <2>1, <2>2, <2>3, <2>4, <2>6, RecordKept DEF At, PaySteps
  <2> QED
    BY <2>5, <2>6
<1>7. CASE CreateDoc(c)
  <2>1. /\ call[c].at = "doc" /\ call[c].id \in Intents /\ intent[call[c].id] = "none"
        /\ tx' = tx /\ late' = late /\ past'.mixed = past.mixed
        /\ \A j \in Intents : intent'[j] = IF j = call[c].id THEN "PENDING" ELSE intent[j]
    BY <1>1, <1>2, <1>7 DEF CreateDoc, CallKnows, At, PastType
  <2>2. /\ \A d \in Calls \ {c} : call'[d] = call[d]
        /\ call'[c].at = "answer"
    BY <1>3, <1>7 DEF CreateDoc
  <2>3. DocInv(i)'
    BY <2>1, <2>2 DEF DocInv, At
  <2>4. CASE i = call[c].id
    <3>1. tx[i] \in {"none", "PENDING"} /\ \A d \in Calls : call[d].at \in PaySteps => call[d].id # i
      BY <1>2, <2>1, <2>4 DEF DocInv, CallKnows, At
    <3> QED
      BY <2>1, <2>2, <2>3, <2>4, <3>1 DEF RecordInv, At, PaySteps
  <2>5. CASE i # call[c].id
    BY <2>1, <2>2, <2>3, <2>5, RecordKept DEF At, PaySteps
  <2> QED
    BY <2>4, <2>5
<1>8. CASE MockPaySet(c)
  <2>1. /\ call[c].at = "set" /\ call[c].id \in Intents /\ intent[call[c].id] # "none"
        /\ intent' = intent /\ late' = late /\ past.mixed \subseteq past'.mixed
        /\ \A j \in Intents : j # call[c].id => tx'[j] = tx[j] /\ (j \in past'.mixed => j \in past.mixed)
        /\ tx'[call[c].id] = call[c].s \/ call[c].id \in past'.mixed
    BY <1>1, <1>2, <1>8 DEF MockPaySet, CallKnows, At, PaySteps, PastType
  <2>2. /\ \A d \in Calls \ {c} : call'[d] = call[d]
        /\ call'[c].at = "update" /\ call'[c].id = call[c].id /\ call'[c].s = call[c].s
    BY <1>3, <1>8 DEF MockPaySet
  <2>3. DocInv(i)'
    BY <1>2, <2>1, <2>2 DEF DocInv, CallKnows, At
  <2>4. CASE i = call[c].id
    BY <2>1, <2>2, <2>3, <2>4 DEF RecordInv, At, PaySteps
  <2>5. CASE i # call[c].id
    BY <2>1, <2>2, <2>3, <2>5 DEF RecordInv, At, PaySteps
  <2> QED
    BY <2>4, <2>5
<1>9. CASE UpdateIntentStatus(c)
  <2>1. /\ call[c].at = "update" /\ call[c].id \in Intents /\ intent[call[c].id] # "none"
        /\ call[c].s \in Status
        /\ tx' = tx /\ late' = late /\ past' = past
        /\ \A j \in Intents :
             intent'[j] = IF j = call[c].id THEN Effective(j, call[c].s) ELSE intent[j]
    BY <1>1, <1>2, <1>9 DEF UpdateIntentStatus, CallKnows, At, PaySteps
  <2>2. /\ \A d \in Calls \ {c} : call'[d] = call[d]
        /\ call'[c].at \in {"idle", "tell"}
    BY <1>3, <1>4, <1>9 DEF UpdateIntentStatus
  <2>3. DocInv(i)'
    BY <2>1, <2>2 DEF DocInv, At, Effective, Final, Status
  <2>4. CASE i = call[c].id
    <3>1. i \notin past.mixed =>
            intent'[i] = call[c].s /\ tx[i] \in {"none", call[c].s}
      BY <2>1, <2>4 DEF RecordInv, At, PaySteps, Effective, Final
    <3>2. i \notin past.mixed => \A d \in Calls : call'[d].at \in PaySteps => call'[d].id # i
      BY <2>1, <2>2, <2>4 DEF RecordInv, PaySteps
    <3> QED
      BY <2>1, <2>3, <3>1, <3>2 DEF RecordInv, At, PaySteps
  <2>5. CASE i # call[c].id
    BY <2>1, <2>2, <2>3, <2>5 DEF RecordInv, At, PaySteps
  <2> QED
    BY <2>4, <2>5
<1>10. CASE Settle(c)
  <2>1. PICK answer \in Status :
          /\ intent' = [intent EXCEPT ![call[c].id] = Effective(call[c].id, answer)]
          /\ call' = [call EXCEPT ![c] =
               IF Effective(call[c].id, answer) = "PENDING" THEN Nothing
               ELSE [@ EXCEPT !.at = "tell", !.s = Effective(call[c].id, answer)]]
          /\ past' = IF Effective(call[c].id, answer) # intent[call[c].id]
                       THEN [past EXCEPT !.mixed = @ \cup {call[c].id}] ELSE past
    BY <1>10 DEF Settle
  <2>2. /\ call[c].at = "settle" /\ call[c].id \in Intents /\ intent[call[c].id] # "none"
        /\ tx' = tx /\ late' = late
    BY <1>2, <1>10 DEF Settle, CallKnows, At
  <2>3. /\ \A d \in Calls \ {c} : call'[d] = call[d]
        /\ call'[c].at \in {"idle", "tell"}
    BY <1>1, <2>1 DEF type, Nothing
  <2>4. /\ past.mixed \subseteq past'.mixed
        /\ intent'[i] = intent[i] \/ i \in past'.mixed
        /\ intent[i] # "none" => intent'[i] # "none"
    BY <1>1, <2>1, <2>2 DEF PastType, Effective, Final, Status
  <2>5. DocInv(i)'
    BY <2>2, <2>3, <2>4 DEF DocInv, At
  <2>6. RecordInv(i)'
    <3>1. CASE i \in past'.mixed
      BY <3>1 DEF RecordInv
    <3>2. CASE i \notin past'.mixed
      BY <2>2, <2>3, <2>4, <3>2, RecordKept DEF At, PaySteps
    <3> QED
      BY <3>1, <3>2
  <2> QED
    BY <2>5, <2>6
<1>11. CASE Die(c)
  <2>1. intent' = intent /\ tx' = tx /\ late' = late /\ End(c)
    BY <1>11 DEF Die, docs
  <2>2. /\ past.mixed \subseteq past'.mixed
        /\ call[c].at = "update" => call[c].id \in past'.mixed
    BY <1>1, <1>11 DEF Die, Lose, At, PastType
  <2>3. RecordInv(i)'
    BY <1>4, <2>1, <2>2, RecordKept DEF At, PaySteps
  <2> QED
    BY <1>4, <2>1, <2>3 DEF DocInv, At
<1> QED
  BY <1>5, <1>6, <1>7, <1>8, <1>9, <1>10, <1>11 DEF Step

LEMMA NextRecord == IInv /\ RecordsInv /\ [Next]_vars => RecordsInv'
<1> SUFFICES ASSUME IInv, [Next]_vars, NEW i \in Intents, RecordInv(i), DocInv(i)
             PROVE  RecordInv(i)' /\ DocInv(i)'
  BY DEF RecordsInv
<1> DEFINE type == [at : Steps, id : Intents \cup {0}, s : Status \cup {"none"},
                    k : Keys \cup {NoKey}]
<1>1. /\ call \in [Calls -> type] /\ past \in PastType
      /\ intent \in [Intents -> Status \cup {"none"}]
      /\ tx \in [Intents -> Status \cup {"none"}]
  BY DEF IInv, TypeOK
<1> HIDE DEF type
<1>2. ASSUME NEW c \in Calls, NEW k \in Keys \cup {NoKey}, CreateLook(c, k)
      PROVE  RecordInv(i)' /\ DocInv(i)'
  <2>1. /\ \A d \in Calls \ {c} : call'[d] = call[d]
        /\ call'[c].at = IF k = NoKey THEN "cache" ELSE "latch"
        /\ call[c].at = "idle"
    BY <1>1, <1>2 DEF CreateLook, At, type
  <2>2. UNCHANGED <<intent, tx, late, past>>
    BY <1>2 DEF CreateLook, docs
  <2>3. RecordInv(i)'
    BY <2>1, <2>2, RecordKept DEF At, PaySteps
  <2> QED
    BY <2>1, <2>2, <2>3 DEF DocInv, At
<1>3. ASSUME NEW c \in Calls, NEW j \in Intents, MockPay(c, j)
      PROVE  RecordInv(i)' /\ DocInv(i)'
  <2>1. PICK s \in Roll(j) :
          call' = [call EXCEPT ![c] = [Nothing EXCEPT !.at = "set", !.id = j, !.s = s]]
    BY <1>3 DEF MockPay
  <2>2. /\ \A d \in Calls \ {c} : call'[d] = call[d]
        /\ call'[c].at = "set" /\ call'[c].id = j
        /\ call[c].at = "idle"
    BY <1>1, <1>3, <2>1 DEF MockPay, At, Nothing
  <2>3. UNCHANGED <<intent, tx, late>> /\ intent[j] # "none"
    BY <1>3 DEF MockPay, docs, IInv, IssuedExist
  <2>4. /\ past.mixed \subseteq past'.mixed
        /\ Paying(j) \/ tx[j] \in Final => j \in past'.mixed
    BY <1>1, <1>3 DEF MockPay, PastType
  <2>5. DocInv(i)'
    BY <2>2, <2>3 DEF DocInv, At
  <2>6. CASE i = j /\ i \notin past'.mixed
    <3>1. \A d \in Calls : call[d].at \in PaySteps => call[d].id # i
      BY <2>4, <2>6 DEF Paying
    <3>2. tx[i] = "PENDING"
      BY <1>1, <2>1, <2>4, <2>6 DEF Roll, Status, Final
    <3>3. intent[i] = "PENDING"
      BY <2>3, <2>4, <2>6, <3>1, <3>2 DEF RecordInv, At, PaySteps
    <3> QED
      BY <2>2, <2>3, <2>5, <2>6, <3>1, <3>2, <3>3 DEF RecordInv, At, PaySteps
  <2>7. CASE i # j \/ i \in past'.mixed
    BY <2>2, <2>3, <2>4, <2>5, <2>7 DEF RecordInv, At, PaySteps
  <2> QED
    BY <2>6, <2>7
<1>4. ASSUME NEW c \in Calls, NEW j \in Intents, Refresh(c, j)
      PROVE  RecordInv(i)' /\ DocInv(i)'
  <2>1. /\ \A d \in Calls \ {c} : call'[d] = call[d]
        /\ call'[c].at = "settle" /\ call[c].at = "idle"
    BY <1>1, <1>4 DEF Refresh, At, Nothing
  <2>2. UNCHANGED <<intent, tx, late, past>>
    BY <1>4 DEF Refresh, docs
  <2>3. RecordInv(i)'
    BY <2>1, <2>2, RecordKept DEF At, PaySteps
  <2> QED
    BY <2>1, <2>2, <2>3 DEF DocInv, At
<1>5. ASSUME NEW k \in Keys, CreateRepeat(k) \/ KeyExpires(k)
      PROVE  RecordInv(i)' /\ DocInv(i)'
  <2>1. UNCHANGED <<intent, tx, late, call>> /\ past'.mixed = past.mixed
    BY <1>1, <1>5 DEF CreateRepeat, KeyExpires, PastType
  <2> QED
    BY <2>1, RecordKept DEF DocInv, At
<1>6. ASSUME NEW j \in Intents, Expire(j) \/ TxExpires(j)
      PROVE  RecordInv(i)' /\ DocInv(i)'
  <2>1. /\ UNCHANGED <<intent, call, past>> /\ tx'[i] \in {"none", tx[i]}
        /\ tx'[i] # tx[i] => i \in late
        /\ i \in late' => i \in late \/ intent[i] # "none"
    BY <1>1, <1>6 DEF Expire, TxExpires
  <2>2. DocInv(i)'
    BY <2>1 DEF DocInv
  <2> QED
    BY <2>1, <2>2, RecordKept
<1>7. CASE UNCHANGED vars
  BY <1>7, RecordKept DEF vars, docs, DocInv, At
<1> QED
  BY <1>2, <1>3, <1>4, <1>5, <1>6, <1>7, StepRecord DEF Next

\* The record the buyer's page reads and the one the booking service reads
\* agree on every intent whose requests came one at a time and in time
\* (payment.intent.routes.js:335).
THEOREM RecordsOfIntentAgree == Spec => []RecordsAgree
<1>1. Init => RecordsInv
  BY DEF Init, RecordsInv, RecordInv, DocInv, Nothing, At, PaySteps
<1>2. RecordsInv => RecordsAgree
  BY DEF RecordsInv, RecordInv, RecordsAgree
<1> QED
  BY <1>1, <1>2, Invariant, NextRecord, PTL DEF Spec
=============================================================================
