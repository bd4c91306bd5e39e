------------------------------ MODULE Payment -------------------------------
(***************************************************************************)
(* Payment intents of one reservation: the routes that create an intent    *)
(* and play the mock provider (routes/payment.intent.routes.js) and the    *)
(* service that settles, refreshes and announces it                        *)
(* (services/payment.service.js).  A call is one HTTP request; each step   *)
(* is what it does between two awaits.  Amounts, buyers, signatures and    *)
(* the status history are left out.                                        *)
(***************************************************************************)
EXTENDS Integers, FiniteSets

CONSTANTS Calls,    \* requests in flight at once
          Intents,  \* ids of intents; numbers stand for the order of the ids
          Keys,     \* values of the Idempotency-Key header
          NoKey     \* a request without one

ASSUME PaymentAssumption == NoKey \notin Keys

VARIABLES
  wired,   \* this.providers holds the provider's client; the constructor
           \* never assigns it, though its tests hand the clients over
  intent,  \* paymentIntents/<id>.status, "none" before it is created
  tx,      \* status in the Redis record tx:<id>:status, "none" without it
  issued,  \* intents whose token the buyer has been given
  late,    \* intents past their expiresAt
  idem,    \* idem:payment_intent:<key>
  told,    \* status changes published to Kafka: pairs of an id and a status
  call,    \* where each request is
  past     \* history: see PastType

docs == <<intent, tx, issued, late, idem, told>>
vars == <<wired, docs, call, past>>

\* CANCELED is treated like FAILED everywhere and stands under its name.
Final == {"SUCCEEDED", "FAILED", "EXPIRED"}
Status == Final \cup {"PENDING"}

PaySteps == {"set", "update"}
Steps == {"idle", "latch", "cache", "doc", "answer", "settle", "tell"}
           \cup PaySteps

Nothing == [at |-> "idle", id |-> 0, s |-> "none", k |-> NoKey]

\* lost: announcements that failed or died; made: intents created under a
\* key; lapsed: keys that ran out; mixed: intents whose two records were
\* written by overlapping, broken-off or late requests, or by one whose write of
\* the Redis record failed.
PastType == [lost : SUBSET (Intents \X Final),
             made : [Keys -> SUBSET Intents],
             lapsed : SUBSET Keys,
             mixed : SUBSET Intents]

TypeOK ==
  /\ wired \in BOOLEAN
  /\ intent \in [Intents -> Status \cup {"none"}]
  /\ tx \in [Intents -> Status \cup {"none"}]
  /\ issued \subseteq Intents
  /\ late \subseteq Intents
  /\ idem \in [Keys -> {"free", "pending", "done"}]
  /\ told \subseteq Intents \X Final
  /\ call \in [Calls -> [at : Steps, id : Intents \cup {0},
                         s : Status \cup {"none"},
                         k : Keys \cup {NoKey}]]
  /\ past \in PastType

Init ==
  /\ wired \in BOOLEAN
  /\ intent = [i \in Intents |-> "none"]
  /\ tx = [i \in Intents |-> "none"]
  /\ issued = {}
  /\ late = {}
  /\ idem = [k \in Keys |-> "free"]
  /\ told = {}
  /\ call = [c \in Calls |-> Nothing]
  /\ past = [lost |-> {}, made |-> [k \in Keys |-> {}], lapsed |-> {},
             mixed |-> {}]

At(c, step) == call[c].at = step
GoTo(c, step) == call' = [call EXCEPT ![c].at = step]
End(c) == call' = [call EXCEPT ![c] = Nothing]

\* The query by reservation takes the first document it is given: the one
\* with the smallest id, whatever its status.
Created == {i \in Intents : intent[i] # "none"}
First == CHOOSE i \in Created : \A j \in Created : i <= j
-----------------------------------------------------------------------------
\* _postCreateIntent.  A record found under the key is parsed a second time,
\* which throws: the handler stores the failure as the final answer.
CreateRepeat(k) ==
  /\ idem[k] # "free"
  /\ idem' = [idem EXCEPT ![k] = "done"]
  /\ UNCHANGED <<wired, intent, tx, issued, late, told, call, past>>

\* Nothing found, or the read failed.  Without a key there is nothing to latch.
CreateLook(c, k) ==
  /\ At(c, "idle")
  /\ call' = [call EXCEPT ![c].at = IF k = NoKey THEN "cache" ELSE "latch",
                          ![c].k = k]
  /\ UNCHANGED <<wired, docs, past>>

\* Mutant: the answer of the latch is not looked at.
LatchAnyway(c) ==
  /\ At(c, "latch")
  /\ GoTo(c, "cache")
  /\ idem' = [idem EXCEPT ![call[c].k] = "pending"]

Latch(c) ==
  LET k == call[c].k IN
  /\ At(c, "latch")
  /\ IF idem[k] = "free"
       THEN GoTo(c, "cache") /\ idem' = [idem EXCEPT ![k] = "pending"]
       ELSE End(c) /\ UNCHANGED idem

CreateLatch(c) ==
  /\ Latch(c)
  /\ UNCHANGED <<wired, intent, tx, issued, late, told, past>>

\* The id is random: one that is not in use.  A failed write of the Redis record
\* is not noticed.
CreateCache(c) ==
  /\ At(c, "cache")
  /\ \E i \in Intents :
       /\ intent[i] = "none"
       /\ \A d \in Calls : call[d].id # i
       /\ tx' \in {tx, [tx EXCEPT ![i] = "PENDING"]}
       /\ call' = [call EXCEPT ![c].at = "doc", ![c].id = i]
  /\ UNCHANGED <<wired, intent, issued, late, idem, told, past>>

CreateDoc(c) ==
  LET k == call[c].k IN
  /\ At(c, "doc")
  /\ intent' = [intent EXCEPT ![call[c].id] = "PENDING"]
  /\ GoTo(c, "answer")
  /\ past' = IF k = NoKey THEN past
             ELSE [past EXCEPT !.made[k] = @ \cup {call[c].id}]
  /\ UNCHANGED <<wired, tx, issued, late, idem, told>>

Answered(k) == IF k = NoKey THEN idem ELSE [idem EXCEPT ![k] = "done"]

\* The answer is sent, kept under the key or not.
CreateAnswer(c) ==
  /\ At(c, "answer")
  /\ issued' = issued \cup {call[c].id}
  /\ idem' \in {idem, Answered(call[c].k)}
  /\ End(c)
  /\ UNCHANGED <<wired, intent, tx, late, told, past>>

\* A store failed: the catch stores the failure as the final answer.
CreateFail(c) ==
  /\ call[c].at \in {"cache", "doc", "answer"}
  /\ idem' = Answered(call[c].k)
  /\ End(c)
  /\ UNCHANGED <<wired, intent, tx, issued, late, told, past>>
-----------------------------------------------------------------------------
\* _mockpayAuto.  Past expiresAt any other status is overwritten, a final one
\* too; before it a final status is only reported.
Roll(i) == IF i \in late
             THEN IF tx[i] \in {"none", "EXPIRED"} THEN {} ELSE {"EXPIRED"}
             ELSE IF tx[i] = "PENDING" THEN {"SUCCEEDED", "FAILED", "PENDING"}
                                       ELSE {}

Paying(i) == \E d \in Calls : call[d].at \in PaySteps /\ call[d].id = i

MockPay(c, i) ==
  /\ At(c, "idle")
  /\ i \in issued
  /\ \E s \in Roll(i) :
       call' = [call EXCEPT ![c] = [Nothing EXCEPT !.at = "set", !.id = i,
                                                   !.s = s]]
  /\ past' = IF Paying(i) \/ tx[i] \in Final
               THEN [past EXCEPT !.mixed = @ \cup {i}] ELSE past
  /\ UNCHANGED <<wired, docs>>

\* _set: RedisService.set answers a failed write with false, at which nobody
\* looks; the intent is updated all the same.
MockPaySet(c) ==
  /\ At(c, "set")
  /\ \/ tx' = [tx EXCEPT ![call[c].id] = call[c].s] /\ UNCHANGED past
     \/ past' = [past EXCEPT !.mixed = @ \cup {call[c].id}] /\ UNCHANGED tx
  /\ GoTo(c, "update")
  /\ UNCHANGED <<wired, intent, issued, late, idem, told>>

\* Mutant: whoever comes last wins.
EffectiveLast(i, s) == s

\* Mutant: EXPIRED is not a status it knows.
EffectiveKnown(i, s) ==
  IF intent[i] \in Final \/ s = "EXPIRED" THEN intent[i] ELSE s

\* updateIntentStatus: one transaction, in which a final status stays; what
\* it changed is then published.
Effective(i, s) == IF intent[i] \in Final THEN intent[i] ELSE s

\* Mutant: the status before is taken from the Redis record.
UpdateFromRecord(c) ==
  LET i == call[c].id
      s == Effective(i, call[c].s)
  IN  /\ At(c, "update")
      /\ intent' = [intent EXCEPT ![i] = s]
      /\ IF s = tx[i] THEN End(c) ELSE GoTo(c, "tell")
      /\ UNCHANGED <<wired, tx, issued, late, idem, told, past>>

UpdateIntentStatus(c) ==
  LET i == call[c].id
      s == Effective(i, call[c].s)
  IN  /\ At(c, "update")
      /\ intent' = [intent EXCEPT ![i] = s]
      /\ IF s = intent[i] THEN End(c) ELSE GoTo(c, "tell")
      /\ UNCHANGED <<wired, tx, issued, late, idem, told, past>>

\* confirmByIntent, by intent or by reservation.  A status that is final or
\* fresh is answered from the document; without a client the call ends in an
\* error.
Refresh(c, i) ==
  /\ At(c, "idle")
  /\ wired
  /\ i \in issued \/ (i \in Created /\ i = First)
  /\ intent[i] = "PENDING"
  /\ call' = [call EXCEPT ![c] = [Nothing EXCEPT !.at = "settle", !.id = i]]
  /\ UNCHANGED <<wired, docs, past>>

\* The provider has answered.  Published is what the document now says if it
\* differs from what this call read before it asked, whoever changed it.
Settle(c) ==
  /\ At(c, "settle")
  /\ \E answer \in Status :
       LET i == call[c].id
           s == Effective(i, answer)
       IN  /\ intent' = [intent EXCEPT ![i] = s]
           /\ call' = [call EXCEPT ![c] = IF s = "PENDING" THEN Nothing
                                          ELSE [@ EXCEPT !.at = "tell", !.s = s]]
           /\ past' = IF s # intent[i]
                        THEN [past EXCEPT !.mixed = @ \cup {i}] ELSE past
  /\ UNCHANGED <<wired, tx, issued, late, idem, told>>

Lose(c) == [past EXCEPT !.lost = @ \cup {<<call[c].id, call[c].s>>}]

\* _maybePublishStatusChange: a failure is logged and forgotten.
Tell(c) ==
  LET m == <<call[c].id, call[c].s>> IN
  /\ At(c, "tell")
  /\ \/ told' = told \cup {m} /\ UNCHANGED past
     \/ past' = Lose(c) /\ UNCHANGED told
  /\ End(c)
  /\ UNCHANGED <<wired, intent, tx, issued, late, idem>>
-----------------------------------------------------------------------------
\* The process dies, or a store fails where nothing catches it.
Die(c) ==
  /\ call[c].at # "idle"
  /\ End(c)
  /\ past' = CASE At(c, "tell") -> Lose(c)
               [] At(c, "update") -> [past EXCEPT !.mixed = @ \cup {call[c].id}]
               [] OTHER -> past
  /\ UNCHANGED <<wired, docs>>

\* expiresAt passes.
Expire(i) ==
  /\ intent[i] # "none"
  /\ i \notin late
  /\ late' = late \cup {i}
  /\ UNCHANGED <<wired, intent, tx, issued, idem, told, call, past>>

\* The Redis record tx:<id>:status runs out.
TxExpires(i) ==
  /\ i \in late
  /\ tx[i] # "none"
  /\ tx' = [tx EXCEPT ![i] = "none"]
  /\ UNCHANGED <<wired, intent, issued, late, idem, told, call, past>>

\* The idempotency record runs out.
KeyExpires(k) ==
  /\ idem[k] # "free"
  /\ idem' = [idem EXCEPT ![k] = "free"]
  /\ past' = [past EXCEPT !.lapsed = @ \cup {k}]
  /\ UNCHANGED <<wired, intent, tx, issued, late, told, call>>

Step(c) ==
  \/ CreateLatch(c) \/ CreateCache(c) \/ CreateDoc(c) \/ CreateAnswer(c)
  \/ CreateFail(c)
  \/ MockPaySet(c) \/ UpdateIntentStatus(c) \/ Settle(c) \/ Tell(c)
  \/ Die(c)

Next ==
  \/ \E c \in Calls : \/ Step(c)
                      \/ \E k \in Keys \cup {NoKey} : CreateLook(c, k)
                      \/ \E i \in Intents : MockPay(c, i) \/ Refresh(c, i)
  \/ \E k \in Keys : CreateRepeat(k) \/ KeyExpires(k)
  \/ \E i \in Intents : Expire(i) \/ TxExpires(i)

Spec == Init /\ [][Next]_vars
-----------------------------------------------------------------------------
\* A final status is published as such, by whoever reached it, unless the
\* publication failed or its process died (payment.service.js:510, :665).
SettledIsTold ==
  \A i \in Intents :
    intent[i] \in Final =>
      \/ <<i, intent[i]>> \in told \cup past.lost
      \/ \E c \in Calls : At(c, "tell") /\ call[c].id = i /\ call[c].s = intent[i]

\* The mock provider's Redis record and the intent agree whenever the
\* requests on it came one at a time, before it expired, none broke off
\* (payment.intent.routes.js:335) and none failed to write the record
\* (redis.service.js:206): the buyer's page and the booking service read
\* different ones.
RecordsAgree ==
  \A i \in Intents \ past.mixed :
    intent[i] # "none" /\ ~(\E c \in Calls : At(c, "update") /\ call[c].id = i)
      => tx[i] \in {"none", intent[i]}

\* One idempotency key creates one intent while its record lives, however
\* its requests overlap (payment.intent.routes.js:161).
OneIntentPerKey ==
  \A k \in Keys : k \notin past.lapsed => Cardinality(past.made[k]) <= 1

\* The intents implement PaymentOnce.
Once == INSTANCE PaymentOnce WITH status <- intent, Refunds <- {}, paid <- {}
PaymentSettlesOnce == Once!Spec
=============================================================================
