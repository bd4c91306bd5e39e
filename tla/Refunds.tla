------------------------------ MODULE Refunds -------------------------------
(***************************************************************************)
(* PaymentService.createOrGetRefund for one reservation: requests that     *)
(* look for an earlier refund and then add one, each query and write a     *)
(* step of its own, against a provider that may pay back without being     *)
(* heard.  The intents of the reservation change as PaymentOnce says.      *)
(***************************************************************************)
EXTENDS Integers, FiniteSets

CONSTANTS Requests,   \* refund requests in flight at once
          Intents,    \* intents of the reservation; numbers stand for the
                      \* order of their ids
          Documents,  \* ids of refund documents
          Keys,       \* idempotency keys, the default <reservation>:refund one
          NoKey

VARIABLES
  wired,   \* this.providers holds the provider's client, see Payment
  intent,  \* paymentIntents/<id>.status, "none" before it is created
  refund,  \* paymentRefunds/<id>: status, intent, key; paid once the provider
           \* has paid it back; met if its request overlapped with another
  told,    \* refund statuses published to Kafka
  req,     \* where each request is: its key, the intent it found, the
           \* document it added, what the provider answered
  met      \* history: requests that overlapped with another one

vars == <<wired, intent, refund, told, req, met>>

Steps == {"idle", "byKey", "byIntent", "add", "pay", "record", "tell"}
RefundStatus == {"none", "PENDING", "SUCCEEDED", "FAILED"}

Nothing == [at |-> "idle", k |-> NoKey, i |-> 0, f |-> NoKey, s |-> "none"]
NoRefund == [st |-> "none", i |-> 0, k |-> NoKey, paid |-> FALSE,
             met |-> FALSE]

Refunds == [st : RefundStatus, i : Intents \cup {0}, k : Keys \cup {NoKey},
            paid : BOOLEAN, met : BOOLEAN]
Asked == [at : Steps, k : Keys \cup {NoKey}, i : Intents \cup {0},
          f : Documents \cup {NoKey},
          s : {"none", "SUCCEEDED", "FAILED", "PENDING", "error"}]

TypeOK ==
  /\ wired \in BOOLEAN
  /\ intent \in [Intents -> RefundStatus]
  /\ refund \in [Documents -> Refunds]
  /\ told \subseteq Documents \X {"SUCCEEDED", "FAILED"}
  /\ req \in [Requests -> Asked]
  /\ met \subseteq Requests

Init ==
  /\ wired \in BOOLEAN
  /\ intent = [i \in Intents |-> "none"]
  /\ refund = [f \in Documents |-> NoRefund]
  /\ told = {}
  /\ req = [r \in Requests |-> Nothing]
  /\ met = {}

At(r, step) == req[r].at = step
GoTo(r, step) == req' = [req EXCEPT ![r].at = step]
End(r) == req' = [req EXCEPT ![r] = Nothing]

\* What Payment does to an intent; FAILED stands for every other final status.
IntentOpens(i) ==
  /\ intent[i] = "none"
  /\ intent' = [intent EXCEPT ![i] = "PENDING"]
  /\ UNCHANGED <<wired, refund, told, req, met>>

IntentSettles(i) ==
  /\ intent[i] = "PENDING"
  /\ \E s \in {"SUCCEEDED", "FAILED"} : intent' = [intent EXCEPT ![i] = s]
  /\ UNCHANGED <<wired, refund, told, req, met>>

\* The query by reservation is limited to one document: the one with the
\* smallest id, whatever its status.
Created == {i \in Intents : intent[i] # "none"}
First == CHOOSE i \in Created : \A j \in Created : i <= j

Active == {r \in Requests : ~At(r, "idle")}

Ask(r, k) ==
  /\ At(r, "idle")
  /\ Created # {}
  /\ intent[First] = "SUCCEEDED"
  /\ req' = [req EXCEPT ![r] = [Nothing EXCEPT !.at = "byKey", !.i = First,
                                               !.k = k]]
  /\ met' = IF Active = {} THEN met \ {r} ELSE met \cup {r} \cup Active
  /\ UNCHANGED <<wired, intent, refund, told>>

\* Mutant: a refund that is not done does not count.
FoundDone(k) == {f \in Documents : refund[f].st = "SUCCEEDED"
                                   /\ refund[f].k = k}

\* _findRefundByReservationAndIdemKey: whatever its status, it is the answer.
Found(k) == {f \in Documents : refund[f].st # "none" /\ refund[f].k = k}

FindByKey(r) ==
  /\ At(r, "byKey")
  /\ IF Found(req[r].k) = {} THEN GoTo(r, "byIntent") ELSE End(r)
  /\ UNCHANGED <<wired, intent, refund, told, met>>

\* _findRefundSucceededByPaymentIntent
FindByIntent(r) ==
  /\ At(r, "byIntent")
  /\ IF \E f \in Documents : refund[f].st = "SUCCEEDED" /\ refund[f].i = req[r].i
       THEN End(r) ELSE GoTo(r, "add")
  /\ UNCHANGED <<wired, intent, refund, told, met>>

Add(r) ==
  /\ At(r, "add")
  /\ \E f \in Documents :
       /\ refund[f].st = "none"
       /\ refund' = [refund EXCEPT ![f] =
                       [st |-> "PENDING", i |-> req[r].i, k |-> req[r].k,
                        paid |-> FALSE, met |-> r \in met]]
       /\ req' = [req EXCEPT ![r].at = "pay", ![r].f = f]
  /\ UNCHANGED <<wired, intent, told, met>>

\* client.refund: the provider pays back or not, and answers or not.  Without
\* a client nothing is paid and the call throws.
PayBack(r) ==
  /\ At(r, "pay")
  /\ \E s \in {"SUCCEEDED", "FAILED", "PENDING", "error"}, paid \in BOOLEAN :
       /\ wired \/ (s = "error" /\ ~paid)
       /\ s = "SUCCEEDED" => paid
       /\ s = "FAILED" => ~paid
       /\ refund' = [refund EXCEPT ![req[r].f].paid = paid]
       /\ req' = [req EXCEPT ![r].at = "record", ![r].s = s]
  /\ UNCHANGED <<wired, intent, told, met>>

\* Mutant: whatever is not an error counts as done.
RecordDone(r) ==
  /\ At(r, "record")
  /\ \/ /\ req[r].s \in {"SUCCEEDED", "FAILED", "PENDING"}
        /\ refund' = [refund EXCEPT ![req[r].f].st =
                        IF req[r].s = "FAILED" THEN "FAILED" ELSE "SUCCEEDED"]
        /\ GoTo(r, "tell")
     \/ UNCHANGED refund /\ End(r)
  /\ UNCHANGED <<wired, intent, told, met>>

\* Mutant: an error is recorded as the provider words it.
RecordAnswer(r) ==
  /\ At(r, "record")
  /\ refund' = [refund EXCEPT ![req[r].f].st = req[r].s]
  /\ IF req[r].s \in {"SUCCEEDED", "FAILED"} THEN GoTo(r, "tell") ELSE End(r)
  /\ UNCHANGED <<wired, intent, told, met>>

\* A final answer is recorded and then published; after an error, and when
\* the write itself fails, the catch records PENDING.
Record(r) ==
  /\ At(r, "record")
  /\ \/ /\ req[r].s \in {"SUCCEEDED", "FAILED"}
        /\ refund' = [refund EXCEPT ![req[r].f].st = req[r].s]
        /\ GoTo(r, "tell")
     \/ UNCHANGED refund /\ End(r)
  /\ UNCHANGED <<wired, intent, told, met>>

\* Published from the answer; a failure is logged and forgotten.
Tell(r) ==
  /\ At(r, "tell")
  /\ told' \in {told, told \cup {<<req[r].f, req[r].s>>}}
  /\ End(r)
  /\ UNCHANGED <<wired, intent, refund, met>>

\* The process dies, or a store fails where nothing catches it.
Die(r) ==
  /\ r \in Active
  /\ End(r)
  /\ UNCHANGED <<wired, intent, refund, told, met>>

Next ==
  \/ \E i \in Intents : IntentOpens(i) \/ IntentSettles(i)
  \/ \E r \in Requests :
       \/ \E k \in Keys : Ask(r, k)
       \/ FindByKey(r) \/ FindByIntent(r) \/ Add(r) \/ PayBack(r)
       \/ Record(r) \/ Tell(r) \/ Die(r)

Spec == Init /\ [][Next]_vars
-----------------------------------------------------------------------------
\* Two refunds of one intent are both paid back only if their requests
\* overlapped, or they carried different keys and one of them was never
\* recorded as done (payment.service.js:735).
RefundedOnce ==
  \A f, g \in {h \in Documents : refund[h].paid /\ ~refund[h].met} :
    f # g /\ refund[f].i = refund[g].i =>
      /\ refund[f].k # refund[g].k
      /\ "PENDING" \in {refund[f].st, refund[g].st}

\* The refund documents implement PaymentOnce: opened, settled once as the
\* provider did, announced as settled (payment.service.js:790).
StatusOf == [f \in Documents |-> refund[f].st]
PaidBack == {f \in Documents : refund[f].paid}
Once == INSTANCE PaymentOnce WITH status <- StatusOf, paid <- PaidBack,
                                  Intents <- {}, Refunds <- Documents
RefundsSettleOnce == Once!Spec
=============================================================================
