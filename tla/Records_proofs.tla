--------------------------- MODULE Records_proofs ---------------------------
(***************************************************************************)
(* Theorems about the records of MCRecords, for every number of requests,  *)
(* documents and keys: each part by an invariant of its own, which its     *)
(* actions keep and the other parts leave alone.                           *)
(***************************************************************************)
EXTENDS MCRecords, Payment_proofs, Sums

-----------------------------------------------------------------------------
(***************************************************************************)
(* Refunds.  A request that met no other one knows, when it adds its       *)
(* document, that no document carries its key and none of its intent is    *)
(* done; and of two that are on their way to the provider one has met the  *)
(* other before it added its document.                                     *)
(***************************************************************************)
Doc(r) == refund[refundReq[r].f]
InHand(r) == refundReq[r].at \in {"pay", "record"}
Added(r) == refundReq[r].at \in {"pay", "record", "tell"}

\* What a request knows of the document it has added.
RequestKnows(r) ==
  /\ Added(r) => refundReq[r].f \in Documents
  /\ InHand(r) => /\ Doc(r).st = "PENDING"
                  /\ Doc(r).i = refundReq[r].i
                  /\ Doc(r).k = refundReq[r].k
  /\ refundReq[r].at = "pay" => ~Doc(r).paid
  /\ refundReq[r].at = "record" =>
       /\ refundReq[r].s = "SUCCEEDED" => Doc(r).paid
       /\ refundReq[r].s = "FAILED" => ~Doc(r).paid
  /\ refundReq[r].at = "tell" =>
       /\ refundReq[r].s \in {"SUCCEEDED", "FAILED"}
       /\ Doc(r).st = refundReq[r].s

DocumentsApart ==
  \A r, q \in Calls : r # q /\ Added(r) /\ Added(q) =>
                        refundReq[r].f # refundReq[q].f

Alone ==
  \A r, q \in Calls : /\ refundReq[r].at # "idle" /\ r \notin met
                      /\ refundReq[q].at # "idle"
                      => q = r

\* What a request that met no other has found out.
RequestLooked(r) ==
  r \notin met =>
    /\ refundReq[r].at \in {"byIntent", "add"} =>
         \A f \in Documents : refund[f].st # "none" => refund[f].k # refundReq[r].k
    /\ refundReq[r].at = "add" =>
         \A f \in Documents : refund[f].st = "SUCCEEDED" =>
                                refund[f].i # refundReq[r].i

OneInHand ==
  \A r, q \in Calls : r # q /\ InHand(r) /\ InHand(q) => Doc(r).met \/ Doc(q).met

NoneDone(r) ==
  InHand(r) /\ ~Doc(r).met =>
    \A g \in Documents \ {refundReq[r].f} :
      ~refund[g].met /\ refund[g].st = "SUCCEEDED" => refund[g].i # Doc(r).i

KeysApart ==
  \A f, g \in Documents :
    /\ f # g /\ ~refund[f].met /\ ~refund[g].met
    /\ refund[f].st # "none" /\ refund[g].st # "none"
    => refund[f].k # refund[g].k

DoneApart ==
  \A f, g \in Documents :
    /\ f # g /\ ~refund[f].met /\ ~refund[g].met
    /\ refund[f].st = "SUCCEEDED" /\ refund[g].st = "SUCCEEDED"
    => refund[f].i # refund[g].i

PaidFollows ==
  \A f \in Documents : refund[f].paid => refund[f].st \in {"PENDING", "SUCCEEDED"}

RefundsInv ==
  /\ R!TypeOK
  /\ \A r \in Calls : RequestKnows(r) /\ RequestLooked(r) /\ NoneDone(r)
  /\ DocumentsApart /\ Alone /\ OneInHand
  /\ KeysApart /\ DoneApart /\ PaidFollows

LEMMA RefundsInit == R!Init => RefundsInv
BY DEF R!Init, RefundsInv, R!TypeOK, R!Refunds, R!Asked, R!NoRefund, R!Nothing,
   R!Steps, R!RefundStatus, RequestKnows, RequestLooked, NoneDone, DocumentsApart, Alone, OneInHand,
   KeysApart, DoneApart, PaidFollows, InHand, Added

\* Of the intents created one is the first.
LEMMA FirstIsCreated == R!Created # {} => R!First \in R!Created
BY IntentsAreOrdered DEF R!Created, R!First

\* A step that leaves the documents alone and moves one request on.
LEMMA RequestMoves ==
  ASSUME RefundsInv, R!TypeOK', UNCHANGED <<refund, met>>, NEW r \in Calls,
         refundReq[r].at # "idle",
         \A q \in Calls \ {r} : refundReq'[q] = refundReq[q],
         RequestKnows(r)', RequestLooked(r)', ~InHand(r)',
         Added(r)' => Added(r) /\ refundReq'[r].f = refundReq[r].f
  PROVE  RefundsInv'
<1> USE DEF RefundsInv, InHand, Added, Doc
<1>1. \A q \in Calls : RequestKnows(q)'
  BY DEF RequestKnows
<1>2. \A q \in Calls : RequestLooked(q)' /\ NoneDone(q)'
  BY DEF RequestLooked, NoneDone
<1>3. DocumentsApart'
  BY DEF DocumentsApart
<1>4. Alone'
  BY DEF Alone
<1>5. OneInHand'
  BY DEF OneInHand
<1>6. KeysApart' /\ DoneApart' /\ PaidFollows'
  BY DEF KeysApart, DoneApart, PaidFollows
<1> QED
  BY <1>1, <1>2, <1>3, <1>4, <1>5, <1>6

\* One lemma for each action, from here to the next line.
LEMMA IntentOfRefundStep ==
  ASSUME RefundsInv, NEW i \in Intents, R!IntentOpens(i) \/ R!IntentSettles(i)
  PROVE  RefundsInv'
<1>1. R!TypeOK'
  BY DEF RefundsInv, R!TypeOK, R!IntentOpens, R!IntentSettles, R!RefundStatus
<1>2. UNCHANGED <<wired, refund, refundTold, refundReq, met>>
  BY DEF R!IntentOpens, R!IntentSettles
<1> QED
  BY <1>1, <1>2 DEF RefundsInv, RequestKnows, RequestLooked, NoneDone, DocumentsApart,
     Alone, OneInHand, KeysApart, DoneApart, PaidFollows, InHand, Added, Doc

LEMMA AskStep ==
  ASSUME RefundsInv, NEW r \in Calls, NEW k \in RefundKeys, R!Ask(r, k)
  PROVE  RefundsInv'
<1> USE DEF RefundsInv, R!Ask, R!At, InHand, Added, Doc
<1>1. R!First \in Intents
  BY FirstIsCreated DEF R!Created
<1>2. /\ refundReq' \in [Calls -> R!Asked]
      /\ refundReq'[r].at = "byKey"
      /\ \A q \in Calls \ {r} : refundReq'[q] = refundReq[q]
  BY <1>1 DEF R!TypeOK, R!Asked, R!Nothing, R!Steps
<1>3. R!TypeOK'
  BY <1>2 DEF R!TypeOK, R!Active
<1>4. \A q \in Calls : RequestKnows(q)'
  BY <1>2 DEF RequestKnows
<1>5. \A q \in Calls : RequestLooked(q)' /\ NoneDone(q)'
  BY <1>2 DEF RequestLooked, NoneDone, R!Active
<1>6. DocumentsApart'
  BY <1>2 DEF DocumentsApart
<1>7. Alone'
  BY <1>2 DEF Alone, R!Active
<1>8. OneInHand'
  BY <1>2 DEF OneInHand
<1>9. KeysApart' /\ DoneApart' /\ PaidFollows'
  BY DEF KeysApart, DoneApart, PaidFollows
<1> QED
  BY <1>3, <1>4, <1>5, <1>6, <1>7, <1>8, <1>9

LEMMA FindByKeyStep ==
  ASSUME RefundsInv, NEW r \in Calls, R!FindByKey(r)
  PROVE  RefundsInv'
<1> USE DEF R!FindByKey, R!At, R!GoTo, R!End, R!Nothing
<1>1. R!TypeOK'
  BY DEF RefundsInv, R!TypeOK, R!Asked, R!Steps
<1>2. \A q \in Calls \ {r} : refundReq'[q] = refundReq[q]
  BY DEF RefundsInv, R!TypeOK
<1>3. \/ refundReq'[r].at = "idle"
      \/ /\ refundReq'[r].at = "byIntent" /\ refundReq'[r].k = refundReq[r].k
         /\ R!Found(refundReq[r].k) = {}
  BY DEF RefundsInv, R!TypeOK, R!Asked
<1>4. RequestLooked(r)'
  BY <1>3 DEF RequestLooked, R!Found
<1> QED
  BY <1>1, <1>2, <1>3, <1>4, RequestMoves DEF RequestKnows, InHand, Added

LEMMA FindByIntentStep ==
  ASSUME RefundsInv, NEW r \in Calls, R!FindByIntent(r)
  PROVE  RefundsInv'
<1> USE DEF R!FindByIntent, R!At, R!GoTo, R!End, R!Nothing
<1>1. R!TypeOK'
  BY DEF RefundsInv, R!TypeOK, R!Asked, R!Steps
<1>2. \A q \in Calls \ {r} : refundReq'[q] = refundReq[q]
  BY DEF RefundsInv, R!TypeOK
<1>3. \/ refundReq'[r].at = "idle"
      \/ /\ refundReq'[r].at = "add" /\ refundReq'[r].k = refundReq[r].k
         /\ refundReq'[r].i = refundReq[r].i
         /\ \A f \in Documents : refund[f].st = "SUCCEEDED" =>
                                   refund[f].i # refundReq[r].i
  BY DEF RefundsInv, R!TypeOK, R!Asked
<1>4. RequestLooked(r)'
  BY <1>3 DEF RefundsInv, RequestLooked
<1> QED
  BY <1>1, <1>2, <1>3, <1>4, RequestMoves DEF RequestKnows, InHand, Added

LEMMA RefundTellStep ==
  ASSUME RefundsInv, NEW r \in Calls, R!Tell(r)
  PROVE  RefundsInv'
<1> USE DEF R!Tell, R!At, R!End, R!Nothing
<1>1. R!TypeOK'
  BY DEF RefundsInv, R!TypeOK, R!Asked, R!Steps, RequestKnows, Added
<1>2. /\ \A q \in Calls \ {r} : refundReq'[q] = refundReq[q]
      /\ refundReq'[r].at = "idle"
  BY DEF RefundsInv, R!TypeOK
<1> QED
  BY <1>1, <1>2, RequestMoves DEF RequestKnows, RequestLooked, InHand, Added

LEMMA RefundDieStep ==
  ASSUME RefundsInv, NEW r \in Calls, R!Die(r)
  PROVE  RefundsInv'
<1> USE DEF R!Die, R!Active, R!At, R!End, R!Nothing
<1>1. R!TypeOK'
  BY DEF RefundsInv, R!TypeOK, R!Asked, R!Steps
<1>2. /\ \A q \in Calls \ {r} : refundReq'[q] = refundReq[q]
      /\ refundReq'[r].at = "idle"
  BY DEF RefundsInv, R!TypeOK
<1> QED
  BY <1>1, <1>2, RequestMoves DEF RequestKnows, RequestLooked, InHand, Added

LEMMA AddStep ==
  ASSUME RefundsInv, NEW r \in Calls, R!Add(r)
  PROVE  RefundsInv'
<1>1. PICK f \in Documents :
       /\ refund[f].st = "none"
       /\ refund' = [refund EXCEPT ![f] =
                       [st |-> "PENDING", i |-> refundReq[r].i, k |-> refundReq[r].k,
                        paid |-> FALSE, met |-> r \in met]]
       /\ refundReq' = [refundReq EXCEPT ![r].at = "pay", ![r].f = f]
  BY DEF R!Add
<1>2. /\ refund'[f].st = "PENDING" /\ ~refund'[f].paid
      /\ refund'[f].i = refundReq[r].i /\ refund'[f].k = refundReq[r].k
      /\ refund'[f].met <=> r \in met
      /\ \A g \in Documents \ {f} : refund'[g] = refund[g]
  BY <1>1 DEF RefundsInv, R!TypeOK
<1>3. /\ refundReq'[r].at = "pay" /\ refundReq'[r].f = f
      /\ refundReq'[r].i = refundReq[r].i /\ refundReq'[r].k = refundReq[r].k
      /\ \A q \in Calls \ {r} : refundReq'[q] = refundReq[q]
      /\ refundReq[r].at = "add" /\ UNCHANGED met
  BY <1>1 DEF RefundsInv, R!TypeOK, R!Add, R!At
<1>4. R!TypeOK'
  <2>1. refundReq[r] \in R!Asked
    BY DEF RefundsInv, R!TypeOK
  <2>2. refund'[f] \in R!Refunds
    BY <1>1, <2>1 DEF RefundsInv, R!TypeOK, R!Refunds, R!Asked, R!RefundStatus
  <2>3. refundReq'[r] = [refundReq[r] EXCEPT !.at = "pay", !.f = f]
    BY <1>1 DEF RefundsInv, R!TypeOK
  <2>4. refundReq'[r] \in R!Asked
    BY <2>1, <2>3 DEF R!Asked, R!Steps
  <2> QED
    BY <1>1, <2>2, <2>4 DEF RefundsInv, R!TypeOK, R!Add
<1>5. \A q \in Calls \ {r} : Added(q) => refundReq[q].f # f
  BY <1>1 DEF RefundsInv, RequestKnows, Added, InHand, Doc
<1> USE DEF RefundsInv, InHand, Added, Doc
<1>6. \A q \in Calls : RequestKnows(q)'
  BY <1>2, <1>3, <1>5 DEF RequestKnows
<1>7. \A q \in Calls \ {r} : r \notin met => refundReq[q].at = "idle"
  BY <1>3 DEF Alone
<1>8. \A q \in Calls : RequestLooked(q)'
  <2> SUFFICES ASSUME NEW q \in Calls, q # r, q \notin met, refundReq[q].at # "idle"
               PROVE  FALSE
    BY <1>3 DEF RequestLooked
  <2> QED
    BY <1>3 DEF Alone
<1>9. \A q \in Calls : NoneDone(q)'
  <2>1. NoneDone(r)'
    BY <1>1, <1>2, <1>3 DEF NoneDone, RequestLooked
  <2>2. ASSUME NEW q \in Calls \ {r} PROVE NoneDone(q)'
    BY <1>2, <1>3, <1>5 DEF NoneDone, RequestKnows
  <2> QED
    BY <2>1, <2>2
<1>10. DocumentsApart'
  BY <1>3, <1>5 DEF DocumentsApart
<1>11. Alone'
  BY <1>3 DEF Alone
<1>12. OneInHand'
  BY <1>2, <1>3, <1>5, <1>7 DEF OneInHand, RequestKnows
<1>13. KeysApart'
  BY <1>1, <1>2, <1>3 DEF KeysApart, RequestLooked
<1>14. DoneApart' /\ PaidFollows'
  BY <1>2 DEF DoneApart, PaidFollows
<1> QED
  BY <1>4, <1>6, <1>8, <1>9, <1>10, <1>11, <1>12, <1>13, <1>14

LEMMA PayBackStep ==
  ASSUME RefundsInv, NEW r \in Calls, R!PayBack(r)
  PROVE  RefundsInv'
<1>1. PICK s \in {"SUCCEEDED", "FAILED", "PENDING", "error"}, p \in BOOLEAN :
       /\ s = "SUCCEEDED" => p
       /\ s = "FAILED" => ~p
       /\ refund' = [refund EXCEPT ![refundReq[r].f].paid = p]
       /\ refundReq' = [refundReq EXCEPT ![r].at = "record", ![r].s = s]
  BY DEF R!PayBack
<1> DEFINE f == refundReq[r].f
<1>2. /\ f \in Documents /\ refund[f].st = "PENDING"
      /\ refundReq[r].at = "pay" /\ UNCHANGED met
  BY DEF RefundsInv, RequestKnows, Added, InHand, Doc, R!PayBack, R!At
<1>3. /\ refund'[f].st = refund[f].st /\ refund'[f].paid = p
      /\ refund'[f].i = refund[f].i /\ refund'[f].k = refund[f].k
      /\ refund'[f].met = refund[f].met
      /\ \A g \in Documents \ {f} : refund'[g] = refund[g]
  BY <1>1, <1>2 DEF RefundsInv, R!TypeOK
<1>4. /\ refundReq'[r].at = "record" /\ refundReq'[r].s = s
      /\ refundReq'[r].i = refundReq[r].i /\ refundReq'[r].k = refundReq[r].k
      /\ refundReq'[r].f = f
      /\ \A q \in Calls \ {r} : refundReq'[q] = refundReq[q]
  BY <1>1 DEF RefundsInv, R!TypeOK
<1>5. R!TypeOK'
  <2>1. refund[f] \in R!Refunds /\ refundReq[r] \in R!Asked
    BY <1>2 DEF RefundsInv, R!TypeOK
  <2>2. /\ refund'[f] = [refund[f] EXCEPT !.paid = p]
        /\ refundReq'[r] = [refundReq[r] EXCEPT !.at = "record", !.s = s]
    BY <1>1, <1>2 DEF RefundsInv, R!TypeOK
  <2>3. refund'[f] \in R!Refunds /\ refundReq'[r] \in R!Asked
    BY <2>1, <2>2 DEF R!Refunds, R!Asked, R!Steps
  <2> QED
    BY <1>1, <1>2, <2>3 DEF RefundsInv, R!TypeOK, R!PayBack
<1> HIDE DEF f
<1> USE DEF RefundsInv, InHand, Added, Doc
<1>6. f = refundReq[r].f
  BY DEF f
<1>7. \A q \in Calls \ {r} : Added(q) => refundReq[q].f # f
  BY <1>2, <1>6 DEF DocumentsApart
<1>8. \A g \in Documents : /\ refund'[g].st = refund[g].st /\ refund'[g].i = refund[g].i
                           /\ refund'[g].k = refund[g].k /\ refund'[g].met = refund[g].met
  BY <1>3
<1>9. RequestKnows(r)'
  BY <1>1, <1>2, <1>3, <1>4, <1>6 DEF RequestKnows
<1>10. \A q \in Calls \ {r} : RequestKnows(q)'
  BY <1>3, <1>4, <1>7 DEF RequestKnows
<1>11. \A q \in Calls : RequestLooked(q)'
  BY <1>2, <1>4, <1>8 DEF RequestLooked
<1>12. \A q \in Calls : NoneDone(q)'
  BY <1>2, <1>4, <1>6, <1>8 DEF NoneDone, RequestKnows
<1>13. DocumentsApart'
  BY <1>2, <1>4, <1>6 DEF DocumentsApart
<1>14. Alone'
  BY <1>2, <1>4 DEF Alone
<1>15. OneInHand'
  BY <1>2, <1>4, <1>6, <1>8 DEF OneInHand, RequestKnows
<1>16. KeysApart' /\ DoneApart'
  BY <1>8 DEF KeysApart, DoneApart
<1>17. PaidFollows'
  BY <1>2, <1>3 DEF PaidFollows
<1> QED
  BY <1>5, <1>9, <1>10, <1>11, <1>12, <1>13, <1>14, <1>15, <1>16, <1>17

LEMMA RecordStep ==
  ASSUME RefundsInv, NEW r \in Calls, R!Record(r)
  PROVE  RefundsInv'
<1> DEFINE f == refundReq[r].f
<1>1. /\ f \in Documents /\ refund[f].st = "PENDING"
      /\ refundReq[r].at = "record" /\ UNCHANGED <<met, wired, refundIntent, refundTold>>
  BY DEF RefundsInv, RequestKnows, Added, InHand, Doc, R!Record, R!At
<1>2. CASE UNCHANGED refund /\ R!End(r)
  <2>1. R!TypeOK'
    BY <1>1, <1>2 DEF RefundsInv, R!TypeOK, R!Asked, R!Steps, R!Nothing, R!End
  <2>2. /\ \A q \in Calls \ {r} : refundReq'[q] = refundReq[q]
        /\ refundReq'[r].at = "idle"
    BY <1>2 DEF RefundsInv, R!TypeOK, R!End, R!Nothing
  <2> QED
    BY <1>1, <1>2, <2>1, <2>2, RequestMoves DEF RequestKnows, RequestLooked, InHand, Added
<1>3. CASE /\ refundReq[r].s \in {"SUCCEEDED", "FAILED"}
           /\ refund' = [refund EXCEPT ![f].st = refundReq[r].s]
           /\ R!GoTo(r, "tell")
  <2>1. /\ refund'[f].st = refundReq[r].s /\ refund'[f].paid = refund[f].paid
        /\ refund'[f].i = refund[f].i /\ refund'[f].k = refund[f].k
        /\ refund'[f].met = refund[f].met
        /\ \A g \in Documents \ {f} : refund'[g] = refund[g]
    BY <1>1, <1>3 DEF RefundsInv, R!TypeOK
  <2>2. /\ refundReq'[r].at = "tell" /\ refundReq'[r].s = refundReq[r].s
        /\ refundReq'[r].f = f
        /\ \A q \in Calls \ {r} : refundReq'[q] = refundReq[q]
    BY <1>3 DEF RefundsInv, R!TypeOK, R!GoTo
  <2>3. R!TypeOK'
    <3>1. refund[f] \in R!Refunds /\ refundReq[r] \in R!Asked
      BY <1>1 DEF RefundsInv, R!TypeOK
    <3>2. /\ refund'[f] = [refund[f] EXCEPT !.st = refundReq[r].s]
          /\ refundReq'[r] = [refundReq[r] EXCEPT !.at = "tell"]
      BY <1>1, <1>3 DEF RefundsInv, R!TypeOK, R!GoTo
    <3>3. refund'[f] \in R!Refunds /\ refundReq'[r] \in R!Asked
      BY <1>3, <3>1, <3>2 DEF R!Refunds, R!Asked, R!Steps, R!RefundStatus
    <3> QED
      BY <1>1, <1>3, <3>3 DEF RefundsInv, R!TypeOK, R!GoTo
  <2> HIDE DEF f
  <2> USE DEF RefundsInv, InHand, Added, Doc
  <2>4. f = refundReq[r].f
    BY DEF f
  <2>5. \A q \in Calls \ {r} : Added(q) => refundReq[q].f # f
    BY <1>1, <2>4 DEF DocumentsApart
  <2>6. RequestKnows(r)'
    BY ONLY <1>1, <1>3, <2>1, <2>2 DEF RequestKnows, InHand, Added, Doc
  <2>7. \A q \in Calls \ {r} : RequestKnows(q)'
    BY <2>1, <2>2, <2>5 DEF RequestKnows
  <2>8. \A q \in Calls : RequestLooked(q)'
    <3> SUFFICES ASSUME NEW q \in Calls, q # r, q \notin met, refundReq[q].at # "idle"
                 PROVE  FALSE
      BY <1>1, <2>2 DEF RequestLooked
    <3> QED
      BY <1>1 DEF Alone
  <2>9. \A q \in Calls : NoneDone(q)'
    BY <1>1, <2>1, <2>2, <2>4, <2>5 DEF NoneDone, OneInHand, RequestKnows
  <2>10. DocumentsApart'
    BY <1>1, <2>2, <2>4 DEF DocumentsApart
  <2>11. Alone'
    BY <1>1, <2>2 DEF Alone
  <2>12. OneInHand'
    BY <2>1, <2>2, <2>5 DEF OneInHand, RequestKnows
  <2>13. KeysApart'
    BY <1>1, <2>1 DEF KeysApart
  <2>14. DoneApart'
    BY <1>1, <2>1, <2>4 DEF DoneApart, NoneDone
  <2>15. PaidFollows'
    BY <1>1, <1>3, <2>1, <2>4 DEF PaidFollows, RequestKnows
  <2> QED
    BY <2>3, <2>6, <2>7, <2>8, <2>9, <2>10, <2>11, <2>12, <2>13, <2>14, <2>15
<1> QED
  BY <1>2, <1>3 DEF R!Record
-----------------------------------------------------------------------------
LEMMA RefundsStep == RefundsInv /\ R!Next => RefundsInv'
BY IntentOfRefundStep, AskStep, FindByKeyStep, FindByIntentStep, AddStep, PayBackStep,
   RecordStep, RefundTellStep, RefundDieStep DEF R!Next

LEMMA RefundsKept == RefundsInv /\ UNCHANGED <<wired, rVars>> => RefundsInv'
BY DEF RefundsInv, rVars, R!TypeOK, RequestKnows, RequestLooked, NoneDone,
   DocumentsApart, Alone, OneInHand, KeysApart, DoneApart, PaidFollows, InHand, Added, Doc

LEMMA RefundsAreOnce == RefundsInv => R!RefundedOnce
BY DEF RefundsInv, R!TypeOK, R!RefundStatus, R!Refunds, R!RefundedOnce, KeysApart, DoneApart, PaidFollows

\* Each step of a request is one of its document, or changes none.
LEMMA RefundsRefine ==
  ASSUME RefundsInv, R!Next
  PROVE  R!Once!Next \/ UNCHANGED R!Once!vars
<1> USE DEF R!StatusOf, R!PaidBack
<1>1. ASSUME UNCHANGED <<refund, refundTold>> PROVE UNCHANGED R!Once!vars
  BY <1>1 DEF R!Once!vars
<1>2. ASSUME NEW r \in Calls, R!Add(r) PROVE R!Once!Next
  <2>1. PICK f \in Documents :
         /\ refund[f].st = "none"
         /\ refund' = [refund EXCEPT ![f] =
                         [st |-> "PENDING", i |-> refundReq[r].i, k |-> refundReq[r].k,
                          paid |-> FALSE, met |-> r \in met]]
         /\ UNCHANGED refundTold
    BY <1>2 DEF R!Add
  <2>2. ~refund[f].paid
    BY <2>1 DEF RefundsInv, PaidFollows
  <2>3. R!Once!Open(f)
    BY <2>1, <2>2 DEF R!Once!Open, RefundsInv, R!TypeOK, R!Refunds
  <2> QED
    BY <2>3 DEF R!Once!Next, R!Once!Ids
<1>3. ASSUME NEW r \in Calls, R!PayBack(r) PROVE R!Once!Next \/ UNCHANGED R!Once!vars
  <2>1. PICK f \in Documents : f = refundReq[r].f
    BY <1>3 DEF RefundsInv, RequestKnows, Added, R!PayBack, R!At
  <2>2. PICK p \in BOOLEAN : refund' = [refund EXCEPT ![f].paid = p]
    BY <1>3, <2>1 DEF R!PayBack
  <2>3. refund[f].st = "PENDING" /\ ~refund[f].paid
    BY <1>3, <2>1 DEF RefundsInv, RequestKnows, Added, InHand, Doc, R!PayBack, R!At
  <2>4. /\ \A g \in Documents : refund'[g].st = refund[g].st
        /\ \A g \in Documents : refund'[g].paid <=> (refund[g].paid \/ (g = f /\ p))
        /\ UNCHANGED refundTold
    BY <1>3, <2>2, <2>3 DEF RefundsInv, R!TypeOK, R!Refunds, R!PayBack
  <2>5. CASE p
    <3>1. R!Once!PayBack(f)
      BY <2>3, <2>4, <2>5 DEF R!Once!PayBack
    <3> QED
      BY <3>1 DEF R!Once!Next
  <2>6. CASE ~p
    BY <2>4, <2>6 DEF R!Once!vars
  <2> QED
    BY <2>5, <2>6
<1>4. ASSUME NEW r \in Calls, R!Record(r) PROVE R!Once!Next \/ UNCHANGED R!Once!vars
  <2>1. CASE UNCHANGED refund
    BY <1>1, <1>4, <2>1 DEF R!Record
  <2>2. CASE refund' # refund
    <3>1. PICK f \in Documents, s \in {"SUCCEEDED", "FAILED"} :
            f = refundReq[r].f /\ s = refundReq[r].s
      BY <1>4, <2>2 DEF RefundsInv, RequestKnows, Added, R!Record, R!At
    <3>2. refund' = [refund EXCEPT ![f].st = s] /\ UNCHANGED refundTold
      BY <1>4, <2>2, <3>1 DEF R!Record
    <3>3. /\ refund[f].st = "PENDING"
          /\ s = "SUCCEEDED" => refund[f].paid
          /\ s = "FAILED" => ~refund[f].paid
      BY <1>4, <3>1 DEF RefundsInv, RequestKnows, Added, InHand, Doc, R!Record, R!At
    <3>4. /\ \A g \in Documents : refund'[g].st = IF g = f THEN s ELSE refund[g].st
          /\ \A g \in Documents : refund'[g].paid = refund[g].paid
      BY <3>2 DEF RefundsInv, R!TypeOK, R!Refunds
    <3>5. R!Once!Settle(f, s)
      BY <3>2, <3>3, <3>4 DEF R!Once!Settle
    <3> QED
      BY <3>5 DEF R!Once!Next, R!Once!Ids, R!Once!Final
  <2> QED
    BY <2>1, <2>2
<1>5. ASSUME NEW r \in Calls, R!Tell(r) PROVE R!Once!Next \/ UNCHANGED R!Once!vars
  <2>1. PICK f \in Documents : f = refundReq[r].f
    BY <1>5 DEF RefundsInv, RequestKnows, Added, R!Tell, R!At
  <2>2. refundReq[r].s \in {"SUCCEEDED", "FAILED"} /\ refund[f].st = refundReq[r].s
    BY <1>5, <2>1 DEF RefundsInv, RequestKnows, Added, Doc, R!Tell, R!At
  <2>3. CASE refundTold' = refundTold
    BY <1>1, <1>5, <2>3 DEF R!Tell
  <2>4. CASE refundTold' = refundTold \cup {<<f, refundReq[r].s>>}
    <3>1. R!Once!Announce(f)
      BY <1>5, <2>2, <2>4 DEF R!Once!Announce, R!Once!Final, R!Tell
    <3> QED
      BY <3>1 DEF R!Once!Next, R!Once!Ids
  <2> QED
    BY <1>5, <2>1, <2>3, <2>4 DEF R!Tell
<1>6. ASSUME NEW i \in Intents, R!IntentOpens(i) \/ R!IntentSettles(i)
      PROVE  UNCHANGED R!Once!vars
  BY <1>1, <1>6 DEF R!IntentOpens, R!IntentSettles
<1>7. ASSUME NEW r \in Calls,
             \/ \E k \in RefundKeys : R!Ask(r, k)
             \/ R!FindByKey(r) \/ R!FindByIntent(r) \/ R!Die(r)
      PROVE  UNCHANGED R!Once!vars
  BY <1>1, <1>7 DEF R!Ask, R!FindByKey, R!FindByIntent, R!Die
<1> QED
  BY <1>2, <1>3, <1>4, <1>5, <1>6, <1>7 DEF R!Next

-----------------------------------------------------------------------------
LEMMA OnlyRefunds ==
  ASSUME [NextRecords]_allVars, Refunds \/ Refunds'
  PROVE  Refunds /\ (R!Next \/ UNCHANGED <<wired, rVars>>)
BY DEF NextRecords, allVars, Refunds, Payments, PaymentMethods, Organizer, Checkout, LateCommit

LEMMA RefundsAlways == SpecRecords => [](Refunds => RefundsInv)
<1>1. InitRecords => RefundsInv
  BY RefundsInit DEF InitRecords
<1>2. (Refunds => RefundsInv) /\ [NextRecords]_allVars => (Refunds => RefundsInv)'
  BY OnlyRefunds, RefundsStep, RefundsKept
<1> QED
  BY <1>1, <1>2, PTL DEF SpecRecords

\* Two refunds of one intent are both paid back only if their requests
\* overlapped, or they carried different keys and one of them was never recorded
\* as done (payment.service.js:735).
THEOREM RefundsPayOnce == SpecRecords => []RefundedOnce
<1>1. (Refunds => RefundsInv) => RefundedOnce
  BY RefundsAreOnce DEF RefundedOnce
<1> QED
  BY RefundsAlways, <1>1, PTL

\* The refund documents implement PaymentOnce: opened, settled once as the
\* provider did, announced as settled (payment.service.js:790).
THEOREM RefundsImplementOnce == SpecRecords => RefundsSettleOnce
<1>1. InitRecords => R!Once!Init
  BY DEF InitRecords, R!Init, R!Once!Init, R!Once!Ids, R!StatusOf, R!PaidBack, R!NoRefund
<1>2. (Refunds => RefundsInv) /\ [NextRecords]_allVars =>
        [Refunds => [R!Once!Next]_(R!Once!vars)]_allVars
  <2> SUFFICES ASSUME Refunds => RefundsInv, [NextRecords]_allVars, Refunds
               PROVE  R!Once!Next \/ UNCHANGED R!Once!vars
    OBVIOUS
  <2>1. CASE R!Next
    BY <2>1, RefundsRefine
  <2>2. CASE UNCHANGED rVars
    BY <2>2 DEF rVars, R!Once!vars, R!StatusOf, R!PaidBack
  <2> QED
    BY <2>1, <2>2, OnlyRefunds
<1> QED
  BY RefundsAlways, <1>1, <1>2, PTL DEF SpecRecords, RefundsSettleOnce

-----------------------------------------------------------------------------
(***************************************************************************)
(* Payment methods.  While no request that writes a default has met        *)
(* another one, each of them finds the defaults as it left them; and while *)
(* requests come one at a time, all but an addition on its way leave one.  *)
(***************************************************************************)
Running(r) == methodReq[r].at # "idle"

\* Which operation takes which steps.
OperationFits(r) ==
  /\ methodReq[r].at \in {"count", "query", "unset", "insert"} => methodReq[r].op = "add"
  /\ methodReq[r].at \in {"query", "unset"} => methodReq[r].d
  /\ methodReq[r].at = "write" => methodReq[r].op = "update"
  /\ methodReq[r].at \in {"list", "wait", "pick", "delete"} => methodReq[r].op = "delete"
  /\ methodReq[r].at = "move" => /\ methodReq[r].op # "none"
                                 /\ methodReq[r].op = "update" =>
                                      methodReq[r].d /\ methodReq[r].n = methodReq[r].m
                                 /\ methodReq[r].op = "delete" =>
                                      methodReq[r].n # methodReq[r].m
  /\ methodReq[r].at = "drop" => /\ methodReq[r].op # "none"
                                 /\ methodReq[r].op = "update" => methodReq[r].d

\* What a request that writes a default knows of the others.
DefaultsKnown(r) ==
  /\ methodReq[r].at = "insert" /\ methodReq[r].d => M!Defaults = {}
  /\ methodReq[r].at = "unset" => M!Defaults \subseteq methodReq[r].seen
  /\ methodReq[r].op = "update" /\ methodReq[r].d /\ methodReq[r].at \in {"drop", "write"} =>
       M!Defaults \subseteq {methodReq[r].m}

AtMostOne == \A m, n \in M!Defaults : m = n

WritersApart ==
  \A r, q \in Calls : Running(r) /\ Running(q) /\ r # q => ~M!WritesDefault(methodReq[r])

\* What is true while only one request runs.
HasDefault == M!Existing # {} => M!Defaults # {}

Deleting(r) == methodReq[r].at = "delete" \/ (methodReq[r].at = "drop"
                                              /\ methodReq[r].op = "delete")

DefaultStays(r) ==
  /\ HasDefault \/ (methodReq[r].at = "insert" /\ methodReq[r].d)
  /\ methodReq[r].at = "insert" => methodReq[r].d \/ M!Defaults # {}
  /\ Deleting(r) => \E n \in M!Defaults : n # methodReq[r].m

OneRuns ==
  /\ \A r, q \in Calls : Running(r) /\ Running(q) => r = q
  /\ \A r \in Calls : Running(r) => DefaultStays(r)
  /\ (\A r \in Calls : ~Running(r)) => HasDefault

MethodsInv ==
  /\ M!TypeOK
  /\ \A r \in Calls : OperationFits(r)
  /\ ~methodPast.raced => /\ AtMostOne /\ WritersApart
                          /\ \A r \in Calls : DefaultsKnown(r)
  /\ ~methodPast.mixed => OneRuns

LEMMA MethodsInit == M!Init => MethodsInv
<1> SUFFICES ASSUME M!Init PROVE MethodsInv
  OBVIOUS
<1> USE DEF M!Init
<1>1. M!TypeOK
  <2>1. M!Nothing \in M!Asked
    BY DEF M!Asked, M!Nothing, M!Steps
  <2>2. methodReq \in [Calls -> M!Asked]
    BY <2>1
  <2>3. methodPast \in [mixed : BOOLEAN, raced : BOOLEAN]
    OBVIOUS
  <2>4. /\ flag \in [Methods -> M!Flags]
        /\ owner \in [Methods -> Accounts \cup {NoAccount}]
    BY DEF M!Flags
  <2> QED
    BY <2>2, <2>3, <2>4 DEF M!TypeOK
<1>2. \A r \in Calls : methodReq[r].at = "idle" /\ methodReq[r].op = "none"
  BY DEF M!Nothing
<1>3. M!Existing = {} /\ M!Defaults = {}
  BY DEF M!Existing, M!Defaults
<1>4. \A r \in Calls : OperationFits(r) /\ DefaultsKnown(r)
  BY <1>2 DEF OperationFits, DefaultsKnown
<1>5. AtMostOne /\ WritersApart /\ OneRuns
  BY <1>2, <1>3 DEF AtMostOne, WritersApart, OneRuns, HasDefault, Running
<1> QED
  BY <1>1, <1>4, <1>5 DEF MethodsInv

\* A step of one request that is under way.
LEMMA MethodMoves ==
  ASSUME MethodsInv, M!TypeOK', NEW r \in Calls, Running(r),
         \A q \in Calls \ {r} : methodReq'[q] = methodReq[q],
         methodPast'.raced = methodPast.raced,
         methodPast.mixed => methodPast'.mixed,
         OperationFits(r)',
         Running(r)' /\ M!WritesDefault(methodReq'[r]) => M!WritesDefault(methodReq[r]),
         ~methodPast.raced => AtMostOne' /\ DefaultsKnown(r)',
         ~methodPast'.mixed => IF Running(r)' THEN DefaultStays(r)' ELSE HasDefault'
  PROVE  MethodsInv'
<1>1. \A q \in Calls : OperationFits(q)'
  BY DEF MethodsInv, OperationFits
<1>2. ASSUME ~methodPast.raced
      PROVE  WritersApart' /\ \A q \in Calls : DefaultsKnown(q)'
  <2>1. WritersApart
    BY <1>2 DEF MethodsInv
  <2>2. WritersApart'
    BY <2>1 DEF WritersApart, Running, M!WritesDefault
  <2>3. ASSUME NEW q \in Calls, q # r PROVE DefaultsKnown(q)'
    <3>1. OperationFits(q) /\ methodReq'[q] = methodReq[q]
      BY <2>3 DEF MethodsInv
    <3>2. Running(q) => ~M!WritesDefault(methodReq[q])
      BY <2>1, <2>3 DEF WritersApart
    <3> QED
      BY ONLY <3>1, <3>2 DEF DefaultsKnown, OperationFits, M!WritesDefault, Running
  <2> QED
    BY <1>2, <2>2, <2>3
<1>3. ASSUME ~methodPast'.mixed PROVE OneRuns'
  <2>1. \A q \in Calls : Running(q)' => q = r
    BY <1>3 DEF MethodsInv, OneRuns, Running
  <2>2. CASE Running(r)'
    BY <1>3, <2>1, <2>2 DEF OneRuns
  <2>3. CASE ~Running(r)'
    BY <1>3, <2>1, <2>3 DEF OneRuns
  <2> QED
    BY <2>2, <2>3
<1> QED
  BY <1>1, <1>2, <1>3 DEF MethodsInv

\* A request begins.
LEMMA MethodBegins ==
  ASSUME MethodsInv, NEW r \in Calls, NEW c \in M!Asked, M!Begin(r, c),
         c.at # "idle",
         c.at \notin {"query", "unset", "insert", "drop"},
         c.at = "write" => c.op = "update" /\ ~c.d,
         c.at = "count" => c.op = "add",
         c.at \in {"list", "wait", "pick", "delete"} => c.op = "delete",
         c.at = "move" => /\ c.op \in {"add", "update"}
                          /\ c.op = "update" => c.d /\ c.n = c.m,
         HasDefault /\ c.at = "delete" => \E n \in M!Defaults : n # c.m
  PROVE  MethodsInv'
<1> USE DEF M!Begin, M!At
<1>1. /\ methodReq'[r] = c /\ \A q \in Calls \ {r} : methodReq'[q] = methodReq[q]
      /\ ~Running(r) /\ Running(r)'
      /\ UNCHANGED <<flag, owner, cached, fill>>
      /\ methodPast' = M!Meet(c)
  BY DEF MethodsInv, M!TypeOK, Running
<1>2. M!TypeOK'
  BY DEF MethodsInv, M!TypeOK, M!Meet
<1>3. \A q \in Calls : OperationFits(q)'
  BY <1>1 DEF MethodsInv, OperationFits
<1>4. ASSUME ~methodPast'.raced
      PROVE  /\ AtMostOne' /\ WritersApart'
             /\ \A q \in Calls : DefaultsKnown(q)'
  <2>6. methodPast'.raced = (methodPast.raced \/
          \E q \in M!Busy : M!WritesDefault(c) \/ M!WritesDefault(methodReq[q]))
    BY <1>1 DEF M!Meet
  <2>1. /\ ~methodPast.raced
        /\ \A q \in Calls : Running(q) => /\ ~M!WritesDefault(c)
                                          /\ ~M!WritesDefault(methodReq[q])
    BY <1>4, <2>6 DEF M!Busy, Running
  <2>2. UNCHANGED M!Defaults
    BY <1>1 DEF M!Defaults
  <2>3. AtMostOne'
    BY <2>1, <2>2 DEF MethodsInv, AtMostOne
  <2>4. WritersApart'
    BY <1>1, <2>1 DEF WritersApart, Running
  <2>5. ASSUME NEW q \in Calls PROVE DefaultsKnown(q)'
    BY <1>1, <2>1, <2>2 DEF MethodsInv, DefaultsKnown
  <2> QED
    BY <2>3, <2>4, <2>5
<1>5. ASSUME ~methodPast'.mixed PROVE OneRuns'
  <2>1. /\ ~methodPast.mixed
        /\ \A q \in Calls : ~Running(q)
    BY <1>5 DEF M!Meet, M!Busy, Running
  <2>2. UNCHANGED <<M!Defaults, M!Existing>>
    BY <1>1 DEF M!Defaults, M!Existing
  <2>3. \A q \in Calls : Running(q)' => q = r
    BY <1>1, <2>1 DEF Running
  <2>4. HasDefault
    BY <2>1 DEF MethodsInv, OneRuns
  <2>5. DefaultStays(r)'
    BY <1>1, <2>2, <2>4 DEF DefaultStays, HasDefault, Deleting
  <2> QED
    BY <1>1, <2>3, <2>5 DEF OneRuns
<1> QED
  BY <1>2, <1>3, <1>4, <1>5 DEF MethodsInv

LEMMA AddKnownStep ==
  ASSUME MethodsInv, NEW r \in Calls, NEW a \in Accounts \cup {NoAccount}, M!AddKnown(r, a)
  PROVE  MethodsInv'
<1>1. PICK m \in M!Known(a) :
        M!Begin(r, [M!Nothing EXCEPT !.op = "add", !.at = "move", !.n = m])
  BY DEF M!AddKnown
<1> DEFINE c == [M!Nothing EXCEPT !.op = "add", !.at = "move", !.n = m]
<1>2. /\ c \in M!Asked /\ c.at = "move" /\ c.op = "add"
  BY DEF M!Asked, M!Nothing, M!Steps, M!Known, M!Existing
<1> HIDE DEF c
<1> QED
  BY <1>1, <1>2, MethodBegins DEF c

LEMMA AddNewStep ==
  ASSUME MethodsInv, NEW r \in Calls, NEW a \in Accounts \cup {NoAccount}, NEW d \in BOOLEAN,
         M!AddNew(r, a, d)
  PROVE  MethodsInv'
<1> DEFINE c == [M!Nothing EXCEPT !.op = "add", !.at = "count", !.a = a, !.d = d]
<1>1. /\ c \in M!Asked /\ c.at = "count" /\ c.op = "add"
  BY DEF M!Asked, M!Nothing, M!Steps
<1>2. M!Begin(r, c)
  BY DEF M!AddNew
<1> HIDE DEF c
<1> QED
  BY <1>1, <1>2, MethodBegins

LEMMA MethodUpdateStep ==
  ASSUME MethodsInv, NEW r \in Calls, NEW m \in Methods, NEW d \in BOOLEAN, M!Update(r, m, d)
  PROVE  MethodsInv'
<1> DEFINE c == [M!Nothing EXCEPT !.op = "update", !.at = IF d THEN "move" ELSE "write",
                                  !.m = m, !.n = m, !.d = d]
<1>1. /\ c \in M!Asked /\ c.op = "update" /\ c.n = c.m /\ c.d = d
      /\ c.at = IF d THEN "move" ELSE "write"
  BY DEF M!Asked, M!Nothing, M!Steps
<1>2. M!Begin(r, c)
  BY DEF M!Update
<1> HIDE DEF c
<1> QED
  BY <1>1, <1>2, MethodBegins

LEMMA DeleteStep ==
  ASSUME MethodsInv, NEW r \in Calls, NEW m \in Methods, M!Delete(r, m)
  PROVE  MethodsInv'
<1>1. PICK start \in {"list", "delete"} : start = IF flag[m] = "default" THEN "list" ELSE "delete"
  OBVIOUS
<1> DEFINE c == [M!Nothing EXCEPT !.op = "delete", !.m = m, !.at = start]
<1>2. /\ c \in M!Asked /\ c.op = "delete" /\ c.m = m /\ c.at = start
  BY DEF M!Asked, M!Nothing, M!Steps
<1>3. M!Begin(r, c)
  BY <1>1 DEF M!Delete
<1>4. HasDefault /\ start = "delete" => \E n \in M!Defaults : n # m
  BY <1>1 DEF M!Delete, HasDefault, M!Defaults
<1> HIDE DEF c
<1> QED
  BY <1>2, <1>3, <1>4, MethodBegins

\* What a step that moves a request changes of it.
LEMMA MethodGoes ==
  ASSUME M!TypeOK, NEW r \in Calls, NEW step \in M!Steps, M!GoTo(r, step)
  PROVE  /\ methodReq' \in [Calls -> M!Asked]
         /\ methodReq'[r] \in M!Asked
         /\ methodReq'[r].at = step /\ methodReq'[r].op = methodReq[r].op
         /\ methodReq'[r].m = methodReq[r].m /\ methodReq'[r].n = methodReq[r].n
         /\ methodReq'[r].d = methodReq[r].d /\ methodReq'[r].seen = methodReq[r].seen
         /\ \A q \in Calls \ {r} : methodReq'[q] = methodReq[q]
<1>1. methodReq'[r] = [methodReq[r] EXCEPT !.at = step] /\ methodReq[r] \in M!Asked
  BY DEF M!TypeOK, M!GoTo
<1>2. /\ methodReq'[r].at = step /\ methodReq'[r].op = methodReq[r].op
      /\ methodReq'[r].m = methodReq[r].m /\ methodReq'[r].n = methodReq[r].n
      /\ methodReq'[r].d = methodReq[r].d /\ methodReq'[r].seen = methodReq[r].seen
      /\ methodReq'[r] \in M!Asked
  BY <1>1 DEF M!Asked
<1>3. /\ \A q \in Calls \ {r} : methodReq'[q] = methodReq[q]
      /\ methodReq' = [q \in Calls |-> methodReq'[q]]
  BY DEF M!TypeOK, M!GoTo
<1> QED
  BY <1>2, <1>3 DEF M!TypeOK

LEMMA MethodEnds ==
  ASSUME M!TypeOK, NEW r \in Calls, M!End(r)
  PROVE  /\ methodReq' \in [Calls -> M!Asked]
         /\ ~Running(r)'
         /\ OperationFits(r)' /\ DefaultsKnown(r)'
         /\ \A q \in Calls \ {r} : methodReq'[q] = methodReq[q]
<1>1. M!Nothing \in M!Asked
  BY DEF M!Asked, M!Nothing, M!Steps
<1>2. methodReq'[r] = M!Nothing /\ methodReq' \in [Calls -> M!Asked]
  BY <1>1 DEF M!TypeOK, M!End
<1>3. \A q \in Calls \ {r} : methodReq'[q] = methodReq[q]
  BY DEF M!TypeOK, M!End
<1> QED
  BY <1>2, <1>3 DEF Running, OperationFits, DefaultsKnown, M!Nothing

\* A step that leaves the documents alone ends the request.
LEMMA MethodGivesUp ==
  ASSUME MethodsInv, NEW r \in Calls, Running(r), M!End(r), UNCHANGED <<flag, methodPast>>,
         M!TypeOK',
         ~(methodReq[r].at = "insert" /\ methodReq[r].d)
  PROVE  MethodsInv'
<1>1. /\ ~Running(r)' /\ OperationFits(r)' /\ DefaultsKnown(r)'
      /\ \A q \in Calls \ {r} : methodReq'[q] = methodReq[q]
  BY MethodEnds DEF MethodsInv
<1>2. ~methodPast.raced => AtMostOne'
  BY DEF MethodsInv, AtMostOne, M!Defaults
<1>3. ~methodPast'.mixed => HasDefault'
  BY DEF MethodsInv, OneRuns, DefaultStays, HasDefault, M!Defaults, M!Existing
<1> QED
  BY <1>1, <1>2, <1>3, MethodMoves

LEMMA MoveStep ==
  ASSUME MethodsInv, NEW r \in Calls, M!Move(r)
  PROVE  MethodsInv'
<1>1. /\ M!TypeOK /\ methodReq[r].at = "move" /\ Running(r) /\ OperationFits(r)
      /\ UNCHANGED <<owner, cached, fill, methodPast>>
  BY DEF MethodsInv, M!Move, M!At, Running
<1>2. CASE methodReq[r].n \in M!Existing
  <2>1. PICK n \in Methods : n = methodReq[r].n
    BY <1>2 DEF M!Existing
  <2>2. flag' = M!OnlyDefault(n) /\ M!GoTo(r, "drop")
    BY <1>2, <2>1 DEF M!Move
  <2>3. /\ methodReq' \in [Calls -> M!Asked]
        /\ methodReq'[r].at = "drop" /\ methodReq'[r].op = methodReq[r].op
        /\ methodReq'[r].m = methodReq[r].m /\ methodReq'[r].n = methodReq[r].n
        /\ methodReq'[r].d = methodReq[r].d
        /\ \A q \in Calls \ {r} : methodReq'[q] = methodReq[q]
    BY <1>1, <2>2, MethodGoes DEF M!Steps
  <2>4. M!Defaults' = {n}
    BY <2>1, <2>2 DEF M!Defaults, M!OnlyDefault
  <2>5. M!TypeOK'
    BY <1>1, <2>2, <2>3 DEF M!TypeOK, M!Flags, M!OnlyDefault
  <2>6. OperationFits(r)'
    BY <1>1, <2>3 DEF OperationFits
  <2>7. AtMostOne' /\ DefaultsKnown(r)'
    BY <1>1, <2>1, <2>3, <2>4 DEF AtMostOne, DefaultsKnown, OperationFits
  <2>8. Running(r)' /\ DefaultStays(r)'
    BY <1>1, <2>1, <2>3, <2>4
       DEF Running, DefaultStays, HasDefault, Deleting, OperationFits
  <2> QED
    BY <1>1, <2>3, <2>5, <2>6, <2>7, <2>8, MethodMoves DEF M!WritesDefault
<1>3. CASE methodReq[r].n \notin M!Existing
  <2>1. UNCHANGED flag /\ M!End(r)
    BY <1>3 DEF M!Move
  <2>2. M!TypeOK'
    BY <1>1, <2>1, MethodEnds DEF M!TypeOK
  <2> QED
    BY <1>1, <2>1, <2>2, MethodGivesUp
<1> QED
  BY <1>2, <1>3

\* A step that leaves the documents alone and moves the request on, not in the
\* middle of an addition or a deletion.
LEMMA MethodGoesOn ==
  ASSUME MethodsInv, NEW r \in Calls, Running(r), UNCHANGED <<flag, methodPast>>,
         M!TypeOK', \A q \in Calls \ {r} : methodReq'[q] = methodReq[q],
         Running(r)', OperationFits(r)', ~methodPast.raced => DefaultsKnown(r)',
         methodReq'[r].op = methodReq[r].op,
         methodReq'[r].d = methodReq[r].d \/ methodReq[r].op = "add",
         methodReq[r].at # "insert", methodReq'[r].at = "insert" => M!Existing # {},
         Deleting(r)' => Deleting(r) /\ methodReq'[r].m = methodReq[r].m
  PROVE  MethodsInv'
<1>1. UNCHANGED <<M!Defaults, M!Existing>>
  BY DEF M!Defaults, M!Existing
<1>2. ~methodPast.raced => AtMostOne'
  BY <1>1 DEF MethodsInv, AtMostOne
<1>3. ~methodPast'.mixed => DefaultStays(r)'
  BY <1>1 DEF MethodsInv, OneRuns, DefaultStays, HasDefault
<1>4. M!WritesDefault(methodReq'[r]) => M!WritesDefault(methodReq[r])
  BY DEF M!WritesDefault
<1> QED
  BY <1>2, <1>3, <1>4, MethodMoves

LEMMA DropStep ==
  ASSUME MethodsInv, NEW r \in Calls, M!Drop(r)
  PROVE  MethodsInv'
<1>1. /\ M!TypeOK /\ OperationFits(r) /\ UNCHANGED <<flag, owner, fill, methodPast>>
      /\ cached' \in {cached, M!NoList}
      /\ methodReq[r].at \in {"drop", "dropLast"} /\ Running(r)
  BY DEF MethodsInv, M!Drop, M!At, Running
<1>2. CASE M!End(r)
  <2>1. M!TypeOK'
    BY <1>1, <1>2, MethodEnds DEF M!TypeOK
  <2> QED
    BY <1>1, <1>2, <2>1, MethodGivesUp
<1>3. ASSUME NEW step \in {"write", "delete"}, methodReq[r].at = "drop", M!GoTo(r, step),
             methodReq[r].op = (IF step = "write" THEN "update" ELSE "delete")
      PROVE  MethodsInv'
  <2>1. /\ methodReq' \in [Calls -> M!Asked]
        /\ methodReq'[r].at = step /\ methodReq'[r].op = methodReq[r].op
        /\ methodReq'[r].m = methodReq[r].m /\ methodReq'[r].d = methodReq[r].d
        /\ \A q \in Calls \ {r} : methodReq'[q] = methodReq[q]
    BY <1>1, <1>3, MethodGoes DEF M!Steps
  <2>2. M!TypeOK'
    BY <1>1, <2>1 DEF M!TypeOK
  <2>3. Running(r)' /\ OperationFits(r)'
    BY <1>3, <2>1 DEF Running, OperationFits
  <2>4. ~methodPast.raced => DefaultsKnown(r)'
    BY <1>1, <1>3, <2>1 DEF MethodsInv, DefaultsKnown, M!Defaults
  <2>5. Deleting(r)' => Deleting(r)
    BY <1>3, <2>1 DEF Deleting
  <2> QED
    BY <1>1, <1>3, <2>1, <2>2, <2>3, <2>4, <2>5, MethodGoesOn
<1> QED
  BY <1>1, <1>2, <1>3 DEF M!Drop, M!At

LEMMA AddCountStep ==
  ASSUME MethodsInv, NEW r \in Calls, M!AddCount(r)
  PROVE  MethodsInv'
<1>1. /\ M!TypeOK /\ OperationFits(r) /\ UNCHANGED <<flag, owner, cached, fill, methodPast>>
      /\ methodReq[r].at = "count" /\ methodReq[r].op = "add" /\ Running(r)
  BY DEF MethodsInv, OperationFits, M!AddCount, M!At, Running
<1>2. PICK d \in BOOLEAN : d = (methodReq[r].d \/ M!Existing = {})
  OBVIOUS
<1>3. PICK step \in {"query", "insert"} : step = IF d THEN "query" ELSE "insert"
  OBVIOUS
<1>4. /\ methodReq[r] \in M!Asked
      /\ methodReq'[r] = [methodReq[r] EXCEPT !.d = d, !.at = step]
      /\ \A q \in Calls \ {r} : methodReq'[q] = methodReq[q]
      /\ methodReq' = [q \in Calls |-> methodReq'[q]]
  BY <1>1, <1>2, <1>3 DEF M!TypeOK, M!AddCount
<1>5. /\ methodReq'[r] \in M!Asked
      /\ methodReq'[r].at = step /\ methodReq'[r].op = methodReq[r].op
      /\ methodReq'[r].d = d
  BY <1>4 DEF M!Asked, M!Steps
<1>6. M!TypeOK'
  BY <1>1, <1>4, <1>5 DEF M!TypeOK
<1>7. Running(r)' /\ OperationFits(r)' /\ DefaultsKnown(r)' /\ ~Deleting(r)'
  BY <1>1, <1>3, <1>5 DEF Running, OperationFits, DefaultsKnown, Deleting
<1>8. step = "insert" => M!Existing # {}
  BY <1>2, <1>3
<1> QED
  BY <1>1, <1>4, <1>5, <1>6, <1>7, <1>8, MethodGoesOn

LEMMA AddUnsetStep ==
  ASSUME MethodsInv, NEW r \in Calls, M!AddUnset(r)
  PROVE  MethodsInv'
<1>1. /\ M!TypeOK /\ OperationFits(r) /\ UNCHANGED <<owner, cached, fill, methodPast>>
      /\ methodReq[r].at = "unset" /\ methodReq[r].op = "add" /\ Running(r)
  BY DEF MethodsInv, OperationFits, M!AddUnset, M!At, Running
<1>2. CASE methodReq[r].seen \subseteq M!Existing
  <2>1. /\ flag' = [m \in Methods |-> IF m \in methodReq[r].seen THEN "other" ELSE flag[m]]
        /\ M!GoTo(r, "insert")
    BY <1>2 DEF M!AddUnset
  <2>2. /\ methodReq' \in [Calls -> M!Asked]
        /\ methodReq'[r].at = "insert" /\ methodReq'[r].op = methodReq[r].op
        /\ methodReq'[r].d = methodReq[r].d
        /\ \A q \in Calls \ {r} : methodReq'[q] = methodReq[q]
    BY <1>1, <2>1, MethodGoes DEF M!Steps
  <2>3. M!TypeOK'
    BY <1>1, <2>1, <2>2 DEF M!TypeOK, M!Flags
  <2>4. M!Defaults' = M!Defaults \ methodReq[r].seen
    BY <2>1 DEF M!Defaults
  <2>5. Running(r)' /\ OperationFits(r)'
    BY <1>1, <2>2 DEF Running, OperationFits
  <2>6. ~methodPast.raced => AtMostOne' /\ DefaultsKnown(r)'
    BY <1>1, <2>2, <2>4 DEF MethodsInv, AtMostOne, DefaultsKnown
  <2>7. DefaultStays(r)'
    BY <1>1, <2>2 DEF OperationFits, DefaultStays, Deleting
  <2> QED
    BY <1>1, <2>2, <2>3, <2>5, <2>6, <2>7, MethodMoves DEF M!WritesDefault
<1>3. CASE ~(methodReq[r].seen \subseteq M!Existing)
  <2>1. UNCHANGED flag /\ M!End(r)
    BY <1>3 DEF M!AddUnset
  <2>2. M!TypeOK'
    BY <1>1, <2>1, MethodEnds DEF M!TypeOK
  <2> QED
    BY <1>1, <2>1, <2>2, MethodGivesUp
<1> QED
  BY <1>2, <1>3

LEMMA AddQueryStep ==
  ASSUME MethodsInv, NEW r \in Calls, M!AddQuery(r)
  PROVE  MethodsInv'
<1>1. /\ M!TypeOK /\ OperationFits(r) /\ UNCHANGED <<flag, owner, cached, fill, methodPast>>
      /\ methodReq[r].at = "query" /\ methodReq[r].op = "add" /\ methodReq[r].d /\ Running(r)
  BY DEF MethodsInv, OperationFits, M!AddQuery, M!At, Running
<1>2. PICK step \in {"insert", "unset"} :
        step = IF M!Defaults = {} THEN "insert" ELSE "unset"
  OBVIOUS
<1>3. PICK known \in SUBSET Methods : known = M!Defaults
  BY DEF M!Defaults
<1>4. /\ methodReq[r] \in M!Asked
      /\ methodReq'[r] = [methodReq[r] EXCEPT !.seen = known, !.at = step]
      /\ \A q \in Calls \ {r} : methodReq'[q] = methodReq[q]
      /\ methodReq' = [q \in Calls |-> methodReq'[q]]
  BY <1>1, <1>2, <1>3 DEF M!TypeOK, M!AddQuery
<1>5. /\ methodReq'[r] \in M!Asked
      /\ methodReq'[r].at = step /\ methodReq'[r].op = methodReq[r].op
      /\ methodReq'[r].d = methodReq[r].d /\ methodReq'[r].seen = known
  BY <1>4 DEF M!Asked, M!Steps
<1>6. M!TypeOK'
  BY <1>1, <1>4, <1>5 DEF M!TypeOK
<1>7. UNCHANGED <<M!Defaults, M!Existing>>
  BY <1>1 DEF M!Defaults, M!Existing
<1>8. Running(r)' /\ OperationFits(r)' /\ DefaultsKnown(r)'
  BY <1>1, <1>2, <1>3, <1>5, <1>7 DEF Running, OperationFits, DefaultsKnown
<1>9. ~methodPast.raced => AtMostOne'
  BY <1>7 DEF MethodsInv, AtMostOne
<1>10. ~methodPast'.mixed => DefaultStays(r)'
  BY <1>1, <1>2, <1>5, <1>7 DEF MethodsInv, OneRuns, DefaultStays, HasDefault, Deleting
<1> QED
  BY <1>1, <1>4, <1>5, <1>6, <1>8, <1>9, <1>10, MethodMoves DEF M!WritesDefault

LEMMA AddInsertStep ==
  ASSUME MethodsInv, NEW r \in Calls, M!AddInsert(r)
  PROVE  MethodsInv'
<1>1. /\ M!TypeOK /\ OperationFits(r) /\ UNCHANGED <<cached, fill, methodPast>>
      /\ methodReq[r].at = "insert" /\ methodReq[r].op = "add" /\ Running(r)
      /\ methodReq[r].a \in Accounts \cup {NoAccount}
      /\ M!GoTo(r, "dropLast")
  BY DEF MethodsInv, OperationFits, M!AddInsert, M!At, M!TypeOK, M!Asked, Running
<1>2. PICK m \in Methods \ M!Existing :
         /\ flag' = [flag EXCEPT ![m] = IF methodReq[r].d THEN "default" ELSE "other"]
         /\ owner' = [owner EXCEPT ![m] = methodReq[r].a]
  BY DEF M!AddInsert
<1>3. /\ methodReq' \in [Calls -> M!Asked]
      /\ methodReq'[r].at = "dropLast" /\ methodReq'[r].op = methodReq[r].op
      /\ methodReq'[r].d = methodReq[r].d
      /\ \A q \in Calls \ {r} : methodReq'[q] = methodReq[q]
  BY <1>1, MethodGoes DEF M!Steps
<1>4. M!TypeOK'
  BY <1>1, <1>2, <1>3 DEF M!TypeOK, M!Flags
<1>5. M!Defaults' = IF methodReq[r].d THEN M!Defaults \cup {m} ELSE M!Defaults
  BY <1>1, <1>2 DEF M!TypeOK, M!Defaults, M!Existing
<1>6. Running(r)' /\ OperationFits(r)' /\ DefaultsKnown(r)'
  BY <1>1, <1>3 DEF Running, OperationFits, DefaultsKnown
<1>7. ~methodPast.raced => AtMostOne'
  BY <1>1, <1>5 DEF MethodsInv, AtMostOne, DefaultsKnown
<1>8. ~methodPast'.mixed => DefaultStays(r)'
  BY <1>1, <1>3, <1>5 DEF MethodsInv, OneRuns, DefaultStays, HasDefault, Deleting
<1> QED
  BY <1>1, <1>3, <1>4, <1>6, <1>7, <1>8, MethodMoves DEF M!WritesDefault

LEMMA UpdateWriteStep ==
  ASSUME MethodsInv, NEW r \in Calls, M!UpdateWrite(r)
  PROVE  MethodsInv'
<1>1. /\ M!TypeOK /\ OperationFits(r) /\ UNCHANGED <<owner, cached, fill>>
      /\ methodReq[r].at = "write" /\ methodReq[r].op = "update" /\ Running(r)
  BY DEF MethodsInv, OperationFits, M!UpdateWrite, M!At, Running
<1>2. CASE methodReq[r].m \in M!Existing
  <2>1. PICK m \in M!Existing : m = methodReq[r].m
    BY <1>2
  <2>2. /\ flag' = [flag EXCEPT ![m] = IF methodReq[r].d THEN "default" ELSE "other"]
        /\ methodPast' = IF flag[m] = "default" /\ ~methodReq[r].d THEN M!Mixed ELSE methodPast
        /\ M!GoTo(r, "dropLast")
    BY <1>2, <2>1 DEF M!UpdateWrite
  <2>3. /\ methodReq' \in [Calls -> M!Asked]
        /\ methodReq'[r].at = "dropLast" /\ methodReq'[r].op = methodReq[r].op
        /\ methodReq'[r].d = methodReq[r].d
        /\ \A q \in Calls \ {r} : methodReq'[q] = methodReq[q]
    BY <1>1, <2>2, MethodGoes DEF M!Steps
  <2>4. /\ methodPast' \in [mixed : BOOLEAN, raced : BOOLEAN]
        /\ methodPast'.raced = methodPast.raced
        /\ methodPast.mixed => methodPast'.mixed
        /\ ~methodPast'.mixed => flag[m] # "default" \/ methodReq[r].d
    BY <1>1, <2>2 DEF M!TypeOK, M!Mixed
  <2>5. M!TypeOK'
    BY <1>1, <2>2, <2>3, <2>4 DEF M!TypeOK, M!Flags
  <2>6. M!Defaults' = IF methodReq[r].d THEN M!Defaults \cup {m} ELSE M!Defaults \ {m}
    BY <1>1, <2>1, <2>2 DEF M!TypeOK, M!Defaults, M!Existing
  <2>7. Running(r)' /\ OperationFits(r)' /\ DefaultsKnown(r)'
    BY <1>1, <2>3 DEF Running, OperationFits, DefaultsKnown
  <2>8. ~methodPast.raced => AtMostOne'
    BY <1>1, <2>1, <2>6 DEF MethodsInv, AtMostOne, DefaultsKnown
  <2>9. ~methodPast'.mixed => DefaultStays(r)'
    <3>1. ~methodPast'.mixed => HasDefault
      BY <1>1, <2>4 DEF MethodsInv, OneRuns, DefaultStays
    <3>2. M!Existing # {}
      BY <2>1
    <3>3. ~methodPast'.mixed => M!Defaults' # {}
      BY <2>1, <2>4, <2>6, <3>1, <3>2 DEF HasDefault, M!Defaults
    <3> QED
      BY <2>3, <3>3 DEF DefaultStays, HasDefault, Deleting
  <2> QED
    BY <1>1, <2>3, <2>4, <2>5, <2>7, <2>8, <2>9, MethodMoves DEF M!WritesDefault
<1>3. CASE methodReq[r].m \notin M!Existing
  <2>1. UNCHANGED <<flag, methodPast>> /\ M!End(r)
    BY <1>3 DEF M!UpdateWrite
  <2>2. M!TypeOK'
    BY <1>1, <2>1, MethodEnds DEF M!TypeOK
  <2> QED
    BY <1>1, <2>1, <2>2, MethodGivesUp
<1> QED
  BY <1>2, <1>3

LEMMA DeleteListStep ==
  ASSUME MethodsInv, NEW r \in Calls, M!DeleteList(r)
  PROVE  MethodsInv'
<1>1. /\ M!TypeOK /\ OperationFits(r) /\ UNCHANGED <<flag, owner, cached, methodPast>>
      /\ methodReq[r].at = "list" /\ methodReq[r].op = "delete" /\ Running(r)
  BY DEF MethodsInv, OperationFits, M!DeleteList, M!At, Running
<1>2. PICK step \in {"pick", "wait"}, known \in SUBSET Methods :
        /\ methodReq' = [methodReq EXCEPT ![r].at = step, ![r].seen = known]
        /\ fill' \in (SUBSET Methods) \cup {M!NoList}
  <2>1. CASE cached # M!NoList
    BY <1>1, <2>1 DEF M!DeleteList, M!TypeOK
  <2>2. CASE cached = M!NoList
    <3>1. methodReq' = [methodReq EXCEPT ![r].at = "wait", ![r].seen = methodReq[r].seen]
      BY <1>1, <2>2 DEF M!DeleteList, M!GoTo, M!TypeOK, M!Asked
    <3>2. methodReq[r].seen \in SUBSET Methods
      BY <1>1 DEF M!TypeOK, M!Asked
    <3>3. fill' \in (SUBSET Methods) \cup {M!NoList}
      BY <1>1, <2>2 DEF M!DeleteList, M!TypeOK, M!Existing
    <3> QED
      BY <3>1, <3>2, <3>3
  <2> QED
    BY <2>1, <2>2
<1>3. /\ methodReq[r] \in M!Asked
      /\ methodReq'[r] = [methodReq[r] EXCEPT !.at = step, !.seen = known]
      /\ \A q \in Calls \ {r} : methodReq'[q] = methodReq[q]
      /\ methodReq' = [q \in Calls |-> methodReq'[q]]
  BY <1>1, <1>2 DEF M!TypeOK
<1>4. /\ methodReq'[r] \in M!Asked
      /\ methodReq'[r].at = step /\ methodReq'[r].op = methodReq[r].op
      /\ methodReq'[r].d = methodReq[r].d
  BY <1>3 DEF M!Asked, M!Steps
<1>5. M!TypeOK'
  BY <1>1, <1>2, <1>3, <1>4 DEF M!TypeOK
<1>6. Running(r)' /\ OperationFits(r)' /\ DefaultsKnown(r)' /\ ~Deleting(r)'
  BY <1>1, <1>4 DEF Running, OperationFits, DefaultsKnown, Deleting
<1> QED
  BY <1>1, <1>3, <1>4, <1>5, <1>6, MethodGoesOn

LEMMA DeletePickStep ==
  ASSUME MethodsInv, NEW r \in Calls, M!DeletePick(r)
  PROVE  MethodsInv'
<1>1. /\ M!TypeOK /\ OperationFits(r)
      /\ UNCHANGED <<flag, owner, cached, fill, methodPast>>
      /\ methodReq[r].at = "pick" /\ methodReq[r].op = "delete" /\ Running(r)
  BY DEF MethodsInv, OperationFits, M!DeletePick, M!At, Running
<1>2. CASE M!End(r)
  <2>1. M!TypeOK'
    BY <1>1, <1>2, MethodEnds DEF M!TypeOK
  <2> QED
    BY <1>1, <1>2, <2>1, MethodGivesUp
<1>3. ASSUME NEW n \in methodReq[r].seen \ {methodReq[r].m},
             methodReq' = [methodReq EXCEPT ![r].at = "move", ![r].n = n, ![r].seen = {}]
      PROVE  MethodsInv'
  <2>1. /\ methodReq[r] \in M!Asked /\ n \in Methods
        /\ methodReq'[r] = [methodReq[r] EXCEPT !.at = "move", !.n = n, !.seen = {}]
        /\ \A q \in Calls \ {r} : methodReq'[q] = methodReq[q]
        /\ methodReq' = [q \in Calls |-> methodReq'[q]]
    BY <1>1, <1>3 DEF M!TypeOK, M!Asked
  <2>2. /\ methodReq'[r] \in M!Asked
        /\ methodReq'[r].at = "move" /\ methodReq'[r].op = methodReq[r].op
        /\ methodReq'[r].d = methodReq[r].d /\ methodReq'[r].m = methodReq[r].m
        /\ methodReq'[r].n = n
    BY <2>1 DEF M!Asked, M!Steps
  <2>3. M!TypeOK'
    BY <1>1, <2>1, <2>2 DEF M!TypeOK
  <2>4. Running(r)' /\ OperationFits(r)' /\ DefaultsKnown(r)' /\ ~Deleting(r)'
    BY <1>1, <2>2 DEF Running, OperationFits, DefaultsKnown, Deleting
  <2> QED
    BY <1>1, <2>1, <2>2, <2>3, <2>4, MethodGoesOn
<1> QED
  BY <1>2, <1>3 DEF M!DeletePick

LEMMA DeleteDocStep ==
  ASSUME MethodsInv, NEW r \in Calls, M!DeleteDoc(r)
  PROVE  MethodsInv'
<1>1. /\ M!TypeOK /\ OperationFits(r) /\ UNCHANGED <<owner, cached, fill, methodPast>>
      /\ methodReq[r].at = "delete" /\ methodReq[r].op = "delete" /\ Running(r)
      /\ flag' = [flag EXCEPT ![methodReq[r].m] = "none"]
      /\ M!GoTo(r, "dropLast")
  BY DEF MethodsInv, OperationFits, M!DeleteDoc, M!At, Running
<1>2. /\ methodReq' \in [Calls -> M!Asked]
      /\ methodReq'[r].at = "dropLast" /\ methodReq'[r].op = methodReq[r].op
      /\ methodReq'[r].d = methodReq[r].d
      /\ \A q \in Calls \ {r} : methodReq'[q] = methodReq[q]
  BY <1>1, MethodGoes DEF M!Steps
<1>3. M!TypeOK'
  BY <1>1, <1>2 DEF M!TypeOK, M!Flags
<1>4. M!Defaults' = M!Defaults \ {methodReq[r].m}
  BY <1>1 DEF M!TypeOK, M!Defaults
<1>5. Running(r)' /\ OperationFits(r)' /\ DefaultsKnown(r)'
  BY <1>1, <1>2 DEF Running, OperationFits, DefaultsKnown
<1>6. ~methodPast.raced => AtMostOne'
  BY <1>4 DEF MethodsInv, AtMostOne
<1>7. ~methodPast'.mixed => DefaultStays(r)'
  BY <1>1, <1>2, <1>4 DEF MethodsInv, OneRuns, DefaultStays, HasDefault, Deleting
<1> QED
  BY <1>1, <1>2, <1>3, <1>5, <1>6, <1>7, MethodMoves DEF M!WritesDefault

LEMMA MethodDieStep ==
  ASSUME MethodsInv, NEW r \in Calls, M!Die(r)
  PROVE  MethodsInv'
<1>1. /\ M!TypeOK /\ UNCHANGED <<flag, owner, cached, fill>> /\ Running(r)
      /\ methodPast' = M!Mixed /\ M!End(r)
  BY DEF MethodsInv, M!Die, M!Busy, M!At, Running
<1>2. /\ methodPast' \in [mixed : BOOLEAN, raced : BOOLEAN]
      /\ methodPast'.raced = methodPast.raced /\ methodPast'.mixed
  BY <1>1 DEF M!Mixed, M!TypeOK
<1>3. M!TypeOK'
  BY <1>1, <1>2, MethodEnds DEF M!TypeOK
<1>4. ~methodPast.raced => AtMostOne'
  BY <1>1 DEF MethodsInv, AtMostOne, M!Defaults
<1> QED
  BY <1>1, <1>2, <1>3, <1>4, MethodEnds, MethodMoves

\* The list and its cache.
LEMMA MethodListStep ==
  ASSUME MethodsInv, M!ListQuery \/ M!ListStore \/ M!CacheExpires
  PROVE  MethodsInv'
<1>1. /\ M!TypeOK /\ UNCHANGED <<flag, owner, methodPast>>
  BY DEF MethodsInv, M!ListQuery, M!ListStore, M!CacheExpires
<1>2. /\ cached' \in (SUBSET Methods) \cup {M!NoList}
      /\ fill' \in (SUBSET Methods) \cup {M!NoList}
  BY <1>1 DEF M!ListQuery, M!ListStore, M!CacheExpires, M!TypeOK, M!Existing
<1>3. \A q \in Calls :
        /\ methodReq'[q] \in M!Asked
        /\ methodReq'[q].op = methodReq[q].op /\ methodReq'[q].m = methodReq[q].m
        /\ methodReq'[q].n = methodReq[q].n /\ methodReq'[q].d = methodReq[q].d
        /\ \/ methodReq'[q] = methodReq[q]
           \/ methodReq[q].at = "wait" /\ methodReq'[q].at = "pick"
  <2>1. CASE UNCHANGED methodReq
    BY <1>1, <2>1 DEF M!TypeOK
  <2>2. CASE M!ListStore
    <3>1. fill \in SUBSET Methods
      BY <1>1, <2>2 DEF M!ListStore, M!TypeOK
    <3> TAKE q \in Calls
    <3>2. methodReq[q] \in M!Asked
      BY <1>1 DEF M!TypeOK
    <3>3. CASE methodReq[q].at = "wait"
      <4>1. methodReq'[q] = [methodReq[q] EXCEPT !.at = "pick", !.seen = fill]
        BY <2>2, <3>3 DEF M!ListStore, M!At
      <4> QED
        BY <3>1, <3>2, <3>3, <4>1 DEF M!Asked, M!Steps
    <3>4. CASE methodReq[q].at # "wait"
      BY <2>2, <3>2, <3>4 DEF M!ListStore, M!At
    <3> QED
      BY <3>3, <3>4
  <2> QED
    BY <2>1, <2>2 DEF M!ListQuery, M!CacheExpires
<1>4. methodReq' = [q \in Calls |-> methodReq'[q]]
  BY <1>1 DEF M!ListQuery, M!ListStore, M!CacheExpires, M!TypeOK
<1>5. M!TypeOK'
  BY <1>1, <1>2, <1>3, <1>4 DEF M!TypeOK
<1>6. UNCHANGED <<M!Defaults, M!Existing>>
  BY <1>1 DEF M!Defaults, M!Existing
<1>7. ASSUME NEW q \in Calls
      PROVE  /\ OperationFits(q)'
             /\ Running(q)' <=> Running(q)
             /\ M!WritesDefault(methodReq'[q]) <=> M!WritesDefault(methodReq[q])
             /\ DefaultsKnown(q) => DefaultsKnown(q)'
             /\ DefaultStays(q) => DefaultStays(q)'
  BY <1>3, <1>6 DEF MethodsInv, OperationFits, Running, M!WritesDefault, DefaultsKnown,
     DefaultStays, HasDefault, Deleting
<1>8. ~methodPast.raced => /\ AtMostOne' /\ WritersApart'
                           /\ \A q \in Calls : DefaultsKnown(q)'
  BY <1>6, <1>7 DEF MethodsInv, AtMostOne, WritersApart
<1>9. ~methodPast.mixed => OneRuns'
  BY <1>6, <1>7 DEF MethodsInv, OneRuns, HasDefault
<1> QED
  BY <1>1, <1>5, <1>7, <1>8, <1>9 DEF MethodsInv
-----------------------------------------------------------------------------
LEMMA MethodsStep == MethodsInv /\ M!Next => MethodsInv'
BY AddKnownStep, AddNewStep, MethodUpdateStep, DeleteStep, MoveStep, DropStep, AddCountStep,
   AddQueryStep, AddUnsetStep, AddInsertStep, UpdateWriteStep, DeleteListStep,
   DeletePickStep, DeleteDocStep, MethodDieStep, MethodListStep DEF M!Next, M!Step

LEMMA MethodsKept == MethodsInv /\ UNCHANGED mVars => MethodsInv'
BY DEF MethodsInv, mVars, M!TypeOK, OperationFits, AtMostOne, WritersApart, DefaultsKnown,
   OneRuns, DefaultStays, HasDefault, Deleting, Running, M!Defaults, M!Existing

LEMMA OnlyMethods ==
  ASSUME [NextRecords]_allVars, PaymentMethods \/ PaymentMethods'
  PROVE  PaymentMethods /\ (M!Next \/ UNCHANGED mVars)
BY DEF NextRecords, allVars, Refunds, Payments, PaymentMethods, Organizer, Checkout, LateCommit

LEMMA MethodsAlways == SpecRecords => [](PaymentMethods => MethodsInv)
<1>1. InitRecords => MethodsInv
  BY MethodsInit DEF InitRecords
<1>2. (PaymentMethods => MethodsInv) /\ [NextRecords]_allVars => (PaymentMethods => MethodsInv)'
  BY OnlyMethods, MethodsStep, MethodsKept
<1> QED
  BY <1>1, <1>2, PTL DEF SpecRecords

\* A user has two defaults only if a request that writes one outside of the
\* transaction (payment.service.js:227, :295) overlapped with another; and while
\* requests come one at a time one of the methods is the default, however stale
\* the list is that a deletion works with (:318).
THEOREM OneIsDefault == SpecRecords => []OneDefault
<1>1. ASSUME MethodsInv PROVE M!OneDefault
  <2>1. ~methodPast.raced => \A m, n \in M!Defaults : m = n
    BY <1>1 DEF MethodsInv, AtMostOne
  <2>2. ASSUME ~methodPast.mixed, M!Busy = {}, M!Existing # {} PROVE M!Defaults # {}
    <3>1. \A r \in Calls : ~Running(r)
      BY <2>2 DEF M!Busy, M!At, Running
    <3> QED
      BY <1>1, <2>2, <3>1 DEF MethodsInv, OneRuns, HasDefault
  <2> QED
    BY <2>1, <2>2 DEF M!OneDefault
<1>2. (PaymentMethods => MethodsInv) => OneDefault
  BY <1>1 DEF OneDefault
<1> QED
  BY MethodsAlways, <1>2, PTL

-----------------------------------------------------------------------------
(***************************************************************************)
(* Applications.  Unless the history says otherwise, an update works with  *)
(* the status as it is, for no other request is on its application, and a  *)
(* creation knows of every ongoing one, for no other creation is under     *)
(* way: what is ongoing now has been so since the list was read.           *)
(***************************************************************************)
Working(r) == applyReq[r].at # "idle"

StepFits(r) ==
  /\ applyReq[r].at \in {"list", "awaitList", "check", "create"} =>
       applyReq[r].op = "create" /\ applyReq[r].i = 0
  /\ applyReq[r].at \in {"own", "awaitOwn"} => applyReq[r].op = "update"
  /\ applyReq[r].at \in {"own", "awaitOwn", "read", "awaitRead", "write"} =>
       /\ applyReq[r].op \in {"update", "decide", "cancel", "delete"}
       /\ applyReq[r].i \in Applications /\ status[applyReq[r].i] # "none"
  /\ applyReq[r].at = "write" /\ applyReq[r].op = "update" => applyReq[r].s # "none"
  /\ applyReq[r].at = "drop" =>
       \/ applyReq[r].op = "create" /\ applyReq[r].i = 0
       \/ /\ applyReq[r].op \in {"update", "decide", "cancel", "delete"}
          /\ applyReq[r].i \in Applications /\ status[applyReq[r].i] # "none"

NotYet == \A i \in Applications : status[i] = "none" => copy[i] = "none" /\ fetch[i] = "none"

\* Of one application.
UpdatesApart ==
  \A r, q \in Calls : Working(r) /\ Working(q) /\ r # q /\ applyReq[r].op = "update" =>
                        applyReq[q].i # applyReq[r].i

Dropping(i) == \E r \in Calls : applyReq[r].at = "drop" /\ applyReq[r].i = i
CopyFresh(i) == copy[i] # "none" /\ ~Dropping(i) => copy[i] = status[i]
FetchFresh(i) == fetch[i] # "none" => fetch[i] = status[i]
UpdateFresh(r) == applyReq[r].op = "update" /\ applyReq[r].at = "write" =>
                    applyReq[r].s = status[applyReq[r].i]

Fresh == /\ UpdatesApart
         /\ \A i \in Applications : CopyFresh(i) /\ FetchFresh(i)
         /\ \A r \in Calls : UpdateFresh(r)

NoneDeleted ==
  /\ \A i \in Applications : {status[i], copy[i], fetch[i]} \cap {"gone", "stray"} = {}
  /\ \A r \in Calls : applyReq[r].s \notin {"gone", "stray"}
OrganizerFollows == last # 0 => organizer = O!OrganizerStatus(status[last])

\* Of creations.
OngoingNow == {i \in Applications : status[i] \in O!Ongoing}
Shows(known) == \A i \in OngoingNow : \E s \in O!Ongoing : <<i, s>> \in known

CreationsApart ==
  \A r, q \in Calls : (/\ Working(r) /\ Working(q)
                       /\ applyReq[r].op = "create" /\ applyReq[q].op = "create") => r = q
CreationSeen(r) == /\ applyReq[r].at = "check" => Shows(applyReq[r].seen)
                   /\ applyReq[r].at = "create" => OngoingNow = {}
ListShows ==
  /\ query # O!NoList => Shows(query)
  /\ list # O!NoList => \/ Shows(list)
                        \/ \E r \in Calls : /\ applyReq[r].at = "drop"
                                            /\ applyReq[r].op = "create"
OngoingSeen == /\ CreationsApart /\ ListShows
               /\ \A r \in Calls : CreationSeen(r)
               /\ \A i, j \in OngoingNow : i = j

Pure(p) == ~p.raced /\ ~p.stale /\ ~p.reopened

ApplyInv ==
  /\ O!TypeOK /\ NotYet
  /\ \A r \in Calls : StepFits(r)
  /\ ~applyPast.stale => Fresh
  /\ ~applyPast.deleted => NoneDeleted
  /\ ~applyPast.stale /\ ~applyPast.deleted => OrganizerFollows
  /\ Pure(applyPast) => OngoingSeen

LEMMA ApplyInit == O!Init => ApplyInv
<1> SUFFICES ASSUME O!Init PROVE ApplyInv
  OBVIOUS
<1> USE DEF O!Init
<1>1. O!TypeOK
  <2>1. O!Nothing \in O!Asked
    BY DEF O!Asked, O!Nothing, O!Steps, O!Ops, O!Status
  <2>2. applyReq \in [Calls -> O!Asked] /\ applyPast \in O!Pasts
    BY <2>1 DEF O!Pasts
  <2>3. list \in O!Lists /\ query \in O!Lists
    BY DEF O!Lists
  <2> QED
    BY <2>2, <2>3 DEF O!TypeOK
<1>2. \A r \in Calls : /\ applyReq[r].at = "idle" /\ applyReq[r].op = "none"
                       /\ applyReq[r].s = "none"
  BY DEF O!Nothing
<1>3. NotYet /\ NoneDeleted /\ OrganizerFollows
  BY <1>2 DEF NotYet, NoneDeleted, OrganizerFollows
<1>4. \A r \in Calls : StepFits(r)
  BY <1>2 DEF StepFits
<1>5. Fresh
  BY <1>2 DEF Fresh, UpdatesApart, CopyFresh, FetchFresh, UpdateFresh, Working
<1>6. OngoingNow = {}
  BY DEF OngoingNow, O!Ongoing
<1>7. OngoingSeen
  <2>1. CreationsApart
    BY <1>2 DEF CreationsApart, Working
  <2>2. ListShows
    BY DEF ListShows
  <2>3. \A r \in Calls : CreationSeen(r)
    BY <1>2 DEF CreationSeen
  <2> QED
    BY <1>6, <2>1, <2>2, <2>3 DEF OngoingSeen
<1> QED
  BY <1>1, <1>3, <1>4, <1>5, <1>7 DEF ApplyInv

\* A step of one request that is under way, and creates nothing.
LEMMA ApplyMoves ==
  ASSUME ApplyInv, O!TypeOK', NotYet', NEW r \in Calls, Working(r),
         \A q \in Calls \ {r} : applyReq'[q] = applyReq[q],
         StepFits(r)',
         Working(r)' => applyReq'[r].op = applyReq[r].op /\ applyReq'[r].i = applyReq[r].i,
         \A i \in Applications : status[i] # "none" => status'[i] # "none",
         applyPast.raced => applyPast'.raced, applyPast.stale => applyPast'.stale,
         applyPast.reopened => applyPast'.reopened,
         ~applyPast'.stale =>
           /\ \A i \in Applications : CopyFresh(i)' /\ FetchFresh(i)'
           /\ UpdateFresh(r)'
           /\ \A i \in Applications \ {applyReq[r].i} : status'[i] = status[i],
         ~applyPast'.deleted => NoneDeleted',
         ~applyPast'.stale /\ ~applyPast'.deleted => OrganizerFollows',
         Pure(applyPast') => /\ OngoingNow' \subseteq OngoingNow
                             /\ CreationSeen(r)' /\ ListShows'
  PROVE  ApplyInv'
<1>1. \A q \in Calls : StepFits(q)'
  <2> SUFFICES ASSUME NEW q \in Calls \ {r} PROVE StepFits(q)'
    OBVIOUS
  <2>1. StepFits(q) /\ applyReq'[q] = applyReq[q]
    BY DEF ApplyInv
  <2> QED
    BY <2>1 DEF StepFits
<1>2. ASSUME ~applyPast'.stale PROVE Fresh'
  <2>1. Fresh
    BY <1>2 DEF ApplyInv
  <2>2. UpdatesApart'
    BY <2>1 DEF Fresh, UpdatesApart, Working
  <2>3. ASSUME NEW q \in Calls \ {r} PROVE UpdateFresh(q)'
    <3>1. UpdateFresh(q) /\ StepFits(q) /\ applyReq'[q] = applyReq[q]
      BY <2>1 DEF ApplyInv, Fresh
    <3>2. CASE applyReq[q].op = "update" /\ applyReq[q].at = "write"
      <4>1. applyReq[q].i # applyReq[r].i
        BY <2>1, <3>2 DEF Fresh, UpdatesApart, Working
      <4> QED
        BY <1>2, <3>1, <3>2, <4>1 DEF UpdateFresh, StepFits
    <3> QED
      BY <3>1, <3>2 DEF UpdateFresh
  <2> QED
    BY <1>2, <2>2, <2>3 DEF Fresh
<1>3. ASSUME Pure(applyPast') PROVE OngoingSeen'
  <2>1. OngoingSeen
    BY <1>3 DEF ApplyInv, Pure
  <2>2. CreationsApart'
    <3>1. \A q \in Calls : Working(q)' => Working(q) /\ applyReq'[q].op = applyReq[q].op
      BY DEF Working
    <3> QED
      BY <2>1, <3>1 DEF OngoingSeen, CreationsApart
  <2>3. ASSUME NEW q \in Calls \ {r} PROVE CreationSeen(q)'
    BY <1>3, <2>1 DEF OngoingSeen, CreationSeen, Shows
  <2> QED
    BY <1>3, <2>1, <2>2, <2>3 DEF OngoingSeen
<1> QED
  BY <1>1, <1>2, <1>3 DEF ApplyInv

\* A request begins.
LEMMA ApplyBegins ==
  ASSUME ApplyInv, NEW r \in Calls, NEW c \in O!Asked, O!Begin(r, c),
         c.at \in {"list", "own", "read", "write"},
         c.at = "list" <=> c.op = "create", c.s = "none",
         c.at = "list" => c.i = 0,
         c.at = "own" => c.op = "update",
         c.at = "write" => c.op = "cancel",
         c.at # "list" => /\ c.op \in {"update", "decide", "cancel", "delete"}
                          /\ c.i \in Applications /\ status[c.i] # "none"
  PROVE  ApplyInv'
<1>1. /\ applyReq'[r] = c /\ \A q \in Calls \ {r} : applyReq'[q] = applyReq[q]
      /\ ~Working(r) /\ Working(r)'
      /\ UNCHANGED <<status, organizer, last, copy, fetch, list, query>>
      /\ applyPast' = O!Meet(c)
  BY DEF ApplyInv, O!TypeOK, O!Begin, O!At, O!stored, O!copies, O!lists, Working
<1>2. /\ applyPast' \in O!Pasts
      /\ applyPast'.deleted = applyPast.deleted
      /\ applyPast'.reopened = applyPast.reopened
      /\ applyPast'.raced = (applyPast.raced \/
           \E q \in O!Busy : c.op = "create" /\ applyReq[q].op = "create")
      /\ applyPast'.stale = (applyPast.stale \/
           \E q \in O!Busy : c.i = applyReq[q].i /\ c.i # 0
                             /\ "update" \in {c.op, applyReq[q].op})
  BY <1>1 DEF O!Meet, ApplyInv, O!TypeOK, O!Pasts
<1>3. O!TypeOK'
  BY <1>1, <1>2 DEF ApplyInv, O!TypeOK, O!Begin
<1>4. NotYet' /\ (~applyPast'.deleted => NoneDeleted')
  BY <1>1, <1>2 DEF ApplyInv, NotYet, NoneDeleted
<1>5. ASSUME NEW q \in Calls PROVE StepFits(q)'
  BY <1>1 DEF ApplyInv, StepFits
<1>6. ASSUME ~applyPast'.stale PROVE Fresh'
  <2>1. Fresh
    BY <1>2, <1>6 DEF ApplyInv
  <2>2. \A q \in Calls : Working(q) /\ "update" \in {c.op, applyReq[q].op} =>
                           c.i # applyReq[q].i \/ c.i = 0
    BY <1>2, <1>6 DEF O!Busy, O!At, Working
  <2>3. \A q \in Calls : Working(q) /\ applyReq[q].op = "update" => applyReq[q].i # 0
    BY ApplicationsAreNumbered DEF ApplyInv, O!TypeOK, O!Asked, O!Steps, StepFits, Working
  <2>4. c.op = "update" => c.i # 0
    BY ApplicationsAreNumbered
  <2>5. UpdatesApart'
    BY <1>1, <2>1, <2>2, <2>3, <2>4 DEF Fresh, UpdatesApart, Working
  <2>6. \A i \in Applications : CopyFresh(i)' /\ FetchFresh(i)'
    BY <1>1, <2>1 DEF Fresh, CopyFresh, FetchFresh, Dropping, Working
  <2>7. \A q \in Calls : UpdateFresh(q)'
    BY <1>1, <2>1 DEF Fresh, UpdateFresh
  <2> QED
    BY <2>5, <2>6, <2>7 DEF Fresh
<1>7. ~applyPast'.stale /\ ~applyPast'.deleted => OrganizerFollows'
  BY <1>1, <1>2 DEF ApplyInv, OrganizerFollows
<1>8. ASSUME Pure(applyPast') PROVE OngoingSeen'
  <2>1. OngoingSeen
    BY <1>2, <1>8 DEF ApplyInv, Pure
  <2>2. c.op = "create" => \A q \in Calls : Working(q) => applyReq[q].op # "create"
    BY <1>2, <1>8 DEF Pure, O!Busy, O!At, Working
  <2>3. CreationsApart'
    BY <1>1, <2>1, <2>2 DEF OngoingSeen, CreationsApart, Working
  <2>4. UNCHANGED OngoingNow
    BY <1>1 DEF OngoingNow
  <2>5. \A q \in Calls : CreationSeen(q)'
    BY <1>1, <2>1, <2>4 DEF OngoingSeen, CreationSeen, Shows
  <2>6. ListShows'
    BY <1>1, <2>1, <2>4 DEF OngoingSeen, ListShows, Shows, Working
  <2> QED
    BY <2>1, <2>3, <2>4, <2>5, <2>6 DEF OngoingSeen
<1> QED
  BY <1>3, <1>4, <1>5, <1>6, <1>7, <1>8 DEF ApplyInv

LEMMA ApplyBeginStep ==
  ASSUME ApplyInv, NEW r \in Calls,
         \/ O!Create(r)
         \/ \E i \in Applications : \/ O!Decide(r, i) \/ O!Cancel(r, i) \/ O!Delete(r, i)
                                    \/ \E own \in BOOLEAN : O!Update(r, i, own)
  PROVE  ApplyInv'
<1> USE DEF O!Asked, O!Nothing, O!Steps, O!Ops, O!Status
<1>1. CASE O!Create(r)
  <2> DEFINE c == [O!Nothing EXCEPT !.op = "create", !.at = "list"]
  <2>1. c \in O!Asked /\ c.at = "list" /\ c.op = "create" /\ c.i = 0 /\ c.s = "none"
    OBVIOUS
  <2>2. O!Begin(r, c)
    BY <1>1 DEF O!Create
  <2> HIDE DEF c
  <2> QED
    BY ONLY ApplyInv, r \in Calls, <2>1, <2>2, ApplyBegins
<1>2. ASSUME NEW i \in Applications, status[i] # "none",
             NEW op \in {"update", "decide", "cancel", "delete"},
             NEW start \in {"own", "read", "write"},
             start = "own" => op = "update", start = "write" => op = "cancel",
             O!Begin(r, [O!Nothing EXCEPT !.op = op, !.at = start, !.i = i])
      PROVE  ApplyInv'
  <2> DEFINE c == [O!Nothing EXCEPT !.op = op, !.at = start, !.i = i]
  <2>1. c \in O!Asked /\ c.at = start /\ c.op = op /\ c.i = i /\ c.s = "none"
    BY ZenonT(60)
  <2>2. O!Begin(r, c)
    BY <1>2
  <2> HIDE DEF c
  <2> QED
    BY <1>2, <2>1, <2>2, ApplyBegins
<1>3. ASSUME NEW i \in Applications, O!Decide(r, i) PROVE ApplyInv'
  BY <1>2, <1>3 DEF O!Decide
<1>4. ASSUME NEW i \in Applications, O!Cancel(r, i) PROVE ApplyInv'
  BY ZenonT(60), <1>2, <1>4 DEF O!Cancel
<1>5. ASSUME NEW i \in Applications, O!Delete(r, i) PROVE ApplyInv'
  BY ZenonT(60), <1>2, <1>5 DEF O!Delete
<1>6. ASSUME NEW i \in Applications, NEW own \in BOOLEAN, O!Update(r, i, own)
      PROVE  ApplyInv'
  <2>1. PICK start \in {"own", "read"} : start = IF own THEN "own" ELSE "read"
    OBVIOUS
  <2>2. /\ status[i] # "none"
        /\ O!Begin(r, [O!Nothing EXCEPT !.op = "update", !.at = start, !.i = i])
    BY <1>6, <2>1 DEF O!Update
  <2> QED
    BY <1>2, <2>2
<1> QED
  BY <1>1, <1>3, <1>4, <1>5, <1>6

\* What a step that moves a request changes of it.
LEMMA ApplyGoes ==
  ASSUME O!TypeOK, NEW r \in Calls, NEW step \in O!Steps, O!GoTo(r, step)
  PROVE  /\ applyReq' \in [Calls -> O!Asked]
         /\ applyReq'[r].at = step /\ applyReq'[r].op = applyReq[r].op
         /\ applyReq'[r].i = applyReq[r].i /\ applyReq'[r].s = applyReq[r].s
         /\ applyReq'[r].seen = applyReq[r].seen
         /\ \A q \in Calls \ {r} : applyReq'[q] = applyReq[q]
<1>1. applyReq'[r] = [applyReq[r] EXCEPT !.at = step] /\ applyReq[r] \in O!Asked
  BY DEF O!TypeOK, O!GoTo
<1>2. /\ applyReq'[r].at = step /\ applyReq'[r].op = applyReq[r].op
      /\ applyReq'[r].i = applyReq[r].i /\ applyReq'[r].s = applyReq[r].s
      /\ applyReq'[r].seen = applyReq[r].seen
      /\ applyReq'[r] \in O!Asked
  BY <1>1 DEF O!Asked
<1>3. /\ \A q \in Calls \ {r} : applyReq'[q] = applyReq[q]
      /\ applyReq' = [q \in Calls |-> applyReq'[q]]
  BY DEF O!TypeOK, O!GoTo
<1> QED
  BY <1>2, <1>3 DEF O!TypeOK

LEMMA ApplyEnds ==
  ASSUME O!TypeOK, NEW r \in Calls, O!End(r)
  PROVE  /\ applyReq' \in [Calls -> O!Asked]
         /\ ~Working(r)' /\ applyReq'[r].at = "idle" /\ applyReq'[r].s = "none"
         /\ StepFits(r)' /\ UpdateFresh(r)' /\ CreationSeen(r)'
         /\ \A q \in Calls \ {r} : applyReq'[q] = applyReq[q]
<1>1. O!Nothing \in O!Asked
  BY DEF O!Asked, O!Nothing, O!Steps, O!Ops, O!Status
<1>2. applyReq'[r] = O!Nothing /\ applyReq' \in [Calls -> O!Asked]
  BY <1>1 DEF O!TypeOK, O!End
<1>3. \A q \in Calls \ {r} : applyReq'[q] = applyReq[q]
  BY DEF O!TypeOK, O!End
<1>4. applyReq'[r].at = "idle" /\ applyReq'[r].op = "none" /\ applyReq'[r].s = "none"
  BY <1>2 DEF O!Nothing
<1> QED
  BY <1>2, <1>3, <1>4 DEF Working, StepFits, UpdateFresh, CreationSeen

LEMMA ListedShows == Shows(O!Listed)
BY DEF Shows, OngoingNow, O!Listed, O!Existing, O!Status

\* A step of one request that only reads, and drops nothing.
LEMMA ApplyReads ==
  ASSUME ApplyInv, O!TypeOK', NEW r \in Calls, Working(r), applyReq[r].at # "drop",
         \A q \in Calls \ {r} : applyReq'[q] = applyReq[q],
         Working(r)' => applyReq'[r].op = applyReq[r].op /\ applyReq'[r].i = applyReq[r].i,
         applyReq'[r].at # "drop",
         UNCHANGED <<status, organizer, last, copy, list, applyPast>>,
         \A i \in Applications : \/ fetch'[i] = fetch[i]
                                 \/ fetch'[i] = status[i] /\ status[i] # "none",
         query' \in {query, O!Listed},
         StepFits(r)', ~applyPast.deleted => applyReq'[r].s \notin {"gone", "stray"},
         ~applyPast.stale => UpdateFresh(r)', Pure(applyPast) => CreationSeen(r)'
  PROVE  ApplyInv'
<1>1. NotYet' /\ (~applyPast'.deleted => NoneDeleted')
  BY DEF ApplyInv, NotYet, NoneDeleted
<1>2. \A i \in Applications : Dropping(i)' <=> Dropping(i)
  BY DEF Dropping
<1>3. ~applyPast'.stale => \A i \in Applications : CopyFresh(i)' /\ FetchFresh(i)'
  BY <1>2 DEF ApplyInv, Fresh, CopyFresh, FetchFresh
<1>4. ~applyPast'.stale /\ ~applyPast'.deleted => OrganizerFollows'
  BY DEF ApplyInv, OrganizerFollows
<1>5. UNCHANGED OngoingNow
  BY DEF OngoingNow
<1>6. Pure(applyPast') => ListShows'
  <2>1. Pure(applyPast') => ListShows
    BY DEF ApplyInv, OngoingSeen
  <2>2. (\E q \in Calls : applyReq[q].at = "drop" /\ applyReq[q].op = "create") =>
        (\E q \in Calls : applyReq'[q].at = "drop" /\ applyReq'[q].op = "create")
    OBVIOUS
  <2>4. query' = O!Listed => Shows(query)'
    BY <1>5, ListedShows DEF Shows
  <2>5. Shows(list) => Shows(list)'
    BY <1>5 DEF Shows
  <2>6. CASE query' = query
    BY <1>5, <2>1, <2>2, <2>5, <2>6 DEF ListShows, Shows
  <2>7. CASE query' = O!Listed
    BY <2>1, <2>2, <2>4, <2>5, <2>7 DEF ListShows
  <2> QED
    BY <2>6, <2>7
<1> QED
  BY <1>1, <1>3, <1>4, <1>5, <1>6, ApplyMoves

\* The request ends, having written nothing.
LEMMA ApplyGivesUp ==
  ASSUME ApplyInv, NEW r \in Calls, Working(r), applyReq[r].at # "drop", O!End(r),
         UNCHANGED <<status, organizer, last, copy, fetch, list, query, made, applyPast>>
  PROVE  ApplyInv'
<1>1. /\ applyReq' \in [Calls -> O!Asked]
      /\ ~Working(r)' /\ applyReq'[r].at = "idle" /\ applyReq'[r].s = "none"
      /\ StepFits(r)' /\ UpdateFresh(r)' /\ CreationSeen(r)'
      /\ \A q \in Calls \ {r} : applyReq'[q] = applyReq[q]
  BY ApplyEnds DEF ApplyInv
<1>2. O!TypeOK'
  BY <1>1 DEF ApplyInv, O!TypeOK
<1> QED
  BY <1>1, <1>2, ApplyReads

LEMMA CreateListStep ==
  ASSUME ApplyInv, NEW r \in Calls, O!CreateList(r)
  PROVE  ApplyInv'
<1>1. /\ O!TypeOK /\ StepFits(r) /\ applyReq[r].at = "list" /\ applyReq[r].op = "create"
      /\ UNCHANGED <<status, organizer, last, copy, fetch, list, applyPast>>
      /\ Working(r)
  BY DEF ApplyInv, StepFits, O!CreateList, O!At, O!stored, O!copies, Working
<1>2. CASE list # O!NoList
  <2>1. /\ applyReq' = [applyReq EXCEPT ![r].at = "check", ![r].seen = list]
        /\ UNCHANGED query
    BY <1>2 DEF O!CreateList
  <2>2. /\ list \in SUBSET (Applications \X O!Status) /\ applyReq[r] \in O!Asked
    BY <1>1, <1>2 DEF O!TypeOK, O!Lists
  <2>3. /\ applyReq'[r] = [applyReq[r] EXCEPT !.at = "check", !.seen = list]
        /\ \A q \in Calls \ {r} : applyReq'[q] = applyReq[q]
        /\ applyReq' = [q \in Calls |-> applyReq'[q]]
    BY <1>1, <2>1 DEF O!TypeOK
  <2>4. /\ applyReq'[r] \in O!Asked
        /\ applyReq'[r].at = "check" /\ applyReq'[r].op = "create"
        /\ applyReq'[r].i = applyReq[r].i /\ applyReq'[r].s = applyReq[r].s
        /\ applyReq'[r].seen = list
    BY <1>1, <2>2, <2>3 DEF O!Asked, O!Steps
  <2>5. O!TypeOK'
    BY <1>1, <2>1, <2>3, <2>4 DEF O!TypeOK
  <2>6. StepFits(r)' /\ UpdateFresh(r)'
    BY <1>1, <2>4 DEF StepFits, UpdateFresh
  <2>7. Pure(applyPast) => CreationSeen(r)'
    <3>1. Pure(applyPast) => Shows(list)
      BY <1>1, <1>2 DEF ApplyInv, OngoingSeen, ListShows, CreationsApart, Working
    <3>2. Shows(list) => Shows(list)'
      BY <1>1 DEF Shows, OngoingNow
    <3> QED
      BY <1>1, <2>4, <3>1, <3>2 DEF CreationSeen
  <2> QED
    BY <1>1, <2>1, <2>3, <2>4, <2>5, <2>6, <2>7, ApplyReads DEF ApplyInv, NoneDeleted
<1>3. CASE list = O!NoList
  <2>1. O!GoTo(r, "awaitList") /\ query' \in {query, O!Listed}
    BY <1>3 DEF O!CreateList
  <2>2. /\ applyReq' \in [Calls -> O!Asked]
        /\ applyReq'[r].at = "awaitList" /\ applyReq'[r].op = applyReq[r].op
        /\ applyReq'[r].i = applyReq[r].i /\ applyReq'[r].s = applyReq[r].s
        /\ \A q \in Calls \ {r} : applyReq'[q] = applyReq[q]
    BY <1>1, <2>1, ApplyGoes DEF O!Steps
  <2>3. O!Listed \in O!Lists
    BY DEF O!Listed, O!Lists, O!Existing
  <2>4. O!TypeOK'
    BY <1>1, <2>1, <2>2, <2>3 DEF O!TypeOK
  <2>5. StepFits(r)' /\ UpdateFresh(r)' /\ CreationSeen(r)'
    BY <1>1, <2>2 DEF StepFits, UpdateFresh, CreationSeen
  <2> QED
    BY <1>1, <2>1, <2>2, <2>4, <2>5, ApplyReads DEF ApplyInv, NoneDeleted
<1> QED
  BY <1>2, <1>3

LEMMA CreateCheckStep ==
  ASSUME ApplyInv, NEW r \in Calls, O!CreateCheck(r)
  PROVE  ApplyInv'
<1>1. /\ O!TypeOK /\ StepFits(r) /\ applyReq[r].at = "check" /\ applyReq[r].op = "create"
      /\ UNCHANGED <<status, organizer, last, copy, fetch, list, query, made, applyPast>>
      /\ Working(r)
  BY DEF ApplyInv, StepFits, O!CreateCheck, O!At, O!stored, O!copies, O!lists, Working
<1>2. CASE O!End(r)
  BY <1>1, <1>2, ApplyGivesUp
<1>3. CASE /\ O!CanApply(applyReq[r].seen)
           /\ applyReq' = [applyReq EXCEPT ![r].at = "create", ![r].seen = {}]
  <2>1. /\ applyReq[r] \in O!Asked
        /\ applyReq'[r] = [applyReq[r] EXCEPT !.at = "create", !.seen = {}]
        /\ \A q \in Calls \ {r} : applyReq'[q] = applyReq[q]
        /\ applyReq' = [q \in Calls |-> applyReq'[q]]
    BY <1>1, <1>3 DEF O!TypeOK
  <2>2. /\ applyReq'[r] \in O!Asked
        /\ applyReq'[r].at = "create" /\ applyReq'[r].op = "create"
        /\ applyReq'[r].i = applyReq[r].i /\ applyReq'[r].s = applyReq[r].s
    BY <1>1, <2>1 DEF O!Asked, O!Steps
  <2>3. O!TypeOK'
    BY <1>1, <2>1, <2>2 DEF O!TypeOK
  <2>4. StepFits(r)' /\ UpdateFresh(r)'
    BY <1>1, <2>2 DEF StepFits, UpdateFresh
  <2>5. Pure(applyPast) => CreationSeen(r)'
    <3>1. Pure(applyPast) => Shows(applyReq[r].seen)
      BY <1>1 DEF ApplyInv, OngoingSeen, CreationSeen
    <3>2. Shows(applyReq[r].seen) => OngoingNow = {}
      BY <1>3 DEF Shows, O!CanApply
    <3>3. UNCHANGED OngoingNow
      BY <1>1 DEF OngoingNow
    <3> QED
      BY <2>2, <3>1, <3>2, <3>3 DEF CreationSeen
  <2> QED
    BY <1>1, <2>1, <2>2, <2>3, <2>4, <2>5, ApplyReads DEF ApplyInv, NoneDeleted
<1> QED
  BY <1>2, <1>3 DEF O!CreateCheck, O!End

\* An application is read from its copy, or waited for.
LEMMA ApplyCopyStep ==
  ASSUME ApplyInv, NEW r \in Calls, O!UpdateOwn(r) \/ O!Read(r)
  PROVE  ApplyInv'
<1>1. /\ O!TypeOK /\ StepFits(r) /\ applyReq[r].at \in {"own", "read"} /\ Working(r)
      /\ UNCHANGED <<status, organizer, last, copy, list, query, made, applyPast>>
  BY DEF ApplyInv, O!UpdateOwn, O!Read, O!At, O!stored, O!lists, Working
<1>2. PICK i \in Applications : i = applyReq[r].i /\ status[i] # "none"
  BY <1>1 DEF StepFits
<1>3. PICK next \in {"read", "write"}, await \in {"awaitOwn", "awaitRead"} :
        /\ next = IF applyReq[r].at = "own" THEN "read" ELSE "write"
        /\ await = IF applyReq[r].at = "own" THEN "awaitOwn" ELSE "awaitRead"
        /\ IF copy[i] # "none"
             THEN /\ applyReq' = [applyReq EXCEPT ![r].at = next, ![r].s = copy[i]]
                  /\ UNCHANGED fetch
             ELSE /\ O!GoTo(r, await)
                  /\ fetch' = IF fetch[i] = "none" THEN [fetch EXCEPT ![i] = status[i]]
                                                   ELSE fetch
  BY <1>2 DEF O!UpdateOwn, O!Read, O!Copy, O!At
<1>4. CASE copy[i] # "none"
  <2>1. /\ applyReq[r] \in O!Asked /\ copy[i] \in O!Status \cup {"none", "stray"}
        /\ applyReq'[r] = [applyReq[r] EXCEPT !.at = next, !.s = copy[i]]
        /\ \A q \in Calls \ {r} : applyReq'[q] = applyReq[q]
        /\ applyReq' = [q \in Calls |-> applyReq'[q]]
        /\ UNCHANGED fetch
    BY <1>1, <1>3, <1>4 DEF O!TypeOK
  <2>2. /\ applyReq'[r] \in O!Asked
        /\ applyReq'[r].at = next /\ applyReq'[r].op = applyReq[r].op
        /\ applyReq'[r].i = i /\ applyReq'[r].s = copy[i]
    BY <1>2, <2>1 DEF O!Asked, O!Steps
  <2>3. O!TypeOK'
    BY <1>1, <2>1, <2>2 DEF O!TypeOK
  <2>4. StepFits(r)' /\ CreationSeen(r)'
    BY <1>1, <1>2, <1>3, <1>4, <2>2 DEF StepFits, CreationSeen
  <2>5. ~applyPast.stale => UpdateFresh(r)'
    <3>1. ASSUME ~applyPast.stale, applyReq[r].op = "update" PROVE copy[i] = status[i]
      <4>1. ~Dropping(i)
        BY <1>1, <1>2, <3>1 DEF ApplyInv, Fresh, UpdatesApart, Dropping, Working
      <4> QED
        BY <1>4, <3>1, <4>1 DEF ApplyInv, Fresh, CopyFresh
    <3> QED
      BY <1>1, <2>2, <3>1 DEF UpdateFresh
  <2> QED
    BY <1>1, <1>2, <1>3, <2>1, <2>2, <2>3, <2>4, <2>5, ApplyReads DEF ApplyInv, NoneDeleted
<1>5. CASE copy[i] = "none"
  <2>1. /\ O!GoTo(r, await)
        /\ fetch' = IF fetch[i] = "none" THEN [fetch EXCEPT ![i] = status[i]] ELSE fetch
    BY <1>3, <1>5
  <2>2. /\ applyReq' \in [Calls -> O!Asked]
        /\ applyReq'[r].at = await /\ applyReq'[r].op = applyReq[r].op
        /\ applyReq'[r].i = applyReq[r].i /\ applyReq'[r].s = applyReq[r].s
        /\ \A q \in Calls \ {r} : applyReq'[q] = applyReq[q]
    BY <1>1, <2>1, ApplyGoes DEF O!Steps
  <2>3. O!TypeOK'
    BY <1>1, <2>1, <2>2 DEF O!TypeOK
  <2>4. StepFits(r)' /\ UpdateFresh(r)' /\ CreationSeen(r)'
    BY <1>1, <1>2, <1>3, <2>2 DEF StepFits, UpdateFresh, CreationSeen
  <2>5. \A j \in Applications : \/ fetch'[j] = fetch[j]
                                \/ fetch'[j] = status[j] /\ status[j] # "none"
    BY <1>1, <1>2, <2>1 DEF O!TypeOK
  <2> QED
    BY <1>1, <1>3, <2>2, <2>3, <2>4, <2>5, ApplyReads DEF ApplyInv, NoneDeleted
<1> QED
  BY <1>4, <1>5

\* A request writes a status and goes on to drop the caches.
LEMMA ApplyWrites ==
  ASSUME ApplyInv, NEW r \in Calls, applyReq[r].at = "write", O!GoTo(r, "drop"),
         NEW i \in Applications, i = applyReq[r].i,
         NEW v \in O!Status \cup {"gone", "stray"}, status' = [status EXCEPT ![i] = v],
         organizer' \in {"none", "pending", "approved"}, last' \in Applications \cup {0},
         UNCHANGED <<copy, fetch, list, query, made>>,
         applyPast' \in O!Pasts, applyPast'.raced = applyPast.raced,
         applyPast'.stale = (applyPast.stale \/ fetch[i] # "none"),
         applyPast.reopened => applyPast'.reopened,
         ~applyPast'.deleted => ~applyPast.deleted /\ v \notin {"gone", "stray"},
         ~applyPast'.stale /\ ~applyPast'.deleted => OrganizerFollows',
         Pure(applyPast') /\ v \in O!Ongoing => status[i] \in O!Ongoing
  PROVE  ApplyInv'
<1>1. O!TypeOK /\ StepFits(r) /\ Working(r)
  BY DEF ApplyInv, Working
<1>2. /\ applyReq' \in [Calls -> O!Asked]
      /\ applyReq'[r].at = "drop" /\ applyReq'[r].op = applyReq[r].op
      /\ applyReq'[r].i = i /\ applyReq'[r].s = applyReq[r].s
      /\ \A q \in Calls \ {r} : applyReq'[q] = applyReq[q]
  BY <1>1, ApplyGoes DEF O!Steps
<1>3. /\ status'[i] = v /\ v # "none" /\ status[i] # "none"
      /\ \A j \in Applications \ {i} : status'[j] = status[j]
  BY <1>1 DEF O!TypeOK, O!Status, O!Ongoing, StepFits
<1>4. O!TypeOK'
  BY <1>1, <1>2 DEF O!TypeOK
<1>5. NotYet'
  BY <1>3 DEF ApplyInv, NotYet
<1>6. StepFits(r)'
  BY <1>1, <1>2, <1>3 DEF StepFits
<1>7. ASSUME ~applyPast'.stale
      PROVE  /\ \A j \in Applications : CopyFresh(j)' /\ FetchFresh(j)'
             /\ UpdateFresh(r)'
  <2>1. fetch[i] = "none" /\ Fresh
    BY <1>7 DEF ApplyInv
  <2>2. \A j \in Applications : FetchFresh(j)'
    BY <1>3, <2>1 DEF Fresh, FetchFresh
  <2>3. Dropping(i)' /\ \A j \in Applications \ {i} : Dropping(j)' <=> Dropping(j)
    BY <1>2 DEF Dropping
  <2>4. \A j \in Applications : CopyFresh(j)'
    BY <1>3, <2>1, <2>3 DEF Fresh, CopyFresh
  <2> QED
    BY <1>2, <2>2, <2>4 DEF UpdateFresh
<1>8. ASSUME Pure(applyPast')
      PROVE  OngoingNow' \subseteq OngoingNow /\ CreationSeen(r)' /\ ListShows'
  <2>1. OngoingNow' \subseteq OngoingNow
    BY <1>3, <1>8 DEF OngoingNow
  <2>2. Pure(applyPast)
    BY <1>8 DEF Pure
  <2>3. ListShows
    BY <2>2 DEF ApplyInv, OngoingSeen
  <2>4. (\E q \in Calls : applyReq[q].at = "drop" /\ applyReq[q].op = "create") =>
        (\E q \in Calls : applyReq'[q].at = "drop" /\ applyReq'[q].op = "create")
    BY <1>2
  <2>5. ListShows'
    BY <2>1, <2>3, <2>4 DEF ListShows, Shows
  <2> QED
    BY <1>2, <2>1, <2>5 DEF CreationSeen
<1>9. ~applyPast'.deleted => NoneDeleted'
  BY <1>2, <1>3 DEF ApplyInv, NoneDeleted
<1> QED
  BY ZenonT(60), <1>1, <1>2, <1>3, <1>4, <1>5, <1>6, <1>7, <1>8, <1>9, ApplyMoves DEF Working

LEMMA ApplyUpdateStep ==
  ASSUME ApplyInv, NEW r \in Calls, O!UpdateWrite(r)
  PROVE  ApplyInv'
<1>1. /\ O!TypeOK /\ StepFits(r) /\ applyReq[r].at = "write" /\ applyReq[r].op = "update"
      /\ UNCHANGED <<organizer, last, copy, fetch, list, query, made>> /\ Working(r)
  BY DEF ApplyInv, O!UpdateWrite, O!At, O!copies, O!lists, Working
<1>2. PICK i \in Applications : i = applyReq[r].i
  BY <1>1 DEF StepFits
<1>3. PICK s \in O!Status \cup {"gone", "stray"} : s = applyReq[r].s
  BY <1>1 DEF StepFits, O!TypeOK, O!Asked
<1>4. CASE UNCHANGED <<status, applyPast>> /\ O!End(r)
  BY <1>1, <1>4, ApplyGivesUp
<1>5. CASE /\ s # "gone"
           /\ status' = [status EXCEPT ![i] = IF status[i] \in {"gone", "stray"} THEN "stray"
                                              ELSE O!Edited(s)]
           /\ applyPast' = O!Touched(i)
           /\ O!GoTo(r, "drop")
  <2>1. PICK v \in O!Status \cup {"gone", "stray"} :
          v = IF status[i] \in {"gone", "stray"} THEN "stray" ELSE O!Edited(s)
    BY DEF O!Edited, O!Status, O!Ongoing
  <2>2. /\ applyPast' \in O!Pasts
        /\ applyPast'.raced = applyPast.raced /\ applyPast'.deleted = applyPast.deleted
        /\ applyPast'.reopened = applyPast.reopened
        /\ applyPast'.stale = (applyPast.stale \/ fetch[i] # "none")
    BY <1>1, <1>5 DEF O!Touched, O!TypeOK, O!Pasts
  <2>3. ~applyPast'.stale => s = status[i]
    BY <1>1, <1>2, <1>3, <2>2 DEF ApplyInv, Fresh, UpdateFresh
  <2>4. /\ status' = [status EXCEPT ![i] = v] /\ status'[i] = v
        /\ \A j \in Applications \ {i} : status'[j] = status[j]
    BY <1>1, <1>5, <2>1 DEF O!TypeOK
  <2>5. ~applyPast'.stale => /\ v \in O!Ongoing => status[i] \in O!Ongoing
                             /\ status[i] \in {"gone", "stray"}
                                \/ O!OrganizerStatus(v) = O!OrganizerStatus(status[i])
    BY <2>1, <2>3 DEF O!Edited, O!Ongoing, O!OrganizerStatus
  <2>6. ~applyPast'.deleted => ~applyPast.deleted /\ v \notin {"gone", "stray"}
    BY <1>3, <2>1, <2>2 DEF ApplyInv, NoneDeleted, O!Edited
  <2>7. ASSUME ~applyPast'.stale, ~applyPast'.deleted PROVE OrganizerFollows'
    <3>1. NoneDeleted /\ OrganizerFollows
      BY <2>2, <2>7 DEF ApplyInv
    <3>2. last \in Applications \cup {0}
      BY <1>1 DEF O!TypeOK
    <3>3. CASE last = i
      BY <1>1, <2>4, <2>5, <2>7, <3>1, <3>3 DEF OrganizerFollows, NoneDeleted
    <3>4. CASE last # i
      BY <1>1, <2>4, <3>1, <3>2, <3>4 DEF OrganizerFollows
    <3> QED
      BY <3>3, <3>4
  <2>8. /\ organizer' \in {"none", "pending", "approved"}
        /\ last' \in Applications \cup {0}
    BY <1>1 DEF O!TypeOK
  <2>9. Pure(applyPast') /\ v \in O!Ongoing => status[i] \in O!Ongoing
    BY <2>5 DEF Pure
  <2>10. ~applyPast'.stale /\ ~applyPast'.deleted => OrganizerFollows'
    BY <2>7
  <2>11. /\ applyPast.reopened => applyPast'.reopened
         /\ O!GoTo(r, "drop")
    BY <1>5, <2>2
  <2> QED
    BY <1>1, <1>2, <2>2, <2>4, <2>6, <2>8, <2>9, <2>10, <2>11, ApplyWrites
<1> QED
  BY <1>2, <1>3, <1>4, <1>5 DEF O!UpdateWrite

LEMMA SetStatusStep ==
  ASSUME ApplyInv, NEW r \in Calls, applyReq[r].at = "write",
         NEW i \in Applications, i = applyReq[r].i, NEW s \in O!Status,
         O!SetStatus(r, i, s), UNCHANGED <<copy, fetch, list, query, made>>
  PROVE  ApplyInv'
<1>1. O!TypeOK /\ Working(r)
  BY DEF ApplyInv, Working
<1>2. CASE i \notin O!Existing
  <2>1. O!End(r) /\ UNCHANGED <<status, organizer, last, applyPast>>
    BY <1>2 DEF O!SetStatus, O!stored
  <2> QED
    BY <1>1, <2>1, ApplyGivesUp
<1>3. CASE i \in O!Existing
  <2>1. /\ status' = [status EXCEPT ![i] = s]
        /\ organizer' = O!OrganizerStatus(s)
        /\ last' = i
        /\ applyPast' = [O!Touched(i) EXCEPT !.reopened = @ \/ s \in O!Ongoing]
        /\ O!GoTo(r, "drop")
    BY <1>3 DEF O!SetStatus, O!GoTo
  <2>2. /\ applyPast' \in O!Pasts
        /\ applyPast'.raced = applyPast.raced /\ applyPast'.deleted = applyPast.deleted
        /\ applyPast'.reopened = (applyPast.reopened \/ s \in O!Ongoing)
        /\ applyPast'.stale = (applyPast.stale \/ fetch[i] # "none")
    BY <1>1, <2>1 DEF O!Touched, O!TypeOK, O!Pasts
  <2>3. /\ status'[i] = s /\ s \notin {"gone", "stray"}
        /\ \A j \in Applications \ {i} : status'[j] = status[j]
    BY <1>1, <2>1 DEF O!TypeOK, O!Status, O!Ongoing
  <2>4. ~applyPast'.deleted => ~applyPast.deleted /\ s \notin {"gone", "stray"}
    BY <2>2, <2>3
  <2>5. OrganizerFollows'
    BY <2>1, <2>3 DEF OrganizerFollows
  <2>6. organizer' \in {"none", "pending", "approved"}
    BY <2>1 DEF O!OrganizerStatus
  <2>7. ~(Pure(applyPast') /\ s \in O!Ongoing)
    BY <2>2 DEF Pure
  <2> QED
    BY <2>1, <2>2, <2>4, <2>5, <2>6, <2>7, ApplyWrites
<1> QED
  BY <1>2, <1>3

LEMMA DecideCancelStep ==
  ASSUME ApplyInv, NEW r \in Calls, O!DecideWrite(r) \/ O!CancelWrite(r)
  PROVE  ApplyInv'
<1>1. /\ StepFits(r) /\ applyReq[r].at = "write" /\ Working(r)
      /\ UNCHANGED <<copy, fetch, list, query, made>>
  BY DEF ApplyInv, O!DecideWrite, O!CancelWrite, O!At, O!copies, O!lists, Working
<1>2. PICK i \in Applications : i = applyReq[r].i
  BY <1>1 DEF StepFits
<1>3. CASE O!End(r) /\ UNCHANGED <<O!stored, applyPast>>
  BY <1>1, <1>3, ApplyGivesUp DEF O!stored
<1>4. ASSUME NEW s \in O!Status, O!SetStatus(r, i, s) PROVE ApplyInv'
  BY <1>1, <1>2, <1>4, SetStatusStep
<1>5. Decisions \subseteq O!Status /\ "cancelled" \in O!Status
  BY ApplicationsAreNumbered DEF O!Status, O!Ongoing
<1>6. CASE O!CancelWrite(r)
  <2>1. O!SetStatus(r, i, "cancelled")
    BY <1>2, <1>6 DEF O!CancelWrite, O!SetStatus
  <2> QED
    BY <1>4, <1>5, <2>1
<1>7. CASE O!DecideWrite(r)
  <2>1. CASE \E s \in Decisions : O!SetStatus(r, applyReq[r].i, s)
    <3>1. PICK s \in Decisions : O!SetStatus(r, i, s)
      BY <1>2, <2>1 DEF O!SetStatus
    <3> QED
      BY <1>4, <1>5, <3>1
  <2> QED
    BY <1>3, <1>7, <2>1 DEF O!DecideWrite
<1> QED
  BY <1>6, <1>7

LEMMA ApplyDeleteStep ==
  ASSUME ApplyInv, NEW r \in Calls, O!DeleteWrite(r)
  PROVE  ApplyInv'
<1>1. /\ O!TypeOK /\ StepFits(r) /\ applyReq[r].at = "write" /\ Working(r)
      /\ UNCHANGED <<organizer, last, copy, fetch, list, query, made>>
  BY DEF ApplyInv, O!DeleteWrite, O!At, O!copies, O!lists, Working
<1>2. PICK i \in Applications : i = applyReq[r].i
  BY <1>1 DEF StepFits
<1>3. CASE UNCHANGED <<status, applyPast>> /\ O!End(r)
  BY <1>1, <1>3, ApplyGivesUp
<1>4. CASE /\ status' = [status EXCEPT ![i] = "gone"]
           /\ applyPast' = [O!Touched(i) EXCEPT !.deleted = TRUE]
           /\ O!GoTo(r, "drop")
  <2>1. /\ applyPast' \in O!Pasts
        /\ applyPast'.raced = applyPast.raced /\ applyPast'.deleted
        /\ applyPast'.reopened = applyPast.reopened
        /\ applyPast'.stale = (applyPast.stale \/ fetch[i] # "none")
    BY <1>1, <1>4 DEF O!Touched, O!TypeOK, O!Pasts
  <2>2. /\ organizer' \in {"none", "pending", "approved"}
        /\ last' \in Applications \cup {0}
    BY <1>1 DEF O!TypeOK
  <2> QED
    BY <1>1, <1>2, <1>4, <2>1, <2>2, ApplyWrites DEF O!Ongoing
<1> QED
  BY <1>2, <1>3, <1>4 DEF O!DeleteWrite

LEMMA CreateWriteStep ==
  ASSUME ApplyInv, NEW r \in Calls, O!CreateWrite(r)
  PROVE  ApplyInv'
<1>1. /\ O!TypeOK /\ StepFits(r) /\ applyReq[r].at = "create" /\ applyReq[r].op = "create"
      /\ applyReq[r].i = 0 /\ Working(r)
      /\ UNCHANGED <<copy, fetch, list, query, made>>
      /\ O!GoTo(r, "drop") /\ organizer' = "pending"
      /\ applyPast' = [applyPast EXCEPT !.raced = @ \/ query # O!NoList]
  BY DEF ApplyInv, StepFits, O!CreateWrite, O!At, O!copies, O!lists, Working
<1>2. PICK i \in Applications : /\ status[i] = "none"
                                /\ status' = [status EXCEPT ![i] = "pending"] /\ last' = i
  BY DEF O!CreateWrite
<1>3. /\ applyReq' \in [Calls -> O!Asked]
      /\ applyReq'[r].at = "drop" /\ applyReq'[r].op = "create"
      /\ applyReq'[r].i = 0 /\ applyReq'[r].s = applyReq[r].s
      /\ \A q \in Calls \ {r} : applyReq'[q] = applyReq[q]
  BY <1>1, ApplyGoes DEF O!Steps
<1>4. /\ applyPast' \in O!Pasts
      /\ applyPast'.stale = applyPast.stale /\ applyPast'.deleted = applyPast.deleted
      /\ applyPast'.reopened = applyPast.reopened
      /\ applyPast'.raced = (applyPast.raced \/ query # O!NoList)
  BY <1>1 DEF O!TypeOK, O!Pasts
<1>5. /\ status'[i] = "pending" /\ copy[i] = "none" /\ fetch[i] = "none"
      /\ \A j \in Applications \ {i} : status'[j] = status[j]
  BY <1>1, <1>2 DEF ApplyInv, O!TypeOK, NotYet
<1>6. O!TypeOK'
  BY <1>1, <1>2, <1>3, <1>4 DEF O!TypeOK, O!Status, O!Ongoing
<1>7. NotYet'
  BY <1>1, <1>5 DEF ApplyInv, NotYet
<1>8. ASSUME NEW q \in Calls PROVE StepFits(q)'
  BY <1>1, <1>2, <1>3, <1>5 DEF ApplyInv, StepFits
<1>9. ASSUME ~applyPast'.stale PROVE Fresh'
  <2>1. Fresh
    BY <1>4, <1>9 DEF ApplyInv
  <2>2. UpdatesApart'
    <3>1. \A q \in Calls : Working(q)' => /\ Working(q) /\ applyReq'[q].op = applyReq[q].op
                                          /\ applyReq'[q].i = applyReq[q].i
      BY <1>1, <1>3 DEF Working
    <3> QED
      BY <2>1, <3>1 DEF Fresh, UpdatesApart
  <2>3. \A j \in Applications : Dropping(j)' <=> Dropping(j)
    BY <1>1, <1>3, ApplicationsAreNumbered DEF Dropping
  <2>4. \A j \in Applications : CopyFresh(j)' /\ FetchFresh(j)'
    BY <1>1, <1>5, <2>1, <2>3 DEF Fresh, CopyFresh, FetchFresh
  <2>5. ASSUME NEW q \in Calls PROVE UpdateFresh(q)'
    BY <1>2, <1>3, <1>5, <2>1 DEF ApplyInv, Fresh, UpdateFresh, StepFits
  <2> QED
    BY <2>2, <2>4, <2>5 DEF Fresh
<1>10. ~applyPast'.deleted => NoneDeleted'
  BY <1>1, <1>3, <1>4, <1>5 DEF ApplyInv, NoneDeleted
<1>11. OrganizerFollows'
  BY <1>1, <1>2, <1>5 DEF OrganizerFollows, O!OrganizerStatus
<1>12. ASSUME Pure(applyPast') PROVE OngoingSeen'
  <2>1. OngoingSeen /\ query = O!NoList
    BY <1>4, <1>12 DEF ApplyInv, Pure
  <2>2. OngoingNow = {}
    BY <1>1, <2>1 DEF OngoingSeen, CreationSeen
  <2>3. OngoingNow' = {i}
    BY <1>5, <2>2 DEF OngoingNow, O!Ongoing
  <2>4. CreationsApart'
    <3>1. \A q \in Calls : Working(q)' => Working(q) /\ applyReq'[q].op = applyReq[q].op
      BY <1>1, <1>3 DEF Working
    <3> QED
      BY <2>1, <3>1 DEF OngoingSeen, CreationsApart
  <2>5. ASSUME NEW q \in Calls PROVE CreationSeen(q)'
    <3>1. CASE q = r
      BY <1>3, <3>1 DEF CreationSeen
    <3>2. CASE q # r
      <4>1. Working(q) => applyReq[q].op # "create"
        BY <1>1, <2>1, <3>2 DEF OngoingSeen, CreationsApart
      <4>2. applyReq[q].at \notin {"check", "create"}
        BY <4>1 DEF ApplyInv, StepFits, Working
      <4> QED
        BY <1>3, <3>2, <4>2 DEF CreationSeen
    <3> QED
      BY <3>1, <3>2
  <2>6. ListShows'
    BY <1>1, <1>3, <2>1 DEF ListShows
  <2> QED
    BY <2>3, <2>4, <2>5, <2>6 DEF OngoingSeen
<1> QED
  BY <1>4, <1>6, <1>7, <1>8, <1>9, <1>10, <1>11, <1>12 DEF ApplyInv

\* The caches are dropped, or kept, which the history remembers.
LEMMA ApplyDropStep ==
  ASSUME ApplyInv, NEW r \in Calls, applyReq[r].at = "drop", O!End(r),
         UNCHANGED <<status, organizer, last, fetch, query, made>>,
         \/ /\ copy' = IF applyReq[r].op = "create" THEN copy
                       ELSE [copy EXCEPT ![applyReq[r].i] = "none"]
            /\ list' = O!NoList
            /\ UNCHANGED applyPast
         \/ applyPast' = O!Kept(r) /\ UNCHANGED <<copy, list>>
  PROVE  ApplyInv'
<1>1. O!TypeOK /\ StepFits(r) /\ Working(r)
  BY DEF ApplyInv, Working
<1>2. /\ applyReq' \in [Calls -> O!Asked]
      /\ ~Working(r)' /\ applyReq'[r].at = "idle" /\ applyReq'[r].s = "none"
      /\ StepFits(r)' /\ UpdateFresh(r)' /\ CreationSeen(r)'
      /\ \A q \in Calls \ {r} : applyReq'[q] = applyReq[q]
  BY <1>1, ApplyEnds
<1>3. \A i \in Applications : copy'[i] \in {copy[i], "none"}
  BY <1>1 DEF O!TypeOK
<1>4. /\ applyPast' \in O!Pasts
      /\ applyPast'.deleted = applyPast.deleted /\ applyPast'.reopened = applyPast.reopened
      /\ applyPast.raced => applyPast'.raced
      /\ applyPast.stale => applyPast'.stale
      /\ \/ list' = O!NoList
         \/ applyReq[r].op = "create" /\ applyPast'.raced
         \/ applyReq[r].op # "create" /\ applyPast'.stale
  BY <1>1 DEF O!Kept, O!TypeOK, O!Pasts
<1>5. O!TypeOK'
  BY <1>1, <1>2, <1>4 DEF O!TypeOK, O!Lists
<1>6. NotYet' /\ (~applyPast'.deleted => NoneDeleted')
  BY <1>2, <1>3, <1>4 DEF ApplyInv, NotYet, NoneDeleted
<1>7. ASSUME ~applyPast'.stale, NEW i \in Applications PROVE CopyFresh(i)' /\ FetchFresh(i)'
  <2>1. CopyFresh(i) /\ FetchFresh(i)
    BY <1>4, <1>7 DEF ApplyInv, Fresh
  <2>2. Dropping(i) => Dropping(i)' \/ applyReq[r].i = i
    BY <1>2 DEF Dropping
  <2>3. applyReq[r].i = i => copy'[i] = "none"
    <3>1. ASSUME applyReq[r].i = i PROVE applyReq[r].op # "create"
      BY <1>1, <3>1, ApplicationsAreNumbered DEF StepFits
    <3>2. applyPast' # O!Kept(r) \/ applyReq[r].op = "create"
      BY <1>1, <1>7 DEF O!Kept, O!TypeOK, O!Pasts
    <3> QED
      BY <1>1, <3>1, <3>2 DEF O!TypeOK
  <2> QED
    BY <1>3, <2>1, <2>2, <2>3 DEF CopyFresh, FetchFresh
<1>8. ~applyPast'.stale /\ ~applyPast'.deleted => OrganizerFollows'
  BY <1>4 DEF ApplyInv, OrganizerFollows
<1>9. UNCHANGED OngoingNow
  BY DEF OngoingNow
<1>10. Pure(applyPast') => ListShows'
  <2>1. Pure(applyPast') => ListShows /\ list' = O!NoList
    BY <1>4 DEF ApplyInv, OngoingSeen, Pure
  <2> QED
    BY <1>9, <2>1 DEF ListShows, Shows
<1> QED
  BY <1>1, <1>2, <1>4, <1>5, <1>6, <1>7, <1>8, <1>9, <1>10, ApplyMoves

LEMMA DropDieStep ==
  ASSUME ApplyInv, NEW r \in Calls, O!DropAll(r) \/ O!Die(r)
  PROVE  ApplyInv'
<1>1. CASE O!DropAll(r)
  BY <1>1, ApplyDropStep DEF O!DropAll, O!At, O!stored
<1>2. CASE O!Die(r)
  <2>1. /\ O!End(r) /\ Working(r) /\ UNCHANGED <<O!stored, copy, fetch, list, query, made>>
        /\ applyPast' = IF applyReq[r].at = "drop" THEN O!Kept(r) ELSE applyPast
    BY <1>2 DEF O!Die, O!Busy, O!At, O!copies, O!lists, Working
  <2>2. CASE applyReq[r].at = "drop"
    BY <2>1, <2>2, ApplyDropStep DEF O!stored
  <2>3. CASE applyReq[r].at # "drop"
    BY <2>1, <2>3, ApplyGivesUp DEF O!stored
  <2> QED
    BY <2>2, <2>3
<1> QED
  BY <1>1, <1>2

\* A step of the caches alone: it may move requests that wait, and drops nothing.
LEMMA ApplyServes ==
  ASSUME ApplyInv, O!TypeOK', NotYet', UNCHANGED <<status, organizer, last, applyPast>>,
         \A q \in Calls :
           /\ applyReq'[q].op = applyReq[q].op /\ applyReq'[q].i = applyReq[q].i
           /\ applyReq'[q].at = "idle" <=> applyReq[q].at = "idle"
           /\ applyReq'[q].at = "drop" <=> applyReq[q].at = "drop"
           /\ applyReq'[q].at = "create" => applyReq[q].at = "create"
           /\ StepFits(q)',
         \A i \in Applications :
           /\ copy'[i] \in {copy[i], "none", fetch[i]}
           /\ fetch'[i] \in {fetch[i], "none", status[i]},
         ~applyPast.stale => \A q \in Calls : UpdateFresh(q)',
         ~applyPast.deleted => \A q \in Calls : applyReq'[q].s \notin {"gone", "stray"},
         list' \in {list, query, O!NoList}, query' \in {query, O!NoList, O!Listed},
         Pure(applyPast) => \A q \in Calls : applyReq'[q].at = "check" => Shows(applyReq'[q].seen)
  PROVE  ApplyInv'
<1>1. ASSUME ~applyPast'.stale PROVE Fresh'
  <2>1. Fresh
    BY <1>1 DEF ApplyInv
  <2>2. UpdatesApart'
    BY <2>1 DEF Fresh, UpdatesApart, Working
  <2>3. \A i \in Applications : Dropping(i)' <=> Dropping(i)
    BY DEF Dropping
  <2>4. \A i \in Applications : CopyFresh(i)' /\ FetchFresh(i)'
    BY <2>1, <2>3 DEF Fresh, CopyFresh, FetchFresh
  <2> QED
    BY <1>1, <2>2, <2>4 DEF Fresh
<1>2. ~applyPast'.deleted => NoneDeleted'
  BY DEF ApplyInv, NoneDeleted
<1>3. ~applyPast'.stale /\ ~applyPast'.deleted => OrganizerFollows'
  BY DEF ApplyInv, OrganizerFollows
<1>4. ASSUME Pure(applyPast') PROVE OngoingSeen'
  <2>1. OngoingSeen /\ Shows(O!Listed) /\ UNCHANGED OngoingNow
    BY <1>4, ListedShows DEF ApplyInv, Pure, OngoingNow
  <2>2. CreationsApart'
    BY <2>1 DEF OngoingSeen, CreationsApart, Working
  <2>3. \A q \in Calls : CreationSeen(q)'
    BY <1>4, <2>1 DEF OngoingSeen, CreationSeen, Shows, Pure
  <2>4. ListShows'
    <3>1. query' # O!NoList => Shows(query')
      BY <2>1 DEF OngoingSeen, ListShows
    <3>2. list' # O!NoList => \/ Shows(list')
                              \/ \E r \in Calls : /\ applyReq'[r].at = "drop"
                                                  /\ applyReq'[r].op = "create"
      BY <2>1 DEF OngoingSeen, ListShows
    <3> QED
      BY <2>1, <3>1, <3>2 DEF ListShows, Shows
  <2> QED
    BY <2>1, <2>2, <2>3, <2>4 DEF OngoingSeen
<1> QED
  BY <1>1, <1>2, <1>3, <1>4 DEF ApplyInv

\* Somebody looks, or what is cached expires.
LEMMA ApplyLookStep ==
  ASSUME ApplyInv, O!LookAtList \/ O!Expires \/ \E i \in Applications : O!LookAt(i)
  PROVE  ApplyInv'
<1>1. /\ UNCHANGED <<status, organizer, last, applyReq, applyPast>> /\ O!TypeOK
      /\ \A i \in Applications : /\ copy'[i] \in {copy[i], "none"}
                                 /\ fetch'[i] \in {fetch[i], status[i]}
      /\ list' \in {list, O!NoList} /\ query' \in {query, O!Listed}
  BY DEF ApplyInv, O!LookAtList, O!Expires, O!LookAt, O!stored, O!copies, O!lists, O!TypeOK
<1>2. O!TypeOK'
  <2>1. O!Listed \in O!Lists /\ O!NoList \in O!Lists
    BY <1>1 DEF O!Listed, O!Lists, O!Existing, O!TypeOK
  <2>2. copy' \in [Applications -> O!Status \cup {"none", "stray"}]
    BY <1>1 DEF O!LookAtList, O!Expires, O!LookAt, O!copies, O!TypeOK
  <2>3. fetch' \in [Applications -> O!Status \cup {"none", "gone", "stray"}]
    BY <1>1 DEF O!LookAtList, O!Expires, O!LookAt, O!copies, O!TypeOK
  <2> QED
    BY <1>1, <2>1, <2>2, <2>3 DEF O!TypeOK
<1>3. NotYet'
  BY <1>1 DEF ApplyInv, NotYet
<1>4. \A q \in Calls : StepFits(q)' /\ (UpdateFresh(q) => UpdateFresh(q)')
  BY <1>1 DEF ApplyInv, StepFits, UpdateFresh
<1>5. /\ ~applyPast.stale => \A q \in Calls : UpdateFresh(q)'
      /\ ~applyPast.deleted => \A q \in Calls : applyReq'[q].s \notin {"gone", "stray"}
      /\ Pure(applyPast) => \A q \in Calls : applyReq'[q].at = "check" => Shows(applyReq'[q].seen)
  BY <1>1, <1>4 DEF ApplyInv, Fresh, NoneDeleted, OngoingSeen, CreationSeen
<1> QED
  BY <1>1, <1>2, <1>3, <1>4, <1>5, ApplyServes

LEMMA StoreCopyStep ==
  ASSUME ApplyInv, NEW i \in Applications, O!StoreCopy(i)
  PROVE  ApplyInv'
<1>1. /\ O!TypeOK /\ fetch[i] # "none" /\ fetch' = [fetch EXCEPT ![i] = "none"]
      /\ \/ copy' = copy
         \/ fetch[i] # "gone" /\ copy' = [copy EXCEPT ![i] = fetch[i]]
      /\ UNCHANGED <<status, organizer, last, list, query, applyPast>>
  BY DEF ApplyInv, O!StoreCopy, O!stored, O!lists
<1>2. \A q \in Calls :
        applyReq'[q] = IF applyReq[q].i # i THEN applyReq[q]
                       ELSE IF applyReq[q].at = "awaitOwn"
                              THEN [applyReq[q] EXCEPT !.at = "read"]
                       ELSE IF applyReq[q].at = "awaitRead"
                              THEN [applyReq[q] EXCEPT !.at = "write", !.s = fetch[i]]
                       ELSE applyReq[q]
  BY DEF O!StoreCopy, O!At
<1>3. ASSUME NEW q \in Calls
      PROVE  /\ applyReq'[q] \in O!Asked
             /\ applyReq'[q].op = applyReq[q].op /\ applyReq'[q].i = applyReq[q].i
             /\ applyReq'[q].seen = applyReq[q].seen
             /\ \/ applyReq'[q] = applyReq[q]
                \/ /\ applyReq[q].at = "awaitOwn" /\ applyReq'[q].at = "read"
                   /\ applyReq'[q].s = applyReq[q].s
                \/ /\ applyReq[q].i = i /\ applyReq[q].at = "awaitRead"
                   /\ applyReq'[q].at = "write" /\ applyReq'[q].s = fetch[i]
  <2>1. applyReq[q] \in O!Asked /\ fetch[i] \in O!Status \cup {"none", "gone", "stray"}
    BY <1>1 DEF O!TypeOK
  <2>2. CASE applyReq'[q] = applyReq[q]
    BY <2>1, <2>2
  <2>3. CASE /\ applyReq[q].at = "awaitOwn"
             /\ applyReq'[q] = [applyReq[q] EXCEPT !.at = "read"]
    BY <2>1, <2>3 DEF O!Asked, O!Steps
  <2>4. CASE /\ applyReq[q].i = i /\ applyReq[q].at = "awaitRead"
             /\ applyReq'[q] = [applyReq[q] EXCEPT !.at = "write", !.s = fetch[i]]
    BY <2>1, <2>4 DEF O!Asked, O!Steps
  <2> QED
    BY <1>2, <2>2, <2>3, <2>4
<1>4. O!TypeOK'
  <2>1. applyReq' = [q \in Calls |-> applyReq'[q]]
    BY DEF O!StoreCopy
  <2>2. applyReq' \in [Calls -> O!Asked]
    BY <1>3, <2>1
  <2> QED
    BY <1>1, <2>2 DEF O!TypeOK
<1>5. NotYet'
  BY <1>1 DEF ApplyInv, NotYet, O!TypeOK
<1>6. ASSUME NEW q \in Calls PROVE StepFits(q)'
  <2>1. StepFits(q)
    BY DEF ApplyInv
  <2> QED
    BY <1>1, <1>3, <2>1 DEF StepFits
<1>7. ASSUME ~applyPast.stale, NEW q \in Calls PROVE UpdateFresh(q)'
  BY <1>1, <1>3, <1>7 DEF ApplyInv, Fresh, UpdateFresh, FetchFresh
<1>8. ASSUME ~applyPast.deleted, NEW q \in Calls PROVE applyReq'[q].s \notin {"gone", "stray"}
  BY <1>3, <1>8 DEF ApplyInv, NoneDeleted
<1>9. Pure(applyPast) =>
        \A q \in Calls : applyReq'[q].at = "check" => Shows(applyReq'[q].seen)
  BY <1>3 DEF ApplyInv, OngoingSeen, CreationSeen
<1>10. \A j \in Applications : /\ copy'[j] \in {copy[j], "none", fetch[j]}
                               /\ fetch'[j] \in {fetch[j], "none", status[j]}
  BY <1>1 DEF O!TypeOK
<1>11. \A q \in Calls :
           /\ applyReq'[q].op = applyReq[q].op /\ applyReq'[q].i = applyReq[q].i
           /\ applyReq'[q].at = "idle" <=> applyReq[q].at = "idle"
           /\ applyReq'[q].at = "drop" <=> applyReq[q].at = "drop"
           /\ applyReq'[q].at = "create" => applyReq[q].at = "create"
           /\ StepFits(q)'
  BY <1>3, <1>6
<1> QED
  BY <1>1, <1>4, <1>5, <1>7, <1>8, <1>9, <1>10, <1>11, ApplyServes

LEMMA StoreListStep ==
  ASSUME ApplyInv, O!StoreList
  PROVE  ApplyInv'
<1>1. /\ O!TypeOK /\ query # O!NoList /\ list' \in {list, query} /\ query' = O!NoList
      /\ UNCHANGED <<status, organizer, last, copy, fetch, applyPast>>
  BY DEF ApplyInv, O!StoreList, O!stored, O!copies
<1>2. \A q \in Calls :
        applyReq'[q] = IF applyReq[q].at = "awaitList"
                         THEN [applyReq[q] EXCEPT !.at = "check", !.seen = query]
                         ELSE applyReq[q]
  BY DEF O!StoreList, O!At
<1>3. query \in SUBSET (Applications \X O!Status)
  BY <1>1 DEF O!TypeOK, O!Lists
<1>4. ASSUME NEW q \in Calls
      PROVE  /\ applyReq'[q] \in O!Asked
             /\ applyReq'[q].op = applyReq[q].op /\ applyReq'[q].i = applyReq[q].i
             /\ applyReq'[q].s = applyReq[q].s
             /\ \/ applyReq'[q] = applyReq[q]
                \/ /\ applyReq[q].at = "awaitList" /\ applyReq'[q].at = "check"
                   /\ applyReq'[q].seen = query
  <2>1. applyReq[q] \in O!Asked
    BY <1>1 DEF O!TypeOK
  <2> QED
    BY ZenonT(60), <1>2, <1>3, <2>1 DEF O!Asked, O!Steps
<1>5. O!TypeOK'
  <2>1. applyReq' = [q \in Calls |-> applyReq'[q]]
    BY DEF O!StoreList
  <2>2. applyReq' \in [Calls -> O!Asked]
    BY <1>4, <2>1
  <2>3. O!NoList \in O!Lists
    BY DEF O!Lists
  <2> QED
    BY <1>1, <2>2, <2>3 DEF O!TypeOK
<1>6. NotYet'
  BY <1>1 DEF ApplyInv, NotYet
<1>7. ASSUME NEW q \in Calls PROVE StepFits(q)'
  <2>1. StepFits(q)
    BY DEF ApplyInv
  <2> QED
    BY <1>1, <1>4, <2>1 DEF StepFits
<1>8. ASSUME ~applyPast.stale, NEW q \in Calls PROVE UpdateFresh(q)'
  BY <1>1, <1>4, <1>8 DEF ApplyInv, Fresh, UpdateFresh
<1>9. ASSUME ~applyPast.deleted, NEW q \in Calls PROVE applyReq'[q].s \notin {"gone", "stray"}
  BY <1>4, <1>9 DEF ApplyInv, NoneDeleted
<1>10. Pure(applyPast) =>
         \A q \in Calls : applyReq'[q].at = "check" => Shows(applyReq'[q].seen)
  BY <1>1, <1>4 DEF ApplyInv, OngoingSeen, CreationSeen, ListShows
<1>11. \A j \in Applications : /\ copy'[j] \in {copy[j], "none", fetch[j]}
                               /\ fetch'[j] \in {fetch[j], "none", status[j]}
  BY <1>1
<1>12. \A q \in Calls :
           /\ applyReq'[q].op = applyReq[q].op /\ applyReq'[q].i = applyReq[q].i
           /\ applyReq'[q].at = "idle" <=> applyReq[q].at = "idle"
           /\ applyReq'[q].at = "drop" <=> applyReq[q].at = "drop"
           /\ applyReq'[q].at = "create" => applyReq[q].at = "create"
           /\ StepFits(q)'
  BY <1>4, <1>7
<1> QED
  BY <1>1, <1>5, <1>6, <1>8, <1>9, <1>10, <1>11, <1>12, ApplyServes
-----------------------------------------------------------------------------
LEMMA ApplyStep == ApplyInv /\ O!Next => ApplyInv'
<1>1. ASSUME ApplyInv, NEW r \in Calls, NEW i \in Applications,
             O!Decide(r, i) \/ O!Cancel(r, i) \/ O!Delete(r, i)
               \/ \E own \in BOOLEAN : O!Update(r, i, own)
      PROVE  ApplyInv'
  BY <1>1, ApplyBeginStep
<1> QED
  BY <1>1, ApplyBeginStep, CreateListStep, CreateCheckStep, CreateWriteStep, ApplyCopyStep,
     ApplyUpdateStep, DecideCancelStep, ApplyDeleteStep, DropDieStep, ApplyLookStep,
     StoreCopyStep, StoreListStep DEF O!Next

LEMMA ApplyKept == ApplyInv /\ UNCHANGED oVars => ApplyInv'
BY DEF ApplyInv, oVars, O!TypeOK, NotYet, StepFits, Fresh, UpdatesApart, Dropping, CopyFresh,
   FetchFresh, UpdateFresh, Working, NoneDeleted, OrganizerFollows, OngoingNow, Shows,
   CreationsApart, CreationSeen, ListShows, OngoingSeen

LEMMA OnlyOrganizer ==
  ASSUME [NextRecords]_allVars, Organizer \/ Organizer'
  PROVE  Organizer /\ (O!Next \/ UNCHANGED oVars)
BY DEF NextRecords, allVars, Refunds, Payments, PaymentMethods, Organizer, Checkout, LateCommit

LEMMA ApplyAlways == SpecRecords => [](Organizer => ApplyInv)
<1>1. InitRecords => ApplyInv
  BY ApplyInit DEF InitRecords
<1>2. (Organizer => ApplyInv) /\ [NextRecords]_allVars => (Organizer => ApplyInv)'
  BY OnlyOrganizer, ApplyStep, ApplyKept
<1> QED
  BY <1>1, <1>2, PTL DEF SpecRecords

\* Two applications of a user are ongoing at once only if a creation overlapped
\* with another or with a look at the list, an update worked with what was no
\* longer so, or an admin made one ongoing again: a cached list alone does not
\* mislead canApplyOrganizer (organizer.service.js:258).
THEOREM OngoingIsOne == SpecRecords => []OneOngoing
<1>1. ASSUME ApplyInv PROVE O!OneOngoing
  <2>1. CASE Pure(applyPast)
    <3>1. \A i, j \in OngoingNow : i = j
      BY <1>1, <2>1 DEF ApplyInv, OngoingSeen
    <3>2. \A i, j \in O!Existing : {status[i], status[j]} \subseteq O!Ongoing => i = j
      BY <3>1 DEF OngoingNow, O!Existing
    <3> QED
      BY <3>2 DEF O!OneOngoing
  <2> QED
    BY <2>1 DEF O!OneOngoing, Pure
<1>2. (Organizer => ApplyInv) => OneOngoing
  BY <1>1 DEF OneOngoing
<1> QED
  BY ApplyAlways, <1>2, PTL

\* The user's organizerStatus is what the application last decided on calls for,
\* unless an update or a look at it overlapped with another write to it or it was
\* deleted: the statuses that updates write back from a cache change nothing that
\* the user's document would have to follow (organizer.service.js:484).
THEOREM OrganizerStatusFollows == SpecRecords => []StatusFollows
<1>1. (Organizer => ApplyInv) => StatusFollows
  BY DEF ApplyInv, OrganizerFollows, StatusFollows, O!StatusFollows
<1> QED
  BY ApplyAlways, <1>1, PTL
-----------------------------------------------------------------------------

(***************************************************************************)
(* The late commit.  Until the hold is gone nothing has happened to the    *)
(* units.  From then on, unless the history says otherwise, one actor at a *)
(* time attempts the commit, what is out of the stock is what that one has *)
(* taken, and who finds the snapshot gone, or closes it, finds the payment *)
(* settled or not there.                                                   *)
(***************************************************************************)
Attempting(a) == at[a] \in L!Attempt
Places == L!Attempt \cup {"idle", "dedupe", "confirm", "pay", "late", "ask", "close"}

LateShape ==
  /\ hold \in {"live", "due", "gone"} /\ grace \in {"open", "edge", "over"}
  /\ {snap, due, committed, lock, order, refunded} \subseteq BOOLEAN
  /\ out \in Int /\ paid \subseteq Intents /\ events \subseteq Intents /\ seen \subseteq Intents
  /\ at \in [L!Actors -> Places]
  /\ about \in [L!Actors -> Intents \cup {NoIntent}]
  /\ taken \in [L!Actors -> Int]
  /\ latePast \subseteq {"failed", "met", "late", "short"}
  /\ \A a \in L!Actors : at[a] = "dedupe" => about[a] \in Intents

BeforeGone ==
  hold # "gone" => /\ out = Lines /\ ~snap /\ ~due
                   /\ \A a \in L!Actors : /\ taken[a] = 0 /\ ~Attempting(a)
                                          /\ at[a] \notin {"ask", "close"}
                                          /\ a = Worker => at[a] # "late"
TakenInAttempt ==
  \A a \in L!Actors : taken[a] # 0 => at[a] \in {"reserve", "order", "clean", "undo", "undoRefund"}

\* Of confirmations, of attempts, and of what is settled.
OnePays ==
  /\ \A a \in L!Actors : at[a] = "pay" => lock /\ hold # "gone"
  /\ \A a, b \in L!Actors : at[a] = "pay" /\ at[b] = "pay" => a = b
OneAttempts == \A a, b \in L!Actors : Attempting(a) /\ Attempting(b) => a = b
AttemptFits(a) ==
  /\ at[a] \in {"reserve", "undoRefund"} => out = taken[a] /\ ~order /\ ~refunded
  /\ at[a] = "order" => out = Lines /\ ~order /\ ~refunded
  /\ at[a] = "clean" => out = Lines /\ order /\ ~refunded
  /\ at[a] # "undo"
  /\ at[a] = "undoRefund" => a = Worker
  /\ at[a] = "refund" => out = 0 /\ ~order /\ (a = Worker \/ grace = "over")
  /\ at[a] = "late" => hold = "gone"
Settled ==
  /\ hold # "gone" => ~order /\ ~refunded
  /\ hold = "gone" /\ (\A a \in L!Actors : ~Attempting(a)) =>
       out = (IF order THEN Lines ELSE 0)
  /\ ~(order /\ refunded)
  /\ order => ~snap \/ \E a \in L!Actors : at[a] = "clean"
  /\ refunded => grace = "over" \/ ~snap \/ at[Worker] = "close"
  /\ hold = "gone" /\ (~snap \/ at[Worker] = "close") /\ L!First \in paid => order \/ refunded
  /\ snap => due

LateFits == /\ OnePays /\ OneAttempts /\ Settled
            /\ \A a \in L!Actors : AttemptFits(a)

LateInv == /\ LateShape /\ BeforeGone /\ TakenInAttempt
           /\ latePast = {} => LateFits

LEMMA LateInit == L!Init => LateInv
<1> SUFFICES ASSUME L!Init PROVE LateInv
  OBVIOUS
<1> USE WorkerIsApart DEF L!Init, L!Attempt
<1>1. LateShape
  <2>1. at \in [L!Actors -> Places] /\ taken \in [L!Actors -> Int] /\ out \in Int
    BY DEF Places
  <2>2. about \in [L!Actors -> Intents \cup {NoIntent}]
    OBVIOUS
  <2> QED
    BY <2>1, <2>2 DEF LateShape
<1>2. BeforeGone /\ TakenInAttempt
  BY DEF BeforeGone, TakenInAttempt, Attempting
<1>3. OnePays /\ OneAttempts
  BY DEF OnePays, OneAttempts, Attempting
<1>4. Settled /\ \A a \in L!Actors : AttemptFits(a)
  BY DEF Settled, AttemptFits
<1> QED
  BY <1>1, <1>2, <1>3, <1>4 DEF LateInv, LateFits

\* Time, payments and the end of the snapshot: no actor moves.
LEMMA LateWorldStep ==
  ASSUME LateInv, L!Time \/ L!SnapshotExpires \/ L!Reap \/ \E i \in Intents : L!Pay(i)
  PROVE  LateInv'
<1>1. UNCHANGED <<at, about, taken, lock, order, refunded, committed>>
  BY DEF L!Time, L!SnapshotExpires, L!Reap, L!Pay, L!kept, L!money
<1>2. CASE L!Time
  <2>1. /\ UNCHANGED <<snap, due, out, paid, events, seen, latePast>>
        /\ hold' = hold \/ (hold = "live" /\ hold' = "due")
        /\ grace' \in {grace, "edge", "over"} /\ (grace = "over" => grace' = "over")
    BY <1>2 DEF L!Time, L!money
  <2>2. LateShape'
    BY <1>1, <2>1 DEF LateInv, LateShape
  <2>3. BeforeGone' /\ TakenInAttempt'
    BY <1>1, <2>1 DEF LateInv, BeforeGone, TakenInAttempt, Attempting
  <2>4. LateFits => LateFits'
    BY <1>1, <2>1 DEF LateFits, OnePays, OneAttempts, Settled, AttemptFits, Attempting
  <2> QED
    BY <2>1, <2>2, <2>3, <2>4 DEF LateInv
<1>3. CASE L!SnapshotExpires
  <2>1. /\ UNCHANGED <<hold, grace, due, out, paid, events, seen>>
        /\ snap' = FALSE /\ latePast' = latePast \cup {"failed"}
    BY <1>3 DEF L!SnapshotExpires, L!money, L!Note
  <2>2. LateShape'
    BY <1>1, <2>1 DEF LateInv, LateShape
  <2> QED
    BY <1>1, <2>1, <2>2 DEF LateInv, BeforeGone, TakenInAttempt, Attempting
<1>4. CASE L!Reap
  <2>1. /\ UNCHANGED <<grace, paid, events, seen>>
        /\ hold = "due" /\ hold' = "gone" /\ snap' = TRUE /\ due' = TRUE /\ out' = out - Lines
        /\ latePast' = IF \E a \in L!Actors : at[a] = "pay" THEN latePast \cup {"met"}
                                                            ELSE latePast
    BY <1>4 DEF L!Reap, L!money
  <2>2. LateShape'
    BY <1>1, <2>1, WorkerIsApart DEF LateInv, LateShape
  <2>3. BeforeGone' /\ TakenInAttempt'
    BY <1>1, <2>1 DEF LateInv, BeforeGone, TakenInAttempt
  <2>4. out = Lines /\ out' = 0 /\ \A a \in L!Actors : ~Attempting(a) /\ at[a] # "close"
    BY <2>1, WorkerIsApart DEF LateInv, BeforeGone
  <2>5. ASSUME latePast' = {} PROVE LateFits'
    <3>1. LateFits /\ \A a \in L!Actors : at[a] # "pay"
      BY <2>1, <2>5 DEF LateInv
    <3>2. OnePays' /\ OneAttempts'
      BY <1>1, <3>1 DEF LateFits, OnePays, OneAttempts, Attempting
    <3>3. \A a \in L!Actors : AttemptFits(a)'
      BY <1>1, <2>1, <2>4, <3>1 DEF LateFits, AttemptFits, Attempting, L!Attempt
    <3>4. Settled'
      BY <1>1, <2>1, <2>4, <3>1 DEF LateFits, Settled, L!Actors
    <3> QED
      BY <3>2, <3>3, <3>4 DEF LateFits
  <2> QED
    BY <2>2, <2>3, <2>5 DEF LateInv
<1>5. ASSUME NEW i \in Intents, L!Pay(i) PROVE LateInv'
  <2>1. /\ UNCHANGED <<hold, grace, snap, due, out, seen>>
        /\ paid' = paid \cup {i} /\ events' = events \cup {i}
        /\ latePast' = IF hold = "gone" /\ (~snap \/ at[Worker] = "close")
                         THEN latePast \cup {"late"} ELSE latePast
    BY <1>5 DEF L!Pay, L!kept
  <2>2. LateShape'
    BY <1>1, <2>1 DEF LateInv, LateShape
  <2>3. BeforeGone' /\ TakenInAttempt'
    BY <1>1, <2>1 DEF LateInv, BeforeGone, TakenInAttempt, Attempting
  <2>4. ASSUME latePast' = {} PROVE LateFits'
    <3>1. LateFits /\ ~(hold = "gone" /\ (~snap \/ at[Worker] = "close"))
      BY <2>1, <2>4 DEF LateInv
    <3> QED
      BY <1>1, <2>1, <3>1 DEF LateFits, OnePays, OneAttempts, Settled, AttemptFits, Attempting
  <2> QED
    BY <2>2, <2>3, <2>4 DEF LateInv
<1> QED
  BY <1>2, <1>3, <1>4, <1>5

LEMMA LateGoes ==
  ASSUME LateShape, NEW a \in L!Actors, NEW step \in Places, L!GoTo(a, step)
  PROVE  /\ at' \in [L!Actors -> Places] /\ at'[a] = step
         /\ \A b \in L!Actors \ {a} : at'[b] = at[b]
BY DEF LateShape, L!GoTo

\* A step of a handler or of the worker outside of its attempts, which changes
\* neither units nor order.
LEMMA LateMoves ==
  ASSUME LateInv, LateShape', NEW a \in L!Actors, ~Attempting(a), ~Attempting(a)',
         \A b \in L!Actors \ {a} : at'[b] = at[b],
         UNCHANGED <<hold, snap, due, grace, out, order, refunded, paid, taken>>,
         latePast \subseteq latePast',
         at'[a] \in {"ask", "close"} => hold = "gone",
         a = Worker /\ at'[a] = "late" => hold = "gone",
         latePast' = {} =>
           /\ at'[a] = "late" => hold = "gone"
           /\ at'[a] = "pay" => lock' /\ ~lock /\ hold # "gone"
           /\ lock /\ ~lock' => at[a] = "pay" /\ at'[a] # "pay"
           /\ at'[Worker] = "close" /\ at[Worker] # "close" /\ L!First \in paid =>
                order \/ refunded
           /\ at[Worker] = "close" => at'[Worker] = "close"
  PROVE  LateInv'
<1>1. BeforeGone' /\ TakenInAttempt'
  BY DEF LateInv, BeforeGone, TakenInAttempt, Attempting, L!Attempt
<1>2. ASSUME latePast' = {} PROVE LateFits'
  <2>1. LateFits
    BY <1>2 DEF LateInv
  <2>2. OnePays'
    BY <1>2, <2>1 DEF LateFits, OnePays
  <2>3. OneAttempts' /\ \A b \in L!Actors : Attempting(b)' <=> Attempting(b)
    BY <2>1 DEF LateFits, OneAttempts, Attempting
  <2>4. \A b \in L!Actors : AttemptFits(b)'
    BY <1>2, <2>1 DEF LateFits, AttemptFits, Attempting, L!Attempt
  <2>5. (\E b \in L!Actors : at'[b] = "clean") <=> (\E b \in L!Actors : at[b] = "clean")
    BY DEF Attempting, L!Attempt
  <2>6. Settled'
    BY <1>2, <2>1, <2>3, <2>5 DEF LateFits, Settled
  <2> QED
    BY <2>2, <2>3, <2>4, <2>6 DEF LateFits
<1> QED
  BY <1>1, <1>2 DEF LateInv

LEMMA LateReceiveStep ==
  ASSUME LateInv, NEW h \in Calls, L!Receive(h) \/ L!Dedupe(h)
  PROVE  LateInv'
<1> USE DEF L!kept, L!money
<1>1. LateShape /\ h \in L!Actors /\ h # Worker
  BY WorkerIsApart DEF LateInv, L!Actors
<1>2. /\ at[h] \in {"idle", "dedupe"}
      /\ UNCHANGED <<hold, snap, due, committed, grace, lock, out, order, refunded, paid, taken>>
  BY DEF L!Receive, L!Dedupe
<1>3. PICK step \in {"idle", "dedupe", "confirm"} : L!GoTo(h, step)
  BY DEF L!Receive, L!Dedupe
<1>4. /\ at' \in [L!Actors -> Places] /\ at'[h] = step
      /\ \A b \in L!Actors \ {h} : at'[b] = at[b]
  BY <1>1, <1>3, LateGoes DEF Places
<1>5. latePast' \in {latePast, latePast \cup {"failed"}} /\ events' \subseteq events
  BY <1>1 DEF L!Receive, L!Dedupe, L!Note, LateShape
<1>6. seen' \subseteq Intents
  BY <1>1 DEF L!Receive, L!Dedupe, LateShape
<1>7. /\ about' \in [L!Actors -> Intents \cup {NoIntent}]
      /\ step = "dedupe" => about'[h] \in Intents
      /\ \A b \in L!Actors \ {h} : about'[b] = about[b]
  <2>1. CASE L!Receive(h)
    <3>1. PICK i \in Intents \cup {NoIntent} :
            about' = [about EXCEPT ![h] = i] /\ (step = "dedupe" => i \in Intents)
      BY <1>1, <1>3, <1>4, <2>1 DEF L!Receive, LateShape, L!GoTo
    <3> QED
      BY <1>1, <3>1 DEF LateShape
  <2>2. CASE L!Dedupe(h)
    <3>1. about' = about /\ at'[h] # "dedupe"
      BY <1>1, <2>2 DEF L!Dedupe, L!GoTo, LateShape
    <3> QED
      BY <1>1, <1>4, <3>1 DEF LateShape
  <2> QED
    BY <2>1, <2>2
<1>8. LateShape'
  BY <1>1, <1>2, <1>4, <1>5, <1>6, <1>7 DEF LateShape
<1>9. ~Attempting(h) /\ ~Attempting(h)' /\ at'[h] \notin {"ask", "close", "late", "pay"}
  BY <1>2, <1>4 DEF Attempting, L!Attempt
<1>10. at'[Worker] = at[Worker] /\ latePast \subseteq latePast'
  BY <1>1, <1>4, <1>5 DEF L!Actors
<1> QED
  BY ONLY LateInv, <1>1, <1>2, <1>4, <1>8, <1>9, <1>10, LateMoves

LEMMA LateConfirmStep ==
  ASSUME LateInv, NEW h \in Calls, L!Confirm(h)
  PROVE  LateInv'
<1>1. LateShape /\ h \in L!Actors /\ h # Worker
  BY WorkerIsApart DEF LateInv, L!Actors
<1>2. /\ at[h] = "confirm"
      /\ UNCHANGED <<hold, snap, due, grace, out, order, refunded, paid, taken>>
      /\ UNCHANGED <<events, seen, about>>
  BY DEF L!Confirm, L!money
<1>3. PICK step \in {"idle", "pay", "late"} :
        /\ L!GoTo(h, step)
        /\ committed' \in BOOLEAN /\ lock' \in BOOLEAN
        /\ latePast' = latePast \/ latePast' = latePast \cup {"failed"}
        /\ step = "pay" => hold = "live" /\ ~lock /\ lock'
        /\ lock => lock'
        /\ latePast' = {} /\ step = "late" => hold = "gone"
  <2>1. CASE (committed \/ lock \/ hold = "due") /\ L!GoTo(h, "idle")
             /\ UNCHANGED <<committed, lock, latePast>>
    BY <1>1, <2>1 DEF LateShape
  <2>2. CASE ~committed /\ ~lock /\ hold = "live" /\ lock' = TRUE /\ L!GoTo(h, "pay")
             /\ UNCHANGED <<committed, latePast>>
    BY <1>1, <2>2 DEF LateShape
  <2>3. CASE ~committed /\ ~lock /\ hold = "gone" /\ committed' = TRUE /\ L!Cleared(h)
             /\ UNCHANGED <<lock, latePast>>
    <3>1. L!GoTo(h, "idle") \/ L!GoTo(h, "late")
      BY <2>3 DEF L!Cleared
    <3> QED
      BY <1>1, <2>3, <3>1 DEF LateShape
  <2>4. CASE ~committed /\ ~lock /\ committed' = TRUE /\ L!Cleared(h) /\ L!Note("failed")
             /\ UNCHANGED lock
    <3>1. L!GoTo(h, "idle") \/ L!GoTo(h, "late")
      BY <2>4 DEF L!Cleared
    <3>2. latePast' = latePast \cup {"failed"}
      BY <2>4 DEF L!Note
    <3> QED
      BY <1>1, <2>4, <3>1, <3>2 DEF LateShape
  <2> QED
    BY <2>1, <2>2, <2>3, <2>4 DEF L!Confirm
<1>4. /\ at' \in [L!Actors -> Places] /\ at'[h] = step
      /\ \A b \in L!Actors \ {h} : at'[b] = at[b]
  BY <1>1, <1>3, LateGoes DEF Places
<1>5. LateShape'
  BY <1>1, <1>2, <1>3, <1>4 DEF LateShape
<1>6. ~Attempting(h) /\ ~Attempting(h)' /\ at'[h] \notin {"ask", "close"}
  BY <1>2, <1>4 DEF Attempting, L!Attempt
<1>7. at'[Worker] = at[Worker] /\ latePast \subseteq latePast'
  BY <1>1, <1>3, <1>4 DEF L!Actors
<1>8. /\ at'[h] = "pay" => lock' /\ ~lock /\ hold # "gone"
      /\ ~(lock /\ ~lock')
      /\ latePast' = {} /\ at'[h] = "late" => hold = "gone"
  BY <1>3, <1>4
<1> QED
  BY ONLY LateInv, <1>1, <1>2, <1>4, <1>5, <1>6, <1>7, <1>8, LateMoves

LEMMA LateConfirmPaidStep ==
  ASSUME LateInv, NEW h \in Calls, L!ConfirmPaid(h)
  PROVE  LateInv'
<1>1. LateShape /\ h \in L!Actors /\ h # Worker
  BY WorkerIsApart DEF LateInv, L!Actors
<1>2. /\ at[h] = "pay" /\ lock' = FALSE
      /\ UNCHANGED <<snap, due, grace, out, refunded, paid, taken, events, seen, about>>
  BY DEF L!ConfirmPaid, L!money
<1>3. PICK step \in {"idle", "late"} :
        /\ L!GoTo(h, step)
        /\ \/ /\ order' = TRUE /\ hold' = "gone" /\ committed' = TRUE
              /\ step = "idle" /\ latePast' = latePast
           \/ /\ UNCHANGED <<order, hold, committed>>
              /\ step = "idle" /\ latePast' = latePast
           \/ UNCHANGED <<order, hold, committed>> /\ latePast' = latePast \cup {"failed"}
  <2>1. CASE order' = TRUE /\ hold' = "gone" /\ committed' = TRUE /\ L!GoTo(h, "idle")
             /\ UNCHANGED latePast
    BY <2>1
  <2>2. CASE L!GoTo(h, "idle") /\ UNCHANGED <<order, hold, committed, latePast>>
    BY <2>2
  <2>3. CASE (L!GoTo(h, "idle") \/ L!Cleared(h)) /\ L!Note("failed")
             /\ UNCHANGED <<order, hold, committed>>
    <3>1. L!GoTo(h, "idle") \/ L!GoTo(h, "late")
      BY <2>3 DEF L!Cleared
    <3>2. latePast' = latePast \cup {"failed"}
      BY <2>3 DEF L!Note
    <3> QED
      BY <2>3, <3>1, <3>2
  <2> QED
    BY <2>1, <2>2, <2>3 DEF L!ConfirmPaid
<1>4. /\ at' \in [L!Actors -> Places] /\ at'[h] = step
      /\ \A b \in L!Actors \ {h} : at'[b] = at[b]
  BY <1>1, <1>3, LateGoes DEF Places
<1>5. LateShape'
  BY <1>1, <1>2, <1>3, <1>4 DEF LateShape
<1>6. BeforeGone' /\ TakenInAttempt'
  BY <1>1, <1>2, <1>3, <1>4 DEF LateInv, BeforeGone, TakenInAttempt, Attempting, L!Attempt
<1>7. ASSUME latePast' = {} PROVE LateFits'
  <2>1. LateFits /\ hold # "gone" /\ step = "idle"
    BY <1>1, <1>2, <1>3, <1>7 DEF LateInv, LateFits, OnePays
  <2>2. /\ out = Lines /\ ~snap /\ ~due /\ ~order /\ ~refunded
        /\ \A b \in L!Actors : ~Attempting(b) /\ at[b] \notin {"close", "late"}
    BY <2>1 DEF LateInv, BeforeGone, LateFits, Settled, AttemptFits
  <2>3. \A b \in L!Actors : ~Attempting(b)' /\ at'[b] \notin {"close", "late"}
    BY <1>4, <2>1, <2>2 DEF Attempting, L!Attempt
  <2>4. OnePays' /\ OneAttempts'
    BY <1>1, <1>2, <1>4, <2>1, <2>3 DEF LateFits, OnePays, OneAttempts
  <2>5. \A b \in L!Actors : AttemptFits(b)'
    BY <2>3 DEF AttemptFits, Attempting, L!Attempt
  <2>6. Settled'
    BY <1>2, <1>3, <2>1, <2>2, <2>3, <1>7 DEF Settled, L!Actors
  <2> QED
    BY <2>4, <2>5, <2>6 DEF LateFits
<1> QED
  BY <1>5, <1>6, <1>7 DEF LateInv

LEMMA LateDecidesStep ==
  ASSUME LateInv, NEW a \in L!Actors, L!Late(a)
  PROVE  LateInv'
<1>1. LateShape
  BY DEF LateInv
<1>2. /\ at[a] = "late"
      /\ UNCHANGED <<hold, snap, due, grace, out, order, refunded, paid, taken>>
      /\ UNCHANGED <<events, seen, about, lock, committed>>
      /\ latePast' = IF snap /\ L!Trying(a) THEN latePast \cup {"met"} ELSE latePast
  BY DEF L!Late, L!money, L!kept
<1>3. PICK step \in {"idle", "close", "refund", "reserve"} :
        /\ L!GoTo(a, step)
        /\ ~snap => step = (IF a = Worker THEN "close" ELSE "idle")
        /\ snap => step = (IF grace = "over" THEN "refund" ELSE "reserve")
  BY DEF L!Late, L!After
<1>4. /\ at' \in [L!Actors -> Places] /\ at'[a] = step
      /\ \A b \in L!Actors \ {a} : at'[b] = at[b]
  BY <1>1, <1>3, LateGoes DEF Places, L!Attempt
<1>5. LateShape'
  BY <1>1, <1>2, <1>3, <1>4 DEF LateShape
<1>6. latePast \subseteq latePast' /\ ~Attempting(a)
  BY <1>2 DEF Attempting, L!Attempt
<1>7. CASE ~snap
  <2>1. ~Attempting(a)' /\ at'[a] \notin {"ask", "late", "pay"} /\ (a # Worker => at'[a] = "idle")
    BY <1>3, <1>4, <1>7 DEF Attempting, L!Attempt
  <2>2. at'[a] = "close" => hold = "gone"
    BY <1>2, <2>1 DEF LateInv, BeforeGone
  <2>3. latePast' = {} /\ at'[Worker] = "close" /\ at[Worker] # "close" /\ L!First \in paid =>
          order \/ refunded
    <3>1. ASSUME latePast' = {} PROVE Settled /\ AttemptFits(a)
      BY <1>6, <3>1 DEF LateInv, LateFits
    <3> QED
      BY <1>2, <1>7, <3>1 DEF Settled, AttemptFits
  <2>4. at[Worker] = "close" => at'[Worker] = "close"
    BY <1>2, <1>4 DEF L!Actors
  <2> QED
    BY ONLY LateInv, a \in L!Actors, <1>2, <1>4, <1>5, <1>6, <2>1, <2>2, <2>3, <2>4, LateMoves
<1>8. CASE snap
  <2>1. hold = "gone" /\ step \in {"refund", "reserve"}
    BY <1>1, <1>3, <1>8 DEF LateInv, BeforeGone, LateShape
  <2>2. BeforeGone' /\ TakenInAttempt'
    BY <1>2, <1>4, <2>1 DEF LateInv, BeforeGone, TakenInAttempt
  <2>3. ASSUME latePast' = {} PROVE LateFits'
    <3>1. /\ LateFits
          /\ \A b \in L!Actors \ {a} : ~Attempting(b) /\ at[b] \notin {"pay", "close"}
      BY <1>2, <1>8, <2>3 DEF LateInv, L!Trying, Attempting
    <3>2. \A b \in L!Actors : ~Attempting(b)
      BY <1>6, <3>1
    <3>3. out = 0 /\ ~order
      BY <1>8, <2>1, <3>1, <3>2 DEF LateFits, Settled, Attempting, L!Attempt
    <3>4. grace # "over" => ~refunded
      BY <1>2, <1>8, <3>1 DEF LateFits, Settled, L!Actors
    <3>5. taken[a] = 0
      BY <1>2 DEF LateInv, TakenInAttempt
    <3>6. OnePays' /\ OneAttempts'
      BY <1>2, <1>4, <2>1, <3>1 DEF LateFits, OnePays, OneAttempts, Attempting
    <3>7. \A b \in L!Actors : AttemptFits(b)'
      BY <1>2, <1>3, <1>4, <1>8, <2>1, <3>1, <3>3, <3>4, <3>5
         DEF LateFits, AttemptFits, Attempting, L!Attempt
    <3>8. Attempting(a)' /\ at'[Worker] # "close"
      BY <1>4, <2>1, <3>1 DEF Attempting, L!Attempt, L!Actors
    <3>9. Settled'
      BY <1>2, <1>4, <1>8, <2>1, <3>1, <3>3, <3>4, <3>8, <1>3 DEF LateFits, Settled
    <3> QED
      BY <3>6, <3>7, <3>9 DEF LateFits
  <2> QED
    BY <1>5, <2>2, <2>3 DEF LateInv
<1> QED
  BY <1>7, <1>8

\* What holds of any step of an attempt, whatever else it does.
LEMMA AttemptMoves ==
  ASSUME LateInv, LateShape', NEW a \in L!Actors, Attempting(a),
         \A b \in L!Actors \ {a} : at'[b] = at[b] /\ taken'[b] = taken[b],
         hold' = hold,
         taken'[a] # 0 => at'[a] \in {"reserve", "order", "clean", "undo", "undoRefund"},
         latePast \subseteq latePast',
         latePast' = {} => LateFits'
  PROVE  LateInv'
<1>1. hold = "gone"
  BY DEF LateInv, BeforeGone
<1>2. BeforeGone' /\ TakenInAttempt'
  BY <1>1 DEF LateInv, BeforeGone, TakenInAttempt
<1> QED
  BY <1>2 DEF LateInv

LEMMA LateReserveStep ==
  ASSUME LateInv, NEW a \in L!Actors, L!Reserve(a)
  PROVE  LateInv'
<1>1. LateShape /\ at[a] = "reserve" /\ Attempting(a)
  BY DEF LateInv, L!Reserve, Attempting, L!Attempt
<1>2. UNCHANGED <<hold, snap, due, grace, order, refunded, paid, events, seen, about,
                  lock, committed>>
  BY DEF L!Reserve, L!money, L!kept
<1>3. PICK step \in {"reserve", "order", "undoRefund"} :
        /\ L!GoTo(a, step)
        /\ \/ /\ out' = out + 1 /\ taken' = [taken EXCEPT ![a] = @ + 1]
              /\ step = (IF taken[a] + 1 = Lines THEN "order" ELSE "reserve")
              /\ latePast' = latePast
           \/ /\ step = "undoRefund" /\ UNCHANGED <<out, taken>>
              /\ latePast' = latePast /\ a = Worker
           \/ /\ step = "undoRefund" /\ out' \in Int /\ UNCHANGED taken
              /\ \/ latePast' = latePast \cup {"failed"}
                 \/ latePast' = latePast \cup {"short"}
  <2>1. CASE /\ out + 1 <= Lines /\ out' = out + 1 /\ taken' = [taken EXCEPT ![a] = @ + 1]
             /\ L!GoTo(a, IF taken[a] + 1 = Lines THEN "order" ELSE "reserve")
             /\ UNCHANGED latePast
    BY <2>1
  <2>2. CASE /\ L!GoTo(a, "undoRefund") /\ UNCHANGED <<out, taken>>
             /\ latePast' = IF a = Worker THEN latePast ELSE latePast \cup {"short"}
    BY <1>1, <2>2 DEF LateShape
  <2>3. CASE /\ L!GoTo(a, "undoRefund") /\ L!Note("failed")
             /\ out' \in {out, out + 1} \cap 0..Lines /\ UNCHANGED taken
    <3>1. latePast' = latePast \cup {"failed"} /\ out' \in Int
      BY <2>3 DEF L!Note
    <3> QED
      BY <2>3, <3>1
  <2> QED
    BY <2>1, <2>2, <2>3 DEF L!Reserve
<1>4. /\ at' \in [L!Actors -> Places] /\ at'[a] = step
      /\ \A b \in L!Actors \ {a} : at'[b] = at[b]
  BY <1>1, <1>3, LateGoes DEF Places, L!Attempt
<1>5. /\ taken' \in [L!Actors -> Int] /\ out' \in Int
      /\ \A b \in L!Actors \ {a} : taken'[b] = taken[b]
  BY <1>1, <1>3 DEF LateShape
<1>6. LateShape'
  BY <1>1, <1>2, <1>3, <1>4, <1>5 DEF LateShape
<1>7. ASSUME latePast' = {} PROVE LateFits'
  <2>1. LateFits /\ latePast' = latePast
    BY <1>3, <1>7 DEF LateInv
  <2>2. /\ out = taken[a] /\ ~order /\ ~refunded /\ hold = "gone"
        /\ \A b \in L!Actors \ {a} : ~Attempting(b)
    BY <1>1, <2>1 DEF LateFits, AttemptFits, OneAttempts, LateInv, BeforeGone
  <2>3. Attempting(a)' /\ at'[a] \notin {"pay", "close", "late"}
    BY <1>3, <1>4 DEF Attempting, L!Attempt
  <2>4. /\ at'[a] \in {"reserve", "undoRefund"} => out' = taken'[a]
        /\ at'[a] = "order" => out' = Lines
        /\ at'[a] = "undoRefund" => a = Worker
    BY <1>1, <1>3, <1>4, <1>7, <2>2 DEF LateShape
  <2>5. OnePays' /\ OneAttempts'
    BY <1>2, <1>4, <2>1, <2>2, <2>3 DEF LateFits, OnePays, OneAttempts, Attempting
  <2>6. \A b \in L!Actors : AttemptFits(b)'
    <3>1. AttemptFits(a)'
      BY <1>2, <1>3, <1>4, <2>2, <2>4 DEF AttemptFits
    <3>2. ASSUME NEW b \in L!Actors \ {a} PROVE AttemptFits(b)'
      BY <1>2, <1>4, <2>1, <2>2, <3>2 DEF LateFits, AttemptFits, Attempting, L!Attempt
    <3> QED
      BY <3>1, <3>2
  <2>7. at'[Worker] = "close" => at[Worker] = "close"
    BY <1>4, <2>3 DEF L!Actors
  <2>8. Settled'
    BY <1>2, <2>1, <2>2, <2>3, <2>7 DEF LateFits, Settled
  <2> QED
    BY <2>5, <2>6, <2>8 DEF LateFits
<1>8. latePast \subseteq latePast' /\ hold' = hold
  BY <1>2, <1>3
<1>9. at'[a] \in {"reserve", "order", "clean", "undo", "undoRefund"}
  BY <1>3, <1>4
<1> QED
  BY ONLY LateInv, a \in L!Actors, <1>1, <1>4, <1>5, <1>6, <1>7, <1>8, <1>9, AttemptMoves

LEMMA LateOrderStep ==
  ASSUME LateInv, NEW a \in L!Actors, L!WriteOrder(a)
  PROVE  LateInv'
<1>1. LateShape /\ at[a] = "order" /\ Attempting(a)
  BY DEF LateInv, L!WriteOrder, Attempting, L!Attempt
<1>2. UNCHANGED <<hold, snap, due, grace, refunded, paid, events, seen, about, lock,
                  committed, out, taken>>
  BY DEF L!WriteOrder, L!money, L!kept
<1>3. PICK step \in {"clean", "undo"} :
        /\ L!GoTo(a, step)
        /\ \/ order' = TRUE /\ step = "clean" /\ latePast' = latePast
           \/ order' = order /\ latePast' = latePast \cup {"failed"}
  BY DEF L!WriteOrder, L!Note
<1>4. /\ at' \in [L!Actors -> Places] /\ at'[a] = step
      /\ \A b \in L!Actors \ {a} : at'[b] = at[b]
  BY <1>1, <1>3, LateGoes DEF Places, L!Attempt
<1>5. LateShape'
  BY <1>1, <1>2, <1>3, <1>4 DEF LateShape
<1>6. ASSUME latePast' = {} PROVE LateFits'
  <2>1. LateFits /\ order' = TRUE /\ step = "clean"
    BY <1>3, <1>6 DEF LateInv
  <2>2. /\ out = Lines /\ ~refunded /\ hold = "gone"
        /\ \A b \in L!Actors \ {a} : ~Attempting(b)
    BY <1>1, <2>1 DEF LateFits, AttemptFits, OneAttempts, LateInv, BeforeGone
  <2>3. OnePays' /\ OneAttempts'
    BY <1>2, <1>4, <2>1, <2>2 DEF LateFits, OnePays, OneAttempts, Attempting
  <2>4. \A b \in L!Actors : AttemptFits(b)'
    BY <1>2, <1>4, <2>1, <2>2 DEF LateFits, AttemptFits, Attempting, L!Attempt
  <2>5. at'[Worker] = "close" => at[Worker] = "close"
    BY <1>4, <2>1 DEF L!Actors
  <2>6. Settled'
    BY <1>2, <1>4, <2>1, <2>2, <2>5 DEF LateFits, Settled
  <2> QED
    BY <2>3, <2>4, <2>6 DEF LateFits
<1>7. latePast \subseteq latePast' /\ hold' = hold /\ taken' = taken
  BY <1>2, <1>3
<1>8. at'[a] \in {"reserve", "order", "clean", "undo", "undoRefund"}
  BY <1>3, <1>4
<1> QED
  BY ONLY LateInv, a \in L!Actors, <1>1, <1>4, <1>5, <1>6, <1>7, <1>8, AttemptMoves

LEMMA LateCleanStep ==
  ASSUME LateInv, NEW a \in L!Actors, L!Clean(a)
  PROVE  LateInv'
<1>1. LateShape /\ at[a] = "clean" /\ Attempting(a)
  BY DEF LateInv, L!Clean, Attempting, L!Attempt
<1>2. /\ UNCHANGED <<hold, grace, refunded, paid, events, seen, about, lock, out, order>>
      /\ taken' = [taken EXCEPT ![a] = 0] /\ L!GoTo(a, "idle")
      /\ \/ snap' = FALSE /\ due' = FALSE /\ committed' = TRUE /\ latePast' = latePast
         \/ UNCHANGED <<snap, due, committed>> /\ latePast' = latePast \cup {"failed"}
  BY DEF L!Clean, L!money, L!Note
<1>3. /\ at' \in [L!Actors -> Places] /\ at'[a] = "idle"
      /\ \A b \in L!Actors \ {a} : at'[b] = at[b]
  BY <1>1, <1>2, LateGoes DEF Places
<1>4. /\ taken' \in [L!Actors -> Int] /\ taken'[a] = 0
      /\ \A b \in L!Actors \ {a} : taken'[b] = taken[b]
  BY <1>1, <1>2 DEF LateShape
<1>5. LateShape'
  BY <1>1, <1>2, <1>3, <1>4 DEF LateShape
<1>6. ASSUME latePast' = {} PROVE LateFits'
  <2>1. LateFits /\ snap' = FALSE
    BY <1>2, <1>6 DEF LateInv
  <2>2. /\ out = Lines /\ order /\ ~refunded /\ hold = "gone"
        /\ \A b \in L!Actors \ {a} : ~Attempting(b)
    BY <1>1, <2>1 DEF LateFits, AttemptFits, OneAttempts, LateInv, BeforeGone
  <2>3. OnePays' /\ OneAttempts'
    BY <1>2, <1>3, <2>1, <2>2 DEF LateFits, OnePays, OneAttempts, Attempting, L!Attempt
  <2>4. \A b \in L!Actors : AttemptFits(b)'
    BY <1>2, <1>3, <2>1, <2>2 DEF LateFits, AttemptFits, Attempting, L!Attempt
  <2>5. Settled'
    BY <1>2, <2>1, <2>2 DEF Settled
  <2> QED
    BY <2>3, <2>4, <2>5 DEF LateFits
<1>7. latePast \subseteq latePast' /\ hold' = hold
  BY <1>2
<1> QED
  BY ONLY LateInv, a \in L!Actors, <1>1, <1>3, <1>4, <1>5, <1>6, <1>7, AttemptMoves

LEMMA LateUndoStep ==
  ASSUME LateInv, NEW a \in L!Actors, L!Undo(a)
  PROVE  LateInv'
<1>1. LateShape /\ at[a] \in {"undo", "undoRefund"} /\ Attempting(a)
  BY DEF LateInv, L!Undo, Attempting, L!Attempt
<1>2. /\ UNCHANGED <<hold, snap, due, grace, refunded, paid, events, seen, about, lock,
                     committed, order>>
      /\ taken' = [taken EXCEPT ![a] = 0]
      /\ \/ out' = out - taken[a] /\ latePast' = latePast
         \/ out' = out /\ latePast' = latePast \cup {"failed"}
  BY DEF L!Undo, L!money, L!kept, L!Note
<1>3. PICK step \in {"refund", "close", "idle"} :
        L!GoTo(a, step) /\ (at[a] = "undoRefund" => step = "refund")
  BY DEF L!Undo, L!After
<1>4. /\ at' \in [L!Actors -> Places] /\ at'[a] = step
      /\ \A b \in L!Actors \ {a} : at'[b] = at[b]
  BY <1>1, <1>3, LateGoes DEF Places, L!Attempt
<1>5. /\ taken' \in [L!Actors -> Int] /\ taken'[a] = 0 /\ out' \in Int
      /\ \A b \in L!Actors \ {a} : taken'[b] = taken[b]
  BY <1>1, <1>2 DEF LateShape
<1>6. LateShape'
  BY <1>1, <1>2, <1>3, <1>4, <1>5 DEF LateShape
<1>7. ASSUME latePast' = {} PROVE LateFits'
  <2>1. /\ LateFits /\ at[a] = "undoRefund" /\ a = Worker /\ step = "refund"
        /\ out' = out - taken[a]
    BY <1>1, <1>2, <1>3, <1>7 DEF LateInv, LateFits, AttemptFits
  <2>2. /\ out = taken[a] /\ ~order /\ ~refunded /\ hold = "gone"
        /\ \A b \in L!Actors \ {a} : ~Attempting(b)
    BY <1>1, <2>1 DEF LateFits, AttemptFits, OneAttempts, LateInv, BeforeGone
  <2>3. out' = 0
    BY <1>1, <2>1, <2>2 DEF LateShape
  <2>4. OnePays' /\ OneAttempts'
    BY <1>2, <1>4, <2>1, <2>2 DEF LateFits, OnePays, OneAttempts, Attempting
  <2>5. \A b \in L!Actors : AttemptFits(b)'
    BY <1>2, <1>4, <2>1, <2>2, <2>3 DEF LateFits, AttemptFits, Attempting, L!Attempt
  <2>6. Attempting(a)' /\ at'[Worker] # "close"
    BY <1>4, <2>1 DEF Attempting, L!Attempt
  <2>7. Settled'
    BY <1>2, <1>4, <2>1, <2>2, <2>6 DEF LateFits, Settled
  <2> QED
    BY <2>4, <2>5, <2>7 DEF LateFits
<1>8. latePast \subseteq latePast' /\ hold' = hold
  BY <1>2
<1> QED
  BY ONLY LateInv, a \in L!Actors, <1>1, <1>4, <1>5, <1>6, <1>7, <1>8, AttemptMoves

LEMMA LateRefundStep ==
  ASSUME LateInv, NEW a \in L!Actors, L!Refund(a)
  PROVE  LateInv'
<1>1. LateShape /\ at[a] = "refund" /\ Attempting(a)
  BY DEF LateInv, L!Refund, Attempting, L!Attempt
<1>2. /\ UNCHANGED <<hold, snap, due, grace, paid, events, seen, about, lock,
                     committed, order, out, taken>>
      /\ \/ refunded' = TRUE /\ latePast' = latePast
         \/ refunded' = refunded /\ latePast' = latePast \cup {"failed"}
  BY DEF L!Refund, L!kept, L!Note
<1>3. PICK step \in {"close", "idle"} :
        L!GoTo(a, step) /\ (a = Worker => step = "close")
  BY DEF L!Refund, L!After
<1>4. /\ at' \in [L!Actors -> Places] /\ at'[a] = step
      /\ \A b \in L!Actors \ {a} : at'[b] = at[b]
  BY <1>1, <1>3, LateGoes DEF Places
<1>5. LateShape'
  BY <1>1, <1>2, <1>3, <1>4 DEF LateShape
<1>6. taken[a] = 0
  BY <1>1 DEF LateInv, TakenInAttempt
<1>7. ASSUME latePast' = {} PROVE LateFits'
  <2>1. LateFits /\ refunded' = TRUE
    BY <1>2, <1>7 DEF LateInv
  <2>2. /\ out = 0 /\ ~order /\ hold = "gone" /\ (a = Worker \/ grace = "over")
        /\ \A b \in L!Actors \ {a} : ~Attempting(b)
    BY <1>1, <2>1 DEF LateFits, AttemptFits, OneAttempts, LateInv, BeforeGone
  <2>3. OnePays' /\ OneAttempts'
    BY <1>2, <1>4, <2>1, <2>2 DEF LateFits, OnePays, OneAttempts, Attempting
  <2>4. \A b \in L!Actors : AttemptFits(b)'
    BY <1>2, <1>4, <2>1, <2>2 DEF LateFits, AttemptFits, Attempting, L!Attempt
  <2>5. Settled'
    BY <1>2, <1>3, <1>4, <2>1, <2>2 DEF LateFits, Settled
  <2> QED
    BY <2>3, <2>4, <2>5 DEF LateFits
<1>8. latePast \subseteq latePast' /\ hold' = hold /\ taken' = taken
  BY <1>2
<1> QED
  BY ONLY LateInv, a \in L!Actors, <1>1, <1>4, <1>5, <1>6, <1>7, <1>8, AttemptMoves

LEMMA LateDieStep ==
  ASSUME LateInv, NEW a \in L!Actors, L!Die(a)
  PROVE  LateInv'
<1>1. LateShape
  BY DEF LateInv
<1>2. /\ UNCHANGED <<hold, snap, due, committed, grace, out, order, refunded, paid, seen, about>>
      /\ L!GoTo(a, "idle")
      /\ taken' = [taken EXCEPT ![a] = 0]
      /\ lock' = (lock /\ at[a] # "pay")
      /\ latePast' = IF at[a] \in {"dedupe", "ask"} THEN latePast ELSE latePast \cup {"failed"}
  BY DEF L!Die, L!kept
<1>3. events' \subseteq Intents
  BY <1>1 DEF L!Die, LateShape
<1>4. /\ at' \in [L!Actors -> Places] /\ at'[a] = "idle"
      /\ \A b \in L!Actors \ {a} : at'[b] = at[b]
  BY <1>1, <1>2, LateGoes DEF Places
<1>5. /\ taken' \in [L!Actors -> Int] /\ taken'[a] = 0
      /\ \A b \in L!Actors \ {a} : taken'[b] = taken[b]
  BY <1>1, <1>2 DEF LateShape
<1>6. LateShape'
  BY <1>1, <1>2, <1>3, <1>4, <1>5 DEF LateShape
<1>7. BeforeGone' /\ TakenInAttempt'
  BY <1>2, <1>4, <1>5 DEF LateInv, BeforeGone, TakenInAttempt, Attempting, L!Attempt
<1>8. CASE at[a] \in {"dedupe", "ask"}
  <2>1. taken[a] = 0
    BY <1>8 DEF LateInv, TakenInAttempt
  <2>2. taken' = taken /\ latePast' = latePast /\ lock' = lock
    BY <1>1, <1>2, <1>8, <2>1 DEF LateShape
  <2>3. ~Attempting(a) /\ ~Attempting(a)' /\ at[a] # "close" /\ latePast \subseteq latePast'
    BY <1>4, <1>8, <2>2 DEF Attempting, L!Attempt
  <2>4. at'[Worker] = "close" <=> at[Worker] = "close"
    BY <1>4, <2>3 DEF L!Actors
  <2> QED
    BY ONLY LateInv, a \in L!Actors, <1>2, <1>4, <1>6, <2>2, <2>3, <2>4, LateMoves
<1>9. CASE at[a] \notin {"dedupe", "ask"}
  BY <1>2, <1>6, <1>7, <1>9 DEF LateInv
<1> QED
  BY <1>8, <1>9

LEMMA WorkerTickStep ==
  ASSUME LateInv, L!WorkerTick
  PROVE  LateInv'
<1>1. LateShape /\ Worker \in L!Actors
  BY DEF LateInv, L!Actors
<1>2. /\ UNCHANGED <<hold, snap, committed, grace, lock, out, order, refunded, paid, events,
                     seen, about, taken, latePast>>
      /\ at[Worker] = "idle" /\ due
  BY DEF L!WorkerTick, L!money
<1>3. CASE snap
  <2>1. L!GoTo(Worker, "ask") /\ due' = due /\ hold = "gone"
    BY <1>3 DEF L!WorkerTick, LateInv, BeforeGone
  <2>2. /\ at' \in [L!Actors -> Places] /\ at'[Worker] = "ask"
        /\ \A b \in L!Actors \ {Worker} : at'[b] = at[b]
    BY <1>1, <2>1, LateGoes DEF Places
  <2>3. LateShape'
    BY <1>1, <1>2, <2>1, <2>2 DEF LateShape
  <2>4. ~Attempting(Worker) /\ ~Attempting(Worker)' /\ latePast \subseteq latePast'
    BY <1>2, <2>2 DEF Attempting, L!Attempt
  <2> QED
    BY ONLY LateInv, <1>1, <1>2, <2>1, <2>2, <2>3, <2>4, LateMoves
<1>4. CASE ~snap
  <2>1. at' = at /\ due' = FALSE
    BY <1>4 DEF L!WorkerTick
  <2>2. LateShape'
    BY <1>1, <1>2, <2>1 DEF LateShape
  <2>3. BeforeGone' /\ TakenInAttempt'
    BY <1>2, <2>1 DEF LateInv, BeforeGone, TakenInAttempt, Attempting
  <2>4. LateFits => LateFits'
    BY <1>2, <1>4, <2>1 DEF LateFits, OnePays, OneAttempts, Settled, AttemptFits, Attempting
  <2> QED
    BY <1>2, <2>2, <2>3, <2>4 DEF LateInv
<1> QED
  BY <1>3, <1>4

LEMMA WorkerAsksStep ==
  ASSUME LateInv, L!WorkerAsks
  PROVE  LateInv'
<1>1. LateShape /\ Worker \in L!Actors
  BY DEF LateInv, L!Actors
<1>2. /\ UNCHANGED <<hold, snap, due, committed, grace, lock, out, order, refunded, paid,
                     events, seen, about, taken>>
      /\ at[Worker] = "ask"
  BY DEF L!WorkerAsks, L!kept, L!money
<1>3. PICK step \in {"late", "close"} :
        /\ L!GoTo(Worker, step)
        /\ \/ latePast' = latePast /\ (step = "close" => L!First \notin paid)
           \/ latePast' = latePast \cup {"failed"}
  BY DEF L!WorkerAsks, L!Note
<1>4. hold = "gone"
  BY <1>1, <1>2 DEF LateInv, BeforeGone
<1>5. /\ at' \in [L!Actors -> Places] /\ at'[Worker] = step
      /\ \A b \in L!Actors \ {Worker} : at'[b] = at[b]
  BY <1>1, <1>3, LateGoes DEF Places
<1>6. LateShape'
  BY <1>1, <1>2, <1>3, <1>5 DEF LateShape
<1>7. ~Attempting(Worker) /\ ~Attempting(Worker)' /\ latePast \subseteq latePast'
  BY <1>2, <1>3, <1>5 DEF Attempting, L!Attempt
<1>8. /\ at'[Worker] # "pay" /\ at[Worker] # "close"
      /\ latePast' = {} /\ at'[Worker] = "close" => L!First \notin paid
  BY <1>2, <1>3, <1>5
<1> QED
  BY ONLY LateInv, <1>1, <1>2, <1>4, <1>5, <1>6, <1>7, <1>8, LateMoves

LEMMA WorkerClosesStep ==
  ASSUME LateInv, L!WorkerCloses
  PROVE  LateInv'
<1>1. LateShape /\ Worker \in L!Actors
  BY DEF LateInv, L!Actors
<1>2. /\ UNCHANGED <<hold, committed, grace, lock, out, order, refunded, paid,
                     events, seen, about, taken>>
      /\ at[Worker] = "close" /\ L!GoTo(Worker, "idle")
      /\ \/ snap' = FALSE /\ due' = FALSE /\ latePast' = latePast
         \/ UNCHANGED <<snap, due>> /\ latePast' = latePast \cup {"failed"}
  BY DEF L!WorkerCloses, L!money, L!Note
<1>3. hold = "gone"
  BY <1>1, <1>2 DEF LateInv, BeforeGone
<1>4. /\ at' \in [L!Actors -> Places] /\ at'[Worker] = "idle"
      /\ \A b \in L!Actors \ {Worker} : at'[b] = at[b]
  BY <1>1, <1>2, LateGoes DEF Places
<1>5. LateShape'
  BY <1>1, <1>2, <1>4 DEF LateShape
<1>6. BeforeGone' /\ TakenInAttempt'
  BY <1>2, <1>3, <1>4 DEF LateInv, BeforeGone, TakenInAttempt, Attempting, L!Attempt
<1>7. ASSUME latePast' = {} PROVE LateFits'
  <2>1. LateFits /\ snap' = FALSE
    BY <1>2, <1>7 DEF LateInv
  <2>2. \A b \in L!Actors : Attempting(b)' <=> Attempting(b)
    BY <1>2, <1>4 DEF Attempting, L!Attempt
  <2>3. OnePays' /\ OneAttempts'
    BY <1>2, <1>4, <2>1, <2>2 DEF LateFits, OnePays, OneAttempts
  <2>4. \A b \in L!Actors : AttemptFits(b)'
    BY <1>2, <1>4, <2>1 DEF LateFits, AttemptFits
  <2>5. Settled'
    BY <1>2, <1>3, <2>1, <2>2 DEF LateFits, Settled
  <2> QED
    BY <2>3, <2>4, <2>5 DEF LateFits
<1> QED
  BY <1>5, <1>6, <1>7 DEF LateInv

LEMMA LateStep == LateInv /\ L!Next => LateInv'
BY LateWorldStep, LateReceiveStep, LateConfirmStep, LateConfirmPaidStep, LateDecidesStep,
   LateReserveStep, LateOrderStep, LateCleanStep, LateUndoStep, LateRefundStep, LateDieStep,
   WorkerTickStep, WorkerAsksStep, WorkerClosesStep DEF L!Next

LEMMA LateKept == LateInv /\ UNCHANGED lVars => LateInv'
BY DEF LateInv, lVars, LateShape, BeforeGone, TakenInAttempt, LateFits, OnePays, OneAttempts,
   Settled, AttemptFits, Attempting

LEMMA OnlyLate ==
  ASSUME [NextRecords]_allVars, LateCommit \/ LateCommit'
  PROVE  LateCommit /\ (L!Next \/ UNCHANGED lVars)
BY DEF NextRecords, allVars, Refunds, Payments, PaymentMethods, Organizer, Checkout, LateCommit

LEMMA LateAlways == SpecRecords => [](LateCommit => LateInv)
<1>1. InitRecords => LateInv
  BY LateInit DEF InitRecords
<1>2. (LateCommit => LateInv) /\ [NextRecords]_allVars => (LateCommit => LateInv)'
  BY OnlyLate, LateStep, LateKept
<1> QED
  BY <1>1, <1>2, PTL DEF SpecRecords

\* However the end of a hold, the grace window, payment events, requests and the
\* auto-cancel worker fall together, a paid reservation is ordered or refunded
\* and not both, with its units out of the stock exactly if it was ordered; for
\* any number of handlers, intents and lines, but for what past names
\* (attemptLateCommitFromSnapshot, reservation.service.js:1026).
THEOREM PaymentsAreSettledOnce == SpecRecords => []SettledOnce
<1>1. ASSUME LateInv PROVE L!SettledOnce
  <2>1. SUFFICES ASSUME L!Over, latePast = {}
                 PROVE  /\ ~(order /\ refunded)
                        /\ out = (IF order THEN Lines ELSE 0)
                        /\ L!First \in paid => order \/ refunded
    BY DEF L!SettledOnce
  <2>2. hold = "gone" /\ ~due /\ \A a \in L!Actors : at[a] = "idle"
    BY <2>1 DEF L!Over
  <2>3. Settled /\ \A a \in L!Actors : ~Attempting(a)
    BY <1>1, <2>1, <2>2 DEF LateInv, LateFits, Attempting, L!Attempt
  <2> QED
    BY <2>2, <2>3 DEF Settled
<1>2. (LateCommit => LateInv) => SettledOnce
  BY <1>1 DEF SettledOnce
<1> QED
  BY LateAlways, <1>2, PTL

-----------------------------------------------------------------------------
(***************************************************************************)
(* The checkout page.  Nothing is polled while a page loads or looks at    *)
(* what is stored; once it has loaded and shows a code, all it polls is    *)
(* that of the payment that is stored, and before it creates another one   *)
(* the polling has ended.                                                  *)
(***************************************************************************)
Quiet(page) == page.flights = {} /\ ~page.pending /\ page.stopped /\ page.timer = NoTx

\* A page on its way to load "yes", and one that is there.
Arriving(page) ==
  /\ page.load \in {"loading", "failed", "checking"} =>
       /\ Quiet(page) /\ page.making = "no" /\ page.loose = {}
       /\ page.phase \in {"idle", "awaiting"}
       /\ page.phase = "idle" <=> page.tx = NoTx
  /\ page.load \in {"loading", "checking"} => page.tx = stored
  /\ page.load = "checking" => page.tx # NoTx
Arrived(page) ==
  /\ page.phase \in {"idle", "success", "creating"} => Quiet(page)
  /\ page.phase = "awaiting" =>
       /\ page.tx # NoTx /\ stored = page.tx /\ ~page.stopped
       /\ page.timer \in {page.tx, NoTx}
       /\ page.flights \cup page.loose \subseteq {page.tx}
       /\ page.pending <=> page.flights # {}
       /\ page.pending \/ page.timer = page.tx
PageFits(page) ==
  /\ page.load # "no"
  /\ Arriving(page)
  /\ page.load = "yes" => Arrived(page)
  /\ page.making # "no" => page.phase = "creating"
  /\ page.making = "answered" => page.made # NoTx

OneOpen == \A v, w \in C!Open : v = w
LeftRest == \A v \in Calls : visit[v].open \/ visit[v].load = "no"
PagesFit == history = {} => \A v \in C!Open : PageFits(visit[v])

\* The types of C!TypeOK, apart.
CheckoutShape ==
  /\ server \in [Txs -> C!Final \cup {"none", "PENDING", "gone"}]
  /\ lapsed \subseteq Txs
  /\ stored \in Txs \cup {NoTx}
  /\ history \subseteq {"lapsed", "late", "loose"}

CheckoutInv == C!TypeOK /\ OneOpen /\ LeftRest /\ PagesFit

LEMMA CheckoutInit == C!Init => CheckoutInv
<1> SUFFICES ASSUME C!Init PROVE CheckoutInv
  OBVIOUS
<1>1. C!Closed \in C!VisitType /\ ~C!Closed.open /\ C!Closed.load = "no"
  BY DEF C!Closed, C!VisitType
<1>2. C!TypeOK
  BY <1>1 DEF C!Init, C!TypeOK
<1>3. C!Open = {} /\ LeftRest
  BY <1>1 DEF C!Init, C!Open, LeftRest
<1> QED
  BY <1>2, <1>3 DEF CheckoutInv, OneOpen, PagesFit

\* A page becomes another one: what it has to fit, and what the others have.
LEMMA PageBecomes ==
  ASSUME CheckoutInv, NEW v \in Calls, NEW page \in C!VisitType, C!Becomes(v, page),
         CheckoutShape',
         page.open => visit[v].open \/ C!Open = {},
         page.open \/ page.load = "no",
         history' = {} => /\ history = {}
                          /\ page.open => PageFits(page)'
                          /\ stored' # stored => visit[v].open
  PROVE  CheckoutInv'
<1>1. /\ visit \in [Calls -> C!VisitType]
      /\ visit' = [visit EXCEPT ![v] = page]
  BY DEF CheckoutInv, C!TypeOK, C!Becomes
<1>2. C!TypeOK'
  BY <1>1 DEF C!TypeOK, CheckoutShape
<1>3. /\ \A w \in Calls \ {v} : visit'[w] = visit[w]
      /\ visit'[v] = page
  BY <1>1
<1>4. \A w \in C!Open' : w \in C!Open \/ (w = v /\ C!Open = {})
  BY <1>1, <1>3 DEF C!Open
<1>5. OneOpen' /\ LeftRest'
  BY <1>3, <1>4 DEF CheckoutInv, OneOpen, LeftRest
<1>6. ASSUME history' = {}, NEW w \in C!Open' PROVE PageFits(visit[w])'
  <2>1. CASE w = v
    BY <1>3, <1>6, <2>1 DEF C!Open
  <2>2. CASE w # v
    <3>1. w \in C!Open /\ v \notin C!Open
      BY <1>4, <2>2 DEF CheckoutInv, OneOpen
    <3>2. stored' = stored /\ visit'[w] = visit[w]
      BY <1>3, <1>6, <2>2, <3>1 DEF C!Open
    <3>3. PageFits(visit[w])
      BY <1>6, <3>1 DEF CheckoutInv, PagesFit
    <3> QED
      BY <3>2, <3>3 DEF PageFits, Arriving, Arrived, Quiet
  <2> QED
    BY <2>1, <2>2
<1> QED
  BY <1>2, <1>5, <1>6 DEF CheckoutInv, PagesFit

LEMMA PageIs ==
  ASSUME CheckoutInv, NEW v \in Calls
  PROVE  \E p \in C!VisitType : /\ p = visit[v]
                                /\ p.open \/ p.load = "no"
                                /\ history = {} /\ p.open => PageFits(p)
BY DEF CheckoutInv, C!TypeOK, LeftRest, PagesFit, C!Open

LEMMA VisitStep ==
  ASSUME CheckoutInv, NEW v \in Calls, C!Visit(v)
  PROVE  CheckoutInv'
<1>1. CheckoutShape /\ UNCHANGED <<server, lapsed, stored, history>>
  BY DEF CheckoutInv, C!TypeOK, CheckoutShape, C!Visit
<1>2. CheckoutShape'
  BY <1>1 DEF CheckoutShape
<1>3. PICK page \in C!VisitType :
        /\ C!Becomes(v, page)
        /\ page = [C!Closed EXCEPT !.open = TRUE, !.load = "loading", !.tx = stored,
                     !.phase = IF stored = NoTx THEN "idle" ELSE "awaiting"]
  <2>1. [C!Closed EXCEPT !.open = TRUE, !.load = "loading", !.tx = stored,
           !.phase = IF stored = NoTx THEN "idle" ELSE "awaiting"] \in C!VisitType
    BY <1>1 DEF C!Closed, C!VisitType, CheckoutShape
  <2> QED
    BY <2>1 DEF C!Visit
<1>4. PageFits(page)
  BY <1>3 DEF C!Closed, PageFits, Arriving, Quiet
<1>5. PageFits(page)'
  BY <1>1, <1>4 DEF PageFits, Arriving, Arrived, Quiet
<1>6. C!Open = {} /\ page.open
  BY <1>3 DEF C!Visit, C!Closed
<1> QED
  BY ONLY CheckoutInv, v \in Calls, <1>1, <1>2, <1>3, <1>5, <1>6, PageBecomes

LEMMA LoadStep ==
  ASSUME CheckoutInv, NEW v \in Calls, C!Load(v) \/ C!LoadFails(v)
  PROVE  CheckoutInv'
<1>1. CheckoutShape /\ UNCHANGED <<server, lapsed>>
  BY DEF CheckoutInv, C!TypeOK, CheckoutShape, C!Load, C!LoadFails
<1>2. PICK p \in C!VisitType : /\ p = visit[v]
                               /\ p.open \/ p.load = "no"
                               /\ history = {} /\ p.open => PageFits(p)
  BY PageIs
<1>3. p.load = "loading" /\ p.open
  BY <1>2 DEF C!Load, C!LoadFails
<1>4. PICK page \in C!VisitType :
        /\ C!Becomes(v, page)
        /\ \/ /\ page = [p EXCEPT !.load = "yes"]
              /\ \/ stored = NoTx /\ UNCHANGED <<stored, history>>
                 \/ stored' = NoTx /\ history' = history \cup {"lapsed"}
           \/ /\ page = [p EXCEPT !.load = "checking", !.tx = stored, !.phase = "awaiting"]
              /\ stored # NoTx /\ UNCHANGED <<stored, history>>
           \/ page = [p EXCEPT !.load = "failed"] /\ UNCHANGED <<stored, history>>
  <2>1. /\ [p EXCEPT !.load = "yes"] \in C!VisitType
        /\ [p EXCEPT !.load = "checking", !.tx = stored, !.phase = "awaiting"] \in C!VisitType
        /\ [p EXCEPT !.load = "failed"] \in C!VisitType
    BY ZenonT(60), <1>1, <1>2 DEF C!VisitType, CheckoutShape
  <2>2. CASE C!LoadFails(v)
    BY <1>2, <2>1, <2>2 DEF C!LoadFails
  <2>3. CASE C!Load(v)
    <3>1. CASE stored = NoTx
      BY <1>1, <1>2, <2>1, <2>3, <3>1, NoTxIsNone DEF C!Load, CheckoutShape
    <3>2. CASE stored # NoTx /\ stored \in lapsed
      BY <1>2, <2>1, <2>3, <3>2 DEF C!Load
    <3>3. CASE stored # NoTx /\ stored \notin lapsed
      BY <1>2, <2>1, <2>3, <3>3 DEF C!Load
    <3> QED
      BY <3>1, <3>2, <3>3
  <2> QED
    BY <2>2, <2>3
<1>5. CheckoutShape' /\ page.open
  BY ZenonT(60), <1>1, <1>2, <1>3, <1>4 DEF CheckoutShape, C!VisitType
<1>6. ASSUME history' = {} PROVE history = {} /\ PageFits(page)'
  <2>1. history = {} /\ stored' = stored
    BY <1>4, <1>6
  <2>2. PageFits(p)
    BY <1>2, <1>3, <2>1
  <2>3. PageFits(page)
    <3>1. /\ page.making = p.making /\ page.made = p.made /\ page.loose = p.loose
          /\ page.flights = p.flights /\ page.pending = p.pending
          /\ page.stopped = p.stopped /\ page.timer = p.timer
          /\ \/ /\ page.load = "yes" /\ page.phase = p.phase /\ page.tx = p.tx /\ stored = NoTx
             \/ /\ page.load = "checking" /\ page.phase = "awaiting" /\ page.tx = stored
                /\ stored # NoTx
             \/ /\ page.load = "failed" /\ page.phase = p.phase /\ page.tx = p.tx
      <4>1. CASE page = [p EXCEPT !.load = "yes"] /\ stored = NoTx
        BY <4>1 DEF C!VisitType
      <4>2. CASE /\ page = [p EXCEPT !.load = "checking", !.tx = stored, !.phase = "awaiting"]
                 /\ stored # NoTx
        BY <4>2 DEF C!VisitType
      <4>3. CASE page = [p EXCEPT !.load = "failed"]
        BY <4>3 DEF C!VisitType
      <4> QED
        BY <1>4, <1>6, <4>1, <4>2, <4>3
    <3>2. /\ Quiet(p) /\ p.making = "no" /\ p.loose = {} /\ p.tx = stored
          /\ p.phase \in {"idle", "awaiting"}
          /\ p.phase = "idle" <=> p.tx = NoTx
      BY <1>3, <2>2 DEF PageFits, Arriving
    <3> QED
      BY ONLY <3>1, <3>2 DEF PageFits, Arriving, Arrived, Quiet
  <2> QED
    BY <2>1, <2>3 DEF PageFits, Arriving, Arrived, Quiet
<1>7. visit[v].open
  BY <1>2, <1>3
<1> QED
  BY ONLY CheckoutInv, v \in Calls, <1>4, <1>5, <1>6, <1>7, PageBecomes

\* What the operators on pages change of one, and what they leave.
Phases == {"idle", "creating", "awaiting", "success"}
SameRequests(q, p) == q.making = p.making /\ q.made = p.made
SamePolling(q, p) == /\ q.stopped = p.stopped /\ q.pending = p.pending /\ q.timer = p.timer
                     /\ q.loose = p.loose /\ q.flights = p.flights
SameScreen(q, p) == q.open = p.open /\ q.load = p.load /\ q.phase = p.phase /\ q.tx = p.tx

LEMMA ShowsIs ==
  ASSUME NEW p \in C!VisitType, NEW f \in Phases, NEW t \in Txs \cup {NoTx}
  PROVE  /\ C!Shows(p, f, t) \in C!VisitType
         /\ SameRequests(C!Shows(p, f, t), p) /\ SamePolling(C!Shows(p, f, t), p)
         /\ C!Shows(p, f, t).open = p.open /\ C!Shows(p, f, t).load = p.load
         /\ p.open => C!Shows(p, f, t).phase = f /\ C!Shows(p, f, t).tx = t
         /\ ~p.open => C!Shows(p, f, t) = p
<1>1. CASE p.open
  BY <1>1 DEF C!Shows, C!VisitType, Phases, SameRequests, SamePolling
<1>2. CASE ~p.open
  BY <1>2 DEF C!Shows, SameRequests, SamePolling
<1> QED
  BY <1>1, <1>2

LEMMA StopPollingIs ==
  ASSUME NEW p \in C!VisitType
  PROVE  /\ C!StopPolling(p) \in C!VisitType
         /\ SameScreen(C!StopPolling(p), p) /\ SameRequests(C!StopPolling(p), p)
         /\ C!StopPolling(p).stopped /\ ~C!StopPolling(p).pending
         /\ C!StopPolling(p).timer = NoTx
         /\ C!StopPolling(p).loose = p.loose /\ C!StopPolling(p).flights = p.flights
BY DEF C!StopPolling, C!VisitType, SameScreen, SameRequests

LEMMA BeginPollingIs ==
  ASSUME NEW p \in C!VisitType, NEW t \in Txs \cup {NoTx}
  PROVE  /\ C!BeginPolling(p, t) \in C!VisitType
         /\ SameScreen(C!BeginPolling(p, t), p) /\ SameRequests(C!BeginPolling(p, t), p)
         /\ ~C!BeginPolling(p, t).stopped /\ ~C!BeginPolling(p, t).pending
         /\ C!BeginPolling(p, t).timer = t
         /\ C!BeginPolling(p, t).loose = p.loose /\ C!BeginPolling(p, t).flights = p.flights
BY DEF C!BeginPolling, C!StopPolling, C!VisitType, SameScreen, SameRequests

LEMMA AgainIs ==
  ASSUME NEW p \in C!VisitType, NEW t \in Txs
  PROVE  /\ C!Again(p, t) \in C!VisitType
         /\ SameScreen(C!Again(p, t), p) /\ SameRequests(C!Again(p, t), p)
         /\ C!Again(p, t).stopped = p.stopped /\ ~C!Again(p, t).pending
         /\ C!Again(p, t).timer = t /\ C!Again(p, t).flights = p.flights
         /\ C!Again(p, t).loose \subseteq p.loose \cup ({p.timer} \ {NoTx})
BY DEF C!Again, C!VisitType, SameScreen, SameRequests

LEMMA CheckStep ==
  ASSUME CheckoutInv, NEW v \in Calls, C!Check(v) \/ C!CheckFails(v)
  PROVE  CheckoutInv'
<1>1. CheckoutShape /\ UNCHANGED <<server, lapsed, history>>
  BY DEF CheckoutInv, C!TypeOK, CheckoutShape, C!Check, C!CheckFails
<1>2. PICK p \in C!VisitType : /\ p = visit[v]
                               /\ p.open \/ p.load = "no"
                               /\ history = {} /\ p.open => PageFits(p)
  BY PageIs
<1>3. p.load = "checking" /\ p.open
  BY <1>2 DEF C!Check, C!CheckFails
<1>4. PICK q \in C!VisitType : /\ q = C!Checked(v) /\ q.load = "yes" /\ q.open
                               /\ SameRequests(q, p) /\ SamePolling(q, p) /\ q.tx = p.tx
                               /\ q.phase = p.phase
  <2>1. C!Checked(v) = [p EXCEPT !.load = "yes"]
    BY <1>2 DEF C!Checked
  <2> QED
    BY <1>3, <2>1 DEF C!VisitType, SameRequests, SamePolling
<1>5. PICK t \in Txs \cup {NoTx} : t = p.tx
  BY DEF C!VisitType
<1>6. PICK page \in C!VisitType :
        /\ C!Becomes(v, page)
        /\ \/ page = C!BeginPolling(q, t) /\ stored' \in {t, stored}
           \/ page = C!StopPolling(C!Shows(q, "success", t)) /\ stored' = NoTx
           \/ page = C!Shows(q, "idle", NoTx) /\ stored' = NoTx
  <2>1. /\ C!BeginPolling(q, t) \in C!VisitType
        /\ C!StopPolling(C!Shows(q, "success", t)) \in C!VisitType
        /\ C!Shows(q, "idle", NoTx) \in C!VisitType
    BY ShowsIs, StopPollingIs, BeginPollingIs DEF Phases
  <2> QED
    BY <1>2, <1>4, <1>5, <2>1 DEF C!Check, C!CheckFails
<1>7. CheckoutShape'
  BY <1>1, <1>6 DEF CheckoutShape
<1>8. /\ page.open /\ page.load = "yes" /\ SameRequests(page, q)
      /\ page.flights = q.flights /\ page.loose = q.loose
      /\ \/ /\ page.phase = q.phase /\ page.tx = t /\ stored' \in {t, stored}
            /\ ~page.stopped /\ ~page.pending /\ page.timer = t
         \/ /\ page.phase \in {"idle", "success"} /\ page.stopped = TRUE /\ page.timer = NoTx
            /\ ~page.pending
         \/ page.phase = "idle" /\ SamePolling(page, q)
  <2> "success" \in Phases /\ "idle" \in Phases /\ NoTx \in Txs \cup {NoTx}
    BY DEF Phases
  <2>1. PICK s \in C!VisitType : /\ s = C!Shows(q, "success", t) /\ SameRequests(s, q)
                                 /\ SamePolling(s, q) /\ s.open /\ s.load = "yes"
                                 /\ s.phase = "success"
    BY <1>4, ShowsIs
  <2>2. CASE page = C!BeginPolling(q, t) /\ stored' \in {t, stored}
    BY <1>4, <1>5, <2>2, BeginPollingIs DEF SameScreen
  <2>3. CASE page = C!StopPolling(s)
    BY <2>1, <2>3, StopPollingIs DEF SameScreen, SameRequests, SamePolling
  <2>4. CASE page = C!Shows(q, "idle", NoTx)
    BY <1>4, <2>4, ShowsIs DEF SamePolling
  <2> QED
    BY <1>6, <2>1, <2>2, <2>3, <2>4
<1>9. ASSUME history' = {} PROVE history = {} /\ PageFits(page)'
  <2>1. history = {} /\ PageFits(p)
    BY <1>1, <1>2, <1>3, <1>9
  <2>2. /\ Quiet(q) /\ q.making = "no" /\ q.loose = {} /\ t = stored /\ t # NoTx
        /\ q.phase = "awaiting"
    BY <1>3, <1>4, <1>5, <2>1 DEF PageFits, Arriving, Quiet, SameRequests, SamePolling
  <2> QED
    BY <1>8, <2>1, <2>2 DEF PageFits, Arriving, Arrived, Quiet, SameRequests, SamePolling
<1>10. visit[v].open
  BY <1>2, <1>3
<1> QED
  BY ONLY CheckoutInv, v \in Calls, <1>6, <1>7, <1>8, <1>9, <1>10, PageBecomes

\* Of an open page that has anything under way: it has arrived.
LEMMA BusyHasArrived ==
  ASSUME NEW p \in C!VisitType, PageFits(p),
         \/ p.making # "no" \/ p.flights # {} \/ p.loose # {} \/ p.timer # NoTx \/ ~p.stopped
         \/ p.phase = "idle" /\ p.load \in {"checking", "yes"}
  PROVE  p.load = "yes" /\ Arriving(p) /\ Arrived(p)
BY DEF PageFits, Arriving, Quiet, C!VisitType

LEMMA CreateStep ==
  ASSUME CheckoutInv, NEW v \in Calls, C!Create(v) \/ C!ServerCreates(v)
  PROVE  CheckoutInv'
<1>1. CheckoutShape /\ UNCHANGED <<lapsed, stored, history>>
  BY DEF CheckoutInv, C!TypeOK, CheckoutShape, C!Create, C!ServerCreates
<1>2. PICK p \in C!VisitType : /\ p = visit[v]
                               /\ p.open \/ p.load = "no"
                               /\ history = {} /\ p.open => PageFits(p)
  BY PageIs
<1>3. PICK page \in C!VisitType :
        /\ C!Becomes(v, page) /\ server' \in [Txs -> C!Final \cup {"none", "PENDING", "gone"}]
        /\ SamePolling(page, p)
        /\ page.open = p.open /\ page.load = p.load /\ page.tx = p.tx
        /\ \/ /\ page.phase = "creating" /\ page.making = "asked"
              /\ p.open /\ p.phase = "idle" /\ p.load \in {"checking", "yes"}
           \/ /\ page.phase = p.phase /\ page.making = "answered" /\ page.made # NoTx
              /\ p.making = "asked"
  <2>1. CASE C!Create(v)
    <3>1. /\ C!Becomes(v, [p EXCEPT !.phase = "creating", !.making = "asked"])
          /\ p.open /\ p.phase = "idle" /\ p.load \in {"checking", "yes"} /\ server' = server
      BY <1>2, <2>1 DEF C!Create
    <3>2. /\ [p EXCEPT !.phase = "creating", !.making = "asked"] \in C!VisitType
          /\ SamePolling([p EXCEPT !.phase = "creating", !.making = "asked"], p)
      BY DEF C!VisitType, SamePolling
    <3> QED
      BY <1>1, <3>1, <3>2 DEF CheckoutShape, C!VisitType
  <2>2. CASE C!ServerCreates(v)
    <3>1. PICK t \in Txs : /\ server' = [server EXCEPT ![t] = "PENDING"]
                           /\ C!Becomes(v, [p EXCEPT !.making = "answered", !.made = t])
                           /\ p.making = "asked"
      BY <1>2, <2>2 DEF C!ServerCreates
    <3>2. /\ [p EXCEPT !.making = "answered", !.made = t] \in C!VisitType
          /\ SamePolling([p EXCEPT !.making = "answered", !.made = t], p)
      BY DEF C!VisitType, SamePolling
    <3>3. server' \in [Txs -> C!Final \cup {"none", "PENDING", "gone"}]
      BY <1>1, <3>1 DEF CheckoutShape
    <3> QED
      BY ZenonT(60), <3>1, <3>2, <3>3, NoTxIsNone DEF C!VisitType
  <2> QED
    BY <2>1, <2>2
<1>4. CheckoutShape'
  BY <1>1, <1>3 DEF CheckoutShape
<1>5. ASSUME history' = {}, page.open PROVE PageFits(page)'
  <2>1. PageFits(p)
    BY <1>1, <1>2, <1>3, <1>5
  <2>2. p.load = "yes" /\ Arriving(p) /\ Arrived(p)
    BY <1>3, <2>1, BusyHasArrived
  <2>3. p.phase \in {"idle", "creating"}
    BY <1>3, <2>1 DEF PageFits
  <2>4. page.phase = "creating" /\ page.load = "yes" /\ Quiet(page)
    BY <1>3, <2>1, <2>2, <2>3 DEF PageFits, Arrived, Quiet, SamePolling
  <2> QED
    BY <1>3, <2>4 DEF PageFits, Arriving, Arrived, Quiet
<1>6. /\ page.open => visit[v].open
      /\ page.open \/ page.load = "no"
  BY <1>2, <1>3
<1> QED
  BY ONLY CheckoutInv, v \in Calls, <1>1, <1>3, <1>4, <1>5, <1>6, PageBecomes

LEMMA CreatedStep ==
  ASSUME CheckoutInv, NEW v \in Calls, C!Created(v) \/ C!CreateFails(v)
  PROVE  CheckoutInv'
<1>1. CheckoutShape /\ UNCHANGED <<server, lapsed>>
  BY DEF CheckoutInv, C!TypeOK, CheckoutShape, C!Created, C!CreateFails
<1>2. PICK p \in C!VisitType : /\ p = visit[v]
                               /\ p.open \/ p.load = "no"
                               /\ history = {} /\ p.open => PageFits(p)
  BY PageIs
<1>3. PICK q \in C!VisitType : /\ q = [p EXCEPT !.making = "no", !.made = NoTx]
                               /\ SameScreen(q, p) /\ SamePolling(q, p) /\ q.making = "no"
  <2>1. [p EXCEPT !.making = "no", !.made = NoTx] \in C!VisitType
    BY DEF C!VisitType
  <2>2. PICK q \in C!VisitType : q = [p EXCEPT !.making = "no", !.made = NoTx]
    BY <2>1
  <2>3. SameScreen(q, p) /\ SamePolling(q, p) /\ q.making = "no"
    BY <2>2 DEF C!VisitType, SameScreen, SamePolling
  <2> QED
    BY <2>2, <2>3
<1>4. PICK t \in Txs \cup {NoTx} : t = p.made
  BY DEF C!VisitType
<1>5. PICK o \in Txs \cup {NoTx} : o = p.tx
  BY DEF C!VisitType
<1> "awaiting" \in Phases /\ "idle" \in Phases
  BY DEF Phases
<1>6. PICK shown \in C!VisitType :
        /\ shown = C!Shows(q, "awaiting", t) /\ SameRequests(shown, q) /\ SamePolling(shown, q)
        /\ shown.open = q.open /\ shown.load = q.load
        /\ q.open => shown.phase = "awaiting" /\ shown.tx = t
  BY ShowsIs
<1>7. PICK page \in C!VisitType :
        /\ C!Becomes(v, page) /\ page.open = q.open /\ page.load = q.load
        /\ page.making = "no" /\ page.flights = q.flights /\ page.loose = q.loose
        /\ \/ /\ p.making = "answered" /\ stored' = t
              /\ q.open => page.phase = "awaiting" /\ page.tx = t
              /\ ~page.stopped /\ ~page.pending /\ page.timer = t
              /\ history' = history \cup C!Late(v) \cup (IF q.loose = {} THEN {} ELSE {"loose"})
           \/ /\ p.making # "no" /\ UNCHANGED <<stored, history>>
              /\ SamePolling(page, q)
              /\ q.open => page.phase = "idle" /\ page.tx = o
  <2>1. CASE C!Created(v)
    <3>1. /\ C!Becomes(v, C!BeginPolling(shown, t)) /\ p.making = "answered" /\ stored' = t
          /\ history' = history \cup C!Late(v) \cup (IF q.loose = {} THEN {} ELSE {"loose"})
      BY <1>2, <1>3, <1>4, <1>6, <2>1 DEF C!Created
    <3>2. /\ C!BeginPolling(shown, t) \in C!VisitType
          /\ SameScreen(C!BeginPolling(shown, t), shown)
          /\ SameRequests(C!BeginPolling(shown, t), shown)
          /\ ~C!BeginPolling(shown, t).stopped /\ ~C!BeginPolling(shown, t).pending
          /\ C!BeginPolling(shown, t).timer = t
          /\ C!BeginPolling(shown, t).loose = shown.loose
          /\ C!BeginPolling(shown, t).flights = shown.flights
      BY BeginPollingIs
    <3>3. PICK page \in C!VisitType : page = C!BeginPolling(shown, t)
      BY <3>2
    <3> QED
      BY <1>3, <1>6, <3>1, <3>2, <3>3 DEF SameScreen, SameRequests, SamePolling
  <2>2. CASE C!CreateFails(v)
    <3>1. C!Becomes(v, C!Shows(q, "idle", o)) /\ p.making # "no" /\ UNCHANGED <<stored, history>>
      BY <1>2, <1>3, <1>5, <2>2 DEF C!CreateFails
    <3>2. /\ C!Shows(q, "idle", o) \in C!VisitType
          /\ SameRequests(C!Shows(q, "idle", o), q) /\ SamePolling(C!Shows(q, "idle", o), q)
          /\ C!Shows(q, "idle", o).open = q.open /\ C!Shows(q, "idle", o).load = q.load
          /\ q.open => C!Shows(q, "idle", o).phase = "idle" /\ C!Shows(q, "idle", o).tx = o
      BY ShowsIs
    <3> QED
      BY <1>3, <3>1, <3>2 DEF SameRequests, SamePolling
  <2> QED
    BY <2>1, <2>2
<1>8. CheckoutShape'
  <2>1. stored' \in Txs \cup {NoTx} /\ history' \subseteq {"lapsed", "late", "loose"}
    BY <1>1, <1>7 DEF CheckoutShape, C!Late
  <2> QED
    BY <1>1, <2>1 DEF CheckoutShape
<1>9. history' = {} => history = {} /\ (stored' # stored => p.open)
  BY <1>2, <1>7 DEF C!Late
<1>10. ASSUME history' = {}, page.open PROVE PageFits(page)'
  <2>1. PageFits(p) /\ p.open /\ q.open
    BY <1>2, <1>3, <1>7, <1>9, <1>10 DEF SameScreen
  <2>2. p.load = "yes" /\ Quiet(p) /\ p.phase = "creating" /\ p.making # "no"
    BY <1>7, <2>1, BusyHasArrived DEF Arrived, PageFits
  <2>3. Quiet(q) /\ page.load = "yes"
    BY <1>3, <1>7, <2>2 DEF Quiet, SameScreen, SamePolling
  <2>4. CASE /\ p.making = "answered" /\ stored' = t
             /\ page.phase = "awaiting" /\ page.tx = t
             /\ ~page.stopped /\ ~page.pending /\ page.timer = t
             /\ history' = history \cup C!Late(v) \cup (IF q.loose = {} THEN {} ELSE {"loose"})
    <3>1. t # NoTx /\ q.loose = {}
      BY <1>4, <1>10, <2>1, <2>4 DEF PageFits
    <3> QED
      BY <1>7, <2>3, <2>4, <3>1 DEF PageFits, Arriving, Arrived, Quiet
  <2>5. CASE SamePolling(page, q) /\ page.phase = "idle"
    BY <1>7, <2>3, <2>5 DEF PageFits, Arriving, Arrived, Quiet, SamePolling
  <2> QED
    BY <1>7, <2>1, <2>4, <2>5
<1>11. /\ page.open => visit[v].open
       /\ page.open \/ page.load = "no"
       /\ history' = {} => history = {} /\ (stored' # stored => visit[v].open)
  BY <1>2, <1>3, <1>7, <1>9 DEF SameScreen
<1> QED
  BY ONLY CheckoutInv, v \in Calls, <1>7, <1>8, <1>10, <1>11, PageBecomes

LEMMA NudgeLeaveStep ==
  ASSUME CheckoutInv, NEW v \in Calls, C!Nudge(v) \/ C!Leave(v)
  PROVE  CheckoutInv'
<1>1. CheckoutShape /\ UNCHANGED <<server, lapsed, stored, history>>
  BY DEF CheckoutInv, C!TypeOK, CheckoutShape, C!Nudge, C!Leave
<1>2. PICK p \in C!VisitType : /\ p = visit[v]
                               /\ p.open \/ p.load = "no"
                               /\ history = {} /\ p.open => PageFits(p)
  BY PageIs
<1>3. CheckoutShape'
  BY <1>1 DEF CheckoutShape
<1>4. CASE C!Nudge(v)
  <2>1. /\ C!Becomes(v, [p EXCEPT !.timer = p.tx])
        /\ p.open /\ p.phase = "awaiting" /\ p.tx # NoTx /\ ~p.stopped
    BY <1>2, <1>4 DEF C!Nudge
  <2>2. [p EXCEPT !.timer = p.tx] \in C!VisitType
    BY DEF C!VisitType
  <2>3. PICK page \in C!VisitType : page = [p EXCEPT !.timer = p.tx]
    BY <2>2
  <2>4. /\ SameScreen(page, p) /\ SameRequests(page, p) /\ page.timer = p.tx
        /\ page.stopped = p.stopped /\ page.pending = p.pending
        /\ page.loose = p.loose /\ page.flights = p.flights
    BY <2>3 DEF C!VisitType, SameScreen, SameRequests
  <2>5. ASSUME history' = {} PROVE PageFits(page)'
    <3>1. PageFits(p) /\ p.load = "yes" /\ Arriving(p) /\ Arrived(p)
      BY <1>1, <1>2, <2>1, <2>5, BusyHasArrived
    <3> QED
      BY <1>1, <2>1, <2>4, <3>1
         DEF PageFits, Arriving, Arrived, Quiet, SameScreen, SameRequests
  <2>6. C!Becomes(v, page) /\ page.open = p.open /\ page.load = p.load /\ visit[v].open
    BY <1>2, <2>1, <2>3, <2>4 DEF SameScreen
  <2> QED
    BY ONLY CheckoutInv, v \in Calls, page \in C!VisitType, <1>1, <1>2, <1>3, <2>5, <2>6, PageBecomes
<1>5. CASE C!Leave(v)
  <2>1. PICK q \in C!VisitType : q = C!StopPolling(p)
    BY StopPollingIs
  <2>2. C!Becomes(v, [q EXCEPT !.open = FALSE, !.load = "no", !.phase = "idle", !.tx = NoTx])
    BY <1>2, <1>5, <2>1 DEF C!Leave
  <2>3. PICK page \in C!VisitType :
          page = [q EXCEPT !.open = FALSE, !.load = "no", !.phase = "idle", !.tx = NoTx]
    <3>1. [q EXCEPT !.open = FALSE, !.load = "no", !.phase = "idle", !.tx = NoTx] \in C!VisitType
      BY DEF C!VisitType
    <3> QED
      BY <3>1
  <2>4. ~page.open /\ page.load = "no"
    BY <2>3 DEF C!VisitType
  <2>5. C!Becomes(v, page)
    BY <2>2, <2>3
  <2> QED
    BY ONLY CheckoutInv, v \in Calls, page \in C!VisitType, <1>1, <1>3, <2>4, <2>5, PageBecomes
<1> QED
  BY <1>4, <1>5

LEMMA TickStep ==
  ASSUME CheckoutInv, NEW v \in Calls, NEW t \in Txs, C!Tick(v, t)
  PROVE  CheckoutInv'
<1>1. CheckoutShape /\ UNCHANGED <<server, lapsed, stored, history>>
  BY DEF CheckoutInv, C!TypeOK, CheckoutShape, C!Tick
<1>2. PICK p \in C!VisitType : /\ p = visit[v]
                               /\ p.open \/ p.load = "no"
                               /\ history = {} /\ p.open => PageFits(p)
  BY PageIs
<1>3. CheckoutShape'
  BY <1>1 DEF CheckoutShape
<1>4. PICK q \in C!VisitType :
        /\ C!Becomes(v, C!Asks(q, t))
        /\ SameScreen(q, p) /\ SameRequests(q, p)
        /\ q.stopped = p.stopped /\ q.pending = p.pending /\ q.flights = p.flights
        /\ \/ q.timer = NoTx /\ q.loose = p.loose /\ p.timer = t
           \/ q.timer = p.timer /\ q.loose \subseteq p.loose /\ t \in p.loose
  <2>1. CASE t = p.timer /\ C!Becomes(v, C!Asks([p EXCEPT !.timer = NoTx], t))
    <3>1. PICK q \in C!VisitType : q = [p EXCEPT !.timer = NoTx]
      BY DEF C!VisitType
    <3>2. /\ SameScreen(q, p) /\ SameRequests(q, p)
          /\ q.stopped = p.stopped /\ q.pending = p.pending /\ q.flights = p.flights
          /\ q.timer = NoTx /\ q.loose = p.loose
      BY <3>1 DEF C!VisitType, SameScreen, SameRequests
    <3> QED
      BY <2>1, <3>1, <3>2
  <2>2. ASSUME NEW left \in {p.loose, p.loose \ {t}}, t \in p.loose,
               C!Becomes(v, C!Asks([p EXCEPT !.loose = left], t))
        PROVE  \E q \in C!VisitType :
                 /\ C!Becomes(v, C!Asks(q, t))
                 /\ SameScreen(q, p) /\ SameRequests(q, p)
                 /\ q.stopped = p.stopped /\ q.pending = p.pending /\ q.flights = p.flights
                 /\ q.timer = p.timer /\ q.loose \subseteq p.loose
    <3>1. PICK q \in C!VisitType : q = [p EXCEPT !.loose = left]
      BY DEF C!VisitType
    <3>2. /\ SameScreen(q, p) /\ SameRequests(q, p)
          /\ q.stopped = p.stopped /\ q.pending = p.pending /\ q.flights = p.flights
          /\ q.timer = p.timer /\ q.loose \subseteq p.loose
      BY <3>1 DEF C!VisitType, SameScreen, SameRequests
    <3> QED
      BY <2>2, <3>1, <3>2
  <2> QED
    BY <1>2, <2>1, <2>2 DEF C!Tick
<1>5. PICK page \in C!VisitType :
        /\ page = C!Asks(q, t)
        /\ SameScreen(page, q) /\ SameRequests(page, q) /\ page.stopped = q.stopped
        /\ page.timer = q.timer /\ page.loose = q.loose
        /\ \/ (q.stopped \/ q.pending) /\ page.pending = q.pending /\ page.flights = q.flights
           \/ ~q.stopped /\ ~q.pending /\ page.pending /\ page.flights = q.flights \cup {t}
  <2>1. CASE q.stopped \/ q.pending
    <3>1. C!Asks(q, t) = q
      BY <2>1 DEF C!Asks
    <3> QED
      BY <2>1, <3>1 DEF SameScreen, SameRequests
  <2>2. CASE ~(q.stopped \/ q.pending)
    <3>1. PICK page \in C!VisitType :
            page = [q EXCEPT !.pending = TRUE, !.flights = q.flights \cup {t}]
      BY DEF C!VisitType
    <3>2. page = C!Asks(q, t)
      BY <2>2, <3>1 DEF C!Asks
    <3>3. /\ SameScreen(page, q) /\ SameRequests(page, q) /\ page.stopped = q.stopped
          /\ page.timer = q.timer /\ page.loose = q.loose
          /\ page.pending /\ page.flights = q.flights \cup {t}
      BY <3>1 DEF C!VisitType, SameScreen, SameRequests
    <3> QED
      BY <2>2, <3>2, <3>3
  <2> QED
    BY <2>1, <2>2
<1>6. ASSUME history' = {}, page.open PROVE PageFits(page)'
  <2>1. PageFits(p) /\ page.phase = p.phase /\ page.tx = p.tx /\ page.load = p.load
    BY <1>1, <1>2, <1>4, <1>5, <1>6 DEF SameScreen
  <2>2. p.load = "yes" /\ Arrived(p)
    <3>1. p.loose # {} \/ p.timer # NoTx
      BY <1>4, NoTxIsNone
    <3> QED
      BY <2>1, <3>1, BusyHasArrived
  <2>3. Arrived(page)
    <3>1. CASE p.phase = "awaiting"
      BY <1>4, <1>5, <2>1, <2>2, <3>1, NoTxIsNone DEF Arrived
    <3>2. CASE p.phase # "awaiting"
      BY <1>4, <1>5, <2>1, <2>2, <3>2, NoTxIsNone DEF Arrived, Quiet, C!VisitType
    <3> QED
      BY <3>1, <3>2
  <2>4. PageFits(page)
    BY <1>4, <1>5, <2>1, <2>2, <2>3 DEF PageFits, Arriving, SameRequests
  <2> QED
    BY <1>1, <2>4 DEF PageFits, Arriving, Arrived, Quiet
<1>7. /\ page.open => visit[v].open
      /\ page.open \/ page.load = "no"
  BY <1>2, <1>4, <1>5 DEF SameScreen
<1>8. C!Becomes(v, page)
  BY <1>4, <1>5
<1> QED
  BY ONLY CheckoutInv, v \in Calls, page \in C!VisitType, <1>1, <1>3, <1>6, <1>7, <1>8, PageBecomes

LEMMA AnswerStep ==
  ASSUME CheckoutInv, NEW v \in Calls, NEW t \in Txs, C!Answer(v, t)
  PROVE  CheckoutInv'
<1>1. CheckoutShape /\ UNCHANGED <<server, lapsed>>
  BY DEF CheckoutInv, C!TypeOK, CheckoutShape, C!Answer
<1>2. PICK p \in C!VisitType : /\ p = visit[v]
                               /\ p.open \/ p.load = "no"
                               /\ history = {} /\ p.open => PageFits(p)
  BY PageIs
<1>3. PICK o \in Txs \cup {NoTx} : o = p.tx
  BY DEF C!VisitType
<1>4. PICK q \in C!VisitType :
        /\ q = C!Landed(v, t)
        /\ SameScreen(q, p) /\ SameRequests(q, p)
        /\ q.stopped = p.stopped /\ q.pending = p.pending /\ q.timer = p.timer
        /\ q.loose = p.loose /\ q.flights = p.flights \ {t}
  <2>1. PICK q \in C!VisitType : q = [p EXCEPT !.flights = p.flights \ {t}]
    BY DEF C!VisitType
  <2>2. /\ SameScreen(q, p) /\ SameRequests(q, p)
        /\ q.stopped = p.stopped /\ q.pending = p.pending /\ q.timer = p.timer
        /\ q.loose = p.loose /\ q.flights = p.flights \ {t}
    BY <2>1 DEF C!VisitType, SameScreen, SameRequests
  <2>3. q = C!Landed(v, t)
    BY <1>2, <2>1 DEF C!Landed
  <2> QED
    BY <2>2, <2>3
<1>5. /\ "success" \in Phases /\ "idle" \in Phases /\ "awaiting" \in Phases
      /\ NoTx \in Txs \cup {NoTx}
  BY DEF Phases
\* What the answer shows, and then what becomes of the polling.
<1>6. PICK page \in C!VisitType, shown \in C!VisitType :
        /\ C!Becomes(v, page)
        /\ SameRequests(shown, q) /\ SamePolling(shown, q)
        /\ shown.open = q.open /\ shown.load = q.load
        /\ \/ /\ page = C!StopPolling(shown) /\ stored' = NoTx
              /\ history' = history \cup C!Late(v)
              /\ q.open => shown.phase \in {"idle", "success"}
           \/ /\ page = C!Again(shown, t) /\ history' = history
              /\ stored' = (IF q.open /\ o # NoTx THEN o ELSE stored)
              /\ q.open => shown.phase = "awaiting" /\ shown.tx = o
           \/ /\ page = C!Again(shown, t) /\ history' = history /\ stored' = stored
              /\ shown = q
  <2>1. CASE C!Final_(v, t)
    <3>1. PICK shown \in C!VisitType :
            /\ shown \in {C!Shows(q, "success", o), C!Shows(q, "idle", NoTx)}
            /\ C!Becomes(v, C!StopPolling(shown))
      BY <1>2, <1>3, <1>4, <1>5, <2>1, ShowsIs DEF C!Final_
    <3>2. /\ SameRequests(shown, q) /\ SamePolling(shown, q)
          /\ shown.open = q.open /\ shown.load = q.load
          /\ q.open => shown.phase \in {"idle", "success"}
      <4>1. CASE shown = C!Shows(q, "success", o)
        BY ONLY ZenonT(60), <1>5, <4>1, q \in C!VisitType, o \in Txs \cup {NoTx}, ShowsIs
      <4>2. CASE shown = C!Shows(q, "idle", NoTx)
        BY ONLY ZenonT(60), <1>5, <4>2, q \in C!VisitType, ShowsIs
      <4> QED
        BY <3>1, <4>1, <4>2
    <3>3. C!StopPolling(shown) \in C!VisitType
      BY StopPollingIs
    <3> QED
      BY <2>1, <3>1, <3>2, <3>3 DEF C!Final_
  <2>2. CASE C!StillPending(v, t)
    <3>1. PICK shown \in C!VisitType :
            /\ shown = C!Shows(q, "awaiting", o)
            /\ SameRequests(shown, q) /\ SamePolling(shown, q)
            /\ shown.open = q.open /\ shown.load = q.load
            /\ q.open => shown.phase = "awaiting" /\ shown.tx = o
      BY ONLY <1>5, q \in C!VisitType, o \in Txs \cup {NoTx}, ShowsIs
    <3>3. C!Again(shown, t) \in C!VisitType
      BY AgainIs
    <3>4. /\ C!Becomes(v, C!Again(shown, t)) /\ history' = history
          /\ stored' = (IF q.open /\ o # NoTx THEN o ELSE stored)
      BY <1>2, <1>3, <1>4, <2>2, <3>1 DEF C!StillPending, SameScreen
    <3> QED
      BY <3>1, <3>3, <3>4
  <2>3. CASE C!NoAnswer(v, t)
    <3>1. C!Again(q, t) \in C!VisitType
      BY AgainIs
    <3>2. C!Becomes(v, C!Again(q, t)) /\ history' = history /\ stored' = stored
      BY <1>4, <2>3 DEF C!NoAnswer
    <3>3. SameRequests(q, q) /\ SamePolling(q, q)
      BY DEF SameRequests, SamePolling
    <3> QED
      BY <3>1, <3>2, <3>3
  <2> QED
    BY <2>1, <2>2, <2>3 DEF C!Answer
<1>7. /\ SameScreen(page, shown) /\ SameRequests(page, shown)
      /\ page.flights = shown.flights /\ ~page.pending
      /\ \/ page = C!StopPolling(shown) /\ page.stopped /\ page.timer = NoTx
            /\ page.loose = shown.loose
         \/ page = C!Again(shown, t) /\ page.stopped = shown.stopped /\ page.timer = t
            /\ page.loose \subseteq shown.loose \cup ({shown.timer} \ {NoTx})
  <2>1. CASE page = C!StopPolling(shown)
    BY <2>1, StopPollingIs
  <2>2. CASE page = C!Again(shown, t)
    BY SMTT(60), <2>2, AgainIs
  <2> QED
    BY <1>6, <2>1, <2>2
<1>8. CheckoutShape'
  <2>1. stored' \in Txs \cup {NoTx} /\ history' \subseteq {"lapsed", "late", "loose"}
    BY <1>1, <1>6 DEF CheckoutShape, C!Late
  <2> QED
    BY <1>1, <2>1 DEF CheckoutShape
<1>9. history' = {} => history = {} /\ (stored' # stored => p.open)
  BY <1>2, <1>4, <1>6 DEF C!Late, SameScreen
<1>10. page.open = p.open /\ page.load = p.load /\ q.open = p.open
  BY <1>4, <1>6, <1>7 DEF SameScreen
<1>11. ASSUME history' = {}, page.open PROVE PageFits(page)'
  <2>1. PageFits(p) /\ t \in p.flights
    BY <1>2, <1>9, <1>10, <1>11 DEF C!Answer
  <2>2. p.load = "yes" /\ Arrived(p)
    BY <2>1, BusyHasArrived
  <2>3. p.phase = "awaiting"
    BY <2>1, <2>2 DEF Arrived, Quiet, C!VisitType
  <2>4. /\ o = t /\ stored = t /\ t # NoTx /\ ~q.stopped /\ q.flights = {}
        /\ q.timer \in {t, NoTx} /\ q.loose \subseteq {t}
        /\ q.phase = "awaiting" /\ q.tx = t /\ p.making = "no"
    BY <1>3, <1>4, <2>1, <2>2, <2>3 DEF Arrived, PageFits, SameScreen
  <2>5. page.making = "no" /\ page.load = "yes" /\ page.flights = {} /\ ~page.pending
    BY <1>4, <1>6, <1>7, <1>10, <2>2, <2>4 DEF SameRequests, SamePolling
  <2>6. CASE page.stopped /\ page.timer = NoTx /\ shown.phase \in {"idle", "success"}
    BY <1>7, <2>5, <2>6 DEF PageFits, Arriving, Arrived, Quiet, SameScreen
  <2>7. CASE /\ page.stopped = shown.stopped /\ page.timer = t
             /\ page.loose \subseteq shown.loose \cup ({shown.timer} \ {NoTx})
             /\ stored' = t /\ shown.phase = "awaiting" /\ shown.tx = t
    BY <1>6, <1>7, <2>4, <2>5, <2>7
       DEF PageFits, Arriving, Arrived, Quiet, SameScreen, SamePolling
  <2>8. C!StopPolling(shown) # C!Again(shown, t)
    BY StopPollingIs, AgainIs, NoTxIsNone
  <2> QED
    BY <1>6, <1>7, <1>10, <1>11, <2>4, <2>6, <2>7, <2>8
<1>12. /\ page.open => visit[v].open
       /\ page.open \/ page.load = "no"
       /\ history' = {} => history = {} /\ (stored' # stored => visit[v].open)
  BY <1>2, <1>9, <1>10
<1> QED
  BY ONLY CheckoutInv, v \in Calls, <1>6, <1>8, <1>11, <1>12, PageBecomes

\* A reload, and what goes on at the payment service.
LEMMA ElsewhereStep ==
  ASSUME CheckoutInv,
         C!Reload \/ \E t \in Txs : C!Settle(t) \/ C!Lapse(t) \/ C!RunOut(t)
  PROVE  CheckoutInv'
<1>1. CheckoutShape /\ UNCHANGED <<stored, history>>
  BY DEF CheckoutInv, C!TypeOK, CheckoutShape, C!Reload, C!Settle, C!Lapse, C!RunOut
<1>2. CASE C!Reload
  <2>1. C!Closed \in C!VisitType /\ ~C!Closed.open /\ C!Closed.load = "no"
    BY DEF C!Closed, C!VisitType
  <2>2. visit' = [v \in Calls |-> C!Closed] /\ UNCHANGED <<server, lapsed>>
    BY <1>2 DEF C!Reload
  <2>3. C!TypeOK'
    BY <1>1, <2>1, <2>2 DEF C!TypeOK, CheckoutShape
  <2>4. C!Open' = {} /\ LeftRest'
    BY <2>1, <2>2 DEF C!Open, LeftRest
  <2> QED
    BY <2>3, <2>4 DEF CheckoutInv, OneOpen, PagesFit
<1>3. ASSUME NEW t \in Txs, C!Settle(t) \/ C!Lapse(t) \/ C!RunOut(t) PROVE CheckoutInv'
  <2>1. visit' = visit
    BY <1>3 DEF C!Settle, C!Lapse, C!RunOut
  <2>2. /\ server' \in [Txs -> C!Final \cup {"none", "PENDING", "gone"}]
        /\ lapsed' \subseteq Txs
    BY <1>1, <1>3 DEF C!Settle, C!Lapse, C!RunOut, CheckoutShape
  <2>3. C!TypeOK'
    BY <1>1, <2>1, <2>2 DEF CheckoutInv, C!TypeOK
  <2> QED
    BY <1>1, <2>1, <2>3 DEF CheckoutInv, OneOpen, LeftRest, PagesFit, C!Open,
                            PageFits, Arriving, Arrived, Quiet
<1> QED
  BY <1>2, <1>3

LEMMA CheckoutStep == CheckoutInv /\ C!Next => CheckoutInv'
BY VisitStep, LoadStep, CheckStep, CreateStep, CreatedStep, NudgeLeaveStep, TickStep, AnswerStep,
   ElsewhereStep DEF C!Next

LEMMA CheckoutKept == CheckoutInv /\ UNCHANGED cVars => CheckoutInv'
BY DEF CheckoutInv, cVars, C!TypeOK, OneOpen, LeftRest, PagesFit, C!Open, PageFits, Arriving,
       Arrived, Quiet

LEMMA OnlyCheckout ==
  ASSUME [NextRecords]_allVars, Checkout \/ Checkout'
  PROVE  Checkout /\ (C!Next \/ UNCHANGED cVars)
BY DEF NextRecords, allVars, Refunds, Payments, PaymentMethods, Organizer, Checkout, LateCommit

LEMMA CheckoutAlways == SpecRecords => [](Checkout => CheckoutInv)
<1>1. InitRecords => CheckoutInv
  BY CheckoutInit DEF InitRecords
<1>2. (Checkout => CheckoutInv) /\ [NextRecords]_allVars => (Checkout => CheckoutInv)'
  BY OnlyCheckout, CheckoutStep, CheckoutKept
<1> QED
  BY <1>1, <1>2, PTL DEF SpecRecords

\* The code on the screen is that of the payment that is stored and polled, and
\* nothing else is polled, for any number of transactions and of pages left with
\* something under way, but for what history names (page.tsx:223, :327).
THEOREM CodeIsFollowed == SpecRecords => []ShownIsFollowed
<1>1. ASSUME CheckoutInv PROVE C!ShownIsFollowed
  <2>1. SUFFICES ASSUME history = {}, NEW v \in C!Open,
                        visit[v].load = "yes", visit[v].phase = "awaiting"
                 PROVE  /\ visit[v].tx # NoTx /\ stored = visit[v].tx
                        /\ C!Polled(visit[v], visit[v].tx)
                        /\ visit[v].flights \cup visit[v].loose \subseteq {visit[v].tx}
    BY DEF C!ShownIsFollowed
  <2>2. Arrived(visit[v])
    BY <1>1, <2>1 DEF CheckoutInv, PagesFit, PageFits
  <2> QED
    BY <2>1, <2>2 DEF Arrived, C!Polled
<1>2. (Checkout => CheckoutInv) => ShownIsFollowed
  BY <1>1 DEF ShownIsFollowed
<1> QED
  BY CheckoutAlways, <1>2, PTL

-----------------------------------------------------------------------------
(***************************************************************************)
(* The types of all parts.  Those of the late commit bound the units: what *)
(* the actors have taken, together, is out of the stock, and not more than *)
(* the lines are, so that undoing an attempt never goes below nothing.     *)
(***************************************************************************)
UnitsFit ==
  /\ taken \in [L!Actors -> Nat]
  /\ out \in Nat /\ out <= Lines
  /\ SumOver(taken, L!Actors) <= out

ActorsFinite == IsFiniteSet(L!Actors)

LEMMA UnitsTaken ==
  ASSUME ActorsFinite, UnitsFit, NEW a \in L!Actors, NEW n \in Nat, NEW o \in Int,
         taken' = [taken EXCEPT ![a] = n], out' = o, o <= Lines, out + n - taken[a] <= o
  PROVE  UnitsFit'
<1>1. PICK f \in [L!Actors -> Nat] : f = taken
  BY DEF UnitsFit
<1>2. PICK g \in [L!Actors -> Nat] : g = [f EXCEPT ![a] = n]
  OBVIOUS
<1>3. g[a] = n /\ \A b \in L!Actors \ {a} : g[b] = f[b]
  BY <1>2
<1>4. SumOver(g, L!Actors) = SumOver(f, L!Actors) + g[a] - f[a]
  BY <1>3, SumChanges DEF ActorsFinite
<1>5. SumOver(f, L!Actors) \in Nat /\ SumOver(g, L!Actors) \in Nat
  BY SumNat DEF ActorsFinite
<1>6. PICK p \in Nat : p = out /\ SumOver(f, L!Actors) <= p /\ p + n - f[a] <= o
  BY <1>1 DEF UnitsFit
<1>7. SumOver(g, L!Actors) <= o /\ o \in Nat
  <2>1. g[a] = n /\ f[a] \in Nat
    BY <1>3
  <2> QED
    BY <1>4, <1>5, <1>6, <2>1
<1>8. SumOver(taken', L!Actors) <= o
  BY <1>1, <1>2, <1>7
<1>9. taken' \in [L!Actors -> Nat]
  BY <1>1, <1>2
<1> QED
  BY <1>7, <1>8, <1>9 DEF UnitsFit, L!Actors

LEMMA UnitsStep ==
  ASSUME ActorsFinite, LateInv, UnitsFit, L!Next
  PROVE  UnitsFit'
<1> USE DEF L!kept, L!money
<1>1. ASSUME UNCHANGED <<out, taken>> PROVE UnitsFit'
  BY <1>1 DEF UnitsFit, L!Actors
<1>2. CASE L!Time \/ L!SnapshotExpires \/ \E i \in Intents : L!Pay(i)
  BY <1>1, <1>2 DEF L!Time, L!SnapshotExpires, L!Pay
<1>3. CASE L!WorkerTick \/ L!WorkerAsks \/ L!WorkerCloses
  BY <1>1, <1>3 DEF L!WorkerTick, L!WorkerAsks, L!WorkerCloses
<1>4. ASSUME NEW h \in Calls, L!Receive(h) \/ L!Dedupe(h) \/ L!Confirm(h) \/ L!ConfirmPaid(h)
      PROVE  UnitsFit'
  BY <1>1, <1>4 DEF L!Receive, L!Dedupe, L!Confirm, L!ConfirmPaid
<1>5. CASE L!Reap
  <2>1. taken' = taken /\ out = Lines /\ out' = out - Lines /\ \A a \in L!Actors : taken[a] = 0
    BY <1>5 DEF L!Reap, LateInv, BeforeGone
  <2>2. out' = 0
    BY <2>1, WorkerIsApart
  <2>3. SumOver(taken, L!Actors) = 0
    BY <2>1, SumOfNone DEF ActorsFinite
  <2>4. SumOver(taken', L!Actors) <= out'
    BY <2>1, <2>2, <2>3
  <2> QED
    BY <2>1, <2>2, <2>4, WorkerIsApart DEF UnitsFit, L!Actors
<1>6. ASSUME NEW a \in L!Actors, L!Late(a) \/ L!WriteOrder(a) \/ L!Refund(a) PROVE UnitsFit'
  BY <1>1, <1>6 DEF L!Late, L!WriteOrder, L!Refund
<1>7. ASSUME NEW a \in L!Actors PROVE taken[a] \in Nat /\ out \in Nat /\ out <= Lines
  BY <1>7 DEF UnitsFit
<1>8. ASSUME NEW a \in L!Actors, L!Reserve(a) PROVE UnitsFit'
  <2>1. CASE out + 1 <= Lines /\ out' = out + 1 /\ taken' = [taken EXCEPT ![a] = @ + 1]
    <3>1. PICK n \in Nat, o \in Int : n = taken[a] + 1 /\ o = out + 1
      BY <1>7
    <3>2. out + n - taken[a] <= o /\ o <= Lines
      BY <1>7, <2>1, <3>1
    <3>3. taken' = [taken EXCEPT ![a] = n] /\ out' = o
      BY <2>1, <3>1
    <3> QED
      BY <3>2, <3>3, UnitsTaken
  <2>2. CASE UNCHANGED <<out, taken>>
    BY <1>1, <2>2
  <2>3. CASE out' = out + 1 /\ out + 1 \in 0..Lines /\ UNCHANGED taken
    <3>1. out' \in Nat /\ out' <= Lines /\ SumOver(taken, L!Actors) <= out'
      <4>1. PICK n \in Int : n = SumOver(taken, L!Actors)
        BY SumNat DEF UnitsFit, ActorsFinite
      <4>2. n <= out
        BY <4>1 DEF UnitsFit
      <4>3. n <= out + 1
        BY <1>7, <4>2
      <4> QED
        BY <2>3, <4>1, <4>3, WorkerIsApart
    <3> QED
      BY <2>3, <3>1 DEF UnitsFit, L!Actors
  <2> QED
    BY <1>8, <2>1, <2>2, <2>3 DEF L!Reserve
<1>9. ASSUME NEW a \in L!Actors, L!Clean(a) \/ L!Die(a) PROVE UnitsFit'
  <2>1. taken' = [taken EXCEPT ![a] = 0] /\ out' = out
    BY <1>9 DEF L!Clean, L!Die
  <2>2. PICK n \in Nat, o \in Int : n = 0 /\ o = out
    BY <1>7
  <2>3. out + n - taken[a] <= o /\ o <= Lines
    BY <1>7, <2>2
  <2> QED
    BY <2>1, <2>2, <2>3, UnitsTaken
<1>10. ASSUME NEW a \in L!Actors, L!Undo(a) PROVE UnitsFit'
  <2>1. taken' = [taken EXCEPT ![a] = 0] /\ out' \in {out, out - taken[a]}
    BY <1>10 DEF L!Undo
  <2>2. PICK n \in Nat, o \in Int : n = 0 /\ o = out'
    BY <1>7, <2>1
  <2>3. out + n - taken[a] <= o /\ o <= Lines
    BY <1>7, <2>1, <2>2, WorkerIsApart
  <2> QED
    BY <2>1, <2>2, <2>3, UnitsTaken
<1> QED
  BY <1>2, <1>3, <1>4, <1>5, <1>6, <1>8, <1>9, <1>10 DEF L!Next

LEMMA UnitsStart == ASSUME ActorsFinite, L!Init PROVE UnitsFit
<1>1. SumOver(taken, L!Actors) = 0
  BY SumOfNone DEF ActorsFinite, L!Init
<1> QED
  BY <1>1, WorkerIsApart DEF L!Init, UnitsFit

LEMMA LateTypes == ASSUME ActorsFinite, LateInv, UnitsFit PROVE L!TypeOK
<1>1. ASSUME NEW a \in L!Actors PROVE taken[a] \in 0..Lines
  <2>1. taken[a] \in Nat /\ taken[a] <= SumOver(taken, L!Actors)
    BY SumNat DEF ActorsFinite, UnitsFit
  <2>2. SumOver(taken, L!Actors) \in Nat
    BY SumNat DEF ActorsFinite, UnitsFit
  <2>3. taken[a] <= Lines
    BY <2>1, <2>2, WorkerIsApart DEF UnitsFit
  <2> QED
    BY <2>1, <2>3, WorkerIsApart
<1>2. taken \in [L!Actors -> 0..Lines] /\ out \in 0..Lines
  BY <1>1, WorkerIsApart DEF UnitsFit
<1> QED
  BY <1>2 DEF LateInv, LateShape, Places, L!TypeOK

\* Every part keeps the types of its variables, and the late commit never has
\* more units out of the stock than its lines nor gives back what is not out,
\* for any finite number of requests (reservation.service.js:1038).
THEOREM RecordsTypes == ASSUME IsFiniteSet(Calls) PROVE SpecRecords => []TypesOK
<1> DEFINE Part == part \in {"payment", "refunds", "methods", "organizer", "checkout", "late"}
<1>1. SpecRecords => []Part
  <2>1. InitRecords => Part
    BY DEF InitRecords
  <2>2. Part /\ [NextRecords]_allVars => Part'
    BY DEF NextRecords, allVars
  <2> QED
    BY <2>1, <2>2, PTL DEF SpecRecords
<1>2. ActorsFinite
  <2>1. L!Actors = Calls \cup {Worker}
    BY DEF L!Actors
  <2>2. IsFiniteSet(Calls \cup {Worker})
    BY FS_AddElement
  <2> QED
    BY <2>1, <2>2 DEF ActorsFinite
<1>3. SpecRecords => [](LateCommit => UnitsFit)
  <2>1. InitRecords => UnitsFit
    BY <1>2, UnitsStart DEF InitRecords
  <2>2. (LateCommit => LateInv) /\ (LateCommit => UnitsFit) /\ [NextRecords]_allVars
        => (LateCommit => UnitsFit)'
    <3>1. UnitsFit /\ UNCHANGED lVars => UnitsFit'
      BY DEF UnitsFit, lVars, L!Actors
    <3> QED
      BY <1>2, <3>1, OnlyLate, UnitsStep
  <2> QED
    BY <2>1, <2>2, LateAlways, PTL DEF SpecRecords
<1>4. SpecRecords => [](Payments => IInv)
  <2>1. InitRecords => IInv
    BY InitIInv DEF InitRecords
  <2>2. (Payments => IInv) /\ [NextRecords]_allVars => (Payments => IInv)'
    <3>1. [NextRecords]_allVars /\ (Payments \/ Payments') => Payments /\ [Next]_vars
      BY DEF NextRecords, allVars, pVars, vars, Refunds, Payments, PaymentMethods, Organizer,
             Checkout, LateCommit
    <3> QED
      BY <3>1, NextIInv
  <2> QED
    BY <2>1, <2>2, PTL DEF SpecRecords
<1> DEFINE AllFit == /\ Part
                     /\ Payments => IInv
                     /\ Refunds => RefundsInv
                     /\ PaymentMethods => MethodsInv
                     /\ Organizer => ApplyInv
                     /\ Checkout => CheckoutInv
                     /\ LateCommit => LateInv /\ UnitsFit
<1>5. AllFit => TypesOK
  <2> SUFFICES ASSUME AllFit PROVE TypesOK
    OBVIOUS
  <2>1. CASE Payments
    BY <2>1 DEF IInv, TypesOK, Payments, Refunds, PaymentMethods, Organizer, Checkout, LateCommit
  <2>2. CASE Refunds
    BY <2>2 DEF RefundsInv, TypesOK, Payments, Refunds, PaymentMethods, Organizer, Checkout,
                LateCommit
  <2>3. CASE PaymentMethods
    BY <2>3 DEF MethodsInv, TypesOK, Payments, Refunds, PaymentMethods, Organizer, Checkout,
                LateCommit
  <2>4. CASE Organizer
    BY <2>4 DEF ApplyInv, TypesOK, Payments, Refunds, PaymentMethods, Organizer, Checkout,
                LateCommit
  <2>5. CASE Checkout
    BY <2>5 DEF CheckoutInv, TypesOK, Payments, Refunds, PaymentMethods, Organizer, Checkout,
                LateCommit
  <2>6. CASE LateCommit
    <3>1. L!TypeOK
      BY <1>2, <2>6, LateTypes
    <3> QED
      BY <2>6, <3>1 DEF TypesOK, Payments, Refunds, PaymentMethods, Organizer, Checkout,
                        LateCommit
  <2> QED
    BY <2>1, <2>2, <2>3, <2>4, <2>5, <2>6 DEF Payments, Refunds, PaymentMethods, Organizer,
                                              Checkout, LateCommit
<1> HIDE DEF Part
<1> QED
  BY <1>1, <1>3, <1>4, <1>5, RefundsAlways, MethodsAlways, ApplyAlways, CheckoutAlways,
     LateAlways, PTL DEF AllFit
=============================================================================
