----------------------------- MODULE MCRecords ------------------------------
(***************************************************************************)
(* For TLC: the records around the booking path, payment intents, refunds, *)
(* payment methods, organizer applications, the buyer's checkout page and  *)
(* the late commit.  They share no state, so that each is checked by       *)
(* itself: part says which one runs.  Payment is extended, so that its     *)
(* properties are those of the proofs; while another part runs, its        *)
(* variables stay as they are at the start.                                *)
(***************************************************************************)
EXTENDS Payment, TLC

CONSTANTS RefundKeys, Documents,
          Methods, Accounts, NoAccount, NoMethod,
          Applications, Decisions, MaxRequests,
          Txs, NoTx, Worker, NoIntent, Lines

\* Of some documents, a query that is limited to one finds the first by id.
ASSUME IntentsAreOrdered ==
  \A S \in SUBSET Intents : S # {} => \E i \in S : \A j \in S : i <= j

\* The applications count from one, and what admins set is a status.
ASSUME ApplicationsAreNumbered ==
  /\ 0 \notin Applications
  /\ Decisions \subseteq {"pending", "editing", "approved", "rejected", "permanent",
                          "cancelled"}

\* The worker is no handler, and a reservation has some number of lines.
ASSUME WorkerIsApart == Worker \notin Calls /\ Lines \in Nat

\* What stands for no transaction is none.
ASSUME NoTxIsNone == NoTx \notin Txs

VARIABLES part,
          refundIntent, refund, refundTold, refundReq, met,
          flag, owner, cached, fill, methodReq, methodPast,
          status, organizer, copy, fetch, list, query, made, last,
          applyReq, applyPast,
          server, lapsed, stored, visit, history,
          hold, snap, due, grace, committed, lock, out, order, refunded, paid,
          events, seen, at, about, taken, latePast

R == INSTANCE Refunds WITH Requests <- Calls, Keys <- RefundKeys,
                           intent <- refundIntent, told <- refundTold,
                           req <- refundReq
M == INSTANCE PaymentMethods WITH Requests <- Calls, req <- methodReq,
                                  past <- methodPast
O == INSTANCE Organizer WITH Requests <- Calls, req <- applyReq,
                             past <- applyPast
C == INSTANCE Checkout WITH Visits <- Calls
L == INSTANCE LateCommit WITH Handlers <- Calls, flag <- committed,
                              past <- latePast

pVars == <<docs, call, past>>
rVars == <<refundIntent, refund, refundTold, refundReq, met>>
mVars == <<flag, owner, cached, fill, methodReq, methodPast>>
oVars == <<status, organizer, copy, fetch, list, query, made, last,
           applyReq, applyPast>>
cVars == <<server, lapsed, stored, visit, history>>
lVars == <<hold, snap, due, grace, committed, lock, out, order, refunded, paid,
           events, seen, at, about, taken, latePast>>
allVars == <<part, wired, pVars, rVars, mVars, oVars, cVars, lVars>>

Payments == part = "payment"
Refunds == part = "refunds"
PaymentMethods == part = "methods"
Organizer == part = "organizer"
Checkout == part = "checkout"
LateCommit == part = "late"

InitRecords ==
  /\ part \in {"payment", "refunds", "methods", "organizer", "checkout", "late"}
  /\ wired \in (IF Payments \/ Refunds THEN BOOLEAN ELSE {FALSE})
  /\ Init /\ R!Init /\ M!Init /\ O!Init /\ C!Init /\ L!Init

NextRecords ==
  /\ UNCHANGED part
  /\ \/ Payments /\ Next /\ UNCHANGED <<rVars, mVars, oVars, cVars, lVars>>
     \/ Refunds /\ R!Next /\ UNCHANGED <<pVars, mVars, oVars, cVars, lVars>>
     \/ PaymentMethods /\ M!Next
        /\ UNCHANGED <<wired, pVars, rVars, oVars, cVars, lVars>>
     \/ Organizer /\ O!Next
        /\ UNCHANGED <<wired, pVars, rVars, mVars, cVars, lVars>>
     \/ Checkout /\ C!Next
        /\ UNCHANGED <<wired, pVars, rVars, mVars, oVars, lVars>>
     \/ LateCommit /\ L!Next
        /\ UNCHANGED <<wired, pVars, rVars, mVars, oVars, cVars>>

SpecRecords == InitRecords /\ [][NextRecords]_allVars
-----------------------------------------------------------------------------
\* A second intent is there to be created with the first one's key: nothing
\* is followed once it has been.
BoundPayment == Created # Intents

\* At most one cache miss of the organizer part is being answered.
BoundOrganizer ==
  LET fetched == {i \in Applications : fetch[i] # "none"}
  IN  fetched = {} \/ (Cardinality(fetched) = 1 /\ query = O!NoList)

\* What excuses ShownIsFollowed or SettledOnce is not followed any further.
BoundCheckout == history = {}
BoundLateCommit == latePast = {}

Bound == BoundPayment /\ BoundOrganizer /\ BoundCheckout /\ BoundLateCommit

Symmetry == Permutations(Calls)
-----------------------------------------------------------------------------
\* Each part keeps its types.
TypesOK == CASE Payments -> TypeOK
             [] Refunds -> R!TypeOK
             [] PaymentMethods -> M!TypeOK
             [] Organizer -> O!TypeOK
             [] Checkout -> C!TypeOK
             [] LateCommit -> L!TypeOK

\* See Refunds.
RefundedOnce == Refunds => R!RefundedOnce
RefundsSettleOnce ==
  R!Once!Init /\ [][Refunds => [R!Once!Next]_R!Once!vars]_allVars

\* See PaymentMethods.
OneDefault == PaymentMethods => M!OneDefault

\* See Organizer.
OneOngoing == Organizer => O!OneOngoing
StatusFollows == Organizer => O!StatusFollows

\* See Checkout.
ShownIsFollowed == Checkout => C!ShownIsFollowed

\* See LateCommit.
SettledOnce == LateCommit => L!SettledOnce
=============================================================================
