------------------------------ MODULE Checkout ------------------------------
(***************************************************************************)
(* The checkout page of one reservation                                    *)
(* (frontend/src/app/checkout/[rid]/page.tsx) in one browser tab: it       *)
(* creates a payment, shows its code, polls its status and takes it up     *)
(* again from sessionStorage when the page is opened anew.  A visit is one *)
(* mounted page; what it has under way goes on after it is left.  Every    *)
(* payment has a QR code, for the backend answers with nothing else.       *)
(***************************************************************************)
EXTENDS FiniteSets

CONSTANTS Txs,     \* transactions the payment service may create
          Visits,  \* pages that are open or have something under way
          NoTx

VARIABLES
  server,  \* status of each transaction; "gone" once its record has run out
  lapsed,  \* transactions past their expiresAt
  stored,  \* rid:<rid>:tx in sessionStorage
  visit,   \* see VisitType
  history  \* "lapsed": a stored transaction was found past its expiresAt;
           \* "late": an answer that changes what is stored came to a page
           \* that had been left; "loose": a payment began while a timer of
           \* an earlier one was still to fire

vars == <<server, lapsed, stored, visit, history>>

\* EXPIRED is treated like FAILED and stands under its name.
Final == {"SUCCEEDED", "FAILED"}

\* load: what the loading effect waits for; made: the transaction of a payment
\* being created, once the service has it; timer: the one in pollRef; loose:
\* the transactions of those no longer in pollRef, of which there may be more
\* than one each; flights: ticks that wait for an answer.
VisitType ==
  [open : BOOLEAN, load : {"no", "loading", "checking", "yes", "failed"},
   phase : {"idle", "creating", "awaiting", "success"}, tx : Txs \cup {NoTx},
   making : {"no", "asked", "answered"}, made : Txs \cup {NoTx},
   stopped : BOOLEAN, pending : BOOLEAN, timer : Txs \cup {NoTx},
   loose : SUBSET Txs, flights : SUBSET Txs]

Closed == [open |-> FALSE, load |-> "no", phase |-> "idle", tx |-> NoTx,
           making |-> "no", made |-> NoTx, stopped |-> TRUE, pending |-> FALSE,
           timer |-> NoTx, loose |-> {}, flights |-> {}]

TypeOK ==
  /\ server \in [Txs -> Final \cup {"none", "PENDING", "gone"}]
  /\ lapsed \subseteq Txs
  /\ stored \in Txs \cup {NoTx}
  /\ visit \in [Visits -> VisitType]
  /\ history \subseteq {"lapsed", "late", "loose"}

Init ==
  /\ server = [t \in Txs |-> "none"] /\ lapsed = {}
  /\ stored = NoTx
  /\ visit = [v \in Visits |-> Closed]
  /\ history = {}

Becomes(v, page) == visit' = [visit EXCEPT ![v] = page]
Open == {v \in Visits : visit[v].open}

\* What React keeps of a state change: nothing once the page is left.
Shows(page, phase_, tx_) ==
  IF page.open THEN [page EXCEPT !.phase = phase_, !.tx = tx_] ELSE page

StopPolling(page) == [page EXCEPT !.stopped = TRUE, !.pending = FALSE, !.timer = NoTx]
BeginPolling(page, t) == [StopPolling(page) EXCEPT !.stopped = FALSE, !.timer = t]

\* Another tick later, in place of whatever timer pollRef held.
Again(page, t) ==
  [page EXCEPT !.pending = FALSE, !.timer = t,
               !.loose = IF page.timer = NoTx THEN @ ELSE @ \cup {page.timer}]

Late(v) == IF visit[v].open THEN {} ELSE {"late"}

Ended(page) == ~page.open /\ page.stopped /\ page.flights = {} /\ page.making = "no"
-----------------------------------------------------------------------------
\* A stored payment is on the screen at once.
Visit(v) ==
  /\ Open = {} /\ Ended(visit[v])
  /\ Becomes(v, [Closed EXCEPT !.open = TRUE, !.load = "loading", !.tx = stored,
                   !.phase = IF stored = NoTx THEN "idle" ELSE "awaiting"])
  /\ UNCHANGED <<server, lapsed, stored, history>>

\* The reservation has been loaded, and the stored payment is looked at: one
\* past its expiresAt is only forgotten.
Load(v) ==
  /\ visit[v].load = "loading"
  /\ CASE stored = NoTx -> /\ Becomes(v, [visit[v] EXCEPT !.load = "yes"])
                           /\ UNCHANGED <<stored, history>>
       [] stored \in lapsed -> /\ Becomes(v, [visit[v] EXCEPT !.load = "yes"])
                               /\ stored' = NoTx
                               /\ history' = history \cup {"lapsed"}
       [] OTHER -> /\ Becomes(v, [visit[v] EXCEPT !.load = "checking", !.tx = stored,
                                                  !.phase = "awaiting"])
                   /\ UNCHANGED <<stored, history>>
  /\ UNCHANGED <<server, lapsed>>

\* "Please try again": nothing does.
LoadFails(v) ==
  /\ visit[v].load = "loading"
  /\ Becomes(v, [visit[v] EXCEPT !.load = "failed"])
  /\ UNCHANGED <<server, lapsed, stored, history>>

Checked(v) == [visit[v] EXCEPT !.load = "yes"]

Check(v) ==
  LET t == visit[v].tx
      page == Checked(v)
  IN
  /\ visit[v].load = "checking"
  /\ \/ /\ server[t] = "PENDING"
        /\ Becomes(v, BeginPolling(page, t))
        /\ stored' = t
     \/ /\ server[t] = "SUCCEEDED"
        /\ Becomes(v, StopPolling(Shows(page, "success", t)))
        /\ stored' = NoTx
     \/ /\ server[t] = "FAILED"
        /\ Becomes(v, Shows(page, "idle", NoTx))
        /\ stored' = NoTx
  /\ UNCHANGED <<server, lapsed, history>>

\* Mutant: the catch gives up.
CheckGivesUp(v) ==
  /\ visit[v].load = "checking"
  /\ Becomes(v, Checked(v))
  /\ UNCHANGED <<server, lapsed, stored, history>>

\* The code stays and is polled; an unknown transaction is an error, too.
CheckFails(v) ==
  /\ visit[v].load = "checking"
  /\ Becomes(v, BeginPolling(Checked(v), visit[v].tx))
  /\ UNCHANGED <<server, lapsed, stored, history>>
-----------------------------------------------------------------------------
\* onCreatePayment: the buyer's claim, the intent, and what to do with it
\* whether the page is still there or not.
Create(v) ==
  /\ visit[v].open /\ visit[v].load \in {"checking", "yes"} /\ visit[v].phase = "idle"
  /\ Becomes(v, [visit[v] EXCEPT !.phase = "creating", !.making = "asked"])
  /\ UNCHANGED <<server, lapsed, stored, history>>

ServerCreates(v) ==
  /\ visit[v].making = "asked"
  /\ \E t \in Txs : /\ server[t] = "none"
                    /\ server' = [server EXCEPT ![t] = "PENDING"]
                    /\ Becomes(v, [visit[v] EXCEPT !.making = "answered", !.made = t])
  /\ UNCHANGED <<lapsed, stored, history>>

Created(v) ==
  LET t == visit[v].made
      page == [visit[v] EXCEPT !.making = "no", !.made = NoTx]
  IN
  /\ visit[v].making = "answered"
  /\ stored' = t
  /\ Becomes(v, BeginPolling(Shows(page, "awaiting", t), t))
  /\ history' = history \cup Late(v) \cup (IF page.loose = {} THEN {} ELSE {"loose"})
  /\ UNCHANGED <<server, lapsed>>

CreateFails(v) ==
  /\ visit[v].making # "no"
  /\ Becomes(v, Shows([visit[v] EXCEPT !.making = "no", !.made = NoTx],
                      "idle", visit[v].tx))
  /\ UNCHANGED <<server, lapsed, stored, history>>
-----------------------------------------------------------------------------
\* pollTick until it asks, by the timer of pollRef or by one it has lost hold of;
\* a hidden page sets the timer again.
Asks(page, t) ==
  IF page.stopped \/ page.pending THEN page
  ELSE [page EXCEPT !.pending = TRUE, !.flights = @ \cup {t}]

Tick(v, t) ==
  /\ \/ /\ t = visit[v].timer
        /\ Becomes(v, Asks([visit[v] EXCEPT !.timer = NoTx], t))
     \/ /\ t \in visit[v].loose
        /\ \E left \in {visit[v].loose, visit[v].loose \ {t}} :
             Becomes(v, Asks([visit[v] EXCEPT !.loose = left], t))
  /\ UNCHANGED <<server, lapsed, stored, history>>

Landed(v, t) == [visit[v] EXCEPT !.flights = @ \ {t}]

\* The answer.  A final one ends the polling and the record, whatever the page
\* has turned to; otherwise the page's own transaction is stored again.
Final_(v, t) ==
  /\ server[t] \in Final
  /\ Becomes(v, StopPolling(IF server[t] = "SUCCEEDED"
                              THEN Shows(Landed(v, t), "success", visit[v].tx)
                              ELSE Shows(Landed(v, t), "idle", NoTx)))
  /\ stored' = NoTx
  /\ history' = history \cup Late(v)

StillPending(v, t) ==
  /\ server[t] = "PENDING"
  /\ Becomes(v, Again(Shows(Landed(v, t), "awaiting", visit[v].tx), t))
  /\ stored' = IF visit[v].open /\ visit[v].tx # NoTx THEN visit[v].tx ELSE stored
  /\ UNCHANGED history

\* 404, 429 or no answer: later, for ever.
NoAnswer(v, t) == Becomes(v, Again(Landed(v, t), t)) /\ UNCHANGED <<stored, history>>

Answer(v, t) ==
  /\ t \in visit[v].flights
  /\ Final_(v, t) \/ StillPending(v, t) \/ NoAnswer(v, t)
  /\ UNCHANGED <<server, lapsed>>

\* The button under the code: the next tick at once.
Nudge(v) ==
  /\ visit[v].open /\ visit[v].phase = "awaiting" /\ visit[v].tx # NoTx
  /\ ~visit[v].stopped
  /\ Becomes(v, [visit[v] EXCEPT !.timer = visit[v].tx])
  /\ UNCHANGED <<server, lapsed, stored, history>>
-----------------------------------------------------------------------------
\* Another page of the site, or back, because the reservation is over.
Leave(v) ==
  /\ visit[v].open
  /\ Becomes(v, [StopPolling(visit[v]) EXCEPT !.open = FALSE, !.load = "no",
                   !.phase = "idle", !.tx = NoTx])
  /\ UNCHANGED <<server, lapsed, stored, history>>

\* The tab is loaded anew: nothing goes on but what is stored.
Reload ==
  /\ visit' = [v \in Visits |-> Closed]
  /\ UNCHANGED <<server, lapsed, stored, history>>

\* The payment service, see Payment.
Settle(t) ==
  /\ server[t] = "PENDING"
  /\ \E s \in Final : server' = [server EXCEPT ![t] = s]
  /\ UNCHANGED <<lapsed, stored, visit, history>>

Lapse(t) ==
  /\ server[t] # "none" /\ t \notin lapsed
  /\ lapsed' = lapsed \cup {t}
  /\ UNCHANGED <<server, stored, visit, history>>

RunOut(t) ==
  /\ t \in lapsed /\ server[t] # "gone"
  /\ server' = [server EXCEPT ![t] = "gone"]
  /\ UNCHANGED <<lapsed, stored, visit, history>>

Next ==
  \/ \E v \in Visits :
       \/ Visit(v) \/ Load(v) \/ LoadFails(v) \/ Check(v) \/ CheckFails(v)
       \/ Create(v) \/ ServerCreates(v) \/ Created(v) \/ CreateFails(v)
       \/ Nudge(v) \/ Leave(v)
       \/ \E t \in Txs : Tick(v, t) \/ Answer(v, t)
  \/ Reload
  \/ \E t \in Txs : Settle(t) \/ Lapse(t) \/ RunOut(t)

Spec == Init /\ [][Next]_vars
-----------------------------------------------------------------------------
\* Is a tick of t on its way, or will one be?
Polled(page, t) == ~page.stopped /\ (page.timer = t \/ (page.pending /\ t \in page.flights))

\* A code on the screen is that of the payment that is polled and stored, so
\* that a reload takes it up, and nothing else is polled, however answers,
\* timers, nudges and visits follow each other (page.tsx:223, :327): unless the
\* stored payment had lapsed when the page was opened (page.tsx:365), a page
\* that had been left ended or began a payment (page.tsx:248, :535), or a timer
\* that the next had driven out of pollRef outlived its payment (page.tsx:314).
ShownIsFollowed ==
  history = {} =>
    \A v \in Open :
      LET page == visit[v]
      IN  page.load = "yes" /\ page.phase = "awaiting" =>
            /\ page.tx # NoTx
            /\ stored = page.tx
            /\ Polled(page, page.tx)
            /\ page.flights \cup page.loose \subseteq {page.tx}
=============================================================================
