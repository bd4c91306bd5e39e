---------------------------- MODULE Reservation -----------------------------
(***************************************************************************)
(* The life of reservations in the booking service: creation, cancellation *)
(* and confirmation by HTTP requests, the reaper of expired holds and the  *)
(* auto-cancel worker, all working on shared Redis keys and on the stock   *)
(* of the event service.                                                   *)
(*                                                                         *)
(* Every await is a place where others may run, so each handler is a       *)
(* sequence of steps; one Redis command or script is one step.  Time is    *)
(* abstracted to what has passed: timeUp says which holds are past their   *)
(* expiresAt, and a key with a TTL may go once it can have run out.        *)
(* Commands a handler issues together (Promise.allSettled) go down one     *)
(* connection and are one step, and so is a write with the read or the     *)
(* lock right before it.  Any command may fail; where a handler ends by    *)
(* releasing a reaper's lock, the lock left behind is what ioredis does    *)
(* anyway (see Matches).                                                   *)
(*                                                                         *)
(* The stock is a counter per ticket type (see StockCounter), a line asks  *)
(* for one unit, an order is committed in one step (see CommitOnce).       *)
(* Availability messages, producers and response bodies are left out; so   *)
(* is the idempotency cache: every creation comes under a key of its own.  *)
(***************************************************************************)
EXTENDS Integers, FiniteSetsExt

CONSTANTS Reservations, Users, UserOf, Lines,
          Capacity,    \* bound of the stock's capacity
          Handlers,    \* HTTP requests in flight at once
          Reapers,     \* ticks of the reaper and the worker in flight at once
          Clients,     \* Redis clients it may run on, see client
          MaxFaults,   \* bound: failed calls and crashes
          None

ASSUME ReservationAssumption ==
  /\ UserOf \in [Reservations -> Users]
  /\ Capacity \in Nat /\ MaxFaults \in Nat
  /\ Clients \subseteq {"ioredis", "typed"}
  /\ None \notin Reservations
  /\ Handlers \cap Reapers = {}

VARIABLES
  client,    \* "ioredis", or "typed": the client the code is written for
  capacity,  \* of the stock for each line
  create,    \* createReservation for each reservation: step, lines reserved
  work,      \* the handlers: step, reservation, lines of the hold loaded
  hold,      \* hold:<rid>: "none", "readable", or "opaque" (no JSON object)
  indexed,   \* members of hold_expiries
  userHold,  \* user_hold:<user>:<event>, one event
  snapshot,  \* reservation:expired:<rid> that exist
  due,       \* members of auto_cancel:due
  flag,      \* reservation:committed:<rid>: "none", "1", or "quoted"
  locks,     \* lock:confirm:<rid>, lock:reap:<rid>, lock:auto_cancel:<rid>
  net,       \* units taken from the stock for a line minus units given back
  paid,      \* the payment intent has SUCCEEDED
  orders, refunds,
  timeUp,    \* now > expiresAt
  past,      \* history, see Init
  faults

fixed == <<client, capacity>>
keys == <<hold, indexed, userHold, snapshot, due, flag, locks>>
money == <<paid, orders, refunds>>
vars == <<fixed, create, work, keys, net, money, timeUp, past, faults>>

Workers == Handlers \cup Reapers
CreateSteps == {"new", "contended", "steal", "reacquire", "reserve", "persist",
                "unlock", "giveBack", "created", "refused", "crashed"}
WorkSteps == {"zrem", "refund", "cancelRelease", "cancelUnlock", "cancelClean",
              "load", "pay", "order", "confirmUnlock", "confirmClean", "confirmEnd",
              "refusedExpired",
              "reapLoad", "reapMissing", "reapRelease", "reapUnlock",
              "reapSnapshot", "reapClean", "settle", "settleClean"}
NoWork == [pc |-> "idle", r |-> None, lines |-> {}]

-----------------------------------------------------------------------------
(* What the Redis client makes of the code's calls.                        *)

\* The hold is passed to a script as an object.  RedisService serialises what
\* set stores but not script arguments, and ioredis stores "[object Object]".
StoredHold == IF client = "typed" THEN "readable" ELSE "opaque"

\* setNXEx stores the id as JSON, in quotes; compare-del gets it without.
Matches == client = "typed"

\* set stores "1" in quotes, getRaw reads it as it is stored.
StoredFlag == IF client = "typed" THEN "1" ELSE "quoted"

\* compare-del of user_hold on behalf of r.
CompareDel(r) ==
  userHold' = IF Matches /\ userHold[UserOf[r]] = r
              THEN [userHold EXCEPT ![UserOf[r]] = None] ELSE userHold

\* compare-del of a reaper's lock, whose token was stored by setNXEx too.
UnlockReap(r) == locks' = IF Matches THEN locks \ {<<"reap", r>>} ELSE locks

-----------------------------------------------------------------------------
(* The stock.                                                              *)

Stock(l) == capacity[l] - MapThenSumSet(LAMBDA r : net[r][l], Reservations)

AvailableAtZero(l) == Stock(l) >= 0                          \* mutant
Available(l) == Stock(l) > 0

\* A call to another process fails, or its answer is lost; or the process dies.
Fault(r) == /\ faults < MaxFaults
            /\ faults' = faults + 1
            /\ past' = [past EXCEPT !.troubled = @ \cup {r}]
NoFault == UNCHANGED <<faults, past>>

\* safeUnlockUserHold: an error is logged and passed over.
UnlockUser(r) == \/ CompareDel(r) /\ NoFault
                 \/ UNCHANGED userHold /\ Fault(r)

Take(r, l) == net' = [net EXCEPT ![r][l] = @ + 1]

\* eventInv.release of some lines in parallel; told = those answered with ok.
\* The inventory gives back what it is told to, whoever asks, however often.
GiveBack(r, lines, told) ==
  \E done \in SUBSET lines :
    /\ told \subseteq done
    /\ IF told = lines THEN NoFault ELSE Fault(r)
    /\ net' = [net EXCEPT ![r] = [l \in Lines |-> IF l \in done THEN @[l] - 1
                                                               ELSE @[l]]]

-----------------------------------------------------------------------------
Init ==
  /\ client \in Clients /\ capacity \in [Lines -> 0 .. Capacity]
  /\ create = [r \in Reservations |-> [pc |-> "new", other |-> None, got |-> {}]]
  /\ work = [x \in Workers |-> NoWork]
  /\ hold = [r \in Reservations |-> "none"]
  /\ userHold = [u \in Users |-> None]
  /\ flag = [r \in Reservations |-> "none"]
  /\ indexed = {} /\ snapshot = {} /\ due = {} /\ locks = {}
  /\ net = [r \in Reservations |-> [l \in Lines |-> 0]]
  /\ paid = {} /\ orders = {} /\ refunds = {} /\ timeUp = {}
  \* troubled: two handlers worked on its hold at once, its hold lapsed before
  \* it was reaped, or see Fault; missed: see FindNothing and CleanUp.
  /\ past = [troubled |-> {}, missed |-> {}]
  /\ faults = 0

Stored(r) == hold[r] # "none"

-----------------------------------------------------------------------------
(* createReservation                                                       *)

GoCreate(r, pc) == create' = [create EXCEPT ![r].pc = pc]

SetUserHold(r) == userHold' = [userHold EXCEPT ![UserOf[r]] = r]

\* Mutant of Acquire: SET without NX.
AcquireAnyway(r) ==
  /\ create[r].pc = "new"
  /\ SetUserHold(r)
  /\ GoCreate(r, "reserve")
  /\ UNCHANGED <<fixed, work, hold, indexed, snapshot, due, flag, locks, net,
                 money, timeUp, past, faults>>

\* setNXEx on user_hold, right after expiresAt is computed.  It answers false
\* when it fails, even if the key is set.
Acquire(r) ==
  /\ create[r].pc = "new"
  /\ IF userHold[UserOf[r]] = None
     THEN SetUserHold(r) /\ \/ GoCreate(r, "reserve") /\ NoFault
                            \/ GoCreate(r, "contended") /\ Fault(r)
     ELSE UNCHANGED userHold /\ GoCreate(r, "contended") /\ NoFault
  /\ UNCHANGED <<fixed, work, hold, indexed, snapshot, due, flag, locks, net,
                 money, timeUp>>

\* Another reservation has the user's hold: it is an orphan if it has left no
\* trace.  The reads of its three keys are one step here.  A read that fails
\* finds nothing.
LookAtHolder(r) ==
  LET e == userHold[UserOf[r]]
      trace == e # None /\ (Stored(e) \/ e \in snapshot \/ flag[e] # "none")
      Orphan == create' = [create EXCEPT ![r].other = e, ![r].pc = "steal"]
  IN
  /\ create[r].pc = "contended"
  /\ \/ e # None /\ ~ trace /\ Orphan /\ NoFault
     \/ (e = None \/ trace) /\ GoCreate(r, "refused") /\ NoFault
     \/ trace /\ Orphan /\ Fault(e)
     \/ e # None /\ ~ trace /\ GoCreate(r, "refused") /\ Fault(r)
  /\ UNCHANGED <<fixed, work, keys, net, money, timeUp>>

\* compare-del of the orphan's user_hold ...
Steal(r) ==
  /\ create[r].pc = "steal"
  /\ CompareDel(create[r].other)
  /\ \/ GoCreate(r, "reacquire") /\ NoFault
     \/ GoCreate(r, "refused") /\ Fault(r)
  /\ UNCHANGED <<fixed, work, hold, indexed, snapshot, due, flag, locks, net,
                 money, timeUp>>

\* ... and a second setNXEx.
Reacquire(r) ==
  /\ create[r].pc = "reacquire"
  /\ IF userHold[UserOf[r]] = None
     THEN SetUserHold(r) /\ \/ GoCreate(r, "reserve") /\ NoFault
                            \/ GoCreate(r, "refused") /\ Fault(r)
     ELSE UNCHANGED userHold /\ GoCreate(r, "refused") /\ NoFault
  /\ UNCHANGED <<fixed, work, hold, indexed, snapshot, due, flag, locks, net,
                 money, timeUp>>

\* One line after the other, all or nothing.
ReserveLine(r) ==
  /\ create[r].pc = "reserve"
  /\ \E l \in Lines \ create[r].got :
       \/ /\ Available(l)
          /\ Take(r, l)
          /\ LET got == create[r].got \cup {l} IN
             create' = [create EXCEPT ![r].got = got,
                          ![r].pc = IF got = Lines THEN "persist" ELSE "reserve"]
          /\ NoFault
       \/ /\ ~ Available(l)
          /\ GoCreate(r, "unlock") /\ NoFault /\ UNCHANGED net
       \/ /\ \/ Available(l) /\ Take(r, l)       \* done, the answer is lost
             \/ UNCHANGED net                     \* not done
          /\ GoCreate(r, "unlock") /\ Fault(r)
  /\ UNCHANGED <<fixed, work, keys, money, timeUp>>

\* Mutant of StoreHold: no ZADD.
StoreHoldOnly(r) == /\ hold' = [hold EXCEPT ![r] = StoredHold]
                    /\ UNCHANGED indexed

\* LUA_PERSIST_HOLD
StoreHold(r) == /\ hold' = [hold EXCEPT ![r] = StoredHold]
                /\ indexed' = indexed \cup {r}

Persist(r) ==
  /\ create[r].pc = "persist"
  /\ \/ StoreHold(r) /\ GoCreate(r, "created") /\ NoFault
     \/ /\ StoreHold(r) \/ UNCHANGED <<hold, indexed>>
        /\ GoCreate(r, "unlock") /\ Fault(r)
  /\ UNCHANGED <<fixed, work, userHold, snapshot, due, flag, locks, net,
                 money, timeUp>>

\* The catch block: compare-del of user_hold, then the lines reserved so far.
RollBackUserHold(r) ==
  /\ create[r].pc = "unlock"
  /\ UnlockUser(r)
  /\ GoCreate(r, IF create[r].got = {} THEN "refused" ELSE "giveBack")
  /\ UNCHANGED <<fixed, work, hold, indexed, snapshot, due, flag, locks, net,
                 money, timeUp>>

\* Mutant of RollBackLines: the units stay out.
RollBackNothing(r) ==
  /\ create[r].pc = "giveBack"
  /\ GoCreate(r, "refused")
  /\ UNCHANGED <<fixed, work, keys, net, money, timeUp, past, faults>>

RollBackLines(r) ==
  /\ create[r].pc = "giveBack"
  /\ \E told \in SUBSET create[r].got : GiveBack(r, create[r].got, told)
  /\ GoCreate(r, "refused")
  /\ UNCHANGED <<fixed, work, keys, money, timeUp>>

CrashCreate(r) ==
  /\ create[r].pc \notin {"new", "created", "refused", "crashed"}
  /\ GoCreate(r, "crashed")
  /\ Fault(r)
  /\ UNCHANGED <<fixed, work, keys, net, money, timeUp>>

Create(r) ==
  \/ Acquire(r) \/ LookAtHolder(r) \/ Steal(r) \/ Reacquire(r) \/ ReserveLine(r)
  \/ Persist(r) \/ RollBackUserHold(r) \/ RollBackLines(r)

-----------------------------------------------------------------------------
(* Handlers                                                                *)

Go(x, pc) == work' = [work EXCEPT ![x].pc = pc]
Begin(x, r, pc) == work' = [work EXCEPT ![x] = [pc |-> pc, r |-> r, lines |-> {}]]
Finish(x) == work' = [work EXCEPT ![x] = NoWork]

\* A request can name a reservation once its id is out: the 201 answer, or the
\* 409 answer to another request of the user.
Known(r) == create[r].pc # "new"

\* A handler goes on with the hold it has read; note who else is doing so.
LinesRead(r) == IF hold[r] = "readable" THEN Lines ELSE {}
HasHold(x) == work[x].pc \notin {"idle", "zrem", "load", "confirmEnd",
                                "refusedExpired", "reapLoad",
                                "reapMissing"}
Proceed(x, r, pc) ==
  /\ work' = [work EXCEPT ![x] = [pc |-> pc, r |-> r, lines |-> LinesRead(r)]]
  /\ past' = [past EXCEPT !.troubled = @ \cup
                {s \in {r} : \E y \in Workers \ {x} : work[y].r = s /\ HasHold(y)}]

\* A fault after which a hold may be stored and not indexed.
LoseSight(r) ==
  /\ faults < MaxFaults
  /\ faults' = faults + 1
  /\ past' = [troubled |-> past.troubled \cup {r}, missed |-> past.missed \cup {r}]

\* RedisService.get answers null for a key that is not there and for a read
\* that fails.  missed: the hold was there, or is still to come.
FindNothing(r) ==
  \/ /\ ~ Stored(r) /\ create[r].pc \in {"created", "refused"}
     /\ NoFault
  \/ /\ ~ Stored(r) /\ create[r].pc \notin {"created", "refused"}
     /\ past' = [past EXCEPT !.missed = @ \cup {r}]
     /\ UNCHANGED faults
  \/ Stored(r) /\ LoseSight(r)

AtWork(x, pc) == work[x].pc = pc

\* zrem for a hold that was not found; the entry stays if it fails.
Unindex(r) == \/ indexed' = indexed \ {r} /\ NoFault
              \/ UNCHANGED indexed /\ Fault(r)

(* cancelReservation *)

CancelLoad(x, r) ==
  /\ AtWork(x, "idle") /\ Known(r)
  /\ \/ Stored(r) /\ Proceed(x, r, "refund") /\ UNCHANGED faults
     \/ FindNothing(r) /\ Begin(x, r, "zrem")
  /\ UNCHANGED <<fixed, create, keys, net, money, timeUp>>

CancelMissing(x) ==
  /\ AtWork(x, "zrem")
  /\ Unindex(work[x].r)
  /\ Finish(x)
  /\ UNCHANGED <<fixed, create, hold, userHold, snapshot, due, flag, locks, net,
                 money, timeUp>>

\* A payment that has succeeded is refunded; a failing call is only logged.
CancelRefund(x) ==
  LET r == work[x].r IN
  /\ AtWork(x, "refund")
  /\ \/ refunds' = refunds \cup ({r} \cap paid)
        /\ NoFault
     \/ UNCHANGED refunds /\ Fault(r)
  /\ Go(x, "cancelRelease")
  /\ UNCHANGED <<fixed, create, keys, net, paid, orders, timeUp>>

\* Best effort: failures are not looked at.
CancelRelease(x) ==
  /\ AtWork(x, "cancelRelease")
  /\ \E told \in SUBSET work[x].lines : GiveBack(work[x].r, work[x].lines, told)
  /\ Go(x, "cancelUnlock")
  /\ UNCHANGED <<fixed, create, keys, money, timeUp>>

\* Without user and event in the hold another key is meant.
CancelUnlock(x) ==
  /\ AtWork(x, "cancelUnlock")
  /\ UnlockUser(work[x].r)
  /\ Go(x, "cancelClean")
  /\ UNCHANGED <<fixed, create, hold, indexed, snapshot, due, flag, locks, net,
                 money, timeUp>>

DropHold(r) == hold' = [hold EXCEPT ![r] = "none"] /\ indexed' = indexed \ {r}

\* del and zrem, neither of which stops the other or the handler by failing.
CleanUp(r) ==
  \/ DropHold(r) /\ NoFault
  \/ UNCHANGED indexed /\ hold' \in {hold, [hold EXCEPT ![r] = "none"]} /\ Fault(r)
  \/ UNCHANGED hold /\ indexed' = indexed \ {r} /\ LoseSight(r)

CancelClean(x) ==
  /\ AtWork(x, "cancelClean")
  /\ CleanUp(work[x].r)
  /\ Finish(x)
  /\ UNCHANGED <<fixed, create, userHold, snapshot, due, flag, locks, net, money,
                 timeUp>>

(* confirmReservation *)

\* Answered at once if the flag reads "1" or another confirm has the lock.
ConfirmLock(x, r) ==
  /\ AtWork(x, "idle") /\ Known(r)
  /\ <<"confirm", r>> \notin locks
  /\ locks' = locks \cup {<<"confirm", r>>}
  /\ \/ flag[r] # "1" /\ Begin(x, r, "load") /\ NoFault
     \/ flag[r] = "1" /\ Begin(x, r, "load") /\ Fault(r)    \* flag not read
     \/ flag[r] # "1" /\ UNCHANGED work /\ Fault(r)         \* see Acquire
  /\ UNCHANGED <<fixed, create, hold, indexed, userHold, snapshot, due, flag, net,
                 money, timeUp>>

\* A missing hold counts as committed.
ConfirmMissing(x) ==
  LET r == work[x].r IN
  /\ AtWork(x, "load")
  /\ \/ FindNothing(r) /\ flag' = [flag EXCEPT ![r] = StoredFlag]
     \/ ~ Stored(r) /\ UNCHANGED flag /\ Fault(r)
  /\ Go(x, "confirmEnd")
  /\ UNCHANGED <<fixed, create, hold, indexed, userHold, snapshot, due, locks, net,
                 money, timeUp>>

\* HOLD_EXPIRED: expiresAt has passed, or cannot be read and counts as 0.
ConfirmExpired(x) ==
  LET r == work[x].r IN
  /\ AtWork(x, "load") /\ Stored(r)
  /\ r \in timeUp \/ hold[r] = "opaque"
  /\ Go(x, "refusedExpired")
  /\ UNCHANGED <<fixed, create, keys, net, money, timeUp, past, faults>>

ConfirmLive(x) ==
  LET r == work[x].r IN
  /\ AtWork(x, "load") /\ hold[r] = "readable" /\ r \notin timeUp
  /\ Proceed(x, r, "pay")
  /\ UNCHANGED <<fixed, create, keys, net, money, timeUp, faults>>

ConfirmPay(x) ==
  LET r == work[x].r IN
  /\ AtWork(x, "pay")
  /\ \/ Go(x, IF r \in paid THEN "order" ELSE "confirmEnd") /\ NoFault
     \/ Go(x, "confirmEnd") /\ Fault(r)
  /\ UNCHANGED <<fixed, create, keys, net, money, timeUp>>

\* createFromReservation may throw, before or after the ledger is written.
ConfirmOrder(x) ==
  LET r == work[x].r IN
  /\ AtWork(x, "order")
  /\ \/ orders' = orders \cup {r} /\ Go(x, "confirmUnlock") /\ NoFault
     \/ /\ orders' \in {orders, orders \cup {r}}
        /\ Go(x, "confirmEnd") /\ Fault(r)
  /\ UNCHANGED <<fixed, create, keys, net, paid, refunds, timeUp>>

ConfirmUnlock(x) ==
  /\ AtWork(x, "confirmUnlock")
  /\ UnlockUser(work[x].r)
  /\ Go(x, "confirmClean")
  /\ UNCHANGED <<fixed, create, hold, indexed, snapshot, due, flag, locks, net,
                 money, timeUp>>

\* MULTI: hold and index go, the committed flag comes, all or nothing.
ConfirmClean(x) ==
  LET r == work[x].r IN
  /\ AtWork(x, "confirmClean")
  /\ \/ DropHold(r) /\ flag' = [flag EXCEPT ![r] = "1"] /\ NoFault
     \/ UNCHANGED <<hold, indexed, flag>> /\ Fault(r)
  /\ Go(x, "confirmEnd")
  /\ UNCHANGED <<fixed, create, userHold, snapshot, due, locks, net, money, timeUp>>

\* finally: the lock is deleted, whoever holds it by now.
ConfirmEnd(x) ==
  /\ work[x].pc \in {"confirmEnd", "refusedExpired"}
  /\ \/ locks' = locks \ {<<"confirm", work[x].r>>} /\ NoFault
     \/ UNCHANGED locks /\ Fault(work[x].r)
  /\ Finish(x)
  /\ UNCHANGED <<fixed, create, hold, indexed, userHold, snapshot, due, flag, net,
                 money, timeUp>>

(* ReservationReaper._tick, for one id it has found in hold_expiries *)

ReapLock(x, r) ==
  /\ AtWork(x, "idle")
  /\ r \in indexed \cap timeUp /\ <<"reap", r>> \notin locks
  /\ locks' = locks \cup {<<"reap", r>>}
  /\ \/ Begin(x, r, "reapLoad") /\ NoFault
     \/ UNCHANGED work /\ Fault(r)
  /\ UNCHANGED <<fixed, create, hold, indexed, userHold, snapshot, due, flag, net,
                 money, timeUp>>

\* A string in place of a hold makes JSON.parse throw; the id stays indexed.
ReapLoad(x) ==
  LET r == work[x].r IN
  /\ AtWork(x, "reapLoad")
  /\ \/ FindNothing(r) /\ Go(x, "reapMissing") /\ UNCHANGED locks
     \/ hold[r] = "opaque" /\ Finish(x) /\ UnlockReap(r) /\ NoFault
     \/ /\ hold[r] = "readable" /\ Proceed(x, r, "reapRelease")
        /\ UNCHANGED <<locks, faults>>
  /\ UNCHANGED <<fixed, create, hold, indexed, userHold, snapshot, due, flag, net,
                 money, timeUp>>

\* Mutant of ReapMissing: the index entry stays.
ReapMissingKept(x) ==
  /\ AtWork(x, "reapMissing")
  /\ UnlockReap(work[x].r)
  /\ Finish(x)
  /\ UNCHANGED <<fixed, create, hold, indexed, userHold, snapshot, due, flag, net,
                 money, timeUp, past, faults>>

ReapMissing(x) ==
  /\ AtWork(x, "reapMissing")
  /\ Unindex(work[x].r)
  /\ UnlockReap(work[x].r)
  /\ Finish(x)
  /\ UNCHANGED <<fixed, create, hold, userHold, snapshot, due, flag, net, money,
                 timeUp>>

\* Unless every line is answered with ok, all of it is tried again later.
ReapRelease(x) ==
  LET r == work[x].r IN
  /\ AtWork(x, "reapRelease")
  /\ \E told \in SUBSET work[x].lines :
       /\ GiveBack(r, work[x].lines, told)
       /\ IF told = work[x].lines THEN Go(x, "reapUnlock") /\ UNCHANGED locks
                                  ELSE Finish(x) /\ UnlockReap(r)
  /\ UNCHANGED <<fixed, create, hold, indexed, userHold, snapshot, due, flag, money,
                 timeUp>>

\* An error here is not passed over: the whole hold is reaped again, and its
\* units are given back once more.
ReapUnlock(x) ==
  LET r == work[x].r IN
  /\ AtWork(x, "reapUnlock")
  /\ \/ CompareDel(r) /\ Go(x, "reapSnapshot") /\ UNCHANGED locks /\ NoFault
     \/ /\ CompareDel(r) \/ UNCHANGED userHold
        /\ Finish(x) /\ UnlockReap(r) /\ Fault(r)
  /\ UNCHANGED <<fixed, create, hold, indexed, snapshot, due, flag, net, money,
                 timeUp>>

\* Either write may fail, the cleanup follows all the same.
ReapSnapshot(x) ==
  LET r == work[x].r IN
  /\ AtWork(x, "reapSnapshot")
  /\ \/ snapshot' = snapshot \cup {r} /\ due' = due \cup {r} /\ NoFault
     \/ /\ snapshot' \in {snapshot, snapshot \cup {r}}
        /\ due' \in {due, due \cup {r}}
        /\ Fault(r)
  /\ Go(x, "reapClean")
  /\ UNCHANGED <<fixed, create, hold, indexed, userHold, flag, locks, net, money,
                 timeUp>>

ReapClean(x) ==
  /\ AtWork(x, "reapClean")
  /\ CleanUp(work[x].r)
  /\ UnlockReap(work[x].r)
  /\ Finish(x)
  /\ UNCHANGED <<fixed, create, userHold, snapshot, due, flag, net, money, timeUp>>

(* AutoCancelWorker._tick, for one id it has found in auto_cancel:due *)

\* RedisService.exists answers false when it fails.
AutoMissing(x, r) ==
  /\ AtWork(x, "idle")
  /\ r \in due /\ <<"auto", r>> \notin locks
  /\ IF r \in snapshot THEN Fault(r) ELSE NoFault
  /\ due' = due \ {r}
  /\ UNCHANGED <<fixed, create, work, hold, indexed, userHold, snapshot, flag, locks,
                 net, money, timeUp>>

AutoLock(x, r) ==
  /\ AtWork(x, "idle")
  /\ r \in due \cap snapshot /\ <<"auto", r>> \notin locks
  /\ locks' = locks \cup {<<"auto", r>>}
  /\ \/ Proceed(x, r, "settle") /\ UNCHANGED faults
     \/ UNCHANGED work /\ Fault(r)
  /\ UNCHANGED <<fixed, create, hold, indexed, userHold, snapshot, due, flag, net,
                 money, timeUp>>

\* Mutant of AutoSettle: a late payment still makes an order, of units taken anew.
AutoSettleCommits(x) ==
  LET r == work[x].r
      late == r \in paid \cap snapshot /\ \A l \in Lines : Available(l)
  IN
  /\ AtWork(x, "settle")
  /\ orders' = orders \cup {s \in {r} : late}
  /\ net' = [net EXCEPT ![r] = [l \in Lines |-> IF late THEN @[l] + 1 ELSE @[l]]]
  /\ Go(x, "settleClean")
  /\ UNCHANGED <<fixed, create, keys, paid, refunds, timeUp, past, faults>>

\* By the time an id is due the grace window of attemptLateCommitFromSnapshot
\* is over too, so a late payment is refunded and never committed; or not even
\* refunded, if the snapshot has gone by then.
AutoSettle(x) ==
  LET r == work[x].r IN
  /\ AtWork(x, "settle")
  /\ \/ refunds' = refunds \cup ({r} \cap paid \cap snapshot) /\ NoFault
     \/ UNCHANGED refunds /\ Fault(r)
  /\ Go(x, "settleClean")
  /\ UNCHANGED <<fixed, create, keys, net, paid, orders, timeUp>>

AutoClean(x) ==
  LET r == work[x].r IN
  /\ AtWork(x, "settleClean")
  /\ \/ /\ snapshot' = snapshot \ {r} /\ due' = due \ {r}
        /\ locks' = locks \ {<<"auto", r>>} /\ NoFault
     \/ /\ snapshot' \in {snapshot, snapshot \ {r}} /\ due' \in {due, due \ {r}}
        /\ locks' \in {locks, locks \ {<<"auto", r>>}} /\ Fault(r)
  /\ Finish(x)
  /\ UNCHANGED <<fixed, create, hold, indexed, userHold, flag, net, money, timeUp>>

CrashWork(x) ==
  /\ work[x].pc # "idle"
  /\ Finish(x) /\ Fault(work[x].r)
  /\ UNCHANGED <<fixed, create, keys, net, money, timeUp>>

Request(x, r) == CancelLoad(x, r) \/ ConfirmLock(x, r)
Tick(x, r) == ReapLock(x, r) \/ AutoMissing(x, r) \/ AutoLock(x, r)

Continue(x) ==
  \/ CancelMissing(x) \/ CancelRefund(x) \/ CancelRelease(x) \/ CancelUnlock(x)
  \/ CancelClean(x)
  \/ ConfirmMissing(x) \/ ConfirmExpired(x) \/ ConfirmLive(x) \/ ConfirmPay(x)
  \/ ConfirmOrder(x) \/ ConfirmUnlock(x) \/ ConfirmClean(x) \/ ConfirmEnd(x)
  \/ ReapLoad(x) \/ ReapMissing(x) \/ ReapRelease(x) \/ ReapUnlock(x)
  \/ ReapSnapshot(x) \/ ReapClean(x) \/ AutoSettle(x) \/ AutoClean(x)

-----------------------------------------------------------------------------
(* Customers, time and TTLs                                                *)

Pay(r) ==
  /\ Known(r) /\ r \notin paid
  /\ paid' = paid \cup {r}
  /\ UNCHANGED <<fixed, create, work, keys, net, orders, refunds, timeUp, past, faults>>

TimeUp(r) ==
  /\ create[r].pc \notin {"new", "contended", "steal", "reacquire"} /\ r \notin timeUp
  /\ timeUp' = timeUp \cup {r}
  /\ UNCHANGED <<fixed, create, work, keys, net, money, past, faults>>

\* The key's TTL starts after expiresAt is computed, with the same length.
HoldExpires(r) ==
  /\ Stored(r) /\ r \in timeUp
  /\ hold' = [hold EXCEPT ![r] = "none"]
  /\ past' = [past EXCEPT !.troubled = @ \cup {r}]
  /\ UNCHANGED <<fixed, create, work, indexed, userHold, snapshot, due, flag, locks,
                 net, money, timeUp, faults>>

UserHoldExpires(u) ==
  /\ userHold[u] \in timeUp
  /\ userHold' = [userHold EXCEPT ![u] = None]
  /\ UNCHANGED <<fixed, create, work, hold, indexed, snapshot, due, flag, locks, net,
                 money, timeUp, past, faults>>

SnapshotExpires(r) ==
  /\ r \in snapshot
  /\ snapshot' = snapshot \ {r}
  /\ UNCHANGED <<fixed, create, work, hold, indexed, userHold, due, flag, locks, net,
                 money, timeUp, past, faults>>

LockExpires(k) ==
  /\ k \in locks
  /\ locks' = locks \ {k}
  /\ UNCHANGED <<fixed, create, work, hold, indexed, userHold, snapshot, due, flag,
                 net, money, timeUp, past, faults>>

Next ==
  \/ \E r \in Reservations : \/ Create(r) \/ CrashCreate(r)
                             \/ Pay(r) \/ TimeUp(r)
                             \/ HoldExpires(r) \/ SnapshotExpires(r)
                             \/ \E x \in Handlers : Request(x, r)
                             \/ \E x \in Reapers : Tick(x, r)
  \/ \E x \in Workers : Continue(x) \/ CrashWork(x)
  \/ \E u \in Users : UserHoldExpires(u)
  \/ \E k \in locks : LockExpires(k)

Spec == Init /\ [][Next]_vars

\* Handlers that have begun go on; clocks and TTLs run; a tick takes the ids it
\* has found one after the other, so none is passed over for ever.
FairSpec ==
  /\ Spec
  /\ \A x \in Workers : WF_vars(Continue(x))
  /\ \A r \in Reservations :
       /\ WF_vars(Create(r)) /\ WF_vars(TimeUp(r)) /\ WF_vars(HoldExpires(r))
       /\ WF_vars(LockExpires(<<"reap", r>>))
       /\ SF_vars(\E x \in Reapers : ReapLock(x, r))

-----------------------------------------------------------------------------
Creations == [pc : CreateSteps, other : Reservations \cup {None}, got : SUBSET Lines]
Works == [pc : WorkSteps, r : Reservations, lines : SUBSET Lines]
Pasts == [troubled : SUBSET Reservations, missed : SUBSET Reservations]

TypeOK ==
  /\ client \in Clients /\ capacity \in [Lines -> 0 .. Capacity]
  /\ create \in [Reservations -> Creations]
  /\ work \in [Workers -> {NoWork} \cup Works]
  /\ hold \in [Reservations -> {"none", "readable", "opaque"}]
  /\ indexed \cup snapshot \cup due \cup paid \cup orders \cup refunds \cup timeUp
       \subseteq Reservations
  /\ userHold \in [Users -> Reservations \cup {None}]
  /\ flag \in [Reservations -> {"none", "1", "quoted"}]
  /\ locks \subseteq {"confirm", "reap", "auto"} \X Reservations
  /\ net \in [Reservations -> [Lines -> Int]]
  /\ past \in Pasts
  /\ faults \in 0 .. MaxFaults

Quiet(r) ==
  /\ create[r].pc \in {"created", "refused"}
  /\ \A x \in Workers : ~ (work[x].r = r /\ HasHold(x))

\* The stock and the money are right for every reservation that no two
\* handlers worked on at once, whose hold did not run out before it was
\* reaped, and for which no call failed: its units are out as long as it is
\* held or ordered and back otherwise, and what is ordered is paid and not
\* refunded.  With ioredis this is true of refused creations only.
Balanced ==
  \A r \in Reservations \ past.troubled :
    client = "typed" \/ create[r].pc = "refused" =>
      /\ Quiet(r) =>
           \A l \in Lines : net[r][l] = IF Stored(r) \/ r \in orders THEN 1 ELSE 0
      /\ r \in orders => r \in paid /\ r \notin refunds

\* A user has one live hold per event (reservation.service.spec.js:102), where
\* all went well.  With the client the code is written for, one exception: a
\* creation in progress has left no trace yet, so another one of the same user
\* takes it for an orphan and deletes its user hold; from then on any later
\* creation of the user is free to hold as well.
Live(r) == Stored(r) /\ r \notin timeUp /\ Quiet(r)
TakenForOrphan(r) == client = "typed" /\ \E s \in Reservations : create[s].other = r
OneLiveHold ==
  \A r, s \in Reservations \ past.troubled :
    Live(r) /\ Live(s) /\ UserOf[r] = UserOf[s] =>
      r = s \/ TakenForOrphan(r) \/ TakenForOrphan(s)

\* Each reservation goes the way Booking describes: held once all its units are
\* out, given up once they are back, ordered for good.  Its fate is not known
\* after what Balanced leaves out, nor with ioredis.
Fate(r) ==
  IF client # "typed" \/ r \in past.troubled THEN "unknown"
  ELSE IF r \in orders THEN "ordered"
  ELSE CASE create[r].pc = "created" ->
              IF \A l \in Lines : net[r][l] = 1 THEN "held" ELSE "given up"
         [] create[r].pc = "refused" -> "given up"
         [] OTHER -> "asked"

Promise(r) == INSTANCE Booking WITH fate <- Fate(r), paid <- r \in paid,
                                    refunded <- r \in refunds

\* Promise(r)!Spec for every r, with one box around all.
PromisesKept ==
  /\ \A r \in Reservations : Promise(r)!Init
  /\ [][\A r \in Reservations : [Promise(r)!Next]_(Promise(r)!vars)]_vars

\* No more is promised than there is: as long as no failure or lapsed hold has
\* given the units of a line back twice, the reservations that are held or
\* ordered, and for which all went well, fit into its stock together, whatever
\* the others have taken and however far they got (inv.stress.js:87 looks for
\* an oversell of the counters alone; here it is one of holds and orders).
Promised(r) == Quiet(r) /\ (Stored(r) \/ r \in orders)
SoldWithinStock ==
  client = "typed" =>
    \A l \in Lines :
      (\A r \in past.troubled : net[r][l] >= 0) =>
        Cardinality({r \in Reservations \ past.troubled : Promised(r)}) <= capacity[l]

\* The reaper finds every hold, unless a cancel or a reaper looked for it in
\* vain, or failed to delete it, and took the index entry away all the same.
HoldIndexed ==
  \A r \in Reservations : Stored(r) => r \in indexed \/ r \in past.missed

\* No entry stays in hold_expiries for ever: handlers that crash or fail, locks
\* left behind and holds that cannot be read are all got over.
IndexDrains == \A r \in Reservations : r \in indexed ~> r \notin indexed

-----------------------------------------------------------------------------
(* What the code's documentation says and the code does not do.            *)

\* A reservation that was given up and not ordered has its units back:
\* reservation.reaper.js:3, expired holds have their inventory released.
NothingLeaks ==
  \A r \in Reservations :
    Quiet(r) /\ ~ Stored(r) /\ r \notin orders =>
      \A l \in Lines : net[r][l] = 0

\* The units of an order are never given back: reservation.reaper.js:3-5, the
\* reaper releases and cleans up safely, under a lock.
SoldStaysSold == \A r \in orders : \A l \in Lines : net[r][l] = 1

\* confirm finds a hold expired only after its time
\* (reservation.service.spec.js, "SUCCEEDED creates order & tickets").
LiveHoldIsConfirmed ==
  \A x \in Workers : work[x].pc = "refusedExpired" => work[x].r \in timeUp
=============================================================================
