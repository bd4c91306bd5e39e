----------------------------- MODULE LateCommit -----------------------------
(***************************************************************************)
(* What becomes of a payment that succeeds around the end of its hold: the *)
(* handler of the payment event                                            *)
(* (booking/src/kafka/handlers/payment-succeeded.handler.js), confirm by   *)
(* HTTP, and the auto-cancel worker, which meet in confirmReservation and  *)
(* attemptLateCommitFromSnapshot (reservation.service.js).  The consumers  *)
(* are there but commented out in booking/src/server.js.  Holding, reaping *)
(* and ordering are single steps here, see Reservation and OrderCommit;    *)
(* reaping always writes the snapshot unless the hold's key has run out.   *)
(***************************************************************************)
EXTENDS Integers

CONSTANTS Handlers,  \* events and HTTP requests handled at once
          Worker,
          Intents,   \* payment intents of the reservation; the lowest one is
                     \* the one the payment service answers about
          NoIntent,  \* an HTTP request
          Lines      \* lines of the reservation

VARIABLES
  hold,      \* reservation:hold: "live", "due" past its expiresAt, "gone"
  snap,      \* reservation:expired exists
  due,       \* in auto_cancel:due
  grace,     \* "open", "edge" at its last moment, "over"
  flag,      \* reservation:committed
  lock,      \* lock:confirm
  out,       \* lines that are out of the stock
  order, refunded,
  paid,      \* intents that have succeeded
  events,    \* payment events not handled
  seen,      \* payment:processed
  at,        \* where each actor is,
  about,     \* the intent its event is about,
  taken,     \* and how many lines it has taken back
  past       \* history: a call failed or a process died (failed), attempts
             \* overlapped or the hold was reaped during a confirm (met),
             \* the payment came when nothing was left to take it (late), a
             \* handler found the stock short, and the snapshot stays (short)

kept == <<hold, snap, due, flag>>
money == <<paid, events, seen, refunded>>
vars == <<kept, grace, lock, out, order, money, at, about, taken, past>>

Actors == Handlers \cup {Worker}
Attempt == {"reserve", "order", "clean", "undo", "undoRefund", "refund"}

TypeOK ==
  /\ hold \in {"live", "due", "gone"} /\ grace \in {"open", "edge", "over"}
  /\ {snap, due, flag, lock, order, refunded} \subseteq BOOLEAN
  /\ out \in 0..Lines
  /\ paid \subseteq Intents /\ events \subseteq Intents /\ seen \subseteq Intents
  /\ at \in [Actors -> Attempt \cup {"idle", "dedupe", "confirm", "pay", "late",
                                     "ask", "close"}]
  /\ about \in [Actors -> Intents \cup {NoIntent}]
  /\ taken \in [Actors -> 0..Lines]
  /\ past \subseteq {"failed", "met", "late", "short"}

Init ==
  /\ hold = "live" /\ snap = FALSE /\ due = FALSE /\ grace = "open"
  /\ flag = FALSE /\ lock = FALSE
  /\ out = Lines /\ order = FALSE /\ refunded = FALSE
  /\ paid = {} /\ events = {} /\ seen = {}
  /\ at = [a \in Actors |-> "idle"] /\ about = [a \in Actors |-> NoIntent]
  /\ taken = [a \in Actors |-> 0]
  /\ past = {}

First == CHOOSE i \in Intents : \A j \in Intents : i <= j
GoTo(a, step) == at' = [at EXCEPT ![a] = step]

\* The worker deletes snapshot and schedule after an attempt that failed.
After(a) == IF a = Worker THEN "close" ELSE "idle"
Note(what) == past' = past \cup {what}
Trying(a) == \E b \in Actors \ {a} : at[b] \in Attempt \cup {"pay", "close"}
-----------------------------------------------------------------------------
\* The provider's answer reaches the payment service, and its event Kafka.
Pay(i) ==
  /\ i \notin paid
  /\ paid' = paid \cup {i} /\ events' = events \cup {i}
  /\ past' = IF hold = "gone" /\ (~snap \/ at[Worker] = "close")
               THEN past \cup {"late"} ELSE past
  /\ UNCHANGED <<kept, grace, lock, out, order, seen, refunded, at, about, taken>>

\* expiresAt passes, then the grace window, while its last moment may be
\* looked at.
Time ==
  /\ \/ hold = "live" /\ hold' = "due" /\ UNCHANGED grace
     \/ hold # "live" /\ grace = "open" /\ grace' = "edge" /\ UNCHANGED hold
     \/ grace = "edge" /\ grace' = "over" /\ UNCHANGED hold
  /\ UNCHANGED <<snap, due, flag, lock, out, order, money, at, about, taken, past>>

\* The reaper, within the window or after it.
Reap ==
  /\ hold = "due"
  /\ hold' = "gone" /\ snap' = TRUE /\ due' = TRUE
  /\ out' = out - Lines
  /\ past' = IF \E a \in Actors : at[a] = "pay" THEN past \cup {"met"} ELSE past
  /\ UNCHANGED <<grace, flag, lock, order, money, at, about, taken>>

\* The snapshot's TTL, half a minute after the window.
SnapshotExpires ==
  /\ snap /\ grace = "over"
  /\ snap' = FALSE
  /\ Note("failed")
  /\ UNCHANGED <<hold, due, flag, grace, lock, out, order, money, at, about, taken>>
-----------------------------------------------------------------------------
\* PaymentSucceededHandler.handle.  A request comes with no event.
Receive(h) ==
  /\ at[h] = "idle"
  /\ \/ \E i \in events : /\ events' = events \ {i}
                          /\ about' = [about EXCEPT ![h] = i]
                          /\ GoTo(h, "dedupe")
     \/ about' = [about EXCEPT ![h] = NoIntent] /\ GoTo(h, "confirm") /\ UNCHANGED events
  /\ UNCHANGED <<kept, grace, lock, out, order, paid, seen, refunded, taken, past>>

\* An event seen before is dropped; so is one whose key cannot be written.
Dedupe(h) ==
  /\ at[h] = "dedupe"
  /\ \/ about[h] \in seen /\ GoTo(h, "idle") /\ UNCHANGED <<seen, past>>
     \/ about[h] \notin seen /\ seen' = seen \cup {about[h]} /\ GoTo(h, "confirm")
        /\ UNCHANGED past
     \/ GoTo(h, "idle") /\ Note("failed") /\ UNCHANGED seen
  /\ UNCHANGED <<kept, grace, lock, out, order, paid, events, refunded, about, taken>>

\* confirmReservation up to the payment.  A hold that is gone, or cannot be
\* read, sets the flag.  Only ALREADY_CLEARED, a state, makes the handler go
\* on: HOLD_EXPIRED is an error.
Cleared(h) == GoTo(h, IF about[h] = NoIntent THEN "idle" ELSE "late")

Confirm(h) ==
  /\ at[h] = "confirm"
  /\ \/ (flag \/ lock \/ hold = "due") /\ GoTo(h, "idle") /\ UNCHANGED <<flag, lock, past>>
     \/ ~flag /\ ~lock /\ hold = "live" /\ lock' = TRUE /\ GoTo(h, "pay")
        /\ UNCHANGED <<flag, past>>
     \/ ~flag /\ ~lock /\ hold = "gone" /\ flag' = TRUE /\ Cleared(h)
        /\ UNCHANGED <<lock, past>>
     \/ ~flag /\ ~lock /\ flag' = TRUE /\ Cleared(h) /\ Note("failed") /\ UNCHANGED lock
  /\ UNCHANGED <<hold, snap, due, grace, out, order, money, about, taken>>

\* The payment service answers about the first intent; the order is written
\* and the hold deleted, or one of the calls fails.
ConfirmPaid(h) ==
  /\ at[h] = "pay"
  /\ lock' = FALSE
  /\ \/ /\ First \in paid
        /\ order' = TRUE /\ hold' = "gone" /\ flag' = TRUE
        /\ GoTo(h, "idle")
        /\ UNCHANGED past
     \/ /\ First \notin paid
        /\ GoTo(h, "idle")
        /\ UNCHANGED <<order, hold, flag, past>>
     \/ /\ (GoTo(h, "idle") \/ Cleared(h))
        /\ Note("failed")
        /\ UNCHANGED <<order, hold, flag>>
  /\ UNCHANGED <<snap, due, grace, out, money, about, taken>>
-----------------------------------------------------------------------------
\* attemptLateCommitFromSnapshot
Late(a) ==
  /\ at[a] = "late"
  /\ GoTo(a, IF ~snap THEN After(a) ELSE IF grace = "over" THEN "refund" ELSE "reserve")
  /\ past' = IF snap /\ Trying(a) THEN past \cup {"met"} ELSE past
  /\ UNCHANGED <<kept, grace, lock, out, order, money, about, taken>>

\* Each line is taken, or the stock is short, or the answer is lost.
Reserve(a) ==
  /\ at[a] = "reserve"
  /\ \/ out + 1 <= Lines /\ out' = out + 1 /\ taken' = [taken EXCEPT ![a] = @ + 1]
        /\ GoTo(a, IF taken[a] + 1 = Lines THEN "order" ELSE "reserve")
        /\ UNCHANGED past
     \/ GoTo(a, "undoRefund") /\ UNCHANGED <<out, taken>>
        /\ past' = IF a = Worker THEN past ELSE past \cup {"short"}
     \/ GoTo(a, "undoRefund") /\ Note("failed") /\ out' \in {out, out + 1} \cap 0..Lines
        /\ UNCHANGED taken
  /\ UNCHANGED <<kept, grace, lock, order, money, about>>

WriteOrder(a) ==
  /\ at[a] = "order"
  /\ \/ order' = TRUE /\ GoTo(a, "clean") /\ UNCHANGED past
     \/ GoTo(a, "undo") /\ Note("failed") /\ UNCHANGED order
  /\ UNCHANGED <<kept, grace, lock, out, money, about, taken>>

\* Mutant of Clean: the snapshot stays until it runs out.
CleanLess(a) ==
  /\ at[a] = "clean"
  /\ GoTo(a, "idle") /\ taken' = [taken EXCEPT ![a] = 0]
  /\ flag' = TRUE
  /\ UNCHANGED <<hold, snap, due, grace, lock, out, order, money, about, past>>

Clean(a) ==
  /\ at[a] = "clean"
  /\ GoTo(a, "idle") /\ taken' = [taken EXCEPT ![a] = 0]
  /\ \/ snap' = FALSE /\ due' = FALSE /\ flag' = TRUE /\ UNCHANGED past
     \/ Note("failed") /\ UNCHANGED <<snap, due, flag>>
  /\ UNCHANGED <<hold, grace, lock, out, order, money, about>>

Undo(a) ==
  /\ at[a] \in {"undo", "undoRefund"}
  /\ GoTo(a, IF at[a] = "undoRefund" THEN "refund" ELSE After(a))
  /\ taken' = [taken EXCEPT ![a] = 0]
  /\ \/ out' = out - taken[a] /\ UNCHANGED past
     \/ Note("failed") /\ UNCHANGED out
  /\ UNCHANGED <<kept, grace, lock, order, money, about>>

\* A failing refund is logged.
Refund(a) ==
  /\ at[a] = "refund"
  /\ GoTo(a, After(a))
  /\ \/ refunded' = TRUE /\ UNCHANGED past
     \/ Note("failed") /\ UNCHANGED refunded
  /\ UNCHANGED <<kept, grace, lock, out, order, paid, events, seen, about, taken>>
-----------------------------------------------------------------------------
\* AutoCancelWorker._tick, due at the window's last moment.
WorkerTick ==
  /\ at[Worker] = "idle" /\ due /\ grace # "open"
  /\ IF snap THEN GoTo(Worker, "ask") /\ UNCHANGED due
             ELSE due' = FALSE /\ UNCHANGED at
  /\ UNCHANGED <<hold, snap, flag, grace, lock, out, order, money, about, taken, past>>

\* PaymentClient.confirm never throws: a failure is one more answer that is
\* not SUCCEEDED.
WorkerAsks ==
  /\ at[Worker] = "ask"
  /\ \/ GoTo(Worker, IF First \in paid THEN "late" ELSE "close") /\ UNCHANGED past
     \/ GoTo(Worker, "close") /\ Note("failed")
  /\ UNCHANGED <<kept, grace, lock, out, order, money, about, taken>>

WorkerCloses ==
  /\ at[Worker] = "close"
  /\ GoTo(Worker, "idle")
  /\ \/ snap' = FALSE /\ due' = FALSE /\ UNCHANGED past
     \/ Note("failed") /\ UNCHANGED <<snap, due>>
  /\ UNCHANGED <<hold, flag, grace, lock, out, order, money, about, taken>>

\* A process dies: its event comes again and is dropped as seen.
Die(a) ==
  /\ at[a] # "idle"
  /\ GoTo(a, "idle")
  /\ events' = IF about[a] = NoIntent THEN events ELSE events \cup {about[a]}
  /\ taken' = [taken EXCEPT ![a] = 0]
  /\ lock' = (lock /\ at[a] # "pay")
  /\ past' = IF at[a] \in {"dedupe", "ask"} THEN past ELSE past \cup {"failed"}
  /\ UNCHANGED <<kept, grace, out, order, paid, seen, refunded, about>>

Next ==
  \/ \E i \in Intents : Pay(i)
  \/ Time \/ Reap \/ SnapshotExpires
  \/ \E h \in Handlers : Receive(h) \/ Dedupe(h) \/ Confirm(h) \/ ConfirmPaid(h)
  \/ \E a \in Actors : Late(a) \/ Reserve(a) \/ WriteOrder(a) \/ Clean(a) \/ Undo(a)
                       \/ Refund(a) \/ Die(a)
  \/ WorkerTick \/ WorkerAsks \/ WorkerCloses

Spec == Init /\ [][Next]_vars
-----------------------------------------------------------------------------
Over == (\A a \in Actors : at[a] = "idle") /\ events = {} /\ hold = "gone" /\ ~due

\* In the end a reservation whose payment succeeded has been ordered or
\* refunded and not both, and units are out of the stock exactly if it was
\* ordered, however its end, the grace window, events, requests and the worker
\* fall together; unless a call failed, a process died in the middle, attempts
\* overlapped (they share no lock, reservation.service.js:1038), the payment
\* came when hold and snapshot were gone, or a handler's refund for a short
\* stock left the snapshot behind (reservation.service.js:1142), from which the
\* worker may order after all.
SettledOnce ==
  Over /\ past = {} =>
    /\ ~(order /\ refunded)
    /\ out = (IF order THEN Lines ELSE 0)
    /\ First \in paid => order \/ refunded
=============================================================================
