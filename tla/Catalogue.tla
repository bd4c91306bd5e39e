----------------------------- MODULE Catalogue ------------------------------
(***************************************************************************)
(* The ticket types of one event: documents of the ticket service          *)
(* (ticket/src/services/ticket.service.js), changed under a Redis lock,    *)
(* and the event service's snapshots of them                               *)
(* (event/src/kafka/consumer/*.js), which follow over Kafka (Delivery).    *)
(* A document's contents are the number of writes it has seen.             *)
(***************************************************************************)
EXTENDS Delivery, FiniteSets

CONSTANTS Requests,   \* requests in flight at once
          Types,      \* ids of ticket types
          MaxWrites,  \* bound of the writes to one of them
          NoOne

VARIABLES
  answers,    \* the lock is told that it has been acquired: executeWithLock
              \* waits for OK, RedisService.set answers TRUE and drops nx
  type,       \* ticketTypes/<id>: writes, here, published
  snap,       \* events/<id>/ticketTypes/<id>: the write copied, 0 without one
  list,       \* the cached list of the types: "none", "fresh" or "stale"
  fill,       \* what getOrSet has read and not yet stored, the same way
  lock,       \* holder of lock:event:<id>:ticketTypes
  req,        \* where each request is; v is the write it has done
  past        \* history: types whose requests overlapped with each other
              \* outside of the lock (raced), messages never sent (unsent),
              \* types handled out of order (overtaken), updates that set the
              \* price to 0 (free), lists that were not dropped (kept)

records == <<type, snap, list, fill, lock, req, past>>
vars == <<answers, records, delivery>>

Ops == {"create", "update", "delete"}
Steps == {"idle", "add", "lock", "write", "drop", "send"}
Nothing == [op |-> "none", at |-> "idle", t |-> NoOne, v |-> 0]
Lists == {"none", "fresh", "stale"}

\* What a message says: v is the write it announces; zero, that it carries a
\* price of 0.
Announcement == [op : Ops, t : Types, v : 1..MaxWrites, zero : BOOLEAN]

ASSUME MessagesAssumption == Messages = Announcement
ASSUME MaxWritesAssumption == MaxWrites \in Nat \ {0}
ASSUME NoOneAssumption == NoOne \notin Requests \cup Types

TypeOK ==
  /\ DeliveryTypeOK
  /\ answers \in BOOLEAN
  /\ type \in [Types -> [v : 0..MaxWrites, here : BOOLEAN, published : BOOLEAN]]
  /\ snap \in [Types -> 0..MaxWrites]
  /\ list \in Lists /\ fill \in Lists
  /\ lock \in Requests \cup {NoOne}
  /\ req \in [Requests -> [op : Ops \cup {"none", "publish"}, at : Steps,
                           t : Types \cup {NoOne}, v : 0..MaxWrites]]
  /\ past \in [raced : SUBSET Types, unsent : SUBSET Types,
               overtaken : SUBSET Types, free : SUBSET Types, kept : BOOLEAN]

Init ==
  /\ DeliveryInit
  /\ answers \in BOOLEAN
  /\ type = [t \in Types |-> [v |-> 0, here |-> FALSE, published |-> FALSE]]
  /\ snap = [t \in Types |-> 0]
  /\ list = "none" /\ fill = "none" /\ lock = NoOne
  /\ req = [r \in Requests |-> Nothing]
  /\ past = [raced |-> {}, unsent |-> {}, overtaken |-> {}, free |-> {},
             kept |-> FALSE]

At(r, step_) == req[r].at = step_
GoTo(r, step_) == req' = [req EXCEPT ![r].at = step_]
End(r) == req' = [req EXCEPT ![r] = Nothing]
Here == {t \in Types : type[t].here}
Busy == {r \in Requests : ~At(r, "idle")}

\* A write makes what was read before it stale.
Stale(l) == IF l = "fresh" THEN "stale" ELSE l
ListsStale == list' = Stale(list) /\ fill' = Stale(fill)
-----------------------------------------------------------------------------
\* findOrCreateTicketType takes no lock.  Nothing changes if it finds one.
Create(r) ==
  /\ At(r, "idle")
  /\ req' = [req EXCEPT ![r] = [Nothing EXCEPT !.op = "create", !.at = "add"]]
  /\ UNCHANGED <<answers, type, snap, list, fill, lock, past, delivery>>

CreateAdd(r) ==
  /\ At(r, "add")
  /\ \E t \in Types :
       /\ type[t].v = 0
       /\ type' = [type EXCEPT ![t].v = 1, ![t].here = TRUE]
       /\ req' = [req EXCEPT ![r].at = "drop", ![r].t = t, ![r].v = 1]
  /\ ListsStale
  /\ UNCHANGED <<answers, snap, lock, past, delivery>>
-----------------------------------------------------------------------------
\* updateTicketType, deleteTicketType, and publishTicketTypes, which the
\* consumer of EVENT_PUBLISHED calls.
Change(r, op, t) ==
  /\ At(r, "idle")
  /\ t \in Here /\ type[t].v < MaxWrites
  /\ req' = [req EXCEPT ![r] = [Nothing EXCEPT !.op = op, !.at = "lock", !.t = t]]
  /\ UNCHANGED <<answers, type, snap, list, fill, lock, past, delivery>>

Publish(r) ==
  /\ At(r, "idle")
  /\ req' = [req EXCEPT ![r] = [Nothing EXCEPT !.op = "publish", !.at = "lock"]]
  /\ UNCHANGED <<answers, type, snap, list, fill, lock, past, delivery>>

\* Mutant: the answer is not looked at.
FreeAnyway == answers

\* executeWithLock: three attempts, then it gives up.
Free == answers /\ lock = NoOne

Acquire(r) ==
  /\ At(r, "lock")
  /\ \/ Free /\ lock' = r /\ GoTo(r, "write")
     \/ ~Free /\ End(r) /\ UNCHANGED lock
  /\ UNCHANGED <<answers, type, snap, list, fill, past, delivery>>

Unlock(r) == lock' = IF lock = r THEN NoOne ELSE lock

\* 10 seconds have passed.
LockExpires ==
  /\ lock # NoOne
  /\ lock' = NoOne
  /\ past' = [past EXCEPT !.raced = IF lock \in Busy THEN @ \cup Types ELSE @]
  /\ UNCHANGED <<answers, type, snap, list, fill, req, delivery>>

\* One transaction.  An update needs an unpublished type; what is published
\* may be deleted.  remainingQuantity changes nowhere else, so that nothing
\* ever counts as sold.
Overlaps(t) == \E q \in Busy : req[q].t = t /\ req[q].op = "create"

Write(r) ==
  LET t == req[r].t
      allowed == req[r].op = "update" => ~type[t].published
  IN /\ At(r, "write") /\ req[r].op \in {"update", "delete"}
     /\ IF t \in Here /\ type[t].v < MaxWrites /\ allowed
          THEN /\ type' = [type EXCEPT ![t].v = @ + 1,
                                       ![t].here = req[r].op = "update"]
               /\ req' = [req EXCEPT ![r].at = "drop", ![r].v = type[t].v + 1]
               /\ past' = [past EXCEPT !.raced = IF Overlaps(t) THEN @ \cup {t}
                                                                ELSE @]
               /\ ListsStale
               /\ UNCHANGED lock
          ELSE /\ End(r) /\ Unlock(r)
               /\ UNCHANGED <<type, list, fill, past>>
     /\ UNCHANGED <<answers, snap, delivery>>

WritePublished(r) ==
  /\ At(r, "write") /\ req[r].op = "publish"
  /\ IF \E t \in Here : ~type[t].published
       THEN /\ type' = [t \in Types |-> [type[t] EXCEPT !.published = @ \/ t \in Here]]
            /\ ListsStale /\ GoTo(r, "drop")
            /\ UNCHANGED lock
       ELSE /\ End(r) /\ Unlock(r)
            /\ UNCHANGED <<type, list, fill>>
  /\ UNCHANGED <<answers, snap, past, delivery>>

\* Mutant: the list stays.
DropNothing == UNCHANGED <<list, past>>

\* del swallows its failures.
DropCache == list' = "none" /\ UNCHANGED past
KeepCache == UNCHANGED list /\ past' = [past EXCEPT !.kept = TRUE]

Drop(r) ==
  /\ At(r, "drop")
  /\ DropCache \/ KeepCache
  /\ IF req[r].op = "publish" THEN End(r) /\ Unlock(r)
                              ELSE GoTo(r, "send") /\ UNCHANGED lock
  /\ UNCHANGED <<answers, type, snap, fill, delivery>>

Announce(r) ==
  LET t == req[r].t IN
  /\ At(r, "send")
  /\ \E zero \in (IF req[r].op = "update" THEN BOOLEAN ELSE {FALSE}) :
       /\ Send([op |-> req[r].op, t |-> t, v |-> req[r].v, zero |-> zero])
       /\ past' = IF zero THEN [past EXCEPT !.free = @ \cup {t}] ELSE past
  /\ End(r) /\ Unlock(r)
  /\ UNCHANGED <<answers, type, snap, list, fill>>

\* The sender throws, or the process dies: the lock stays until it expires.
Die(r) ==
  /\ r \in Busy
  /\ End(r)
  /\ lock' \in {lock, IF lock = r THEN NoOne ELSE lock}
  /\ past' = [past EXCEPT
       !.unsent = IF req[r].v # 0 THEN @ \cup {req[r].t} ELSE @,
       !.kept = @ \/ At(r, "drop")]
  /\ UNCHANGED <<answers, type, snap, list, fill, delivery>>
-----------------------------------------------------------------------------
\* getTicketTypesByEvent
ListQuery ==
  /\ list = "none" /\ fill = "none"
  /\ fill' = "fresh"
  /\ UNCHANGED <<answers, type, snap, list, lock, req, past, delivery>>

ListStore ==
  /\ fill # "none"
  /\ list' \in {list, fill}
  /\ past' = [past EXCEPT !.kept = @ \/ fill = "stale"]
  /\ fill' = "none"
  /\ UNCHANGED <<answers, type, snap, lock, req, delivery>>

ListExpires ==
  /\ list # "none"
  /\ list' = "none"
  /\ UNCHANGED <<answers, type, snap, fill, lock, req, past, delivery>>
-----------------------------------------------------------------------------
\* The use cases of the event service.  A snapshot that is missing cannot be
\* updated; a price of 0 is not taken over.
Copies(m) == CASE m.op = "create" -> m.v
               [] m.op = "update" -> IF m.zero THEN snap[m.t] ELSE m.v
               [] m.op = "delete" -> 0

Handle ==
  /\ HandleOk
  /\ LET m == Current.m IN
       /\ m.op = "update" => snap[m.t] # 0
       /\ snap' = [snap EXCEPT ![m.t] = Copies(m)]
       /\ past' = IF Current.n > 0 /\ \E o \in done : o.t = m.t /\ o.v > m.v
                    THEN [past EXCEPT !.overtaken = @ \cup {m.t}] ELSE past
  /\ UNCHANGED <<answers, type, list, fill, lock, req>>

\* A snapshot is missing, the event is, or Firestore fails.
Refuse == HandleFail /\ UNCHANGED <<answers, records>>

Transport == Deliver /\ UNCHANGED <<answers, records>>

Next ==
  \/ \E r \in Requests :
       \/ Create(r) \/ CreateAdd(r) \/ Publish(r)
       \/ \E t \in Types, op \in {"update", "delete"} : Change(r, op, t)
       \/ Acquire(r) \/ Write(r) \/ WritePublished(r) \/ Drop(r) \/ Announce(r)
       \/ Die(r)
  \/ LockExpires \/ ListQuery \/ ListStore \/ ListExpires
  \/ Handle \/ Refuse \/ Transport

Spec == Init /\ [][Next]_vars
-----------------------------------------------------------------------------
\* Reasons for a snapshot to differ.  A message may be dead although it was
\* handled before, and so may an older one that was handled again after it.
Left(t) ==
  \/ \E m \in dead \cup missed : m.t = t
  \/ t \in past.raced \cup past.unsent \cup past.overtaken \cup past.free

Quiet(t) == /\ \A r \in Requests : req[r].t # t
            /\ \A m \in InTopic(next) : m.t # t
            /\ \A l \in Level : \A m \in From(retry[l], rread[l]) : m.t # t

\* Once nothing of a ticket type is on its way the event service's snapshot
\* is the ticket service's document, whatever was handled twice, unless a
\* message was not handled or only after a later one, requests overlapped
\* outside of the lock, or a price went to 0 (ticket.service.js:188).
SnapshotsAgree ==
  \A t \in Types : Quiet(t) /\ ~Left(t) =>
    snap[t] = IF type[t].here THEN type[t].v ELSE 0

\* The cached list of the ticket types, from which an event's publication is
\* decided, is out of date only while a change goes on, or if dropping it
\* failed or it was read before the change and stored after it
\* (ticket.service.js:184).
ListFollows ==
  list = "stale" => past.kept \/ \E r \in Requests : At(r, "drop")

\* Both copies of the ticket types follow them (see above): the event service's
\* snapshots and the cached list.
CopiesFollow == SnapshotsAgree /\ ListFollows
=============================================================================
