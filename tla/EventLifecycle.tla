--------------------------- MODULE EventLifecycle ---------------------------
(***************************************************************************)
(* One event after its creation: publishEvent, updateEvent, cancelEvent    *)
(* and the cached reads of it (event/src/services/event.service.js).       *)
(* Three entries are made from its document: the public detail by slug,    *)
(* the document by id, and its organizer's list of events, which has no    *)
(* tracking key.                                                           *)
(***************************************************************************)
EXTENDS Naturals, Sequences, FiniteSets

CONSTANTS Requests, Chunk

Keys == {"detail", "byID", "list"}
Statuses == {"draft", "published", "cancelled"}

VARIABLES
  wired,    \* the event service has been given an inventory service
  status, seeded,
  op,       \* what each request does
  cache, fill, tag, req, lapse,
  past      \* history: seeding failed or was never reached (unseeded), an
            \* update has set the status (moved), or left the list (updated)

C == INSTANCE TaggedCache

cacheVars == <<cache, fill, tag>>
eventVars == <<wired, status, seeded, past>>
vars == <<eventVars, op, cacheVars, req, lapse>>

TypeOK ==
  /\ C!EntriesOK
  /\ wired \in BOOLEAN /\ status \in Statuses /\ seeded \in BOOLEAN
  /\ op \in [Requests -> {"none", "update", "publish", "cancel"}]
  /\ \A r \in Requests :
       req[r].at \in C!Steps \cup {"seed", "detail", "list", "byID"}
  /\ past \in [unseeded : BOOLEAN, moved : BOOLEAN, updated : BOOLEAN]

Init ==
  /\ C!Init
  /\ wired \in BOOLEAN /\ status = "draft" /\ seeded = FALSE
  /\ op = [r \in Requests |-> "none"]
  /\ past = [unseeded |-> FALSE, moved |-> FALSE, updated |-> FALSE]

At(r, step_) == C!At(r, step_)

\* The transaction of a request that goes on at a step.
Commit(r, what, s, step_) ==
  /\ At(r, "idle")
  /\ status' = s
  /\ C!Outdate /\ C!GoTo(r, step_)
  /\ op' = [op EXCEPT ![r] = what]
  /\ UNCHANGED <<wired, seeded, tag, lapse>>
-----------------------------------------------------------------------------
\* Nothing but a cancelled event is refused; the body may carry any status:
\* participantCount, which would forbid the way back to draft, stays 0.
Update(r) ==
  /\ status # "cancelled"
  /\ \E s \in Statuses :
       /\ Commit(r, "update", s, "members")
       /\ past' = [past EXCEPT !.updated = TRUE, !.moved = @ \/ s # status]

\* Mutant: the stock is left for later.
PublishUnseeded(r) ==
  /\ status # "published"
  /\ Commit(r, "publish", "published", "members")
  /\ UNCHANGED past

\* Refused without ticket types.  A cancelled event is published again.
Publish(r) ==
  /\ status # "published"
  /\ Commit(r, "publish", "published", "seed")
  /\ UNCHANGED past

\* Without an inventory service seedManySharded is a TypeError, and an error
\* of one ticket type ends the request: nothing takes the status back, and
\* what is cached stays.
Seed(r) ==
  /\ At(r, "seed")
  /\ \/ /\ wired
        /\ seeded' = TRUE
        /\ C!GoTo(r, "members")
        /\ UNCHANGED <<op, past, lapse>>
     \/ /\ C!End(r) /\ C!Fail
        /\ op' = [op EXCEPT ![r] = "none"]
        /\ past' = [past EXCEPT !.unseeded = TRUE]
        /\ UNCHANGED seeded
  /\ UNCHANGED <<wired, status, cacheVars>>

\* Of a cancelled event, nothing but the entries.
Cancel(r) ==
  /\ IF status = "cancelled"
       THEN /\ At(r, "idle") /\ C!GoTo(r, "members")
            /\ op' = [op EXCEPT ![r] = "cancel"]
            /\ UNCHANGED <<wired, status, seeded, cacheVars, lapse>>
       ELSE Commit(r, "cancel", "cancelled", "members")
  /\ UNCHANGED past
-----------------------------------------------------------------------------
\* Mutant of DropKey: the name is not the one the entry has been stored under.
DropOther(k) == UNCHANGED <<cache, lapse>>

\* RedisService.del answers 0 when it fails.
DropKey(k) == \/ C!Delete({k}) /\ UNCHANGED lapse
              \/ C!Fail /\ UNCHANGED cache

\* _invalidateEvent: what is under the tracking key, then each entry by its
\* name, the list only if the caller names the organizer.
InvalidateTag(r) ==
  /\ \/ C!Members(r, "detail") \/ C!DeleteChunk(r) \/ C!DropTag(r, "detail")
     \/ C!GiveUp(r, "detail")
  /\ UNCHANGED <<eventVars, op>>

InvalidateDetail(r) ==
  /\ At(r, "detail")
  /\ DropKey("detail")
  /\ C!GoTo(r, IF op[r] = "update" THEN "byID" ELSE "list")
  /\ UNCHANGED <<eventVars, op, fill, tag>>

InvalidateList(r) ==
  /\ At(r, "list")
  /\ DropKey("list")
  /\ C!GoTo(r, "byID")
  /\ UNCHANGED <<eventVars, op, fill, tag>>

\* sendEventPublished and sendEventCancelled look for an eventId where the
\* callers give an eventID, and send nothing.
InvalidateByID(r) ==
  /\ At(r, "byID")
  /\ DropKey("byID")
  /\ C!End(r)
  /\ op' = [op EXCEPT ![r] = "none"]
  /\ UNCHANGED <<eventVars, fill, tag>>

Die(r) ==
  /\ C!Die(r)
  /\ op' = [op EXCEPT ![r] = "none"]
  /\ past' = [past EXCEPT !.unseeded = @ \/ At(r, "seed")]
  /\ UNCHANGED <<wired, status, seeded>>
-----------------------------------------------------------------------------
\* getPublicEventDetail stores null for what is not to be seen, which reads
\* as a miss.
StoreNull ==
  /\ fill["detail"] = "stale" \/ (fill["detail"] = "fresh" /\ status = "draft")
  /\ cache' = [cache EXCEPT !["detail"] = "none"]
  /\ fill' = [fill EXCEPT !["detail"] = "none"]
  /\ tag' = tag \cup {"detail"}
  /\ UNCHANGED <<req, lapse>>

StoreDetail ==
  \/ StoreNull
  \/ /\ ~(fill["detail"] = "fresh" /\ status = "draft")
     /\ C!StoreTagged("detail") /\ UNCHANGED lapse

\* getEventByID: fetchFromDB stores under the tracking key, getOrSet then
\* stores the same again without.
StoreFirst ==
  /\ fill["byID"] # "none"
  /\ cache' = [cache EXCEPT !["byID"] = C!Fetched("byID")]
  /\ tag' = tag \cup {"byID"}
  /\ UNCHANGED <<fill, req, lapse>>

Entries ==
  /\ \/ \E k \in Keys : C!Read(k) \/ C!Drop(k) \/ C!Expire(k)
     \/ StoreDetail \/ StoreFirst
     \/ \E k \in {"byID", "list"} : C!StoreUntagged(k)
  /\ UNCHANGED <<eventVars, op>>

Next ==
  \/ \E r \in Requests :
       \/ Update(r) \/ Publish(r) \/ Seed(r) \/ Cancel(r)
       \/ InvalidateTag(r) \/ InvalidateDetail(r) \/ InvalidateList(r)
       \/ InvalidateByID(r) \/ Die(r)
  \/ Entries

Spec == Init /\ [][Next]_vars
-----------------------------------------------------------------------------
\* What is cached of an event, and was right when it was stored, does not
\* outlive the request that changes the event, whichever of its entries are
\* read, stored and deleted meanwhile; unless a deletion failed or was not
\* reached.  Only the organizer's list stays behind after an update
\* (event.service.js:83, :556).
EntriesFollow ==
  C!Quiet /\ ~lapse.failed =>
    \A k \in Keys : cache[k] = "stale" => k = "list" /\ past.updated

\* A published event has its stock, once its publication is over; unless
\* seeding failed after the status was set (event.service.js:640: a second
\* attempt is refused as already published), or an update set the status.
PublishedIsSeeded ==
  status = "published" /\ C!Quiet =>
    seeded \/ past.unseeded \/ past.moved
=============================================================================
