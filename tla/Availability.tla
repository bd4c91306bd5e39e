---------------------------- MODULE Availability ----------------------------
(***************************************************************************)
(* How a change of the stock reaches a client of the event service: the    *)
(* inventory reports it (_afterChange, inventory.service.js), the consumer *)
(* drops what is cached and nudges (kafka/handlers/availability.handler.js)*)
(* the broadcaster pushes a snapshot (adapters/broadcaster.sse.js), which  *)
(* availability.service.js reads or takes from its cache.  One event, one  *)
(* process.  The version of a ticket type is the number of its changes,    *)
(* that of the event the greatest of them; of the counts that were read,   *)
(* stored and shown the model keeps whether they are those of the stock.   *)
(***************************************************************************)
EXTENDS Naturals, FiniteSetsExt, Functions

CONSTANTS Types,       \* ticket types of the event
          MaxChanges,  \* bound of the changes of all of them
          Fetches,     \* runs of getBySlug's inner function, and pushes that
                       \* look into the cache, at once
          NoFetch, NoNote

VARIABLES
  caching,   \* AVAILABILITY_CACHE_TTL_MS is set: snapshots are cached
  version,   \* inv:{type}:version of each ticket type
  owed,      \* changes whose _afterChange has not run, as [t, v]
  notes,     \* changes in the Kafka topic
  lastver,   \* avail:lastver:<event>:<type>
  hand,      \* the consumer: the note it has taken and where it is
  snapshot,  \* availability:slug:<slug>; v is the version it claims, "late"
             \* that it was out of date, or wrong, when it was stored
  etag,      \* avail:etag:<slug>, the etag that is answered with 304
  latest,    \* latestInvVersion, 0 without one
  timer,     \* pending: the hint of the timer that is set
  fetch,     \* runs of getBySlug's inner function: what they have read, the
             \* version they were started for, the pushes that wait for them;
             \* "wrong" is read where a read of the counters failed
  inflight,  \* the run that others may join
  client,    \* one SSE client: whether it is in the set of sinks under the
             \* slug (listed), and what is on its screen
  past       \* history: a note, a nudge or a push was lost (lost), what is
             \* cached was not deleted (kept), the client was given something
             \* old for a known reason (late)

stored == <<snapshot, etag>>
pushed == <<latest, timer, client>>
noted == <<owed, notes, lastver, hand>>
vars == <<caching, version, noted, stored, pushed, fetch, inflight, past>>

Versions == 0..MaxChanges
PerType == [Types -> Versions]
Changes == [t : Types, v : Versions]

Counts == {"fresh", "stale", "wrong"}

\* A push holds the set of sinks it found: the one the client is in, or one that
\* the client has left, empty since.
Sinks == {"held", "left"}

None == [is |-> "none", v |-> 0]
NoTimer == [set |-> FALSE, hint |-> 0]
Idle == [at |-> "idle", min |-> 0, seen |-> "fresh", v |-> 0, push |-> {}]
Unread == {"idle", "look", "counters"}

TypeOK ==
  /\ caching \in BOOLEAN
  /\ version \in PerType /\ lastver \in PerType
  /\ owed \subseteq Changes /\ notes \subseteq Changes
  /\ hand \in [at : {"idle", "drop", "record", "nudge"}, note : Changes \cup {NoNote}]
  /\ snapshot \in [is : {"none", "fresh", "stale", "late"}, v : Versions]
  /\ etag \in {"none", "fresh", "stale", "late"}
  /\ latest \in Versions /\ timer \in [set : BOOLEAN, hint : Versions]
  /\ fetch \in [Fetches -> [at : Unread \cup {"versions", "store", "answer"},
                            min : Versions, seen : Counts, v : Versions,
                            push : SUBSET Sinks]]
  /\ inflight \in Fetches \cup {NoFetch}
  /\ client \in [on : BOOLEAN, listed : BOOLEAN, shown : Counts]
  /\ past \in [lost : BOOLEAN, kept : BOOLEAN, late : BOOLEAN]

Init ==
  /\ caching \in BOOLEAN
  /\ version = [t \in Types |-> 0] /\ lastver = [t \in Types |-> 0]
  /\ owed = {} /\ notes = {} /\ hand = [at |-> "idle", note |-> NoNote]
  /\ snapshot = None /\ etag = "none"
  /\ latest = 0 /\ timer = NoTimer
  /\ fetch = [f \in Fetches |-> Idle] /\ inflight = NoFetch
  /\ client = [on |-> FALSE, listed |-> FALSE, shown |-> "fresh"]
  /\ past = [lost |-> FALSE, kept |-> FALSE, late |-> FALSE]

Newest == Max({version[t] : t \in Types})
Aged(x) == IF x \in {"fresh", "wrong"} THEN "stale" ELSE x
Stored(seen) == IF seen = "fresh" THEN "fresh" ELSE "late"
-----------------------------------------------------------------------------
\* A reserve or release: the counter and the version change in one script.
ChangeStock(t) ==
  /\ SumFunction(version) < MaxChanges
  /\ version' = [version EXCEPT ![t] = @ + 1]
  /\ owed' = owed \cup {[t |-> t, v |-> version[t] + 1]}
  /\ snapshot' = [snapshot EXCEPT !.is = Aged(@)]
  /\ etag' = Aged(etag)
  /\ client' = [client EXCEPT !.shown = Aged(@)]
  /\ fetch' = [f \in Fetches |-> IF fetch[f].at \in Unread THEN fetch[f]
                                 ELSE [fetch[f] EXCEPT !.seen = "stale"]]
  /\ UNCHANGED <<caching, notes, lastver, hand, latest, timer, inflight, past>>

\* _afterChange: the snapshot goes, the etag does not, and the note is sent;
\* each may fail, or the process die before, without an error.
AfterChange(c) ==
  /\ c \in owed
  /\ owed' = owed \ {c}
  /\ snapshot' \in {snapshot, None}
  /\ \/ notes' = notes \cup {c} /\ UNCHANGED past
     \/ past' = [past EXCEPT !.lost = TRUE, !.kept = TRUE] /\ UNCHANGED notes
  /\ UNCHANGED <<caching, version, lastver, hand, etag, pushed, fetch, inflight>>
-----------------------------------------------------------------------------
\* handleAvailabilityMessage: a note that is not newer than the last one of
\* its type is dropped, unless the read of that one fails, which answers 0.
TakeNote(c) ==
  /\ hand.at = "idle" /\ c \in notes
  /\ notes' = notes \ {c}
  /\ \/ hand' = [at |-> "drop", note |-> c]
     \/ c.v <= lastver[c.t] /\ UNCHANGED hand
  /\ UNCHANGED <<caching, version, owed, lastver, stored, pushed, fetch, inflight, past>>

\* Mutant: as _afterChange does, the etag is left where it is.
InvalidateSnapshot == snapshot' = None /\ UNCHANGED etag

\* invalidateBySlug, when neither deletion fails.
Invalidate == snapshot' = None /\ etag' = "none"

DropStored ==
  /\ hand.at = "drop"
  /\ hand' = [hand EXCEPT !.at = "record"]
  /\ \/ Invalidate /\ UNCHANGED past
     \/ /\ past' = [past EXCEPT !.kept = TRUE]
        /\ snapshot' \in {snapshot, None} /\ etag' \in {etag, "none"}
  /\ UNCHANGED <<caching, version, owed, notes, lastver, pushed, fetch, inflight>>

\* Mutant of RecordVersion: the version that is to come is recorded.
RecordNext ==
  /\ hand.at = "record"
  /\ lastver' = [lastver EXCEPT ![hand.note.t] = hand.note.v + 1]
  /\ hand' = [hand EXCEPT !.at = "nudge"]
  /\ UNCHANGED <<caching, version, owed, notes, stored, pushed, fetch, inflight, past>>

RecordVersion ==
  /\ hand.at = "record"
  /\ lastver' \in {lastver, [lastver EXCEPT ![hand.note.t] = hand.note.v]}
  /\ hand' = [hand EXCEPT !.at = "nudge"]
  /\ UNCHANGED <<caching, version, owed, notes, stored, pushed, fetch, inflight, past>>

\* The broadcaster is nudged: the last version that arrived is remembered, the
\* timer is set unless it is, or no client is listed.
Nudge ==
  /\ hand.at = "nudge"
  /\ hand' = [at |-> "idle", note |-> NoNote]
  /\ latest' = hand.note.v
  /\ timer' = IF client.listed /\ ~timer.set
                THEN [set |-> TRUE, hint |-> hand.note.v] ELSE timer
  /\ UNCHANGED <<caching, version, owed, notes, lastver, stored, client, fetch,
                 inflight, past>>

\* Publishing fails or the consumer dies.  The note is delivered again, in
\* vain if its version has been recorded.
HandlerFails ==
  /\ hand.at # "idle"
  /\ notes' = notes \cup {hand.note}
  /\ hand' = [at |-> "idle", note |-> NoNote]
  /\ past' = [past EXCEPT !.lost = @ \/ lastver[hand.note.t] >= hand.note.v]
  /\ UNCHANGED <<caching, version, owed, lastver, stored, pushed, fetch, inflight>>
-----------------------------------------------------------------------------
\* getBySlug: a cached snapshot that claims the version asked for, the run
\* that goes on if it was asked for as much, or a new run.
Hit(min) == caching /\ snapshot.is # "none" /\ snapshot.v >= min

\* Mutant of Joins: whatever version the run was started for.
JoinsAny(min) == inflight # NoFetch
Joins(min) == inflight # NoFetch /\ min <= fetch[inflight].min

Start(min, push) ==
  \E f \in Fetches :
    /\ fetch[f].at = "idle"
    /\ fetch' = [fetch EXCEPT ![f] = [Idle EXCEPT !.at = "counters", !.min = min,
                                                 !.push = push]]
    /\ inflight' = f

\* What a new run has to cover: what the one before it had to, too.
Effective(min) == Max({min} \cup {fetch[f].min : f \in {inflight} \cap Fetches})

\* A push waits for the run that goes on, which may have read already what is
\* old by now.
Join(min, runs, sinks) ==
  /\ fetch' = [runs EXCEPT ![inflight].push = @ \cup sinks]
  /\ past' = IF "held" \in sinks
               THEN [past EXCEPT !.late = min <= runs[inflight].min
                                          /\ runs[inflight].seen = "stale"]
               ELSE past
  /\ UNCHANGED inflight

\* What is read is written to the sinks that were found before, whoever is under
\* the slug by now; if they are empty, what is under the slug goes, be it the
\* set of a client that came back.  late: it is given something out of date for
\* which no other nudge may come, or in place of something newer.
Show(sinks, seen, late) ==
  /\ client' = [client EXCEPT !.shown = IF "held" \in sinks THEN seen ELSE @,
                              !.listed = @ /\ "left" \notin sinks]
  /\ latest' = IF "left" \in sinks THEN 0 ELSE latest
  /\ past' = IF "held" \in sinks
               THEN [past EXCEPT !.late =
                       late \/ (client.shown # "stale" /\ seen = "stale")]
               ELSE past

\* A push is not answered with a snapshot, and ends without a look at its sinks.
LosePush(sinks) == past' = [past EXCEPT !.lost = @ \/ "held" \in sinks]

\* A request: min is its minInvVersion, force its forceRefresh.  One that finds
\* a snapshot or a run to join is answered; a failed read finds no snapshot.
Query(min, force) ==
  /\ min \in {0, Newest}
  /\ \/ force /\ Start(min, {})
     \/ ~force /\ ~Joins(min) /\ Start(Effective(min), {})
  /\ UNCHANGED <<caching, version, noted, stored, pushed, past>>

Connect ==
  /\ ~client.on
  /\ client' = [client EXCEPT !.on = TRUE, !.listed = TRUE]
  /\ timer' = IF timer.set THEN timer ELSE [set |-> TRUE, hint |-> latest]
  /\ UNCHANGED <<caching, version, noted, stored, latest, fetch, inflight, past>>

\* onClose: the client leaves the set under the slug.  One that is not listed
\* stays in the set it was in; what is written to it is lost.
Disconnect ==
  /\ client.on
  /\ client' = [client EXCEPT !.on = FALSE, !.listed = FALSE]
  /\ latest' = IF client.listed THEN 0 ELSE latest
  /\ fetch' = [f \in Fetches |-> [fetch[f] EXCEPT !.push =
       IF client.listed /\ "held" \in @ THEN {"left"} ELSE @ \ {"held"}]]
  /\ UNCHANGED <<caching, version, noted, stored, timer, inflight, past>>

\* The timer of _schedulePush takes the sinks and asks getBySlug, which looks
\* into the cache first if there is one.  It is answered 503 where too many runs
\* go on, those of other events among them.
Push ==
  LET min == IF latest # 0 THEN latest ELSE timer.hint
  IN
  /\ timer.set
  /\ timer' = NoTimer
  /\ \/ ~client.listed /\ UNCHANGED <<fetch, inflight, past>>
     \/ /\ client.listed /\ caching
        /\ \E f \in Fetches :
             /\ fetch[f].at = "idle"
             /\ fetch' = [fetch EXCEPT ![f] = [Idle EXCEPT !.at = "look", !.min = min,
                                                          !.push = {"held"}]]
        /\ UNCHANGED <<inflight, past>>
     \/ client.listed /\ ~caching /\ LosePush({"held"}) /\ UNCHANGED <<fetch, inflight>>
     \/ client.listed /\ ~caching /\ Joins(min) /\ Join(min, fetch, {"held"})
     \/ /\ client.listed /\ ~caching /\ ~Joins(min)
        /\ Start(Effective(min), {"held"})
        /\ UNCHANGED past
  /\ UNCHANGED <<caching, version, noted, stored, latest, client>>

\* The cache has answered the push at f; a failed read finds no snapshot.
LookUp(f) ==
  LET min == fetch[f].min
  IN
  /\ fetch[f].at = "look"
  /\ \/ /\ Hit(min)
        /\ Show(fetch[f].push, IF snapshot.is = "fresh" THEN "fresh" ELSE "stale",
                snapshot.is # "fresh")
        /\ fetch' = [fetch EXCEPT ![f] = Idle]
        /\ UNCHANGED inflight
     \/ /\ LosePush(fetch[f].push)
        /\ fetch' = [fetch EXCEPT ![f] = Idle]
        /\ UNCHANGED <<client, latest, inflight>>
     \/ /\ Joins(min)
        /\ Join(min, [fetch EXCEPT ![f] = Idle], fetch[f].push)
        /\ UNCHANGED <<client, latest>>
     \/ /\ ~Joins(min)
        /\ fetch' = [fetch EXCEPT ![f].at = "counters", ![f].min = Effective(min)]
        /\ inflight' = f
        /\ UNCHANGED <<client, latest, past>>
  /\ UNCHANGED <<caching, version, noted, stored, timer>>
-----------------------------------------------------------------------------
\* One run.  It has slept and asked for the event and its ticket types; now
\* readAggregatedCountersWithVersion reads the counters: 0 where mgetRaw fails,
\* which is not an error,
ReadCounters(f) ==
  /\ fetch[f].at = "counters"
  /\ \E seen \in {"fresh", "wrong"} :
       fetch' = [fetch EXCEPT ![f].at = "versions", ![f].seen = seen]
  /\ UNCHANGED <<caching, version, noted, stored, pushed, inflight, past>>

\* then the versions, of which it may get some: the snapshot claims no less than
\* it was asked for.
ReadVersions(f) ==
  /\ fetch[f].at = "versions"
  /\ \E got \in SUBSET Types :
       fetch' = [fetch EXCEPT
         ![f].at = IF caching THEN "store" ELSE "answer",
         ![f].v = IF caching THEN Max({fetch[f].min} \cup {version[t] : t \in got})
                             ELSE 0]
  /\ UNCHANGED <<caching, version, noted, stored, pushed, inflight, past>>

StoreSnapshot(f) ==
  /\ fetch[f].at = "store"
  /\ snapshot' \in {snapshot, [is |-> Stored(fetch[f].seen), v |-> fetch[f].v]}
  /\ fetch' = [fetch EXCEPT ![f].at = "answer", ![f].v = 0]
  /\ UNCHANGED <<caching, version, noted, etag, pushed, inflight, past>>

EndRun(f) ==
  /\ fetch' = [fetch EXCEPT ![f] = Idle]
  /\ inflight' = IF inflight = f THEN NoFetch ELSE inflight

\* setEtag, then the waiting pushes.
Answer(f) ==
  /\ fetch[f].at = "answer"
  /\ etag' \in {etag, Stored(fetch[f].seen)}
  /\ Show(fetch[f].push, fetch[f].seen, past.late)
  /\ EndRun(f)
  /\ UNCHANGED <<caching, version, noted, snapshot, timer>>

\* A timeout or an error: 503.  A cancelled event: 410, without an etag.
Fails(f) ==
  /\ fetch[f].at \in {"counters", "versions"}
  /\ etag' \in {etag, "none"}
  /\ LosePush(fetch[f].push)
  /\ EndRun(f)
  /\ UNCHANGED <<caching, version, noted, snapshot, pushed>>

Expire ==
  /\ \/ snapshot # None /\ snapshot' = None /\ UNCHANGED etag
     \/ etag # "none" /\ etag' = "none" /\ UNCHANGED snapshot
  /\ UNCHANGED <<caching, version, noted, pushed, fetch, inflight, past>>

Next ==
  \/ \E t \in Types : ChangeStock(t)
  \/ \E c \in owed : AfterChange(c)
  \/ \E c \in notes : TakeNote(c)
  \/ DropStored \/ RecordVersion \/ Nudge \/ HandlerFails
  \/ \E min \in Versions, force \in BOOLEAN : Query(min, force)
  \/ Connect \/ Disconnect \/ Push
  \/ \E f \in Fetches : LookUp(f) \/ ReadCounters(f) \/ ReadVersions(f)
                        \/ StoreSnapshot(f) \/ Answer(f) \/ Fails(f)
  \/ Expire

Spec == Init /\ [][Next]_vars
-----------------------------------------------------------------------------
\* Every change of the stock has been reported and handled.
Handled == owed = {} /\ notes = {} /\ hand.at = "idle"

\* Once every change is handled and no push for it is under way, a connected
\* client sees the stock, whatever nudges were coalesced or came in another order
\* (broadcaster.sse.js:62), and whatever it was shown before a change: a wrong
\* count, too, is put right by the next one.  Unless a note, a nudge or a push was
\* lost; a push of those who had left before it came struck it off the list
\* (broadcaster.sse.js:101); it is shown the zeros of a failed read of the
\* counters (redis.service.js:381, inventory.service.js:484); or the last thing it
\* was given is older than what it had, or out of date under a version that covers
\* the one asked for: the version of the event is the greatest of its types'
\* (inventory.service.js:489), the counters are read before it, and a run that
\* goes on has read them already.
ClientCurrent ==
  Handled /\ client.on /\ ~timer.set /\ (\A f \in Fetches : "held" \notin fetch[f].push) =>
    client.shown # "stale" \/ ~client.listed \/ past.lost \/ past.late

\* Once every change is handled, what is cached, the etag that answers 304
\* included, belongs to the stock as it is, unless a note or a deletion was
\* lost or the entry was out of date or wrong when it was stored
\* (availability.service.js:79).
CacheFollows ==
  Handled /\ ~past.kept =>
    snapshot.is # "stale" /\ etag # "stale"
=============================================================================
