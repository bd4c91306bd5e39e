---------------------------- MODULE TaggedCache -----------------------------
(***************************************************************************)
(* Cache entries that are deleted together: RedisService.set and getOrSet  *)
(* with a tracking key, and invalidateByTrackingKey                        *)
(* (shared/redis/redis.service.js).  Spec is their use for the attendees   *)
(* of one event (event/src/services/event.service.js): the pages of the    *)
(* list, one per search, and the count are entries under one tracking key, *)
(* and nothing else deletes them.                                          *)
(***************************************************************************)
EXTENDS Naturals, Sequences, SequencesExt, FiniteSets

CONSTANTS Keys,       \* cache entries
          Requests,   \* requests that change what the entries are made from
          Chunk       \* keys deleted by one command: 256 in the code

VARIABLES
  cache,   \* the entries: "late" has been read before a change and stored
           \* after it, "stale" was up to date when it was stored
  fill,    \* what a fetchFn has read and not stored yet
  tag,     \* the set under the tracking key: it outlives its members' TTLs
  req,     \* where each request is, the members it has read and the loop's i
  lapse    \* history: a deletion failed or was never reached (failed), keys
           \* stored while a request was between reading the set and deleting
           \* it (window)

cacheVars == <<cache, fill, tag>>
vars == <<cacheVars, req, lapse>>

Steps == {"idle", "members", "chunk", "untag"}
Nothing == [at |-> "idle", keys |-> <<>>, i |-> 0]

EntriesOK ==
  /\ cache \in [Keys -> {"none", "fresh", "stale", "late"}]
  /\ fill \in [Keys -> {"none", "fresh", "stale"}]
  /\ tag \in SUBSET Keys
  /\ \A r \in Requests : /\ Range(req[r].keys) \subseteq Keys
                         /\ req[r].i \in {0, Chunk}
  /\ lapse.failed \in BOOLEAN /\ lapse.window \in SUBSET Keys

TypeOK == EntriesOK /\ \A r \in Requests : req[r].at \in Steps

Init ==
  /\ cache = [k \in Keys |-> "none"] /\ fill = [k \in Keys |-> "none"]
  /\ tag = {}
  /\ req = [r \in Requests |-> Nothing]
  /\ lapse = [failed |-> FALSE, window |-> {}]

At(r, step_) == req[r].at = step_
GoTo(r, step_) == req' = [req EXCEPT ![r].at = step_]
End(r) == req' = [req EXCEPT ![r] = Nothing]
Quiet == \A r \in Requests : At(r, "idle")

\* What was read or stored before a change is stale after it.
Aged(x) == IF x = "fresh" THEN "stale" ELSE x
Outdate == /\ cache' = [k \in Keys |-> Aged(cache[k])]
           /\ fill' = [k \in Keys |-> Aged(fill[k])]

Delete(ks) == cache' = [k \in Keys |-> IF k \in ks THEN "none" ELSE cache[k]]
Fail == lapse' = [lapse EXCEPT !.failed = TRUE]
-----------------------------------------------------------------------------
\* createEventAttendee, updateEventAttendee and removeEventAttendee: the
\* document changes, then the entries go.
Change(r) ==
  /\ At(r, "idle")
  /\ GoTo(r, "members") /\ Outdate
  /\ UNCHANGED <<tag, lapse>>

\* invalidateByTrackingKey: SMEMBERS,
Members(r, after) ==
  /\ At(r, "members")
  /\ req' = [req EXCEPT ![r].keys = SetToSeq(tag),
                        ![r].at = IF tag = {} THEN after ELSE "chunk"]
  /\ UNCHANGED <<cacheVars, lapse>>

\* Mutant of More: the last members are left out.
MoreThanOne(r) == req[r].i + Chunk < Len(req[r].keys)

\* DEL and UNLINK of up to Chunk members at a time, where the loop's third
\* part is i = CHUNK (redis.service.js:541),
More(r) == req[r].i < Len(req[r].keys)
Batch(r) == LET n == Len(req[r].keys)
                last == req[r].i + Chunk
            IN  Range(SubSeq(req[r].keys, req[r].i + 1, IF last < n THEN last ELSE n))

DeleteChunk(r) ==
  /\ At(r, "chunk")
  /\ IF More(r)
       THEN Delete(Batch(r)) /\ req' = [req EXCEPT ![r].i = Chunk]
       ELSE GoTo(r, "untag") /\ UNCHANGED cache
  /\ UNCHANGED <<fill, tag, lapse>>

\* and DEL of the set: members added since it was read go with it.
DropTag(r, after) ==
  /\ At(r, "untag")
  /\ tag' = {}
  /\ req' = [req EXCEPT ![r] = [Nothing EXCEPT !.at = after]]
  /\ UNCHANGED <<cache, fill, lapse>>

\* A command fails and the rest is left out, without an error.
GiveUp(r, after) ==
  /\ req[r].at \in {"members", "chunk", "untag"}
  /\ req' = [req EXCEPT ![r] = [Nothing EXCEPT !.at = after]]
  /\ Fail
  /\ UNCHANGED cacheVars

Die(r) ==
  /\ ~At(r, "idle")
  /\ End(r) /\ Fail
  /\ UNCHANGED cacheVars
-----------------------------------------------------------------------------
\* getOrSet: on a miss fetchFn reads, and the result is stored later.
Read(k) ==
  /\ cache[k] = "none" /\ fill[k] = "none"
  /\ fill' = [fill EXCEPT ![k] = "fresh"]
  /\ UNCHANGED <<cache, tag, req, lapse>>

Fetched(k) == IF fill[k] = "stale" THEN "late" ELSE "fresh"
InWindow == \E r \in Requests : req[r].at \in {"chunk", "untag"}

\* SETEX, for a caller that gives no tracking key.
StoreUntagged(k) ==
  /\ fill[k] # "none"
  /\ cache' = [cache EXCEPT ![k] = Fetched(k)]
  /\ fill' = [fill EXCEPT ![k] = "none"]
  /\ UNCHANGED <<tag, req, lapse>>

\* SETEX and SADD, in one script.
StoreTagged(k) ==
  /\ fill[k] # "none"
  /\ cache' = [cache EXCEPT ![k] = Fetched(k)]
  /\ tag' = tag \cup {k}
  /\ fill' = [fill EXCEPT ![k] = "none"]
  /\ UNCHANGED req

Store(k) ==
  /\ StoreTagged(k)
  /\ lapse' = [lapse EXCEPT !.window = IF InWindow THEN @ \cup {k} ELSE @ \ {k}]

\* The fetch fails, or what it read cannot be stored.
Drop(k) ==
  /\ fill[k] # "none"
  /\ fill' = [fill EXCEPT ![k] = "none"]
  /\ UNCHANGED <<cache, tag, req, lapse>>

Expire(k) ==
  /\ cache[k] # "none"
  /\ cache' = [cache EXCEPT ![k] = "none"]
  /\ UNCHANGED <<fill, tag, req, lapse>>

Entries == \E k \in Keys : Read(k) \/ Store(k) \/ Drop(k) \/ Expire(k)

Invalidate(r) == Members(r, "idle") \/ DeleteChunk(r) \/ DropTag(r, "idle")

Next ==
  \/ \E r \in Requests : Change(r) \/ Invalidate(r) \/ GiveUp(r, "idle") \/ Die(r)
  \/ Entries

Spec == Init /\ [][Next]_vars
-----------------------------------------------------------------------------
\* Whatever is under the tracking key is deleted in full, set included, only
\* if one command takes it all: with more members than that, i = CHUNK keeps
\* the request in its loop for good ("Chunked DEL/UNLINK to avoid huge
\* commands", redis.service.js:539), unless a command fails.
OneRoundOrNone ==
  \A r \in Requests : At(r, "untag") => Len(req[r].keys) <= Chunk

\* An entry that was up to date when it was stored does not outlive the change
\* that outdates it, however reads, stores, expiries and other changes fall
\* between the commands of the invalidation; unless one of them failed, or the
\* entry was stored after the set had been read and lost its membership with
\* the set (redis.service.js:518 and 550): no later change finds such an entry.
\* And OneRoundOrNone.
PagesFollow ==
  /\ OneRoundOrNone
  /\ Quiet /\ ~lapse.failed =>
       \A k \in Keys \ lapse.window : cache[k] # "stale"
=============================================================================
