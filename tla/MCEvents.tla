------------------------------ MODULE MCEvents ------------------------------
(***************************************************************************)
(* For TLC: what is kept of an event outside of its stock, its life cycle, *)
(* its attendees and its availability, the page that shows the latter, the *)
(* pages' query cache and the files of a form.  They share no state, so    *)
(* that each is checked by itself: part says which one runs.               *)
(***************************************************************************)
EXTENDS Integers, FiniteSets, TLC

CONSTANTS Calls, Chunk, Pages, PageChunk,
          Types, MaxChanges, Fetches, NoFetch, NoNote, Loops,
          Edits, Files, MaxFiles, Reads

\* A command deletes one key at least.
ASSUME ChunksAssumption == Chunk \in Nat \ {0} /\ PageChunk \in Nat \ {0}

\* An event has ticket types.
ASSUME TypesAssumption == IsFiniteSet(Types) /\ Types # {} /\ MaxChanges \in Nat

\* A form takes files up to a number.
ASSUME FilesAssumption == IsFiniteSet(Files) /\ MaxFiles \in Nat

VARIABLES part,
          wired, status, seeded, op, cache, fill, tag, req, lapse, past,
          page, pageFill, pageTag, pageReq, pageLapse,
          caching, version, owed, notes, lastver, hand, snapshot, etag,
          latest, timer, fetch, inflight, client, availPast,
          open, stream, connected, allowed, grace, running, loop, over,
          tagged, hidden, doubled,
          viewed, server, entry, call, request, got, missed,
          single, shown, files, reading, submit, creating, wanted, crossed

L == INSTANCE EventLifecycle WITH Requests <- Calls
T == INSTANCE TaggedCache WITH Keys <- Pages, Requests <- Calls,
                               Chunk <- PageChunk, cache <- page,
                               fill <- pageFill, tag <- pageTag,
                               req <- pageReq, lapse <- pageLapse
A == INSTANCE Availability WITH past <- availPast
S == INSTANCE StockPage
Q == INSTANCE QueryCache WITH page <- viewed, cache <- entry, fetch <- request
F == INSTANCE EventForm WITH open <- shown

lVars == <<wired, status, seeded, op, cache, fill, tag, req, lapse, past>>
tVars == <<page, pageFill, pageTag, pageReq, pageLapse>>
aVars == <<caching, version, owed, notes, lastver, hand, snapshot, etag,
           latest, timer, fetch, inflight, client, availPast>>
sVars == <<open, stream, connected, allowed, grace, running, loop, over,
           tagged, hidden, doubled>>
qVars == <<viewed, server, entry, call, request, got, missed>>
fVars == <<single, shown, files, reading, submit, creating, wanted, crossed>>
vars == <<part, lVars, tVars, aVars, sVars, qVars, fVars>>

Lifecycle == part = "lifecycle"
Attendees == part = "attendees"
Available == part = "availability"
StockPage == part = "stock page"
Cached == part = "query cache"
Form == part = "form"

Init ==
  /\ part \in {"lifecycle", "attendees", "availability", "stock page",
              "query cache", "form"}
  /\ L!Init /\ T!Init /\ A!Init /\ S!Init /\ Q!Init /\ F!Init
  /\ ~Lifecycle => ~wired
  /\ ~Available => ~caching
  /\ ~StockPage => ~hidden
  /\ ~Cached => viewed = "event"
  /\ ~Form => ~single

Next ==
  /\ UNCHANGED part
  /\ \/ Lifecycle /\ L!Next /\ UNCHANGED <<tVars, aVars, sVars, qVars, fVars>>
     \/ Attendees /\ T!Next /\ UNCHANGED <<lVars, aVars, sVars, qVars, fVars>>
     \/ Available /\ A!Next /\ UNCHANGED <<lVars, tVars, sVars, qVars, fVars>>
     \/ StockPage /\ S!Next /\ UNCHANGED <<lVars, tVars, aVars, qVars, fVars>>
     \/ Cached /\ Q!Next /\ UNCHANGED <<lVars, tVars, aVars, sVars, fVars>>
     \/ Form /\ F!Next /\ UNCHANGED <<lVars, tVars, aVars, sVars, qVars>>

Spec == Init /\ [][Next]_vars
-----------------------------------------------------------------------------
\* Nothing is followed once a deletion has failed; one entry at a time.
BoundLifecycle ==
  /\ ~lapse.failed
  /\ Cardinality({k \in L!Keys : cache[k] # "none" \/ fill[k] # "none"}) <= 1

\* Nothing is followed once something was lost; the screen and the etag are
\* looked at separately; two runs of getBySlug matter for the screen alone,
\* each of them while it can be joined or a push waits for it, and not while
\* the consumer deletes and records, which changes nothing they read.  A push
\* for those who have left, a failed read of the counters, into a screen or
\* into the cache, and a client struck off the list are followed without a
\* second run.
BoundAvailability ==
  LET going == {f \in Fetches : fetch[f].at # "idle"}
      wrong == {f \in going : fetch[f].seen = "wrong"}
      left == {f \in going : "left" \in fetch[f].push}
  IN
  /\ ~availPast.lost /\ ~availPast.kept
  /\ client.on \/ timer.set => etag = "none"
  /\ \A f \in going : fetch[f].push # {} \/ inflight = f
  /\ Cardinality(going) > 1 =>
       /\ client.on /\ ~caching /\ hand.at \notin {"drop", "record"}
       /\ wrong \cup left = {}
  /\ wrong # {} => ~(caching /\ client.on)
  /\ client.on /\ ~client.listed => going = {}

Bound == BoundLifecycle /\ BoundAvailability

\* Of two values each; the identities only cost time.
Symmetry ==
  {p \in UNION {Permutations(vs) : vs \in {Calls, Fetches, Types}} :
     \E x \in DOMAIN p : p[x] # x}
-----------------------------------------------------------------------------
\* Each part keeps its types.
TypeOK == CASE Lifecycle -> L!TypeOK
            [] Attendees -> T!TypeOK
            [] Available -> A!TypeOK
            [] StockPage -> S!TypeOK
            [] Cached -> Q!TypeOK
            [] Form -> F!TypeOK

\* See EventLifecycle.
EntriesFollow == Lifecycle => L!EntriesFollow
PublishedIsSeeded == Lifecycle => L!PublishedIsSeeded

\* See TaggedCache.
PagesFollow == Attendees => T!PagesFollow

\* See Availability.
ClientCurrent == Available => A!ClientCurrent
CacheFollows == Available => A!CacheFollows

\* See StockPage.
OneSource == StockPage => S!OneSource

\* See QueryCache.
ShownFollows == Cached => Q!ShownFollows

\* See EventForm.
FilesFit == Form => F!FilesFit
=============================================================================
