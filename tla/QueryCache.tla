----------------------------- MODULE QueryCache -----------------------------
(***************************************************************************)
(* One entry of the frontend's query cache (frontend/src/lib/queryClient)  *)
(* and the mutations that the hooks offer on what it shows: one module for *)
(* the hooks, which differ in what they show before the answer, in what    *)
(* they undo and in when they fetch again.  Each edit sets a field of its  *)
(* own.  Left out: texts, the first load, pages that no longer look, and   *)
(* useUser's application, deletion and refetch on demand.                  *)
(***************************************************************************)
EXTENDS Integers

CONSTANT Edits  \* calls of a mutation: a bound

VARIABLES
  page,    \* whose entry it is, see Views
  server,  \* the edits that the server has applied
  cache,   \* the entry, see CacheType
  call,    \* the mutations, see CallType
  fetch,   \* the entry's request: not under way, asked, answered
  got,     \* the answer
  missed   \* history: the server and the entry may differ for a known reason

vars == <<page, server, cache, call, fetch, got, missed>>

Views == {"event", "tickets", "methods", "application", "review", "profile"}

\* What is shown of the entry: nothing, once it does not have the form of a
\* response.
CacheType == [data : SUBSET Edits, broken : BOOLEAN]
Broken == [data |-> {}, broken |-> TRUE]
Response(es) == [data |-> es, broken |-> FALSE]

\* shows: what onMutate writes; undoes: onMutate cancels the request and onError
\* writes back what was there; always: it fetches again after a failure as well.
Mode(shows, undoes, always) ==
  [shows |-> shows, undoes |-> undoes, always |-> always]
Optimistic == Mode("edit", TRUE, TRUE)
Misshapen == Mode("broken", TRUE, TRUE)
Restoring == Mode("nothing", TRUE, TRUE)
Settling == Mode("nothing", FALSE, TRUE)
Succeeding == Mode("nothing", FALSE, FALSE)
Trusting == Mode("edit", TRUE, FALSE)

Modes(p) == CASE p = "event" -> {Optimistic, Succeeding}
              [] p = "tickets" -> {Settling}
              [] p = "methods" -> {Misshapen, Succeeding}
              [] p = "application" -> {Misshapen, Restoring}
              [] p = "review" -> {Succeeding}
              [] p = "profile" -> {Trusting}

\* The server has yet to apply it; it has, and the answer is on its way; it has
\* not, and the client has given up.
Idle == [at |-> "idle", mode |-> Settling, snap |-> Response({})]
CallType == [at : {"idle", "sent", "done", "over", "late"},
             mode : UNION {Modes(p) : p \in Views}, snap : CacheType]

TypeOK ==
  /\ page \in Views
  /\ server \in SUBSET Edits
  /\ cache \in CacheType
  /\ call \in [Edits -> CallType]
  /\ fetch \in {"none", "asked", "answered"}
  /\ got \in SUBSET Edits
  /\ missed \in BOOLEAN

Init ==
  /\ page \in Views
  /\ server = {} /\ cache = Response({})
  /\ call = [e \in Edits |-> Idle]
  /\ fetch = "none" /\ got = {} /\ missed = FALSE
-----------------------------------------------------------------------------
\* useUser's query is disabled once the role is known: nothing fetches it.
Enabled == page # "profile"

\* Mutant: a request under way is good enough.
JoinedFetch(yes) == IF yes /\ Enabled /\ fetch = "none" THEN "asked" ELSE fetch

\* invalidateQueries: a request under way is dropped and sent anew.
Refetched(yes) == IF yes /\ Enabled THEN "asked" ELSE fetch

\* The entry with e, which sets fields of what is there.
Shown(m, c, e) ==
  CASE m.shows = "nothing" -> c
    [] m.shows # "nothing" /\ (m.shows = "broken" \/ c.broken) -> Broken
    [] OTHER -> Response(c.data \cup {e})

\* onMutate.  The request it cancels is not repeated before the mutation ends.
Mutate(e) ==
  /\ call[e].at = "idle"
  /\ \E m \in Modes(page) :
       /\ call' = [call EXCEPT ![e] = [at |-> "sent", mode |-> m, snap |-> cache]]
       /\ cache' = Shown(m, cache, e)
       /\ fetch' = IF m.undoes THEN "none" ELSE fetch
       /\ missed' = (missed \/ fetch' # fetch)
  /\ UNCHANGED <<page, server, got>>

Apply(e) ==
  /\ call[e].at \in {"sent", "late"}
  /\ server' = server \cup {e}
  /\ call' = [call EXCEPT ![e].at = IF @ = "sent" THEN "done" ELSE "over"]
  /\ missed' = (missed \/ call[e].at = "late")
  /\ UNCHANGED <<page, cache, fetch, got>>

Succeed(e) ==
  /\ call[e].at = "done"
  /\ call' = [call EXCEPT ![e].at = "over"]
  /\ fetch' = Refetched(TRUE)
  /\ UNCHANGED <<page, server, cache, got, missed>>

\* Mutant: onError leaves the entry.
Left(e) == cache

\* onError: the entry of before the mutation, others' changes since included.
Undone(e) == IF call[e].mode.undoes THEN call[e].snap ELSE cache

\* Refused or given up, or the answer is lost.  Without a new request a lost
\* answer goes unnoticed, and so does the change of another mutation that the
\* entry of before does not have.
Fail(e) ==
  LET m == call[e].mode IN
  /\ call[e].at \in {"sent", "done"}
  /\ \E at \in IF call[e].at = "sent" THEN {"over", "late"} ELSE {"over"} :
       call' = [call EXCEPT ![e].at = at]
  /\ cache' = Undone(e)
  /\ fetch' = Refetched(m.always)
  /\ missed' = \/ missed
               \/ ~(m.always /\ Enabled) /\ call[e].at = "done"
               \/ ~Enabled /\ cache # Shown(m, call[e].snap, e)
  /\ UNCHANGED <<page, server, got>>
-----------------------------------------------------------------------------
Answer ==
  /\ fetch = "asked"
  /\ fetch' = "answered" /\ got' = server /\ missed' = FALSE
  /\ UNCHANGED <<page, server, cache, call>>

Fetched ==
  /\ fetch = "answered"
  /\ fetch' = "none" /\ cache' = Response(got)
  /\ UNCHANGED <<page, server, call, got, missed>>

\* Not repeated: retry is off.  The entry stays.
FetchFails ==
  /\ fetch # "none"
  /\ fetch' = "none" /\ missed' = TRUE
  /\ UNCHANGED <<page, server, cache, call, got>>

\* The list of applications writes each as the entry of its own page, without
\* the envelope of a response; the page then offers to fetch again.
List ==
  /\ page = "review"
  /\ cache' = Broken /\ missed' = TRUE
  /\ UNCHANGED <<page, server, call, fetch, got>>

Retry ==
  /\ page = "review" /\ cache.broken
  /\ fetch' = Refetched(TRUE)
  /\ UNCHANGED <<page, server, cache, call, got, missed>>

Next == \/ \E e \in Edits : Mutate(e) \/ Apply(e) \/ Succeed(e) \/ Fail(e)
        \/ Answer \/ Fetched \/ FetchFails \/ List \/ Retry

Spec == Init /\ [][Next]_vars
-----------------------------------------------------------------------------
Quiet == fetch = "none" /\ \A e \in Edits : call[e].at \notin {"sent", "done"}

\* When nothing is under way a page shows what the server has, in a form it can
\* read, whatever order the mutations, their roll-backs and the requests came
\* in: unless a request failed or the list wrote the entry, the server applied
\* a mutation that its client had given up, or the answer was lost of one that
\* is not followed by a request, or the profile, which is not fetched again,
\* was rolled back over another change (use-event-detail.ts:62,
\* use-payment-method.ts:80, use-user.ts:141, use-user-application.ts:63).
ShownFollows == Quiet /\ ~missed => cache = Response(server)
=============================================================================
