----------------------------- MODULE StockPage ------------------------------
(***************************************************************************)
(* The stock on an event's page: a stream of updates                       *)
(* (frontend/src/app/events/[slug]/AvailabilityClient.tsx) and, while it   *)
(* has nothing to say, polling (hooks/use-availability-polling.ts).  State *)
(* changes take effect on the polling hook when the page is rendered.      *)
(* Left out is what is shown: the counts and the error texts.              *)
(***************************************************************************)
EXTENDS FiniteSets

CONSTANT Loops  \* polling loops that can be under way at once: a bound

VARIABLES
  open,      \* the page is mounted
  stream,    \* readyState of the EventSource, which reconnects by itself
  connected, \* sseConnected: the stream has brought an update
  allowed,   \* allowPolling
  grace,     \* the timer that allows polling is set
  running,   \* enabled, as the hook's effect last saw it
  loop,      \* see LoopType
  over,      \* this run of the effect ended with a 404 or 410
  tagged,    \* etagRef holds an etag
  hidden,    \* the tab is in the background
  doubled    \* history: a 304 was answered during this run of the effect

stateVars == <<stream, connected, allowed, grace>>
runVars == <<running, loop, over, tagged, doubled>>
vars == <<open, stateVars, runVars, hidden>>

\* What a loop waits for: its timer, an answer or its body.  ours: the run of
\* the effect that it belongs to is not stopped; kept: timerRef or ctrl is its.
LoopType == [at : {"idle", "timer", "asked", "body"},
             ours : BOOLEAN, kept : BOOLEAN]
Idle == [at |-> "idle", ours |-> FALSE, kept |-> FALSE]

TypeOK ==
  /\ open \in BOOLEAN
  /\ stream \in {"connecting", "open", "closed"}
  /\ connected \in BOOLEAN /\ allowed \in BOOLEAN /\ grace \in BOOLEAN
  /\ running \in BOOLEAN /\ over \in BOOLEAN /\ tagged \in BOOLEAN
  /\ loop \in [Loops -> LoopType]
  /\ hidden \in BOOLEAN /\ doubled \in BOOLEAN

NoLoops == [l \in Loops |-> Idle]

Init ==
  /\ open = TRUE /\ hidden \in BOOLEAN
  /\ stream = "connecting" /\ connected = FALSE /\ allowed = FALSE
  /\ grace = TRUE /\ running = FALSE /\ loop = NoLoops
  /\ over = FALSE /\ tagged = FALSE /\ doubled = FALSE

Enabled == allowed /\ ~connected
Free(ls) == {l \in Loops : ls[l].at = "idle"}
Live == {l \in Loops : loop[l].at # "idle" /\ loop[l].ours}

\* The loops with l in the given place, and with it in timerRef or ctrl, which
\* hold one loop each.
With(ls, l, step) ==
  LET timer(k) == ls[k].at = "timer" IN
  [k \in Loops |->
     IF k = l THEN [at |-> step, ours |-> TRUE, kept |-> TRUE]
     ELSE IF timer(k) = (step = "timer") THEN [ls[k] EXCEPT !.kept = FALSE]
     ELSE ls[k]]
-----------------------------------------------------------------------------
\* The stream.  An update that cannot be parsed changes nothing.
Connect ==
  /\ open /\ stream = "connecting"
  /\ stream' = "open"
  /\ UNCHANGED <<open, connected, allowed, grace, runVars, hidden>>

Update ==
  /\ open /\ stream = "open"
  /\ connected' = TRUE /\ allowed' = FALSE
  /\ tagged' = TRUE
  /\ UNCHANGED <<open, stream, grace, running, loop, over, doubled, hidden>>

\* onerror: broken off, refused for good, or an error sent by the server.
Drops == stream # "closed" /\ connected' = FALSE /\ allowed' = TRUE

StreamError ==
  /\ open /\ Drops
  /\ stream' \in IF stream = "open" THEN {"open", "connecting"}
                                    ELSE {"connecting", "closed"}
  /\ UNCHANGED <<open, grace, runVars, hidden>>

GraceOver ==
  /\ open /\ grace
  /\ grace' = FALSE /\ allowed' = TRUE
  /\ UNCHANGED <<open, stream, connected, runVars, hidden>>
-----------------------------------------------------------------------------
\* Mutant: only the timer is cleared.
StoppedTimer(ls) ==
  [l \in Loops |-> IF ls[l].kept /\ ls[l].at = "timer" THEN Idle ELSE ls[l]]

\* A run of the effect is stopped: the timer is cleared and the request
\* aborted that the references hold; other loops end at their next step.
Stopped(ls) ==
  [l \in Loops |-> IF ls[l].kept THEN Idle ELSE [ls[l] EXCEPT !.ours = FALSE]]

\* tick, at once or later, of a loop that is not stopped.
Ticked(ls, l) == With(ls, l, IF hidden THEN "timer" ELSE "asked")

Render ==
  LET ls == IF running THEN Stopped(loop) ELSE loop IN
  /\ open /\ running # Enabled
  /\ running' = Enabled
  /\ IF Enabled
       THEN \E l \in Free(ls) : loop' = Ticked(ls, l)
       ELSE loop' = ls
  /\ over' = FALSE /\ doubled' = FALSE
  /\ UNCHANGED <<open, stateVars, tagged, hidden>>

Tick(l) ==
  /\ loop[l].at = "timer"
  /\ loop' = IF loop[l].ours THEN Ticked(loop, l)
                             ELSE [loop EXCEPT ![l] = Idle]
  /\ UNCHANGED <<open, stateVars, running, over, tagged, doubled, hidden>>

\* schedule.
Again(l) == IF loop[l].ours THEN With(loop, l, "timer")
                            ELSE [loop EXCEPT ![l] = Idle]

\* 304: the branch schedules, and so does the finally after it.
NotModified(l) ==
  /\ loop[l].at = "asked" /\ tagged
  /\ IF loop[l].ours
       THEN /\ \E new \in Free(loop) : loop' = With(Again(l), new, "timer")
            /\ doubled' = TRUE
       ELSE /\ loop' = Again(l)
            /\ UNCHANGED doubled
  /\ UNCHANGED <<open, stateVars, running, over, tagged, hidden>>

\* 404 or 410 ends the run; its other loops end at their next step.
Gone(l) ==
  /\ loop[l].at = "asked"
  /\ loop' = IF loop[l].ours
               THEN [k \in Loops |-> IF k = l THEN Idle
                                     ELSE [loop[k] EXCEPT !.ours = FALSE]]
               ELSE [loop EXCEPT ![l] = Idle]
  /\ over' = (over \/ loop[l].ours)
  /\ UNCHANGED <<open, stateVars, running, tagged, doubled, hidden>>

\* 200: the etag is kept before the body has been read.
Answer(l) ==
  /\ loop[l].at = "asked"
  /\ loop' = [loop EXCEPT ![l].at = "body"]
  /\ tagged' = TRUE
  /\ UNCHANGED <<open, stateVars, running, over, doubled, hidden>>

\* The body was read, or request or body failed.
Done(l) ==
  /\ loop[l].at \in {"asked", "body"}
  /\ loop' = Again(l)
  /\ UNCHANGED <<open, stateVars, running, over, tagged, doubled, hidden>>
-----------------------------------------------------------------------------
Visibility ==
  /\ hidden' = ~hidden
  /\ UNCHANGED <<open, stateVars, runVars>>

\* The page is left and opened anew.  What a page that was left has under way
\* is of no concern any more.
Reopen ==
  /\ open' = ~open
  /\ stream' = "connecting" /\ connected' = FALSE /\ allowed' = FALSE
  /\ grace' = TRUE /\ running' = FALSE /\ loop' = NoLoops
  /\ over' = FALSE /\ tagged' = FALSE /\ doubled' = FALSE
  /\ UNCHANGED hidden

Next == \/ Connect \/ Update \/ StreamError \/ GraceOver \/ Render
        \/ \E l \in Loops : \/ Tick(l) \/ NotModified(l) \/ Gone(l)
                            \/ Answer(l) \/ Done(l)
        \/ Visibility \/ Reopen

Spec == Init /\ [][Next]_vars
-----------------------------------------------------------------------------
\* A page that has caught up with its state has one source of the stock, and
\* one only: the stream once it has brought an update, one polling loop
\* otherwise, unless a 404 ended it or a 304 doubled it
\* (AvailabilityClient.tsx:103, use-availability-polling.ts:118).
OneSource ==
  open /\ running = Enabled =>
    IF Enabled
      THEN IF over THEN Live = {}
           ELSE Live # {} /\ (Cardinality(Live) = 1 \/ doubled)
      ELSE Live = {} /\ (IF connected THEN stream = "open" ELSE grace)
=============================================================================
