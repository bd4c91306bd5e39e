----------------------------- MODULE Organizer ------------------------------
(***************************************************************************)
(* The applications of one user to become an organizer                     *)
(* (user/src/services/organizer.service.js with its controller): documents *)
(* and the user's organizerStatus, written by the user and by admins, who  *)
(* work from cached copies of an application and of the list of them.      *)
(***************************************************************************)
EXTENDS Integers, FiniteSets

CONSTANTS Requests,      \* requests in flight at once
          Applications,  \* ids; numbers stand for the order of submission
          Decisions,     \* what admins set: bound of APPLY_STATUS
          MaxRequests    \* bound of the requests made

VARIABLES
  status,     \* orgApplications/<id>.status; "none" before it is created,
              \* "gone" after it is deleted, "stray" if written after that
  organizer,  \* users/<id>.organizerStatus: "none", "pending", "approved"
  copy,       \* org-app:<id>: the cached status, or "none"
  fetch,      \* what getOrSet has read of an application and not yet stored
  list,       \* the cached list: pairs of an id and its status, or NoList
  query,      \* what getOrSet has read of the list and not yet stored
  req,        \* where each request is
  made,       \* requests made
  last,       \* history: the application whose status was last set, or 0
  past        \* history, see Init

stored == <<status, organizer, last>>
copies == <<copy, fetch>>
lists == <<list, query>>
vars == <<stored, copies, lists, req, made, past>>

\* pending stands for PENDING, PENDING_ADMIN and PROCESSING.
Ongoing == {"pending", "editing"}
Status == Ongoing \cup {"approved", "rejected", "permanent", "cancelled"}
NoList == {<<0, "none">>}
Lists == (SUBSET (Applications \X Status)) \cup {NoList}

Steps == {"idle", "list", "awaitList", "check", "create", "own", "awaitOwn",
          "read", "awaitRead", "write", "drop"}
Ops == {"none", "create", "update", "decide", "cancel", "delete"}
Nothing == [op |-> "none", at |-> "idle", i |-> 0, s |-> "none", seen |-> {}]

Asked == [op : Ops, at : Steps, i : Applications \cup {0},
          s : Status \cup {"none", "gone", "stray"},
          seen : SUBSET (Applications \X Status)]
Pasts == [raced : BOOLEAN, stale : BOOLEAN, deleted : BOOLEAN, reopened : BOOLEAN]

TypeOK ==
  /\ status \in [Applications -> Status \cup {"none", "gone", "stray"}]
  /\ organizer \in {"none", "pending", "approved"}
  /\ copy \in [Applications -> Status \cup {"none", "stray"}]
  /\ fetch \in [Applications -> Status \cup {"none", "gone", "stray"}]
  /\ list \in Lists /\ query \in Lists
  /\ req \in [Requests -> Asked]
  /\ last \in Applications \cup {0}
  /\ past \in Pasts

Init ==
  /\ status = [i \in Applications |-> "none"]
  /\ organizer = "none"
  /\ copy = [i \in Applications |-> "none"]
  /\ fetch = [i \in Applications |-> "none"]
  /\ list = NoList /\ query = NoList
  /\ req = [r \in Requests |-> Nothing]
  /\ last = 0 /\ made = 0
  \* raced: the list may have missed a creation; stale: an update may have
  \* worked with what was no longer so; deleted: an application was;
  \* reopened: an admin made one ongoing again.
  /\ past = [raced |-> FALSE, stale |-> FALSE, deleted |-> FALSE,
             reopened |-> FALSE]

Existing == {i \in Applications : status[i] \in Status}
Listed == {<<i, status[i]>> : i \in Existing}

At(r, step) == req[r].at = step
GoTo(r, step) == req' = [req EXCEPT ![r].at = step]
End(r) == req' = [req EXCEPT ![r] = Nothing]
Busy == {r \in Requests : ~At(r, "idle")}

\* Two creations overlap, or an update and another request on its application.
Meet(call) ==
  [past EXCEPT
     !.raced = @ \/ \E q \in Busy : call.op = "create" /\ req[q].op = "create",
     !.stale = @ \/ \E q \in Busy : /\ call.i = req[q].i /\ call.i # 0
                                    /\ "update" \in {call.op, req[q].op}]

Begin(r, call) ==
  /\ At(r, "idle")
  /\ req' = [req EXCEPT ![r] = call]
  /\ past' = Meet(call)
  /\ made < MaxRequests
  /\ made' = made + 1
  /\ UNCHANGED <<stored, copies, lists>>

\* A write to an application while somebody is looking at it.
Touched(i) == [past EXCEPT !.stale = @ \/ fetch[i] # "none"]

\* History of caches that r should have dropped.
Kept(r) == IF req[r].op = "create" THEN [past EXCEPT !.raced = TRUE]
                                   ELSE [past EXCEPT !.stale = TRUE]

\* Mutant: the user's list stays.
DropCopyOnly(r) ==
  /\ At(r, "drop")
  /\ copy' = IF req[r].op = "create" THEN copy
             ELSE [copy EXCEPT ![req[r].i] = "none"]
  /\ End(r)
  /\ UNCHANGED <<stored, fetch, lists, past, made>>

\* Mutant: the application's copy stays.
DropListOnly(r) ==
  /\ At(r, "drop")
  /\ list' = NoList
  /\ End(r)
  /\ UNCHANGED <<stored, copies, query, past, made>>
\* The caches are dropped; an error is swallowed.
DropAll(r) ==
  /\ At(r, "drop")
  /\ \/ /\ copy' = IF req[r].op = "create" THEN copy
                   ELSE [copy EXCEPT ![req[r].i] = "none"]
        /\ list' = NoList
        /\ UNCHANGED past
     \/ past' = Kept(r) /\ UNCHANGED <<copy, list>>
  /\ End(r)
  /\ UNCHANGED <<stored, fetch, query, made>>
-----------------------------------------------------------------------------
\* createApplication.  First the user's document, then the list.
Create(r) ==
  /\ organizer # "approved"
  /\ Begin(r, [Nothing EXCEPT !.op = "create", !.at = "list"])

CreateList(r) ==
  /\ At(r, "list")
  /\ IF list # NoList
       THEN /\ req' = [req EXCEPT ![r].at = "check", ![r].seen = list]
            /\ UNCHANGED query
       ELSE /\ GoTo(r, "awaitList")
            /\ query' = IF query = NoList THEN Listed ELSE query
  /\ UNCHANGED <<stored, copies, list, past, made>>

\* canApplyOrganizer: no ongoing application, the latest one not rejected for
\* good, not more than one rejected.  Reports, risk and the cooldown may turn
\* the user down as well; the limit of five is out of the bounds.
CanApply(seen) ==
  /\ \A a \in seen : a[2] \notin Ongoing
  /\ \A a \in seen : a[2] = "permanent" => \E b \in seen : b[1] > a[1]
  /\ Cardinality({a \in seen : a[2] = "rejected"}) < 2

CreateCheck(r) ==
  /\ At(r, "check")
  /\ IF CanApply(req[r].seen)
       THEN req' \in {[req EXCEPT ![r] = Nothing],
                      [req EXCEPT ![r].at = "create", ![r].seen = {}]}
       ELSE End(r)
  /\ UNCHANGED <<stored, copies, lists, past, made>>

\* One batch: the application and the user's status.
CreateWrite(r) ==
  /\ At(r, "create")
  /\ \E i \in Applications :
       /\ status[i] = "none"
       /\ \A j \in Applications : status[j] # "none" => j < i
       /\ \A j \in Applications : j < i => status[j] # "none"
       /\ status' = [status EXCEPT ![i] = "pending"]
       /\ last' = i
  /\ organizer' = "pending"
  /\ past' = [past EXCEPT !.raced = @ \/ query # NoList]
  /\ GoTo(r, "drop")
  /\ UNCHANGED <<copies, lists, made>>
-----------------------------------------------------------------------------
\* getApplicationByAppID on behalf of r: the copy, or the one being fetched.
Copy(r, await, next) ==
  LET i == req[r].i IN
  IF copy[i] # "none"
    THEN /\ req' = [req EXCEPT ![r].at = next, ![r].s = copy[i]]
         /\ UNCHANGED fetch
    ELSE /\ GoTo(r, await)
         /\ fetch' = IF fetch[i] = "none" THEN [fetch EXCEPT ![i] = status[i]]
                                          ELSE fetch

\* updateApplication: the user's request looks at the application first to
\* see whose it is; an admin's does not.
Update(r, i, own) ==
  /\ status[i] # "none"
  /\ Begin(r, [Nothing EXCEPT !.op = "update", !.i = i,
                              !.at = IF own THEN "own" ELSE "read"])

UpdateOwn(r) ==
  /\ At(r, "own")
  /\ Copy(r, "awaitOwn", "read")
  /\ UNCHANGED <<stored, copy, lists, past, made>>

\* checkApplication and deleteApplication start from the copy, too.
Read(r) ==
  /\ At(r, "read")
  /\ Copy(r, "awaitRead", "write")
  /\ UNCHANGED <<stored, copy, lists, past, made>>

\* A final status stops the user, but a rejected application may be edited;
\* an admin is not stopped.  The whole status is written back as it was read.
\* Written after it was deleted the application has no owner any more.
Edited(s) == IF s = "editing" THEN "pending" ELSE s

UpdateWrite(r) ==
  LET i == req[r].i IN
  /\ At(r, "write") /\ req[r].op = "update"
  /\ \/ /\ req[r].s # "gone"
        /\ status' = [status EXCEPT ![i] = IF @ \in {"gone", "stray"} THEN "stray"
                                           ELSE Edited(req[r].s)]
        /\ past' = Touched(i)
        /\ GoTo(r, "drop")
     \/ UNCHANGED <<status, past>> /\ End(r)
  /\ UNCHANGED <<organizer, last, copies, lists, made>>
-----------------------------------------------------------------------------
\* updateApplicationStatus: one transaction on the application and the user;
\* it fails without an application of that user.
OrganizerStatus(s) == CASE s = "approved" -> "approved"
                        [] s \in {"rejected", "permanent", "cancelled"} -> "none"
                        [] OTHER -> "pending"

SetStatus(r, i, s) ==
  IF i \in Existing
    THEN /\ status' = [status EXCEPT ![i] = s]
         /\ organizer' = OrganizerStatus(s)
         /\ last' = i
         /\ past' = [Touched(i) EXCEPT !.reopened = @ \/ s \in Ongoing]
         /\ req' = [req EXCEPT ![r].at = "drop"]
    ELSE End(r) /\ UNCHANGED <<stored, past>>

\* checkApplication: an admin decides, whatever the status was.
Decide(r, i) ==
  /\ status[i] # "none"
  /\ Begin(r, [Nothing EXCEPT !.op = "decide", !.at = "read", !.i = i])

DecideWrite(r) ==
  /\ At(r, "write") /\ req[r].op = "decide"
  /\ IF req[r].s \in Status
       THEN \E s \in Decisions : SetStatus(r, req[r].i, s)
       ELSE End(r) /\ UNCHANGED <<stored, past>>
  /\ UNCHANGED <<copies, lists, made>>

\* cancelMyApplication: the user, whatever the status was.
Cancel(r, i) ==
  /\ status[i] # "none"
  /\ Begin(r, [Nothing EXCEPT !.op = "cancel", !.at = "write", !.i = i])

CancelWrite(r) ==
  /\ At(r, "write") /\ req[r].op = "cancel"
  /\ SetStatus(r, req[r].i, "cancelled")
  /\ UNCHANGED <<copies, lists, made>>

\* deleteApplication leaves the user's status alone.
Delete(r, i) ==
  /\ status[i] # "none"
  /\ Begin(r, [Nothing EXCEPT !.op = "delete", !.at = "read", !.i = i])

DeleteWrite(r) ==
  /\ At(r, "write") /\ req[r].op = "delete"
  /\ IF req[r].s \in Status
       THEN /\ status' = [status EXCEPT ![req[r].i] = "gone"]
            /\ past' = [Touched(req[r].i) EXCEPT !.deleted = TRUE]
            /\ GoTo(r, "drop")
       ELSE UNCHANGED <<status, past>> /\ End(r)
  /\ UNCHANGED <<organizer, last, copies, lists, made>>
-----------------------------------------------------------------------------
\* Somebody looks at an application or at the list.
LookAt(i) ==
  /\ copy[i] = "none" /\ fetch[i] = "none" /\ status[i] # "none"
  /\ fetch' = [fetch EXCEPT ![i] = status[i]]
  /\ UNCHANGED <<stored, copy, lists, req, past, made>>

LookAtList ==
  /\ list = NoList /\ query = NoList
  /\ query' = Listed
  /\ UNCHANGED <<stored, copies, list, req, past, made>>

\* getOrSet stores what it has read, unless that is nothing or storing fails,
\* and answers all that wait for it.
StoreCopy(i) ==
  /\ fetch[i] # "none"
  /\ copy' \in {copy} \cup (IF fetch[i] = "gone" THEN {}
                            ELSE {[copy EXCEPT ![i] = fetch[i]]})
  /\ fetch' = [fetch EXCEPT ![i] = "none"]
  /\ req' = [r \in Requests |->
       IF req[r].i # i THEN req[r]
       ELSE IF At(r, "awaitOwn") THEN [req[r] EXCEPT !.at = "read"]
       ELSE IF At(r, "awaitRead") THEN [req[r] EXCEPT !.at = "write", !.s = fetch[i]]
       ELSE req[r]]
  /\ UNCHANGED <<stored, lists, past, made>>

StoreList ==
  /\ query # NoList
  /\ list' \in {list, query}
  /\ query' = NoList
  /\ req' = [r \in Requests |->
       IF At(r, "awaitList") THEN [req[r] EXCEPT !.at = "check", !.seen = query]
                             ELSE req[r]]
  /\ UNCHANGED <<stored, copies, past, made>>

Expires ==
  /\ \/ list # NoList /\ list' = NoList /\ UNCHANGED copy
     \/ \E i \in Applications :
          copy[i] # "none" /\ copy' = [copy EXCEPT ![i] = "none"] /\ UNCHANGED list
  /\ UNCHANGED <<stored, fetch, query, req, past, made>>

\* The process dies, or a store fails where nothing catches it.
Die(r) ==
  /\ r \in Busy
  /\ End(r)
  /\ past' = IF At(r, "drop") THEN Kept(r) ELSE past
  /\ UNCHANGED <<stored, copies, lists, made>>

Next ==
  \/ \E r \in Requests :
       \/ Create(r) \/ CreateList(r) \/ CreateCheck(r) \/ CreateWrite(r)
       \/ UpdateOwn(r) \/ Read(r) \/ UpdateWrite(r)
       \/ DecideWrite(r) \/ CancelWrite(r) \/ DeleteWrite(r)
       \/ DropAll(r) \/ Die(r)
       \/ \E i \in Applications :
            \/ Decide(r, i) \/ Cancel(r, i) \/ Delete(r, i)
            \/ \E own \in BOOLEAN : Update(r, i, own)
  \/ \E i \in Applications : LookAt(i) \/ StoreCopy(i)
  \/ LookAtList \/ StoreList \/ Expires

Spec == Init /\ [][Next]_vars
-----------------------------------------------------------------------------
\* A user has one ongoing application at a time, although creation decides
\* from a cached list: two need a creation that another creation or a look at
\* the list overlapped with, a stale update, or an admin who reopens one
\* (organizer.service.js:258).
OneOngoing ==
  past.raced \/ past.stale \/ past.reopened
    \/ \A i, j \in Existing : {status[i], status[j]} \subseteq Ongoing => i = j

\* The user's organizerStatus is what the application last decided on calls
\* for, although updates write back the status that they read from a cache:
\* an update, or a look at the application, has to overlap with another write
\* to it, or the application to be deleted (organizer.service.js:484).
StatusFollows ==
  past.stale \/ past.deleted \/ last = 0
    \/ organizer = OrganizerStatus(status[last])
=============================================================================
