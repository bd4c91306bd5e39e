--------------------------- MODULE PaymentMethods ---------------------------
(***************************************************************************)
(* The payment methods of one user (payment.service.js:42-341): documents  *)
(* of which one is the default, kept so by a transaction, a batch and      *)
(* single writes, and a cached list of them that deletion relies on.       *)
(***************************************************************************)
EXTENDS Integers, FiniteSets

CONSTANTS Requests,   \* requests in flight at once
          Methods,    \* ids of payment methods
          Accounts,   \* accounts that may be added once
          NoAccount,  \* a method that is never compared (stripe)
          NoMethod

VARIABLES
  flag,    \* paymentMethods/<id>.isDefault, "none" before it is created
  owner,   \* the account of each method
  cached,  \* payment:methods:<user>: the methods listed, or NoList
  fill,    \* what getOrSet has queried and not yet stored, or NoList
  req,     \* where each request is; m is the method it is about, n the one
           \* it makes the default, d whether it asks for that, seen what its
           \* query or the list has answered
  past     \* history, see Meet

vars == <<flag, owner, cached, fill, req, past>>

NoList == {NoMethod}
Flags == {"none", "default", "other"}
Steps == {"idle", "count", "query", "unset", "insert", "list", "wait", "pick", "move", "drop",
          "write", "delete", "dropLast"}
Nothing == [op |-> "none", at |-> "idle", m |-> NoMethod, n |-> NoMethod,
            a |-> NoAccount, d |-> FALSE, seen |-> {}]

Asked == [op : {"none", "add", "update", "delete"}, at : Steps,
          m : Methods \cup {NoMethod}, n : Methods \cup {NoMethod},
          a : Accounts \cup {NoAccount}, d : BOOLEAN, seen : SUBSET Methods]

TypeOK ==
  /\ flag \in [Methods -> Flags]
  /\ owner \in [Methods -> Accounts \cup {NoAccount}]
  /\ cached \in (SUBSET Methods) \cup {NoList}
  /\ fill \in (SUBSET Methods) \cup {NoList}
  /\ req \in [Requests -> Asked]
  /\ past \in [mixed : BOOLEAN, raced : BOOLEAN]

Init ==
  /\ flag = [m \in Methods |-> "none"]
  /\ owner = [m \in Methods |-> NoAccount]
  /\ cached = NoList
  /\ fill = NoList
  /\ req = [r \in Requests |-> Nothing]
  /\ past = [mixed |-> FALSE, raced |-> FALSE]

Existing == {m \in Methods : flag[m] # "none"}
Defaults == {m \in Methods : flag[m] = "default"}

At(r, step) == req[r].at = step
GoTo(r, step) == req' = [req EXCEPT ![r].at = step]
End(r) == req' = [req EXCEPT ![r] = Nothing]
Busy == {r \in Requests : ~At(r, "idle")}

\* History.  mixed: requests overlapped, one broke off, or the user took the
\* default away.  raced: one that writes a default outside of the transaction
\* overlapped with another.
Mixed == [past EXCEPT !.mixed = TRUE]
WritesDefault(call) == call.op = "add" \/ (call.op = "update" /\ call.d)
Meet(call) ==
  [mixed |-> past.mixed \/ Busy # {},
   raced |-> past.raced \/
     \E r \in Busy : WritesDefault(call) \/ WritesDefault(req[r])]

Begin(r, call) ==
  /\ At(r, "idle")
  /\ req' = [req EXCEPT ![r] = call]
  /\ past' = Meet(call)
  /\ UNCHANGED <<flag, owner, cached, fill>>
-----------------------------------------------------------------------------
\* Mutant: the other defaults stay.
OneMoreDefault(m) == [flag EXCEPT ![m] = "default"]

\* setDefaultPaymentMethod: one transaction, which fails if the method is
\* gone, then the cache.
OnlyDefault(m) == [x \in Methods |-> IF x = m THEN "default"
                                     ELSE IF flag[x] = "default" THEN "other"
                                     ELSE flag[x]]

Move(r) ==
  /\ At(r, "move")
  /\ IF req[r].n \in Existing
       THEN flag' = OnlyDefault(req[r].n) /\ GoTo(r, "drop")
       ELSE UNCHANGED flag /\ End(r)
  /\ UNCHANGED <<owner, cached, fill, past>>

\* invalidateCache: a failing del is swallowed.
Drop(r) ==
  /\ \/ At(r, "drop") /\ req[r].op = "update" /\ GoTo(r, "write")
     \/ At(r, "drop") /\ req[r].op = "delete" /\ GoTo(r, "delete")
     \/ At(r, "drop") /\ req[r].op = "add" /\ End(r)
     \/ At(r, "dropLast") /\ End(r)
  /\ cached' \in {cached, NoList}
  /\ UNCHANGED <<flag, owner, fill, past>>
-----------------------------------------------------------------------------
\* findOrCreatePaymentMethod, with or without isDefault.  The id of a deleted
\* method may come back: a bound, for ids are random.
Known(a) == {m \in Existing : a # NoAccount /\ owner[m] = a}

AddKnown(r, a) ==
  \E m \in Known(a) :
    /\ flag[m] = "other"
    /\ Begin(r, [Nothing EXCEPT !.op = "add", !.at = "move", !.n = m])

AddNew(r, a, d) ==
  /\ Known(a) = {}
  /\ Begin(r, [Nothing EXCEPT !.op = "add", !.at = "count", !.a = a, !.d = d])

\* Mutant: only a method that asks for it becomes the default.
AddCountAsked(r) ==
  /\ At(r, "count")
  /\ GoTo(r, IF req[r].d THEN "query" ELSE "insert")
  /\ UNCHANGED <<flag, owner, cached, fill, past>>

\* The first method becomes the default.
AddCount(r) ==
  LET d == req[r].d \/ Existing = {} IN
  /\ At(r, "count")
  /\ req' = [req EXCEPT ![r].d = d, ![r].at = IF d THEN "query" ELSE "insert"]
  /\ UNCHANGED <<flag, owner, cached, fill, past>>

\* unsetDefaultAll: a query, then a batch, which fails if a method is gone.
AddQuery(r) ==
  /\ At(r, "query")
  /\ req' = [req EXCEPT ![r].seen = Defaults,
                        ![r].at = IF Defaults = {} THEN "insert" ELSE "unset"]
  /\ UNCHANGED <<flag, owner, cached, fill, past>>

AddUnset(r) ==
  /\ At(r, "unset")
  /\ IF req[r].seen \subseteq Existing
       THEN /\ flag' = [m \in Methods |->
                          IF m \in req[r].seen THEN "other" ELSE flag[m]]
            /\ GoTo(r, "insert")
       ELSE UNCHANGED flag /\ End(r)
  /\ UNCHANGED <<owner, cached, fill, past>>

AddInsert(r) ==
  /\ At(r, "insert")
  /\ \E m \in Methods \ Existing :
       /\ flag' = [flag EXCEPT ![m] = IF req[r].d THEN "default" ELSE "other"]
       /\ owner' = [owner EXCEPT ![m] = req[r].a]
  /\ GoTo(r, "dropLast")
  /\ UNCHANGED <<cached, fill, past>>
-----------------------------------------------------------------------------
\* updatePaymentMethod with isDefault: TRUE first goes through the
\* transaction; then the updates are written, isDefault among them.  An
\* update without isDefault only drops the cache.
Update(r, m, d) ==
  Begin(r, [Nothing EXCEPT !.op = "update", !.at = IF d THEN "move" ELSE "write",
                           !.m = m, !.n = m, !.d = d])

UpdateWrite(r) ==
  LET m == req[r].m IN
  /\ At(r, "write")
  /\ IF m \in Existing
       THEN /\ flag' = [flag EXCEPT ![m] = IF req[r].d THEN "default" ELSE "other"]
            /\ past' = IF flag[m] = "default" /\ ~req[r].d THEN Mixed ELSE past
            /\ GoTo(r, "dropLast")
       ELSE UNCHANGED <<flag, past>> /\ End(r)
  /\ UNCHANGED <<owner, cached, fill>>
-----------------------------------------------------------------------------
\* deletePaymentMethod
Delete(r, m) ==
  /\ m \in Existing
  /\ Begin(r, [Nothing EXCEPT !.op = "delete", !.m = m,
                 !.at = IF flag[m] = "default" THEN "list" ELSE "delete"])

\* getPaymentMethodsByUserID: the cached list, or the one being fetched.
DeleteList(r) ==
  /\ At(r, "list")
  /\ IF cached # NoList
       THEN /\ req' = [req EXCEPT ![r].at = "pick", ![r].seen = cached]
            /\ UNCHANGED fill
       ELSE /\ GoTo(r, "wait")
            /\ fill' = IF fill = NoList THEN Existing ELSE fill
  /\ UNCHANGED <<flag, owner, cached, past>>

\* Of several other methods any may come first.
DeletePick(r) ==
  /\ At(r, "pick")
  /\ IF Cardinality(req[r].seen) <= 1
       THEN End(r)
       ELSE \E n \in req[r].seen \ {req[r].m} :
              req' = [req EXCEPT ![r].at = "move", ![r].n = n, ![r].seen = {}]
  /\ UNCHANGED <<flag, owner, cached, fill, past>>

DeleteDoc(r) ==
  /\ At(r, "delete")
  /\ flag' = [flag EXCEPT ![req[r].m] = "none"]
  /\ GoTo(r, "dropLast")
  /\ UNCHANGED <<owner, cached, fill, past>>
-----------------------------------------------------------------------------
\* Somebody looks at the list: getOrSet queries, stores what it has read,
\* unless that fails, and answers all that have come to wait for it.
ListQuery ==
  /\ cached = NoList /\ fill = NoList
  /\ fill' = Existing
  /\ UNCHANGED <<flag, owner, cached, req, past>>

ListStore ==
  /\ fill # NoList
  /\ cached' \in {cached, fill}
  /\ fill' = NoList
  /\ req' = [r \in Requests |->
               IF At(r, "wait") THEN [req[r] EXCEPT !.at = "pick", !.seen = fill]
                                ELSE req[r]]
  /\ UNCHANGED <<flag, owner, past>>

CacheExpires ==
  /\ cached # NoList
  /\ cached' = NoList
  /\ UNCHANGED <<flag, owner, fill, req, past>>

\* The process dies, or a store fails: nothing catches it.
Die(r) ==
  /\ r \in Busy
  /\ End(r)
  /\ past' = Mixed
  /\ UNCHANGED <<flag, owner, cached, fill>>

Step(r) ==
  \/ Move(r) \/ Drop(r)
  \/ AddCount(r) \/ AddQuery(r) \/ AddUnset(r) \/ AddInsert(r)
  \/ UpdateWrite(r) \/ DeleteList(r) \/ DeletePick(r)
  \/ DeleteDoc(r) \/ Die(r)

Next ==
  \/ \E r \in Requests :
       \/ Step(r)
       \/ \E a \in Accounts \cup {NoAccount} :
            AddKnown(r, a) \/ \E d \in BOOLEAN : AddNew(r, a, d)
       \/ \E m \in Methods : Delete(r, m) \/ \E d \in BOOLEAN : Update(r, m, d)
  \/ ListQuery \/ ListStore \/ CacheExpires

Spec == Init /\ [][Next]_vars
-----------------------------------------------------------------------------
\* A user has two defaults only if a request that writes one outside of the
\* transaction (payment.service.js:227, :295) overlapped with another; those
\* that delete or only move the default may overlap as they like.  And one of
\* the methods is the default, however stale the list is that a deletion
\* works with (:318), as long as requests come one at a time.
OneDefault ==
  /\ (\E m, n \in Defaults : m # n) => past.raced
  /\ ~past.mixed /\ Busy = {} /\ Existing # {} => Defaults # {}
=============================================================================
