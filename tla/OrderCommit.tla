---------------------------- MODULE OrderCommit -----------------------------
(***************************************************************************)
(* OrderService.createFromReservation: turning one paid reservation into   *)
(* an order, its tickets and a ledger entry, in several Firestore          *)
(* transactions, while other attempts for the same reservation (a second   *)
(* confirm, the payment event, a retry after a crash) do the same.         *)
(*                                                                         *)
(* A transaction is one atomic step (runTransaction is serializable and    *)
(* retries on conflict).  The process may die between two of them.         *)
(* Documents are modelled by their existence, the order also by whose      *)
(* claim token it carries.  Amounts, buyers and timestamps are left out.   *)
(***************************************************************************)
EXTENDS Integers, Sequences

CONSTANTS Attempts,          \* calls of createFromReservation
          Plan,              \* ticket ids, in the order of _expandTicketPlan
          MaxWritesPerTxn,
          Stores,            \* the stores it may run against, see store
          NoAttempt

ASSUME OrderCommitAssumption ==
  /\ Plan \in Seq({Plan[p] : p \in 1 .. Len(Plan)})
  /\ Len(Plan) \in Nat \ {0}
  /\ \A p, q \in 1 .. Len(Plan) : Plan[p] = Plan[q] => p = q
  /\ MaxWritesPerTxn \in Nat
  /\ Stores \subseteq {"lenient", "strict"}
  /\ NoAttempt \notin Attempts

VARIABLES order,    \* orders/ORD_<reservationId>: the attempt that created it
          tickets,  \* documents in "tickets"
          ledger,   \* reservation_commits/<reservationId> exists
          creates,  \* history: how often each ticket document was written
          pc,       \* where each attempt is
          pos,      \* plan entries an attempt has gone through
          store     \* "strict": a transaction may not read after a write (the
                    \* Firestore SDK); "lenient": it may (in-memory fakes)

docs == <<order, tickets, ledger, creates>>
vars == <<docs, pc, pos, store>>

Size == Len(Plan)
Tickets == {Plan[p] : p \in 1 .. Size}

\* A margin of 10 writes is kept for the order and the ledger.
ChunkCapacity == IF MaxWritesPerTxn - 10 > 1 THEN MaxWritesPerTxn - 10 ELSE 1

\* _chunkArray: chunks start at 0, ChunkCapacity, 2 * ChunkCapacity, ...
ChunkEnd(p) == IF p + ChunkCapacity <= Size THEN p + ChunkCapacity ELSE Size
ChunkAfter(p) == {Plan[i] : i \in p + 1 .. ChunkEnd(p)}

\* The last chunk writes the ledger.  Its mutants: off by one; no condition;
\* a comparison that is never true.
IsLastLate(p) == p + ChunkCapacity > Size
IsLastAlways(p) == TRUE
IsLastNever(p) == FALSE
IsLast(p) == p + ChunkCapacity >= Size

TypeOK ==
  /\ order \in Attempts \cup {NoAttempt}
  /\ tickets \subseteq Tickets
  /\ ledger \in BOOLEAN
  /\ creates \in [Tickets -> Nat]
  /\ pc \in [Attempts -> {"idle", "running", "committed", "already",
                          "rejected", "crashed"}]
  /\ pos \in [Attempts -> 0 .. Size - 1]
  /\ store \in Stores

Init ==
  /\ order = NoAttempt
  /\ tickets = {}
  /\ ledger = FALSE
  /\ creates = [t \in Tickets |-> 0]
  /\ pc = [a \in Attempts |-> "idle"]
  /\ pos = [a \in Attempts |-> 0]
  /\ store \in Stores

\* Up to the first transaction: the hold is valid, the plan and the chunks
\* are computed, the order document is prepared with a claim token of its own.
Begin(a) ==
  /\ pc[a] = "idle"
  /\ pc' = [pc EXCEPT ![a] = "running"]
  /\ UNCHANGED <<docs, pos, store>>

-----------------------------------------------------------------------------
(* _commitSingleTxn for the chunk after pos[a], and the loop around it.    *)

MissingUnread(a) == ChunkAfter(pos[a])         \* mutant: existing ones too
Missing(a) == ChunkAfter(pos[a]) \ tickets

\* The order is created before the tickets are read, and missing tickets
\* before the ledger is read a second time.
ReadsAfterWriting(a) ==
  \/ order = NoAttempt
  \/ IsLast(pos[a]) /\ Missing(a) # {}

\* The ledger is there: the loop ends with already = true.
FindLedger(a) ==
  /\ pc[a] = "running"
  /\ ledger
  /\ pc' = [pc EXCEPT ![a] = "already"]
  /\ UNCHANGED <<docs, pos, store>>

\* No ledger: write the order if it is missing and the missing tickets, after
\* the last chunk the ledger.  The mutant does not look for the ledger.
CommitChunkUnlessLedger(a, seen) ==
  /\ pc[a] = "running"
  /\ ~ seen
  /\ store = "strict" => ~ ReadsAfterWriting(a)
  /\ order' = IF order = NoAttempt THEN a ELSE order
  /\ tickets' = tickets \cup Missing(a)
  /\ creates' = [t \in Tickets |-> IF t \in Missing(a) THEN creates[t] + 1
                                                       ELSE creates[t]]
  /\ IF IsLast(pos[a])
     THEN /\ ledger' = TRUE
          /\ pc' = [pc EXCEPT ![a] = "committed"]
          /\ UNCHANGED pos
     ELSE /\ pos' = [pos EXCEPT ![a] = ChunkEnd(pos[a])]
          /\ UNCHANGED <<ledger, pc>>
  /\ UNCHANGED store
CommitChunkBlindly(a) == CommitChunkUnlessLedger(a, FALSE)
CommitChunk(a) == CommitChunkUnlessLedger(a, ledger)

\* A store that wants every read before the first write makes the
\* transaction throw, and createFromReservation with it.
RejectChunk(a) ==
  /\ pc[a] = "running"
  /\ ~ ledger
  /\ store = "strict" /\ ReadsAfterWriting(a)
  /\ pc' = [pc EXCEPT ![a] = "rejected"]
  /\ UNCHANGED <<docs, pos, store>>

\* The process dies between two transactions.
Crash(a) ==
  /\ pc[a] = "running"
  /\ pc' = [pc EXCEPT ![a] = "crashed"]
  /\ UNCHANGED <<docs, pos, store>>

Transaction(a) == FindLedger(a) \/ CommitChunk(a) \/ RejectChunk(a)

Next == \E a \in Attempts : Begin(a) \/ Transaction(a) \/ Crash(a)

Spec == Init /\ [][Next]_vars

\* The loop awaits each transaction, so a live attempt takes its next one.
FairSpec == Spec /\ \A a \in Attempts : WF_vars(Transaction(a))

-----------------------------------------------------------------------------
\* A ledger entry means the whole order is there: the order document and
\* every ticket of the plan, whichever attempts wrote the chunks and crashed
\* in between.  Nothing checks this when the ledger is written.
LedgerMeansComplete == ledger => order # NoAttempt /\ tickets = Tickets

\* No ticket document is written twice, whatever attempts overlap.
IssuedOnce == \A t \in Tickets : creates[t] = IF t \in tickets THEN 1 ELSE 0

\* What an attempt has gone through is in the store; a finished attempt has
\* seen the ledger, and only one has created it.
ChunksKept ==
  \A a \in Attempts :
    /\ pc[a] = "running" => /\ \A p \in 1 .. pos[a] : Plan[p] \in tickets
                            /\ pos[a] > 0 => order # NoAttempt
    /\ pc[a] \in {"committed", "already"} => ledger
    /\ pc[a] = "committed" =>
         \A b \in Attempts : pc[b] = "committed" => b = a

IInv == TypeOK /\ LedgerMeansComplete /\ IssuedOnce /\ ChunksKept

\* The attempts together do what CommitOnce says: documents written before
\* the ledger do not count, since the ledger makes them final.
Answer(s) == IF s \in {"committed", "already"} THEN s ELSE "none"
Once == INSTANCE CommitOnce
          WITH issued <- IF ledger THEN tickets ELSE {},
               answer <- [a \in Attempts |-> Answer(pc[a])]
CommitsOnce == Once!Spec

\* An attempt on a paid hold brings the order about unless a crash interferes
\* (reservation.service.js:891, "commit Order+Tickets idempotent") ...
Delivered == ledger \/ \E a \in Attempts : pc[a] = "crashed"
PaidIsCommitted == (\E a \in Attempts : pc[a] = "running") ~> Delivered

\* ... which it does as long as the store lets a transaction read after it has
\* written.
PaidIsCommittedLenient ==
  (store = "lenient" /\ \E a \in Attempts : pc[a] = "running") ~> Delivered
=============================================================================
