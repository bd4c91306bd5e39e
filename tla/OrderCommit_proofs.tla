------------------------- MODULE OrderCommit_proofs -------------------------
(***************************************************************************)
(* Theorems about OrderCommit, for every number of attempts, plan, chunk   *)
(* size and kind of store, with crashes anywhere.                          *)
(***************************************************************************)
EXTENDS OrderCommit, TLAPS

LEMMA SizeNat == Size \in Nat \ {0}
  BY OrderCommitAssumption DEF Size

LEMMA CapacityPos == ChunkCapacity \in Nat \ {0}
  BY OrderCommitAssumption DEF ChunkCapacity

\* A chunk lies in the plan, and unless it is the last one it ends where the
\* next one starts, before the end of the plan (_chunkArray).
LEMMA ChunkBounds ==
  ASSUME NEW p \in 0 .. Size - 1
  PROVE  /\ ChunkEnd(p) \in Nat
         /\ ChunkEnd(p) > p /\ ChunkEnd(p) <= Size
         /\ IsLast(p) => ChunkEnd(p) = Size
         /\ ~ IsLast(p) => ChunkEnd(p) \in 0 .. Size - 1
  BY SizeNat, CapacityPos DEF ChunkEnd, IsLast

LEMMA ChunkInPlan ==
  ASSUME NEW p \in 0 .. Size - 1
  PROVE  ChunkAfter(p) \subseteq Tickets
  BY ChunkBounds, SizeNat DEF ChunkAfter, Tickets

LEMMA InitIInv == Init => IInv
<1> SUFFICES ASSUME Init PROVE IInv
  OBVIOUS
<1> USE DEF Init
<1>1. TypeOK
  <2>1. 0 \in 0 .. Size - 1
    BY SizeNat
  <2>2. pos \in [Attempts -> 0 .. Size - 1]
    BY <2>1
  <2> QED
    BY <2>2 DEF TypeOK
<1>2. LedgerMeansComplete
  BY DEF LedgerMeansComplete
<1>3. IssuedOnce
  BY DEF IssuedOnce
<1>4. ChunksKept
  BY DEF ChunksKept
<1> QED
  BY <1>1, <1>2, <1>3, <1>4 DEF IInv

-----------------------------------------------------------------------------
\* A step that leaves the documents alone and moves one attempt to a state it
\* may be in keeps IInv: Begin, FindLedger, RejectChunk and Crash.
LEMMA MoveStep ==
  ASSUME IInv, NEW a \in Attempts,
         NEW s \in {"running", "already", "rejected", "crashed"},
         s = "running" => pc[a] = "idle" /\ pos[a] = 0,
         s = "already" => ledger,
         pc' = [pc EXCEPT ![a] = s],
         UNCHANGED <<docs, pos, store>>
  PROVE  IInv'
<1> USE DEF IInv, docs
<1>1. TypeOK'
  BY DEF TypeOK
<1>2. LedgerMeansComplete'
  BY DEF LedgerMeansComplete
<1>3. IssuedOnce'
  BY DEF IssuedOnce
<1>4. ChunksKept'
  <2> SUFFICES ASSUME NEW b \in Attempts
               PROVE  /\ pc'[b] = "running" =>
                           /\ \A p \in 1 .. pos[b] : Plan[p] \in tickets
                           /\ pos[b] > 0 => order # NoAttempt
                      /\ pc'[b] \in {"committed", "already"} => ledger
                      /\ pc'[b] = "committed" =>
                           \A c \in Attempts : pc'[c] = "committed" => c = b
    BY DEF ChunksKept
  <2>1. \A c \in Attempts : pc'[c] = IF c = a THEN s ELSE pc[c]
    BY DEF TypeOK
  <2>2. CASE b = a
    BY <2>1, <2>2
  <2>3. CASE b # a
    BY <2>1, <2>3 DEF ChunksKept
  <2> QED
    BY <2>2, <2>3
<1> QED
  BY <1>1, <1>2, <1>3, <1>4

\* An attempt that has not begun stands at the start of the plan.
IdleAtStart == \A a \in Attempts : pc[a] = "idle" => pos[a] = 0

LEMMA ChunkStep ==
  ASSUME IInv, NEW a \in Attempts, CommitChunk(a)
  PROVE  IInv'
<1> USE DEF IInv, CommitChunk, CommitChunkUnlessLedger
<1> DEFINE p == pos[a]
<1>1. p \in 0 .. Size - 1 /\ order \in Attempts \cup {NoAttempt}
  BY DEF TypeOK
<1>2. order' \in Attempts /\ order' # NoAttempt
  BY <1>1, OrderCommitAssumption
<1>3. Missing(a) \subseteq Tickets /\ tickets' \subseteq Tickets
  BY <1>1, ChunkInPlan DEF Missing, TypeOK
<1>4. \A i \in 1 .. ChunkEnd(p) : Plan[i] \in tickets'
  <2> SUFFICES ASSUME NEW i \in 1 .. ChunkEnd(p) PROVE Plan[i] \in tickets'
    OBVIOUS
  <2>1. CASE i \in 1 .. p
    BY <2>1 DEF ChunksKept
  <2>2. CASE i \notin 1 .. p
    <3>1. i \in p + 1 .. ChunkEnd(p)
      BY <2>2, <1>1, ChunkBounds, SizeNat
    <3> QED
      BY <3>1 DEF Missing, ChunkAfter
  <2> QED
    BY <2>1, <2>2
<1>5. ASSUME IsLast(p)
      PROVE  tickets' = Tickets /\ ledger' = TRUE /\ UNCHANGED pos
                /\ pc' = [pc EXCEPT ![a] = "committed"]
  <2>1. ChunkEnd(p) = Size
    BY <1>1, <1>5, ChunkBounds
  <2> QED
    BY <2>1, <1>3, <1>4, <1>5 DEF Tickets
<1>6. ASSUME ~ IsLast(p)
      PROVE  /\ ChunkEnd(p) \in 0 .. Size - 1
             /\ pos' = [pos EXCEPT ![a] = ChunkEnd(p)]
             /\ UNCHANGED <<ledger, pc>>
  BY <1>1, <1>6, ChunkBounds
<1>7. TypeOK'
  <2>1. creates' \in [Tickets -> Nat]
    BY DEF TypeOK
  <2>2. CASE IsLast(p)
    BY <2>1, <2>2, <1>2, <1>3, <1>5 DEF TypeOK
  <2>3. CASE ~ IsLast(p)
    BY <2>1, <2>3, <1>2, <1>3, <1>6 DEF TypeOK
  <2> QED
    BY <2>2, <2>3
<1>8. LedgerMeansComplete'
  BY <1>2, <1>5, <1>6 DEF LedgerMeansComplete
<1>9. IssuedOnce'
  BY DEF IssuedOnce, Missing, TypeOK
<1>10. ChunksKept'
  <2>1. \A b \in Attempts : pc[b] # "committed" /\ pc[b] # "already"
    BY DEF ChunksKept
  <2>2. CASE IsLast(p)
    <3>1. \A b \in Attempts : pc'[b] = IF b = a THEN "committed" ELSE pc[b]
      BY <1>5, <2>2 DEF TypeOK
    <3> QED
      BY <1>2, <1>5, <2>1, <2>2, <3>1 DEF ChunksKept
  <2>3. CASE ~ IsLast(p)
    <3>1. \A b \in Attempts \ {a} : pos'[b] = pos[b]
      BY <1>6, <2>3 DEF TypeOK
    <3>2. pos'[a] = ChunkEnd(p) /\ pc' = pc
      BY <1>6, <2>3 DEF TypeOK
    <3>3. \A b \in Attempts : pc[b] = "running" =>
            \A i \in 1 .. pos'[b] : Plan[i] \in tickets'
      BY <3>1, <3>2, <1>4 DEF ChunksKept
    <3> QED
      BY <1>2, <2>1, <3>2, <3>3 DEF ChunksKept
  <2> QED
    BY <2>2, <2>3
<1> QED
  BY <1>7, <1>8, <1>9, <1>10

-----------------------------------------------------------------------------
LEMMA InitIdle == Init => IdleAtStart
  BY DEF Init, IdleAtStart

LEMMA NextIdle == TypeOK /\ IdleAtStart /\ [Next]_vars => IdleAtStart'
  BY DEF TypeOK, IdleAtStart, Next, Transaction, Begin, FindLedger,
         CommitChunk, CommitChunkUnlessLedger, RejectChunk, Crash, vars, docs

LEMMA NextIInv == IInv /\ IdleAtStart /\ [Next]_vars => IInv'
<1> SUFFICES ASSUME IInv, IdleAtStart, [Next]_vars PROVE IInv'
  OBVIOUS
<1>1. ASSUME NEW a \in Attempts, Begin(a) PROVE IInv'
  BY <1>1, MoveStep DEF Begin, IdleAtStart
<1>2. ASSUME NEW a \in Attempts, FindLedger(a) PROVE IInv'
  BY <1>2, MoveStep DEF FindLedger
<1>3. ASSUME NEW a \in Attempts, CommitChunk(a) PROVE IInv'
  BY <1>3, ChunkStep
<1>4. ASSUME NEW a \in Attempts, RejectChunk(a) PROVE IInv'
  BY <1>4, MoveStep DEF RejectChunk
<1>5. ASSUME NEW a \in Attempts, Crash(a) PROVE IInv'
  BY <1>5, MoveStep DEF Crash
<1>6. CASE UNCHANGED vars
  BY <1>6 DEF vars, docs, IInv, TypeOK, LedgerMeansComplete, IssuedOnce,
              ChunksKept
<1> QED
  BY <1>1, <1>2, <1>3, <1>4, <1>5, <1>6 DEF Next, Transaction

LEMMA Invariance == Spec => [](IInv /\ IdleAtStart)
<1>1. IInv => TypeOK
  BY DEF IInv
<1> QED
  BY <1>1, InitIInv, InitIdle, NextIInv, NextIdle, PTL DEF Spec

\* Every variable keeps its type; chunks never run past the plan.
THEOREM TypeCorrect == Spec => []TypeOK
  BY Invariance, PTL DEF IInv

\* A ledger entry is never there without the order and all its tickets.
THEOREM LedgerIsFinal == Spec => []LedgerMeansComplete
  BY Invariance, PTL DEF IInv

\* No ticket document is written twice.
THEOREM TicketsIssuedOnce == Spec => []IssuedOnce
  BY Invariance, PTL DEF IInv

-----------------------------------------------------------------------------
LEMMA InitOnce == Init => Once!Init
  BY DEF Init, Once!Init, Answer

LEMMA StepOnce ==
  IInv /\ IInv' /\ [Next]_vars => [Once!Next]_(Once!vars)
<1> SUFFICES ASSUME IInv, IInv', [Next]_vars PROVE [Once!Next]_(Once!vars)
  OBVIOUS
<1> DEFINE View == IF ledger THEN tickets ELSE {}
           Told == [a \in Attempts |-> Answer(pc[a])]
<1>1. ASSUME UNCHANGED docs, NEW a \in Attempts,
             NEW s \in {"running", "rejected", "crashed"},
             pc[a] \in {"idle", "running"}, pc' = [pc EXCEPT ![a] = s]
      PROVE  UNCHANGED Once!vars
  <2>1. Told' = Told
    BY <1>1 DEF Answer, IInv, TypeOK
  <2>2. View' = View
    BY <1>1 DEF docs
  <2> QED
    BY <2>1, <2>2 DEF Once!vars
<1>2. ASSUME NEW a \in Attempts, Begin(a) PROVE UNCHANGED Once!vars
  BY <1>1, <1>2 DEF Begin
<1>3. ASSUME NEW a \in Attempts, RejectChunk(a) PROVE UNCHANGED Once!vars
  BY <1>1, <1>3 DEF RejectChunk
<1>4. ASSUME NEW a \in Attempts, Crash(a) PROVE UNCHANGED Once!vars
  BY <1>1, <1>4 DEF Crash
<1>5. ASSUME NEW a \in Attempts, FindLedger(a) PROVE Once!Repeat(a)
  <2>1. View = Tickets /\ View' = View
    BY <1>5 DEF FindLedger, docs, IInv, LedgerMeansComplete
  <2>2. Told[a] = "none" /\ Told' = [Told EXCEPT ![a] = "already"]
    BY <1>5 DEF FindLedger, Answer, IInv, TypeOK
  <2> QED
    BY <2>1, <2>2 DEF Once!Repeat
<1>6. ASSUME NEW a \in Attempts, CommitChunk(a)
      PROVE  Once!Commit(a) \/ UNCHANGED Once!vars
  <2> USE <1>6 DEF CommitChunk, CommitChunkUnlessLedger
  <2>1. CASE IsLast(pos[a])
    <3>1. View = {} /\ View' = Tickets
      BY <2>1 DEF IInv, LedgerMeansComplete
    <3>2. Told[a] = "none" /\ Told' = [Told EXCEPT ![a] = "committed"]
      BY <2>1 DEF Answer, IInv, TypeOK
    <3> QED
      BY <3>1, <3>2 DEF Once!Commit
  <2>2. CASE ~ IsLast(pos[a])
    <3>1. View = {} /\ View' = {}
      BY <2>2
    <3>2. Told' = Told
      BY <2>2
    <3> QED
      BY <3>1, <3>2 DEF Once!vars
  <2> QED
    BY <2>1, <2>2
<1>7. CASE UNCHANGED vars
  <2>1. Told' = Told /\ View' = View
    BY <1>7 DEF vars, docs
  <2> QED
    BY <2>1 DEF Once!vars
<1> QED
  BY <1>2, <1>3, <1>4, <1>5, <1>6, <1>7 DEF Next, Transaction, Once!Next

\* All attempts together commit the reservation exactly once and whole.
THEOREM ImplementsCommitOnce == Spec => CommitsOnce
<1>1. Spec => []IInv
  BY Invariance, PTL
<1> QED
  BY <1>1, InitOnce, StepOnce, PTL DEF Spec, CommitsOnce, Once!Spec
=============================================================================
