------------------------- MODULE Reservation_proofs -------------------------
(***************************************************************************)
(* Theorems about Reservation.                                             *)
(***************************************************************************)
EXTENDS Reservation, Sums

-----------------------------------------------------------------------------
(* What the helpers of the actions do to the types.                        *)

LEMMA FaultTyped ==
  ASSUME TypeOK, NEW r \in Reservations, Fault(r) \/ NoFault
  PROVE  past' \in Pasts /\ faults' \in 0 .. MaxFaults
BY ReservationAssumption DEF TypeOK, Pasts, Fault, NoFault

LEMMA LoseSightTyped ==
  ASSUME TypeOK, NEW r \in Reservations, LoseSight(r)
  PROVE  past' \in Pasts /\ faults' \in 0 .. MaxFaults
BY ReservationAssumption DEF TypeOK, Pasts, LoseSight

LEMMA FindNothingTyped ==
  ASSUME TypeOK, NEW r \in Reservations, FindNothing(r)
  PROVE  past' \in Pasts /\ faults' \in 0 .. MaxFaults
<1>1. CASE NoFault
  BY <1>1, FaultTyped
<1>2. CASE LoseSight(r)
  BY <1>2, LoseSightTyped
<1>3. CASE past' = [past EXCEPT !.missed = @ \cup {r}] /\ UNCHANGED faults
  BY <1>3 DEF TypeOK, Pasts
<1> QED
  BY <1>1, <1>2, <1>3 DEF FindNothing

LEMMA GoCreateTyped ==
  ASSUME TypeOK, NEW r \in Reservations, NEW pc \in CreateSteps, GoCreate(r, pc)
  PROVE  create' \in [Reservations -> Creations]
<1> DEFINE new == [create[r] EXCEPT !.pc = pc]
<1>1. create[r] \in Creations
  BY DEF TypeOK
<1>2. new = [pc |-> pc, other |-> create[r].other, got |-> create[r].got]
  BY <1>1 DEF Creations
<1>3. new \in Creations
  BY <1>1, <1>2 DEF Creations
<1>4. create' = [create EXCEPT ![r] = new]
  BY DEF GoCreate
<1> HIDE DEF new
<1> QED
  BY <1>3, <1>4 DEF TypeOK

LEMMA UserHoldTyped ==
  ASSUME TypeOK, NEW r \in Reservations, SetUserHold(r) \/ CompareDel(r)
  PROVE  userHold' \in [Users -> Reservations \cup {None}]
BY ZenonT(60), ReservationAssumption DEF TypeOK, SetUserHold, CompareDel

LEMMA UnlockUserTyped ==
  ASSUME TypeOK, NEW r \in Reservations, UnlockUser(r)
  PROVE  /\ userHold' \in [Users -> Reservations \cup {None}]
         /\ past' \in Pasts /\ faults' \in 0 .. MaxFaults
BY UserHoldTyped, FaultTyped DEF UnlockUser, TypeOK

LEMMA TakeTyped ==
  ASSUME TypeOK, NEW r \in Reservations, NEW l \in Lines, Take(r, l)
  PROVE  net' \in [Reservations -> [Lines -> Int]]
BY DEF TypeOK, Take

LEMMA GiveBackTyped ==
  ASSUME TypeOK, NEW r \in Reservations, NEW lines \in SUBSET Lines,
         NEW told \in SUBSET lines, GiveBack(r, lines, told)
  PROVE  /\ net' \in [Reservations -> [Lines -> Int]]
         /\ past' \in Pasts /\ faults' \in 0 .. MaxFaults
<1>1. past' \in Pasts /\ faults' \in 0 .. MaxFaults
  BY FaultTyped DEF GiveBack
<1>2. PICK done \in SUBSET lines :
        net' = [net EXCEPT ![r] = [l \in Lines |-> IF l \in done THEN @[l] - 1 ELSE @[l]]]
  BY DEF GiveBack
<1>3. net' \in [Reservations -> [Lines -> Int]]
  BY <1>2 DEF TypeOK
<1> QED
  BY <1>1, <1>3

LEMMA GoTyped ==
  ASSUME TypeOK, NEW x \in Workers, work[x].pc # "idle", NEW pc \in WorkSteps, Go(x, pc)
  PROVE  work' \in [Workers -> {NoWork} \cup Works]
<1> DEFINE new == [work[x] EXCEPT !.pc = pc]
<1>1. work[x] \in Works
  BY DEF TypeOK, NoWork
<1>2. new = [pc |-> pc, r |-> work[x].r, lines |-> work[x].lines]
  BY <1>1 DEF Works
<1>3. new \in Works
  BY <1>1, <1>2 DEF Works
<1>4. work' = [work EXCEPT ![x] = new]
  BY DEF Go
<1> HIDE DEF new
<1> QED
  BY <1>3, <1>4 DEF TypeOK

LEMMA FinishTyped ==
  ASSUME TypeOK, NEW x \in Workers, Finish(x)
  PROVE  work' \in [Workers -> {NoWork} \cup Works]
BY DEF TypeOK, Finish

LEMMA BeginTyped ==
  ASSUME TypeOK, NEW x \in Workers, NEW r \in Reservations, NEW pc \in WorkSteps,
         Begin(x, r, pc)
  PROVE  work' \in [Workers -> {NoWork} \cup Works]
BY DEF TypeOK, Begin, Works

LEMMA ProceedTyped ==
  ASSUME TypeOK, NEW x \in Workers, NEW r \in Reservations, NEW pc \in WorkSteps,
         Proceed(x, r, pc)
  PROVE  work' \in [Workers -> {NoWork} \cup Works] /\ past' \in Pasts
<1>1. LinesRead(r) \in SUBSET Lines
  BY DEF LinesRead
<1>2. work' \in [Workers -> {NoWork} \cup Works]
  BY <1>1 DEF TypeOK, Proceed, Works
<1>3. past' \in Pasts
  BY DEF TypeOK, Proceed, Pasts
<1> QED
  BY <1>2, <1>3

\* A worker that is not idle works on a reservation.
LEMMA BusyWorks ==
  ASSUME TypeOK, NEW x \in Workers, work[x].pc # "idle"
  PROVE  /\ work[x] \in Works
         /\ work[x].r \in Reservations /\ work[x].lines \in SUBSET Lines
BY DEF TypeOK, Works, NoWork

LEMMA CreateTyped ==
  ASSUME TypeOK, NEW r \in Reservations, Create(r) \/ CrashCreate(r)
  PROVE  TypeOK'
<1> USE FaultTyped, GoCreateTyped, UserHoldTyped, UnlockUserTyped
      DEF TypeOK, CreateSteps, fixed, keys, money
<1>1. CASE Acquire(r)
  BY <1>1 DEF Acquire, NoFault
<1>2. CASE LookAtHolder(r)
  <2> DEFINE e == userHold[UserOf[r]]
             orphan == [create[r] EXCEPT !.other = e, !.pc = "steal"]
  <2>1. /\ create[r] \in Creations /\ e \in Reservations \cup {None}
    BY ReservationAssumption
  <2>2. e # None => orphan \in Creations
    BY <2>1 DEF Creations
  <2>3. /\ past' \in Pasts /\ faults' \in 0 .. MaxFaults
        /\ UNCHANGED <<fixed, work, keys, net, money, timeUp>>
    <3>1. NoFault \/ Fault(r) \/ (e # None /\ Fault(e))
      BY <1>2 DEF LookAtHolder
    <3> QED
      BY <2>1, <3>1, <1>2 DEF LookAtHolder, NoFault
  <2>4. create' \in [Reservations -> Creations]
    <3>1. GoCreate(r, "refused") \/ (e # None /\ create' = [create EXCEPT ![r] = orphan])
      BY <1>2 DEF LookAtHolder
    <3> HIDE DEF orphan
    <3> QED
      BY <2>2, <3>1
  <2> QED
    BY <2>3, <2>4
<1>3. CASE Steal(r)
  <2>1. create[r].other \in Reservations \cup {None}
    BY DEF Creations
  <2>2. userHold' \in [Users -> Reservations \cup {None}]
    BY <1>3, <2>1, ReservationAssumption DEF Steal, CompareDel
  <2> QED
    BY <1>3, <2>2 DEF Steal, NoFault
<1>4. CASE Reacquire(r)
  BY <1>4 DEF Reacquire, NoFault
<1>5. CASE ReserveLine(r)
  <2>1. /\ past' \in Pasts /\ faults' \in 0 .. MaxFaults
        /\ UNCHANGED <<fixed, work, keys, money, timeUp>>
    BY <1>5 DEF ReserveLine, NoFault
  <2>2. net' \in [Reservations -> [Lines -> Int]]
    BY <1>5, TakeTyped DEF ReserveLine
  <2>3. create' \in [Reservations -> Creations]
    <3>1. CASE GoCreate(r, "unlock")
      BY <3>1
    <3>2. CASE ~ GoCreate(r, "unlock")
      <4>1. PICK l \in Lines :
              create' = [create EXCEPT
                ![r].got = create[r].got \cup {l},
                ![r].pc = IF create[r].got \cup {l} = Lines THEN "persist" ELSE "reserve"]
        BY <1>5, <3>2 DEF ReserveLine
      <4> DEFINE new == [create[r] EXCEPT
            !.got = create[r].got \cup {l},
            !.pc = IF create[r].got \cup {l} = Lines THEN "persist" ELSE "reserve"]
      <4>2. create' = [create EXCEPT ![r] = new]
        BY <4>1
      <4>3. create[r] \in Creations
        OBVIOUS
      <4>4. new \in Creations
        BY <4>3 DEF Creations
      <4> HIDE DEF new
      <4> QED
        BY <4>2, <4>4
    <3> QED
      BY <3>1, <3>2
  <2> QED
    BY <2>1, <2>2, <2>3
<1>6. CASE Persist(r)
  <2>1. /\ hold' \in [Reservations -> {"none", "readable", "opaque"}]
        /\ indexed' \subseteq Reservations
    BY <1>6 DEF Persist, StoreHold, StoredHold
  <2> QED
    BY <1>6, <2>1 DEF Persist, NoFault
<1>7. CASE RollBackUserHold(r)
  BY <1>7 DEF RollBackUserHold
<1>8. CASE RollBackLines(r)
  <2>1. create[r].got \in SUBSET Lines
    BY DEF Creations
  <2> QED
    BY <1>8, <2>1, GiveBackTyped DEF RollBackLines
<1>9. CASE CrashCreate(r)
  BY <1>9 DEF CrashCreate
<1> QED
  BY <1>1, <1>2, <1>3, <1>4, <1>5, <1>6, <1>7, <1>8, <1>9 DEF Create

LEMMA HoldTyped ==
  ASSUME TypeOK, NEW r \in Reservations, DropHold(r) \/ CleanUp(r)
  PROVE  /\ hold' \in [Reservations -> {"none", "readable", "opaque"}]
         /\ indexed' \subseteq Reservations
         /\ CleanUp(r) => past' \in Pasts /\ faults' \in 0 .. MaxFaults
<1>1. /\ hold' \in [Reservations -> {"none", "readable", "opaque"}]
      /\ indexed' \subseteq Reservations
  BY DEF TypeOK, CleanUp, DropHold
<1>2. CleanUp(r) => past' \in Pasts /\ faults' \in 0 .. MaxFaults
  BY FaultTyped, LoseSightTyped DEF CleanUp
<1> QED
  BY <1>1, <1>2

LEMMA UnindexTyped ==
  ASSUME TypeOK, NEW r \in Reservations, Unindex(r)
  PROVE  /\ indexed' \subseteq Reservations
         /\ past' \in Pasts /\ faults' \in 0 .. MaxFaults
BY FaultTyped DEF Unindex, TypeOK

LEMMA RequestTyped ==
  ASSUME TypeOK, NEW x \in Workers, NEW r \in Reservations,
         Request(x, r) \/ Tick(x, r)
  PROVE  TypeOK'
<1> USE FaultTyped, FindNothingTyped, BeginTyped, ProceedTyped
      DEF TypeOK, WorkSteps, fixed, keys, money
<1>1. CASE CancelLoad(x, r)
  BY <1>1 DEF CancelLoad
<1>2. CASE ConfirmLock(x, r)
  BY <1>2 DEF ConfirmLock, NoFault
<1>3. CASE ReapLock(x, r)
  BY <1>3 DEF ReapLock, NoFault
<1>4. CASE AutoMissing(x, r)
  BY <1>4 DEF AutoMissing
<1>5. CASE AutoLock(x, r)
  BY <1>5 DEF AutoLock
<1> QED
  BY <1>1, <1>2, <1>3, <1>4, <1>5 DEF Request, Tick

LEMMA CancelTyped ==
  ASSUME TypeOK, NEW x \in Workers,
         \/ CancelMissing(x) \/ CancelRefund(x) \/ CancelRelease(x)
         \/ CancelUnlock(x) \/ CancelClean(x)
  PROVE  TypeOK'
<1> USE FaultTyped, BusyWorks, GoTyped, FinishTyped, UnlockUserTyped, HoldTyped
      DEF TypeOK, AtWork, WorkSteps, fixed, keys, money
<1>1. CASE CancelMissing(x)
  BY <1>1, UnindexTyped DEF CancelMissing
<1>2. CASE CancelRefund(x)
  BY <1>2 DEF CancelRefund, NoFault
<1>3. CASE CancelRelease(x)
  <2>1. work[x].r \in Reservations /\ work[x].lines \in SUBSET Lines
    BY <1>3 DEF CancelRelease
  <2>2. /\ net' \in [Reservations -> [Lines -> Int]]
        /\ past' \in Pasts /\ faults' \in 0 .. MaxFaults
    <3>1. PICK told \in SUBSET work[x].lines : GiveBack(work[x].r, work[x].lines, told)
      BY <1>3 DEF CancelRelease
    <3> QED
      BY ZenonT(60), <2>1, <3>1, GiveBackTyped
  <2> QED
    BY <1>3, <2>2 DEF CancelRelease
<1>4. CASE CancelUnlock(x)
  BY <1>4 DEF CancelUnlock
<1>5. CASE CancelClean(x)
  BY <1>5 DEF CancelClean
<1> QED
  BY <1>1, <1>2, <1>3, <1>4, <1>5

LEMMA ConfirmTyped ==
  ASSUME TypeOK, NEW x \in Workers,
         \/ ConfirmMissing(x) \/ ConfirmExpired(x) \/ ConfirmLive(x)
         \/ ConfirmPay(x) \/ ConfirmOrder(x) \/ ConfirmUnlock(x)
         \/ ConfirmClean(x) \/ ConfirmEnd(x)
  PROVE  TypeOK'
<1> USE FaultTyped, FindNothingTyped, BusyWorks, GoTyped, FinishTyped,
        UnlockUserTyped, HoldTyped, ProceedTyped
      DEF TypeOK, AtWork, WorkSteps, fixed, keys, money
<1>1. CASE ConfirmMissing(x)
  BY <1>1 DEF ConfirmMissing, StoredFlag
<1>2. CASE ConfirmExpired(x)
  BY <1>2 DEF ConfirmExpired
<1>3. CASE ConfirmLive(x)
  BY <1>3 DEF ConfirmLive
<1>4. CASE ConfirmPay(x)
  BY <1>4 DEF ConfirmPay, NoFault
<1>5. CASE ConfirmOrder(x)
  BY <1>5 DEF ConfirmOrder, NoFault
<1>6. CASE ConfirmUnlock(x)
  BY <1>6 DEF ConfirmUnlock
<1>7. CASE ConfirmClean(x)
  BY <1>7 DEF ConfirmClean, NoFault
<1>8. CASE ConfirmEnd(x)
  BY <1>8 DEF ConfirmEnd, NoFault
<1> QED
  BY <1>1, <1>2, <1>3, <1>4, <1>5, <1>6, <1>7, <1>8

LEMMA ReapTyped ==
  ASSUME TypeOK, NEW x \in Workers,
         \/ ReapLoad(x) \/ ReapMissing(x) \/ ReapRelease(x) \/ ReapUnlock(x)
         \/ ReapSnapshot(x) \/ ReapClean(x)
  PROVE  TypeOK'
<1> USE FaultTyped, FindNothingTyped, BusyWorks, GoTyped, FinishTyped,
        UserHoldTyped, HoldTyped, ProceedTyped
      DEF TypeOK, AtWork, WorkSteps, UnlockReap, fixed, keys, money
<1>1. CASE ReapLoad(x)
  BY <1>1 DEF ReapLoad, NoFault
<1>2. CASE ReapMissing(x)
  BY <1>2, UnindexTyped DEF ReapMissing
<1>3. CASE ReapRelease(x)
  <2>1. work[x].r \in Reservations /\ work[x].lines \in SUBSET Lines
    BY <1>3 DEF ReapRelease
  <2>2. /\ net' \in [Reservations -> [Lines -> Int]]
        /\ past' \in Pasts /\ faults' \in 0 .. MaxFaults
    <3>1. PICK told \in SUBSET work[x].lines : GiveBack(work[x].r, work[x].lines, told)
      BY <1>3 DEF ReapRelease
    <3> QED
      BY ZenonT(60), <2>1, <3>1, GiveBackTyped
  <2> QED
    BY <1>3, <2>2 DEF ReapRelease
<1>4. CASE ReapUnlock(x)
  BY <1>4 DEF ReapUnlock, NoFault
<1>5. CASE ReapSnapshot(x)
  BY <1>5 DEF ReapSnapshot, NoFault
<1>6. CASE ReapClean(x)
  BY <1>6 DEF ReapClean
<1> QED
  BY <1>1, <1>2, <1>3, <1>4, <1>5, <1>6

LEMMA OtherTyped ==
  ASSUME TypeOK,
         \/ \E x \in Workers : AutoSettle(x) \/ AutoClean(x) \/ CrashWork(x)
         \/ \E r \in Reservations : \/ Pay(r) \/ TimeUp(r)
                                    \/ HoldExpires(r) \/ SnapshotExpires(r)
         \/ \E u \in Users : UserHoldExpires(u)
         \/ \E k \in locks : LockExpires(k)
         \/ UNCHANGED vars
  PROVE  TypeOK'
<1> USE FaultTyped, BusyWorks, GoTyped, FinishTyped
      DEF TypeOK, AtWork, WorkSteps, fixed, keys, money
<1>1. ASSUME NEW x \in Workers, AutoSettle(x)
      PROVE  TypeOK'
  BY <1>1 DEF AutoSettle, NoFault
<1>2. ASSUME NEW x \in Workers, AutoClean(x)
      PROVE  TypeOK'
  BY <1>2 DEF AutoClean, NoFault
<1>3. ASSUME NEW x \in Workers, CrashWork(x)
      PROVE  TypeOK'
  BY <1>3 DEF CrashWork
<1>4. ASSUME NEW r \in Reservations, Pay(r) \/ TimeUp(r) \/ SnapshotExpires(r)
      PROVE  TypeOK'
  BY <1>4 DEF Pay, TimeUp, SnapshotExpires
<1>5. ASSUME NEW r \in Reservations, HoldExpires(r)
      PROVE  TypeOK'
  BY <1>5 DEF HoldExpires, Pasts
<1>6. ASSUME NEW u \in Users, UserHoldExpires(u)
      PROVE  TypeOK'
  BY <1>6 DEF UserHoldExpires
<1>7. ASSUME NEW k \in locks, LockExpires(k)
      PROVE  TypeOK'
  BY <1>7 DEF LockExpires
<1>8. CASE UNCHANGED vars
  BY <1>8 DEF vars
<1> QED
  BY <1>1, <1>2, <1>3, <1>4, <1>5, <1>6, <1>7, <1>8

LEMMA InitTyped == Init => TypeOK
<1> SUFFICES ASSUME Init PROVE TypeOK
  OBVIOUS
<1>1. create \in [Reservations -> Creations]
  BY DEF Init, Creations, CreateSteps
<1>2. /\ userHold \in [Users -> Reservations \cup {None}]
      /\ net \in [Reservations -> [Lines -> Int]]
      /\ work \in [Workers -> {NoWork} \cup Works]
  BY DEF Init
<1>3. past \in Pasts /\ faults \in 0 .. MaxFaults
  BY ReservationAssumption DEF Init, Pasts
<1> QED
  BY <1>1, <1>2, <1>3 DEF Init, TypeOK

LEMMA NextTyped == TypeOK /\ [Next]_vars => TypeOK'
<1> SUFFICES ASSUME TypeOK, [Next]_vars PROVE TypeOK'
  OBVIOUS
<1> QED
  BY CreateTyped, RequestTyped, CancelTyped, ConfirmTyped, ReapTyped, OtherTyped
     DEF Next, Continue, Workers

\* Reservations keep their types, whatever the numbers of reservations, users,
\* lines, handlers and reapers.
THEOREM TypeCorrect == Spec => []TypeOK
BY InitTyped, NextTyped, PTL DEF Spec

-----------------------------------------------------------------------------
(* The inductive invariants.                                               *)

\* A worker that found no hold was too early or too late to find it again.
FoundNothing(x) ==
  work[x].pc \in {"zrem", "reapMissing"} =>
    \/ work[x].r \in past.missed
    \/ ~ Stored(work[x].r) /\ create[work[x].r].pc \in {"created", "refused"}

IndexInv == HoldIndexed /\ \A x \in Workers : FoundNothing(x)

WithHold(x, r) == work[x].r = r /\ HasHold(x)

\* The units of r that are out: those of the lines in S.
Out(r, S) == \A l \in Lines : net[r][l] = IF l \in S THEN 1 ELSE 0

\* What holds of a reservation while it is created and after it is refused.
Starting == {"new", "contended", "steal", "reacquire"}
Taking == {"reserve", "persist", "unlock", "giveBack"}

Untouched(r) ==
  /\ ~ Stored(r) /\ r \notin orders \cup refunds \cup snapshot
  /\ \A x \in Workers : ~ WithHold(x, r)

Creating(r) ==
  /\ create[r].pc # "crashed"
  /\ create[r].pc # "created" => Untouched(r)
  /\ create[r].pc \in Starting \cup {"refused"} => Out(r, {})
  /\ create[r].pc \in Starting => create[r].got = {}
  /\ create[r].pc \in Taking => Out(r, create[r].got)
  /\ create[r].pc = "persist" => create[r].got = Lines

\* And once it is created: while nobody works on its hold,
Rests(r) ==
  /\ Out(r, IF Stored(r) \/ r \in orders THEN Lines ELSE {})
  /\ r \in orders => r \in paid /\ r \notin refunds \cup snapshot /\ ~ Stored(r)
  /\ Stored(r) => r \notin refunds \cup snapshot

\* and while x does.
Before == {"refund", "cancelRelease", "pay", "order", "reapRelease"}
Sold == {"confirmUnlock", "confirmClean"}
Given == {"cancelUnlock", "cancelClean", "reapUnlock", "reapSnapshot", "reapClean"}
Settling == {"settle", "settleClean"}

Worked(x, r) ==
  /\ Stored(r) <=> work[x].pc \notin Settling
  /\ work[x].pc \in Before => work[x].lines = Lines
  /\ Out(r, IF work[x].pc \in Before \cup Sold THEN Lines ELSE {})
  /\ r \in orders <=> work[x].pc \in Sold
  /\ work[x].pc \in Sold \cup {"order"} => r \in paid
  /\ r \in refunds => work[x].pc \in {"cancelRelease"} \cup Given \cup Settling
  /\ r \in snapshot => work[x].pc \in {"reapClean"} \cup Settling

Held(r) ==
  /\ hold[r] # "opaque"
  /\ \A x, y \in Workers : WithHold(x, r) /\ WithHold(y, r) => x = y
  /\ (\A x \in Workers : ~ WithHold(x, r)) => Rests(r)
  /\ \A x \in Workers : WithHold(x, r) => Worked(x, r)

Account(r) ==
  r \notin past.troubled =>
    /\ Creating(r)
    /\ create[r].pc = "created" /\ client = "typed" => Held(r)

AccountInv == \A r \in Reservations : Account(r)

\* The user hold is a reservation's from its creation to the end of its hold.
Looking(s) ==
  /\ create[s].pc \in {"new", "contended"} => create[s].other = None
  /\ create[s].pc = "steal" => create[s].other \in Reservations

Unlocked == {"cancelClean", "confirmClean", "reapSnapshot", "reapClean"}

Keeping(r) ==
  /\ create[r].pc = "created" => Stored(r)
  /\ \A x \in Workers : WithHold(x, r) => work[x].pc \notin Unlocked

Locking(r) ==
  /\ r \notin past.troubled \cup timeUp
  /\ create[r].pc \in {"reserve", "persist", "created"}
  /\ client = "ioredis" \/ (~ TakenForOrphan(r) /\ Keeping(r))

UserHoldInv ==
  \A r \in Reservations : Looking(r) /\ (Locking(r) => userHold[UserOf[r]] = r)

-----------------------------------------------------------------------------
(* What the helpers of the actions do to a worker and to the history.      *)

LEMMA WorkEffects ==
  ASSUME TypeOK, NEW x \in Workers
  PROVE  /\ \A pc : Go(x, pc) =>
              /\ \A y \in Workers \ {x} : work'[y] = work[y]
              /\ work'[x].pc = pc
              /\ work'[x].r = work[x].r /\ work'[x].lines = work[x].lines
         /\ Finish(x) =>
              /\ \A y \in Workers \ {x} : work'[y] = work[y]
              /\ work'[x] = NoWork /\ work'[x].pc = "idle" /\ work'[x].r = None
         /\ \A r, pc : Begin(x, r, pc) =>
              /\ \A y \in Workers \ {x} : work'[y] = work[y]
              /\ work'[x].pc = pc /\ work'[x].r = r
         /\ \A r, pc : Proceed(x, r, pc) =>
              /\ \A y \in Workers \ {x} : work'[y] = work[y]
              /\ work'[x].pc = pc /\ work'[x].r = r
              /\ work'[x].lines = LinesRead(r)
<1>1. work \in [Workers -> {NoWork} \cup Works]
  BY DEF TypeOK
<1>2. work[x].pc = work[x].pc /\ DOMAIN work[x] = {"pc", "r", "lines"}
  BY <1>1 DEF Works, NoWork
<1>3. ASSUME NEW pc, Go(x, pc)
      PROVE  /\ \A y \in Workers \ {x} : work'[y] = work[y]
             /\ work'[x].pc = pc
             /\ work'[x].r = work[x].r /\ work'[x].lines = work[x].lines
  BY <1>1, <1>2, <1>3 DEF Go
<1>4. ASSUME Finish(x)
      PROVE  /\ \A y \in Workers \ {x} : work'[y] = work[y]
             /\ work'[x] = NoWork /\ work'[x].pc = "idle" /\ work'[x].r = None
  BY <1>1, <1>4 DEF Finish, NoWork
<1>5. ASSUME NEW r, NEW pc, Begin(x, r, pc)
      PROVE  /\ \A y \in Workers \ {x} : work'[y] = work[y]
             /\ work'[x].pc = pc /\ work'[x].r = r
  BY <1>1, <1>5 DEF Begin
<1>6. ASSUME NEW r, NEW pc, Proceed(x, r, pc)
      PROVE  /\ \A y \in Workers \ {x} : work'[y] = work[y]
             /\ work'[x].pc = pc /\ work'[x].r = r
             /\ work'[x].lines = LinesRead(r)
  BY <1>1, <1>6 DEF Proceed
<1> QED
  BY <1>3, <1>4, <1>5, <1>6

LEMMA PastEffects ==
  ASSUME TypeOK, NEW r \in Reservations
  PROVE  /\ NoFault => past' = past
         /\ Fault(r) => /\ past'.troubled = past.troubled \cup {r}
                        /\ past'.missed = past.missed
         /\ LoseSight(r) => /\ past'.troubled = past.troubled \cup {r}
                            /\ past'.missed = past.missed \cup {r}
         /\ FindNothing(r) =>
              /\ past.troubled \subseteq past'.troubled
              /\ past.missed \subseteq past'.missed
              /\ \/ r \in past'.missed
                 \/ ~ Stored(r) /\ create[r].pc \in {"created", "refused"}
         /\ \A x \in Workers : \A pc : Proceed(x, r, pc) =>
              /\ past.troubled \subseteq past'.troubled
              /\ past'.missed = past.missed
              /\ r \notin past'.troubled =>
                   \A y \in Workers \ {x} : ~ WithHold(y, r)
<1>1. past \in Pasts
  BY DEF TypeOK
<1>2. NoFault => past' = past
  BY DEF NoFault
<1>3. Fault(r) => /\ past'.troubled = past.troubled \cup {r}
                  /\ past'.missed = past.missed
  BY <1>1 DEF Fault, Pasts
<1>4. LoseSight(r) => /\ past'.troubled = past.troubled \cup {r}
                      /\ past'.missed = past.missed \cup {r}
  BY DEF LoseSight
<1>5. FindNothing(r) =>
        /\ past.troubled \subseteq past'.troubled
        /\ past.missed \subseteq past'.missed
        /\ \/ r \in past'.missed
           \/ ~ Stored(r) /\ create[r].pc \in {"created", "refused"}
  BY <1>1, <1>2, <1>4 DEF FindNothing, Pasts
<1>6. ASSUME NEW x \in Workers, NEW pc, Proceed(x, r, pc)
      PROVE  /\ past.troubled \subseteq past'.troubled
             /\ past'.missed = past.missed
             /\ r \notin past'.troubled =>
                  \A y \in Workers \ {x} : ~ WithHold(y, r)
  BY <1>1, <1>6 DEF Proceed, Pasts, WithHold
<1> QED
  BY <1>2, <1>3, <1>4, <1>5, <1>6

LEMMA CreateEffects ==
  ASSUME TypeOK, NEW r \in Reservations
  PROVE  \A pc : GoCreate(r, pc) =>
           /\ \A s \in Reservations \ {r} : create'[s] = create[s]
           /\ create'[r].pc = pc
           /\ create'[r].other = create[r].other /\ create'[r].got = create[r].got
<1>1. create \in [Reservations -> Creations] /\ create[r] \in Creations
  BY DEF TypeOK
<1> QED
  BY <1>1 DEF GoCreate, Creations

-----------------------------------------------------------------------------
(* The index of holds.                                                     *)

\* What a step has to keep for the index to stay complete.
LEMMA IndexKept ==
  ASSUME TypeOK, IndexInv,
         past.missed \subseteq past'.missed,
         \A r \in Reservations :
           Stored(r)' => \/ r \in indexed' \cup past'.missed
                         \/ Stored(r) /\ (r \in indexed => r \in indexed'),
         \A r \in Reservations :
           ~ Stored(r) /\ create[r].pc \in {"created", "refused"} =>
             ~ Stored(r)' /\ create'[r].pc \in {"created", "refused"},
         \A x \in Workers : work'[x] = work[x] \/ FoundNothing(x)'
  PROVE  IndexInv'
<1>1. HoldIndexed'
  BY DEF IndexInv, HoldIndexed
<1>2. ASSUME NEW x \in Workers, work'[x] = work[x]
      PROVE  FoundNothing(x)'
  <2>1. FoundNothing(x)
    BY DEF IndexInv
  <2>2. CASE work[x].pc \in {"zrem", "reapMissing"}
    BY <1>2, <2>1, <2>2, BusyWorks DEF FoundNothing
  <2> QED
    BY <1>2, <2>2 DEF FoundNothing
<1> QED
  BY <1>1, <1>2 DEF IndexInv

\* Most steps leave the holds and the index alone.
LEMMA IndexUntouched ==
  ASSUME TypeOK, IndexInv, UNCHANGED <<hold, indexed>>,
         past.missed \subseteq past'.missed,
         \A r \in Reservations : create[r].pc \in {"created", "refused"} =>
           create'[r].pc \in {"created", "refused"},
         \A x \in Workers :
           work'[x] = work[x] \/ work'[x].pc \notin {"zrem", "reapMissing"}
  PROVE  IndexInv'
<1>1. \A r \in Reservations : Stored(r)' <=> Stored(r)
  BY DEF Stored
<1>2. \A x \in Workers : work'[x] = work[x] \/ FoundNothing(x)'
  BY DEF FoundNothing
<1> QED
  BY <1>1, <1>2, IndexKept

LEMMA CreateIndexed ==
  ASSUME TypeOK, IndexInv, NEW r \in Reservations, Create(r) \/ CrashCreate(r)
  PROVE  IndexInv'
<1> USE PastEffects, CreateEffects, IndexUntouched DEF keys, fixed
<1>1. CASE Acquire(r)
  BY <1>1 DEF Acquire
<1>2. CASE LookAtHolder(r)
  <2>1. past.missed \subseteq past'.missed
    <3>1. userHold[UserOf[r]] \in Reservations \cup {None}
      BY ReservationAssumption DEF TypeOK
    <3>2. NoFault \/ Fault(r)
          \/ (userHold[UserOf[r]] # None /\ Fault(userHold[UserOf[r]]))
      BY <1>2 DEF LookAtHolder
    <3> QED
      BY <3>1, <3>2
  <2>2. \A s \in Reservations \ {r} : create'[s] = create[s]
    BY <1>2 DEF LookAtHolder, TypeOK
  <2> QED
    BY <1>2, <2>1, <2>2 DEF LookAtHolder
<1>3. CASE Steal(r)
  BY <1>3 DEF Steal
<1>4. CASE Reacquire(r)
  BY <1>4 DEF Reacquire
<1>5. CASE ReserveLine(r)
  <2>1. \A s \in Reservations \ {r} : create'[s] = create[s]
    BY <1>5 DEF ReserveLine, TypeOK
  <2> QED
    BY <1>5, <2>1 DEF ReserveLine
<1>6. CASE Persist(r)
  <2>1. \A s \in Reservations \ {r} : /\ Stored(s)' <=> Stored(s)
                                      /\ s \in indexed => s \in indexed'
    BY <1>6 DEF Persist, StoreHold, Stored, TypeOK
  <2>2. Stored(r)' => r \in indexed' \/ (Stored(r) /\ indexed' = indexed)
    BY <1>6 DEF Persist, StoreHold, Stored
  <2>3. past.missed = past'.missed
    BY <1>6 DEF Persist
  <2>4. \A s \in Reservations : create[s].pc \in {"created", "refused"} =>
          s # r /\ create'[s] = create[s]
    BY <1>6 DEF Persist
  <2>5. work' = work
    BY <1>6 DEF Persist
  <2> QED
    BY <2>1, <2>2, <2>3, <2>4, <2>5, IndexKept
<1>7. CASE RollBackUserHold(r)
  BY <1>7 DEF RollBackUserHold, UnlockUser
<1>8. CASE RollBackLines(r)
  BY <1>8 DEF RollBackLines, GiveBack
<1>9. CASE CrashCreate(r)
  BY <1>9 DEF CrashCreate
<1> QED
  BY <1>1, <1>2, <1>3, <1>4, <1>5, <1>6, <1>7, <1>8, <1>9 DEF Create

\* A worker that takes the index entry of a hold away, or the hold itself.
LEMMA IndexDropped ==
  ASSUME TypeOK, IndexInv, NEW r \in Reservations,
         past.missed \subseteq past'.missed, UNCHANGED create,
         \A s \in Reservations \ {r} :
           hold'[s] = hold[s] /\ (s \in indexed => s \in indexed'),
         \/ ~ Stored(r)' \/ r \in past'.missed
         \/ hold'[r] = hold[r] /\ (r \in indexed => r \in indexed'),
         ~ Stored(r) => ~ Stored(r)',
         \A x \in Workers :
           work'[x] = work[x] \/ work'[x].pc \notin {"zrem", "reapMissing"}
  PROVE  IndexInv'
<1>1. \A s \in Reservations \ {r} : Stored(s)' <=> Stored(s)
  BY DEF Stored
<1>2. \A x \in Workers : work'[x] = work[x] \/ FoundNothing(x)'
  BY DEF FoundNothing
<1>3. Stored(r)' => \/ r \in indexed' \cup past'.missed
                    \/ Stored(r) /\ (r \in indexed => r \in indexed')
  BY DEF Stored
<1> QED
  BY <1>1, <1>2, <1>3, IndexKept

LEMMA HoldEffects ==
  ASSUME TypeOK, NEW r \in Reservations
  PROVE  /\ DropHold(r) =>
              /\ ~ Stored(r)'
              /\ \A s \in Reservations \ {r} :
                   hold'[s] = hold[s] /\ (s \in indexed => s \in indexed')
         /\ CleanUp(r) =>
              /\ past.missed \subseteq past'.missed
              /\ past.troubled \subseteq past'.troubled
              /\ ~ Stored(r)' \/ r \in past'.troubled
              /\ \A s \in Reservations \ {r} :
                   hold'[s] = hold[s] /\ (s \in indexed => s \in indexed')
              /\ \/ ~ Stored(r)' \/ r \in past'.missed
                 \/ hold'[r] = hold[r] /\ (r \in indexed => r \in indexed')
              /\ ~ Stored(r) => ~ Stored(r)'
BY PastEffects DEF DropHold, CleanUp, Stored, TypeOK

LEMMA RequestIndexed ==
  ASSUME TypeOK, IndexInv, NEW x \in Workers, NEW r \in Reservations,
         Request(x, r) \/ Tick(x, r)
  PROVE  IndexInv'
<1> USE PastEffects, WorkEffects, IndexUntouched DEF keys, fixed
<1>1. CASE CancelLoad(x, r)
  <2>1. past.missed \subseteq past'.missed
    BY <1>1 DEF CancelLoad
  <2>2. \A y \in Workers : work'[y] = work[y] \/ FoundNothing(y)'
    BY <1>1 DEF CancelLoad, FoundNothing, Stored
  <2>3. UNCHANGED <<create, hold, indexed>>
    BY <1>1 DEF CancelLoad
  <2> QED
    BY <2>1, <2>2, <2>3, IndexKept DEF Stored
<1>2. CASE ConfirmLock(x, r)
  BY <1>2 DEF ConfirmLock
<1>3. CASE ReapLock(x, r)
  BY <1>3 DEF ReapLock
<1>4. CASE AutoMissing(x, r)
  BY <1>4 DEF AutoMissing
<1>5. CASE AutoLock(x, r)
  BY <1>5 DEF AutoLock
<1> QED
  BY <1>1, <1>2, <1>3, <1>4, <1>5 DEF Request, Tick

LEMMA CancelIndexed ==
  ASSUME TypeOK, IndexInv, NEW x \in Workers,
         \/ CancelMissing(x) \/ CancelRefund(x) \/ CancelRelease(x)
         \/ CancelUnlock(x) \/ CancelClean(x)
  PROVE  IndexInv'
<1> USE BusyWorks, PastEffects, WorkEffects, IndexUntouched DEF keys, fixed, AtWork
<1>1. CASE CancelMissing(x)
  <2>1. ~ Stored(work[x].r) \/ work[x].r \in past.missed
    BY <1>1 DEF CancelMissing, IndexInv, FoundNothing
  <2> QED
    BY <1>1, <2>1, IndexDropped DEF CancelMissing, Unindex, Stored
<1>2. CASE CancelRefund(x)
  BY <1>2 DEF CancelRefund
<1>3. CASE CancelRelease(x)
  <2>1. work[x].r \in Reservations
    BY SMTT(60), <1>3 DEF CancelRelease
  <2>2. past.missed \subseteq past'.missed
    BY <1>3, <2>1 DEF CancelRelease, GiveBack
  <2>3. \A y \in Workers : work'[y] = work[y] \/ work'[y].pc \notin {"zrem", "reapMissing"}
    BY <1>3 DEF CancelRelease
  <2>4. UNCHANGED <<create, hold, indexed>>
    BY <1>3 DEF CancelRelease
  <2> QED
    BY <2>2, <2>3, <2>4
<1>4. CASE CancelUnlock(x)
  BY <1>4 DEF CancelUnlock, UnlockUser
<1>5. CASE CancelClean(x)
  BY <1>5, HoldEffects, IndexDropped DEF CancelClean
<1> QED
  BY <1>1, <1>2, <1>3, <1>4, <1>5

LEMMA ConfirmIndexed ==
  ASSUME TypeOK, IndexInv, NEW x \in Workers,
         \/ ConfirmMissing(x) \/ ConfirmExpired(x) \/ ConfirmLive(x)
         \/ ConfirmPay(x) \/ ConfirmOrder(x) \/ ConfirmUnlock(x)
         \/ ConfirmClean(x) \/ ConfirmEnd(x)
  PROVE  IndexInv'
<1> USE BusyWorks, PastEffects, WorkEffects, IndexUntouched DEF keys, fixed, AtWork
<1>1. CASE ConfirmMissing(x)
  BY <1>1 DEF ConfirmMissing
<1>2. CASE ConfirmExpired(x)
  BY <1>2 DEF ConfirmExpired
<1>3. CASE ConfirmLive(x)
  BY <1>3 DEF ConfirmLive
<1>4. CASE ConfirmPay(x)
  BY <1>4 DEF ConfirmPay
<1>5. CASE ConfirmOrder(x)
  BY <1>5 DEF ConfirmOrder
<1>6. CASE ConfirmUnlock(x)
  BY <1>6 DEF ConfirmUnlock, UnlockUser
<1>7. CASE ConfirmClean(x)
  BY <1>7, HoldEffects, IndexDropped DEF ConfirmClean
<1>8. CASE ConfirmEnd(x)
  BY <1>8 DEF ConfirmEnd
<1> QED
  BY <1>1, <1>2, <1>3, <1>4, <1>5, <1>6, <1>7, <1>8

LEMMA ReapIndexed ==
  ASSUME TypeOK, IndexInv, NEW x \in Workers,
         \/ ReapLoad(x) \/ ReapMissing(x) \/ ReapRelease(x) \/ ReapUnlock(x)
         \/ ReapSnapshot(x) \/ ReapClean(x)
  PROVE  IndexInv'
<1> USE BusyWorks, PastEffects, WorkEffects, IndexUntouched DEF keys, fixed, AtWork
<1>1. CASE ReapLoad(x)
  <2>1. past.missed \subseteq past'.missed
    BY <1>1 DEF ReapLoad
  <2>2. \A y \in Workers : work'[y] = work[y] \/ FoundNothing(y)'
    BY <1>1 DEF ReapLoad, FoundNothing, Stored
  <2>3. UNCHANGED <<create, hold, indexed>>
    BY <1>1 DEF ReapLoad
  <2> QED
    BY <2>1, <2>2, <2>3, IndexKept DEF Stored
<1>2. CASE ReapMissing(x)
  <2>1. ~ Stored(work[x].r) \/ work[x].r \in past.missed
    BY <1>2 DEF ReapMissing, IndexInv, FoundNothing
  <2> QED
    BY <1>2, <2>1, IndexDropped DEF ReapMissing, Unindex, Stored
<1>3. CASE ReapRelease(x)
  <2>1. work[x].r \in Reservations
    BY SMTT(60), <1>3 DEF ReapRelease
  <2>2. past.missed \subseteq past'.missed
    BY <1>3, <2>1 DEF ReapRelease, GiveBack
  <2>3. \A y \in Workers : work'[y] = work[y] \/ work'[y].pc \notin {"zrem", "reapMissing"}
    BY <1>3 DEF ReapRelease
  <2>4. UNCHANGED <<create, hold, indexed>>
    BY <1>3 DEF ReapRelease
  <2> QED
    BY <2>2, <2>3, <2>4
<1>4. CASE ReapUnlock(x)
  BY <1>4 DEF ReapUnlock
<1>5. CASE ReapSnapshot(x)
  BY <1>5 DEF ReapSnapshot
<1>6. CASE ReapClean(x)
  BY <1>6, HoldEffects, IndexDropped DEF ReapClean
<1> QED
  BY <1>1, <1>2, <1>3, <1>4, <1>5, <1>6

LEMMA OtherIndexed ==
  ASSUME TypeOK, IndexInv,
         \/ \E x \in Workers : AutoSettle(x) \/ AutoClean(x) \/ CrashWork(x)
         \/ \E r \in Reservations : \/ Pay(r) \/ TimeUp(r)
                                    \/ HoldExpires(r) \/ SnapshotExpires(r)
         \/ \E u \in Users : UserHoldExpires(u)
         \/ \E k \in locks : LockExpires(k)
         \/ UNCHANGED vars
  PROVE  IndexInv'
<1> USE BusyWorks, PastEffects, WorkEffects, IndexUntouched DEF keys, fixed, AtWork
<1>1. ASSUME NEW x \in Workers, AutoSettle(x)
      PROVE  IndexInv'
  BY <1>1 DEF AutoSettle
<1>2. ASSUME NEW x \in Workers, AutoClean(x)
      PROVE  IndexInv'
  BY <1>2 DEF AutoClean
<1>3. ASSUME NEW x \in Workers, CrashWork(x)
      PROVE  IndexInv'
  BY <1>3 DEF CrashWork
<1>4. ASSUME NEW r \in Reservations, Pay(r) \/ TimeUp(r) \/ SnapshotExpires(r)
      PROVE  IndexInv'
  BY <1>4 DEF Pay, TimeUp, SnapshotExpires
<1>5. ASSUME NEW r \in Reservations, HoldExpires(r)
      PROVE  IndexInv'
  <2>1. past.missed = past'.missed
    BY <1>5 DEF HoldExpires, TypeOK, Pasts
  <2>2. ~ Stored(r)' /\ \A s \in Reservations \ {r} : hold'[s] = hold[s]
    BY <1>5 DEF HoldExpires, TypeOK, Stored
  <2> QED
    BY <1>5, <2>1, <2>2, IndexDropped DEF HoldExpires
<1>6. ASSUME NEW u \in Users, UserHoldExpires(u)
      PROVE  IndexInv'
  BY <1>6 DEF UserHoldExpires
<1>7. ASSUME NEW k \in locks, LockExpires(k)
      PROVE  IndexInv'
  BY <1>7 DEF LockExpires
<1>8. CASE UNCHANGED vars
  BY <1>8 DEF vars
<1> QED
  BY <1>1, <1>2, <1>3, <1>4, <1>5, <1>6, <1>7, <1>8

LEMMA NextIndexed == TypeOK /\ IndexInv /\ [Next]_vars => IndexInv'
<1> SUFFICES ASSUME TypeOK, IndexInv, [Next]_vars PROVE IndexInv'
  OBVIOUS
<1> QED
  BY CreateIndexed, RequestIndexed, CancelIndexed, ConfirmIndexed, ReapIndexed,
     OtherIndexed DEF Next, Continue, Workers

\* The reaper finds every hold, unless a cancel or a reaper looked for it in
\* vain and took its index entry away (reservation.reaper.js:210), for every
\* number of requests, ticks, crashes and failed calls.
THEOREM HoldsAreIndexed == Spec => []HoldIndexed
<1>1. Init => IndexInv
  BY DEF Init, IndexInv, HoldIndexed, FoundNothing, Stored, NoWork
<1>2. IndexInv => HoldIndexed
  BY DEF IndexInv
<1> QED
  BY <1>1, <1>2, InitTyped, NextTyped, NextIndexed, PTL DEF Spec

-----------------------------------------------------------------------------
(* The account of each reservation.                                        *)

\* Nothing an account speaks of changes, but that a payment may come in.
LEMMA AccountKept ==
  ASSUME TypeOK, NEW r \in Reservations, Account(r), client' = client,
         past.troubled \subseteq past'.troubled,
         create'[r] = create[r], hold'[r] = hold[r],
         \A l \in Lines : net'[r][l] = net[r][l],
         r \in orders' <=> r \in orders, r \in refunds' <=> r \in refunds,
         r \in snapshot' => r \in snapshot, r \in paid => r \in paid',
         \A x \in Workers : \/ work'[x] = work[x]
                            \/ ~ WithHold(x, r) /\ ~ WithHold(x, r)'
  PROVE  Account(r)'
<1> SUFFICES ASSUME r \notin past'.troubled
             PROVE  /\ Creating(r)'
                    /\ create[r].pc = "created" /\ client = "typed" => Held(r)'
  BY DEF Account
<1>1. \A x \in Workers : /\ WithHold(x, r)' <=> WithHold(x, r)
                         /\ WithHold(x, r) => work'[x] = work[x]
  BY DEF WithHold, HasHold
<1>2. Stored(r)' <=> Stored(r)
  BY DEF Stored
<1>3. \A S : Out(r, S)' <=> Out(r, S)
  BY DEF Out
<1>4. Creating(r) => Creating(r)'
  BY <1>1, <1>2, <1>3 DEF Creating, Untouched
<1>5. Rests(r) => Rests(r)'
  BY <1>2, <1>3 DEF Rests
<1>6. ASSUME NEW x \in Workers, work'[x] = work[x], Worked(x, r)
      PROVE  Worked(x, r)'
  BY <1>2, <1>3, <1>6 DEF Worked
<1>7. Held(r) => Held(r)'
  BY <1>1, <1>5, <1>6 DEF Held
<1> QED
  BY <1>4, <1>7 DEF Account

\* A step of the one worker that has the hold, before the step or after it.
LEMMA AccountWorked ==
  ASSUME TypeOK, NEW r \in Reservations, Account(r), NEW x \in Workers,
         UNCHANGED <<client, create>>,
         past.troubled \subseteq past'.troubled,
         r \notin past'.troubled /\ client = "typed" /\ create[r].pc = "created" =>
           \A y \in Workers \ {x} : work'[y] = work[y] /\ ~ WithHold(y, r),
         r \notin past'.troubled /\ create[r].pc # "created" => Untouched(r)',
         r \notin past'.troubled /\ create[r].pc # "created" =>
           \A l \in Lines : net'[r][l] = net[r][l],
         r \notin past'.troubled /\ client = "typed" /\ create[r].pc = "created" =>
           /\ hold'[r] # "opaque"
           /\ WithHold(x, r)' => Worked(x, r)'
           /\ ~ WithHold(x, r)' => Rests(r)'
  PROVE  Account(r)'
<1> SUFFICES ASSUME r \notin past'.troubled
             PROVE  /\ Creating(r)'
                    /\ create[r].pc = "created" /\ client = "typed" => Held(r)'
  BY DEF Account
<1>1. Creating(r)
  BY DEF Account
<1>2. create[r].pc # "created" => \A S : Out(r, S)' <=> Out(r, S)
  BY DEF Out
<1>3. Creating(r)'
  BY <1>1, <1>2 DEF Creating, Starting, Taking
<1>4. create[r].pc = "created" /\ client = "typed" =>
        \A y \in Workers : WithHold(y, r)' => y = x
  BY DEF WithHold, HasHold
<1>5. create[r].pc = "created" /\ client = "typed" => Held(r)'
  BY <1>4 DEF Held
<1> QED
  BY <1>3, <1>5

\* Who has a hold has it alone.
LEMMA Alone ==
  ASSUME TypeOK, NEW r \in Reservations, Account(r), r \notin past.troubled,
         client = "typed", NEW x \in Workers, WithHold(x, r)
  PROVE  /\ create[r].pc = "created" /\ Worked(x, r) /\ hold[r] # "opaque"
         /\ \A y \in Workers \ {x} : ~ WithHold(y, r)
BY DEF Account, Creating, Untouched, Held

\* A step of the creation of r, as the other reservations see it and as r does.
LEMMA OthersCreate ==
  ASSUME TypeOK, NEW r \in Reservations, Create(r) \/ CrashCreate(r)
  PROVE  /\ past.troubled \subseteq past'.troubled
         /\ UNCHANGED <<client, work, orders, refunds, snapshot, paid>>
         /\ \A s \in Reservations \ {r} :
              /\ create'[s] = create[s] /\ hold'[s] = hold[s]
              /\ net'[s] = net[s]
<1> USE PastEffects, CreateEffects DEF keys, fixed, money
<1>1. CASE Acquire(r)
  BY <1>1 DEF Acquire
<1>2. CASE LookAtHolder(r)
  <2>1. past.troubled \subseteq past'.troubled
    <3>1. userHold[UserOf[r]] \in Reservations \cup {None}
      BY ReservationAssumption DEF TypeOK
    <3>2. NoFault \/ Fault(r)
          \/ (userHold[UserOf[r]] # None /\ Fault(userHold[UserOf[r]]))
      BY <1>2 DEF LookAtHolder
    <3> QED
      BY <3>1, <3>2
  <2>2. \A s \in Reservations \ {r} : create'[s] = create[s]
    BY <1>2 DEF LookAtHolder, TypeOK
  <2> QED
    BY <1>2, <2>1, <2>2 DEF LookAtHolder
<1>3. CASE Steal(r)
  BY <1>3 DEF Steal
<1>4. CASE Reacquire(r)
  BY <1>4 DEF Reacquire
<1>5. CASE ReserveLine(r)
  <2>1. \A s \in Reservations \ {r} : create'[s] = create[s] /\ net'[s] = net[s]
    BY <1>5 DEF ReserveLine, TypeOK, Take
  <2> QED
    BY <1>5, <2>1 DEF ReserveLine
<1>6. CASE Persist(r)
  <2>1. \A s \in Reservations \ {r} : hold'[s] = hold[s]
    BY <1>6 DEF Persist, StoreHold, TypeOK
  <2> QED
    BY <1>6, <2>1 DEF Persist
<1>7. CASE RollBackUserHold(r)
  BY <1>7 DEF RollBackUserHold, UnlockUser
<1>8. CASE RollBackLines(r)
  <2>1. PICK told \in SUBSET create[r].got : GiveBack(r, create[r].got, told)
    BY <1>8 DEF RollBackLines
  <2>2. \A s \in Reservations \ {r} : net'[s] = net[s]
    BY <2>1 DEF GiveBack, TypeOK
  <2>3. past.troubled \subseteq past'.troubled
    BY <2>1 DEF GiveBack
  <2> QED
    BY <1>8, <2>2, <2>3 DEF RollBackLines
<1>9. CASE CrashCreate(r)
  BY <1>9 DEF CrashCreate
<1> QED
  BY <1>1, <1>2, <1>3, <1>4, <1>5, <1>6, <1>7, <1>8, <1>9 DEF Create

LEMMA CreateAccounted ==
  ASSUME TypeOK, NEW r \in Reservations, Account(r), Create(r) \/ CrashCreate(r)
  PROVE  Account(r)'
<1> SUFFICES ASSUME r \notin past'.troubled
             PROVE  /\ Creating(r)'
                    /\ create'[r].pc = "created" /\ client' = "typed" => Held(r)'
  BY SMTT(60) DEF Account
<1> USE PastEffects, CreateEffects
      DEF keys, fixed, money, Starting, Taking, Creating, Out
<1>1. /\ r \notin past.troubled /\ Creating(r)
      /\ create[r].pc # "created" /\ Untouched(r)
  BY OthersCreate DEF Account, Create, Acquire, LookAtHolder, Steal, Reacquire,
     ReserveLine, Persist, RollBackUserHold, RollBackLines, CrashCreate
<1>2. hold' = hold => Untouched(r)'
  BY <1>1, OthersCreate DEF Untouched, Stored, WithHold, HasHold
<1>3. CASE Acquire(r)
  BY <1>1, <1>2, <1>3 DEF Acquire
<1>4. CASE LookAtHolder(r)
  <2>1. /\ create'[r].pc \in {"steal", "refused"} /\ create'[r].got = create[r].got
        /\ hold' = hold /\ net' = net
    BY <1>4 DEF LookAtHolder, TypeOK, Creations
  <2> QED
    BY <1>1, <1>2, <1>4, <2>1 DEF LookAtHolder
<1>5. CASE Steal(r)
  BY <1>1, <1>2, <1>5 DEF Steal
<1>6. CASE Reacquire(r)
  BY <1>1, <1>2, <1>6 DEF Reacquire
<1>7. CASE ReserveLine(r)
  <2>1. CASE GoCreate(r, "unlock") /\ UNCHANGED net
    BY <1>1, <1>2, <1>7, <2>1 DEF ReserveLine
  <2>2. CASE ~ (GoCreate(r, "unlock") /\ UNCHANGED net)
    <3>1. PICK l \in Lines \ create[r].got :
            /\ Take(r, l)
            /\ create' = [create EXCEPT
                 ![r].got = create[r].got \cup {l},
                 ![r].pc = IF create[r].got \cup {l} = Lines THEN "persist" ELSE "reserve"]
      BY <1>7, <2>2 DEF ReserveLine
    <3>2. /\ create'[r].got = create[r].got \cup {l}
          /\ create'[r].pc = IF create[r].got \cup {l} = Lines THEN "persist" ELSE "reserve"
      <4> DEFINE got == create[r].got \cup {l}
                 next == IF got = Lines THEN "persist" ELSE "reserve"
      <4>1. create \in [Reservations -> Creations] /\ create[r] \in Creations
        BY DEF TypeOK
      <4>2. create' = [create EXCEPT ![r] = [create[r] EXCEPT !.got = got, !.pc = next]]
        BY ZenonT(60), <3>1
      <4> HIDE DEF got, next
      <4>3. create'[r].got = got /\ create'[r].pc = next
        BY ONLY <4>1, <4>2, r \in Reservations DEF Creations
      <4> QED
        BY ONLY <4>3 DEF got, next
    <3>3. \A k \in Lines : net'[r][k] = IF k = l THEN net[r][k] + 1 ELSE net[r][k]
      <4>1. net \in [Reservations -> [Lines -> Int]]
        BY DEF TypeOK
      <4> QED
        BY ONLY <4>1, <3>1, r \in Reservations DEF Take
    <3>4. \A k \in Lines : net'[r][k] = IF k \in create'[r].got THEN 1 ELSE 0
      <4>1. \A k \in Lines : net[r][k] = IF k \in create[r].got THEN 1 ELSE 0
        BY ONLY <1>1, <1>7 DEF Creating, Taking, Out, ReserveLine
      <4>2. create'[r].got = create[r].got \cup {l} /\ l \in Lines \ create[r].got
        BY <3>2
      <4> QED
        BY ONLY <4>1, <4>2, <3>3
    <3>5. hold' = hold /\ create'[r].pc \in {"persist", "reserve"}
      BY <1>7, <3>2 DEF ReserveLine
    <3> QED
      BY <1>2, <3>2, <3>4, <3>5
  <2> QED
    BY <2>1, <2>2
<1>8. CASE Persist(r)
  <2>1. /\ hold'[r] = StoredHold /\ create'[r].pc = "created"
        /\ UNCHANGED <<work, net, orders, refunds, snapshot, paid, client>>
    BY <1>8 DEF Persist, StoreHold, TypeOK
  <2>2. Creating(r)'
    BY <2>1
  <2>3. client' = "typed" => Held(r)'
    <3>1. \A x \in Workers : ~ WithHold(x, r)'
      BY <1>1, <2>1 DEF Untouched, WithHold, HasHold
    <3>2. client = "typed" => hold'[r] = "readable" /\ Stored(r)'
      BY <2>1 DEF StoredHold, Stored
    <3>3. client = "typed" => Rests(r)'
      BY <1>1, <1>8, <2>1, <3>2 DEF Rests, Untouched, Persist
    <3> QED
      BY <2>1, <3>1, <3>2, <3>3 DEF Held
  <2> QED
    BY <2>2, <2>3
<1>9. CASE RollBackUserHold(r)
  BY <1>1, <1>2, <1>9 DEF RollBackUserHold, UnlockUser
<1>10. CASE RollBackLines(r)
  <2>1. PICK told \in SUBSET create[r].got : GiveBack(r, create[r].got, told)
    BY <1>10 DEF RollBackLines
  <2>2. PICK done \in SUBSET create[r].got :
          /\ told \subseteq done
          /\ IF told = create[r].got THEN NoFault ELSE Fault(r)
          /\ net' = [net EXCEPT ![r] = [l \in Lines |-> IF l \in done THEN @[l] - 1
                                                                     ELSE @[l]]]
    BY <2>1 DEF GiveBack
  <2>3. done = create[r].got
    BY ZenonT(60), <2>2
  <2>4. \A l \in Lines :
          net'[r][l] = IF l \in create[r].got THEN net[r][l] - 1 ELSE net[r][l]
    BY <2>2, <2>3 DEF TypeOK
  <2>5. Out(r, {})'
    BY <1>1, <1>10, <2>4 DEF RollBackLines
  <2> QED
    BY <1>1, <1>2, <1>10, <2>5 DEF RollBackLines
<1>11. CASE CrashCreate(r)
  BY <1>11 DEF CrashCreate
<1> QED
  BY <1>3, <1>4, <1>5, <1>6, <1>7, <1>8, <1>9, <1>10, <1>11 DEF Create

\* A step of worker x that is about reservation r.
About(x, r) ==
  /\ UNCHANGED <<client, create, paid>>
  /\ past.troubled \subseteq past'.troubled
  /\ \A y \in Workers \ {x} : work'[y] = work[y]
  /\ \/ work'[x] = work[x]
     \/ work[x].r \in {r, None} /\ work'[x].r \in {r, None}
  /\ \A s \in Reservations \ {r} :
       /\ hold'[s] = hold[s] /\ net'[s] = net[s]
       /\ s \in orders' <=> s \in orders
       /\ s \in refunds' <=> s \in refunds
       /\ s \in snapshot' <=> s \in snapshot

LEMMA AboutOthers ==
  ASSUME TypeOK, NEW x \in Workers, NEW r \in Reservations, About(x, r),
         NEW s \in Reservations \ {r}, Account(s)
  PROVE  Account(s)'
<1>1. \A y \in Workers : \/ work'[y] = work[y]
                         \/ ~ WithHold(y, s) /\ ~ WithHold(y, s)'
  BY ReservationAssumption DEF About, WithHold
<1> QED
  BY <1>1, AccountKept DEF About

\* A step of a worker that has no hold, before the step and after it.
LEMMA AboutNoHold ==
  ASSUME TypeOK, NEW x \in Workers, NEW r \in Reservations, About(x, r), Account(r),
         work'[x] = work[x] \/ (~ WithHold(x, r) /\ ~ WithHold(x, r)'),
         hold'[r] = hold[r], net'[r] = net[r],
         r \in orders' <=> r \in orders, r \in refunds' <=> r \in refunds,
         r \in snapshot' <=> r \in snapshot
  PROVE  Account(r)'
BY AccountKept DEF About

\* A step of a worker that has the hold.
LEMMA AboutHolder ==
  ASSUME TypeOK, NEW x \in Workers, NEW r \in Reservations, About(x, r), Account(r),
         WithHold(x, r),
         r \notin past'.troubled /\ Worked(x, r) /\ hold[r] # "opaque" /\ client = "typed" =>
           /\ hold'[r] # "opaque"
           /\ WithHold(x, r)' => Worked(x, r)'
           /\ ~ WithHold(x, r)' => Rests(r)'
  PROVE  Account(r)'
<1>1. r \notin past'.troubled => r \notin past.troubled /\ create[r].pc = "created"
  BY DEF About, Account, Creating, Untouched
<1> QED
  BY <1>1, Alone, AccountWorked DEF About

\* A worker goes on with a hold that it has found, alone or not.
LEMMA AboutProceed ==
  ASSUME TypeOK, NEW x \in Workers, NEW r \in Reservations, About(x, r), Account(r),
         ~ WithHold(x, r), WithHold(x, r)',
         r \notin past'.troubled => \A y \in Workers \ {x} : ~ WithHold(y, r),
         Stored(r) \/ r \in snapshot,
         UNCHANGED <<hold, net, orders, refunds, snapshot>>,
         Rests(r) /\ hold[r] # "opaque" => Worked(x, r)'
  PROVE  Account(r)'
<1>1. r \notin past'.troubled => r \notin past.troubled /\ create[r].pc = "created"
  BY DEF About, Account, Creating, Untouched
<1>2. r \notin past'.troubled /\ client = "typed" => Rests(r) /\ hold[r] # "opaque"
  BY <1>1 DEF About, Account, Held
<1> QED
  BY <1>1, <1>2, AccountWorked DEF About

LEMMA IdleWorker ==
  ASSUME TypeOK, NEW x \in Workers, NEW r \in Reservations, AtWork(x, "idle")
  PROVE  work[x] = NoWork /\ work[x].r = None /\ ~ WithHold(x, r)
<1>1. work[x] \in {NoWork} \cup Works
  BY DEF TypeOK
<1>2. \A w \in Works : w.pc # "idle"
  BY DEF Works, WorkSteps
<1>3. work[x] = NoWork
  BY <1>1, <1>2 DEF AtWork
<1> QED
  BY <1>3, ReservationAssumption DEF NoWork, WithHold

LEMMA RequestAccounted ==
  ASSUME TypeOK, NEW x \in Workers, NEW r \in Reservations,
         Request(x, r) \/ Tick(x, r), Account(r)
  PROVE  About(x, r) /\ Account(r)'
<1> USE PastEffects, WorkEffects DEF keys, fixed, money, AtWork
<1>1. AtWork(x, "idle") => work[x] = NoWork /\ work[x].r = None
  BY ONLY TypeOK, x \in Workers, r \in Reservations, IdleWorker
<1>2. AtWork(x, "idle") => ~ WithHold(x, r)
  BY ONLY TypeOK, x \in Workers, r \in Reservations, IdleWorker
<1>3. CASE CancelLoad(x, r)
  <2>1. About(x, r)
    BY <1>1, <1>3 DEF CancelLoad, About
  <2>2. CASE Stored(r) /\ Proceed(x, r, "refund")
    <3>1. UNCHANGED <<hold, net, orders, refunds, snapshot>>
      BY <1>3 DEF CancelLoad
    <3>2. /\ work'[x].pc = "refund"
          /\ hold[r] # "opaque" => work'[x].lines = Lines
      BY <2>2 DEF LinesRead, Stored, TypeOK
    <3>3. Rests(r) => r \notin orders \cup refunds \cup snapshot /\ Out(r, Lines)
      BY <2>2 DEF Rests
    <3>4. Out(r, Lines) => Out(r, Lines)'
      BY <3>1 DEF Out
    <3>5. Rests(r) /\ hold[r] # "opaque" => Worked(x, r)'
      BY <2>2, <3>1, <3>2, <3>3, <3>4
         DEF Worked, Stored, Before, Sold, Given, Settling
    <3>6. WithHold(x, r)' /\ ~ WithHold(x, r)
      BY <1>2, <1>3, <2>2 DEF WithHold, HasHold, CancelLoad
    <3>7. r \notin past'.troubled => \A y \in Workers \ {x} : ~ WithHold(y, r)
      BY <2>2
    <3> QED
      BY <2>1, <2>2, <3>1, <3>5, <3>6, <3>7, AboutProceed
  <2>3. CASE FindNothing(r) /\ Begin(x, r, "zrem")
    <3>1. ~ WithHold(x, r)'
      BY <2>3 DEF WithHold, HasHold
    <3> QED
      BY <1>2, <1>3, <2>1, <3>1, AboutNoHold DEF CancelLoad
  <2> QED
    BY <1>3, <2>1, <2>2, <2>3 DEF CancelLoad
<1>4. CASE ConfirmLock(x, r)
  <2>1. About(x, r)
    BY <1>1, <1>4 DEF ConfirmLock, About
  <2>2. work' = work \/ ~ WithHold(x, r)'
    BY <1>4 DEF ConfirmLock, WithHold, HasHold
  <2> QED
    BY <1>2, <1>4, <2>1, <2>2, AboutNoHold DEF ConfirmLock
<1>5. CASE ReapLock(x, r)
  <2>1. About(x, r)
    BY <1>1, <1>5 DEF ReapLock, About
  <2>2. work' = work \/ ~ WithHold(x, r)'
    BY <1>5 DEF ReapLock, WithHold, HasHold
  <2> QED
    BY <1>2, <1>5, <2>1, <2>2, AboutNoHold DEF ReapLock
<1>6. CASE AutoMissing(x, r)
  <2>1. About(x, r)
    BY <1>1, <1>6 DEF AutoMissing, About
  <2> QED
    BY <1>6, <2>1, AboutNoHold DEF AutoMissing
<1>7. CASE AutoLock(x, r)
  <2>1. About(x, r)
    BY <1>1, <1>7 DEF AutoLock, About
  <2>2. CASE Proceed(x, r, "settle")
    <3>1. Rests(r) => Worked(x, r)'
      BY <1>7, <2>2 DEF AutoLock, Rests, Worked, Out, Stored, Before, Sold, Given, Settling
    <3>2. WithHold(x, r)'
      BY <2>2 DEF WithHold, HasHold
    <3> QED
      BY <1>2, <1>7, <2>1, <2>2, <3>1, <3>2, AboutProceed DEF AutoLock
  <2>3. CASE UNCHANGED work
    BY <1>7, <2>1, <2>3, AboutNoHold DEF AutoLock
  <2> QED
    BY <1>7, <2>2, <2>3 DEF AutoLock
<1> QED
  BY <1>3, <1>4, <1>5, <1>6, <1>7 DEF Request, Tick

\* Units are given back for one reservation alone.
LEMMA GiveBackEffects ==
  ASSUME TypeOK, NEW r \in Reservations, NEW lines \in SUBSET Lines,
         NEW told \in SUBSET lines, GiveBack(r, lines, told)
  PROVE  /\ \A s \in Reservations \ {r} : net'[s] = net[s]
         /\ past.troubled \subseteq past'.troubled
         /\ told = lines \/ r \in past'.troubled
         /\ told = lines =>
              \A l \in Lines : net'[r][l] = IF l \in lines THEN net[r][l] - 1 ELSE net[r][l]
<1>1. PICK done \in SUBSET lines :
        /\ told \subseteq done
        /\ IF told = lines THEN NoFault ELSE Fault(r)
        /\ net' = [net EXCEPT ![r] = [l \in Lines |-> IF l \in done THEN @[l] - 1
                                                                   ELSE @[l]]]
  BY DEF GiveBack
<1>2. net \in [Reservations -> [Lines -> Int]]
  BY DEF TypeOK
<1>3. \A s \in Reservations \ {r} : net'[s] = net[s]
  BY <1>1, <1>2
<1>4. \A l \in Lines : net'[r][l] = IF l \in done THEN net[r][l] - 1 ELSE net[r][l]
  BY <1>1, <1>2
<1> QED
  BY <1>1, <1>3, <1>4, PastEffects

LEMMA GivenBack ==
  ASSUME TypeOK, NEW r \in Reservations, NEW x \in Workers,
         work[x].lines \in SUBSET Lines, NEW told, told \in SUBSET work[x].lines,
         GiveBack(r, work[x].lines, told)
  PROVE  /\ \A s \in Reservations \ {r} : net'[s] = net[s]
         /\ past.troubled \subseteq past'.troubled
         /\ told = work[x].lines \/ r \in past'.troubled
         /\ told = work[x].lines => \A l \in Lines :
              net'[r][l] = IF l \in work[x].lines THEN net[r][l] - 1 ELSE net[r][l]
<1> DEFINE lines == work[x].lines
<1>1. lines \in SUBSET Lines /\ told \in SUBSET lines /\ GiveBack(r, lines, told)
  OBVIOUS
<1> HIDE DEF lines
<1>2. /\ \A s \in Reservations \ {r} : net'[s] = net[s]
      /\ past.troubled \subseteq past'.troubled
      /\ told = lines \/ r \in past'.troubled
      /\ told = lines =>
           \A l \in Lines : net'[r][l] = IF l \in lines THEN net[r][l] - 1 ELSE net[r][l]
  BY ZenonT(60), <1>1, GiveBackEffects
<1> QED
  BY <1>2 DEF lines

LEMMA CancelAccounted ==
  ASSUME TypeOK, NEW x \in Workers, NEW r \in Reservations, work[x].r = r, Account(r),
         \/ CancelMissing(x) \/ CancelRefund(x) \/ CancelRelease(x)
         \/ CancelUnlock(x) \/ CancelClean(x)
  PROVE  About(x, r) /\ Account(r)'
<1>0. work[x].lines \in SUBSET Lines
  BY BusyWorks DEF CancelMissing, CancelRefund, CancelRelease, CancelUnlock,
     CancelClean, AtWork
<1>e. /\ \A pc : Go(x, pc) => /\ \A y \in Workers \ {x} : work'[y] = work[y]
                              /\ work'[x].pc = pc
                              /\ work'[x].r = r /\ work'[x].lines = work[x].lines
      /\ Finish(x) => /\ \A y \in Workers \ {x} : work'[y] = work[y]
                      /\ work'[x].pc = "idle" /\ work'[x].r = None
  BY WorkEffects
<1>1. CASE CancelMissing(x)
  <2>1. About(x, r)
    BY <1>0, <1>e, <1>1, PastEffects
       DEF CancelMissing, About, Unindex, fixed, money
  <2>2. ~ WithHold(x, r) /\ ~ WithHold(x, r)'
    BY <1>e, <1>1 DEF CancelMissing, AtWork, WithHold, HasHold
  <2> QED
    BY <1>0, <1>1, <2>1, <2>2, AboutNoHold DEF CancelMissing, money

<1>2. CASE CancelRefund(x)
  <2>1. About(x, r)
    BY <1>0, <1>e, <1>2, PastEffects DEF CancelRefund, About, keys, fixed
  <2>2. /\ work[x].pc = "refund" /\ work'[x].pc = "cancelRelease"
        /\ work'[x].lines = work[x].lines
        /\ WithHold(x, r) /\ WithHold(x, r)'
    BY <1>e, <1>2 DEF CancelRefund, AtWork, WithHold, HasHold
  <2>3. hold' = hold /\ net' = net /\ orders' = orders /\ paid' = paid
        /\ snapshot' = snapshot
    BY <1>2 DEF CancelRefund, keys
  <2>4. Worked(x, r) => Worked(x, r)'
    BY <2>2, <2>3
       DEF Worked, Out, Stored, Before, Sold, Given, Settling
  <2> QED
    BY <1>0, <2>1, <2>2, <2>3, <2>4, AboutHolder
<1>3. CASE CancelRelease(x)
  <2>1. PICK told \in SUBSET work[x].lines : GiveBack(r, work[x].lines, told)
    BY <1>3 DEF CancelRelease
  <2>2. /\ \A s \in Reservations \ {r} : net'[s] = net[s]
        /\ past.troubled \subseteq past'.troubled
        /\ r \notin past'.troubled => \A l \in Lines :
             net'[r][l] = IF l \in work[x].lines THEN net[r][l] - 1 ELSE net[r][l]
    BY <1>0, <2>1, GivenBack
  <2>3. /\ work[x].pc = "cancelRelease" /\ work'[x].pc = "cancelUnlock"
        /\ UNCHANGED <<client, create, hold, orders, refunds, paid, snapshot>>
    BY <1>e, <1>3 DEF CancelRelease, AtWork, fixed, keys, money
  <2>4. About(x, r)
    BY <1>e, <1>3, <2>2, <2>3 DEF CancelRelease, About
  <2>5. WithHold(x, r) /\ WithHold(x, r)'
    BY <1>e, <1>3, <2>3 DEF CancelRelease, WithHold, HasHold
  <2>6. r \notin past'.troubled /\ Worked(x, r) => Worked(x, r)'
    BY <2>2, <2>3 DEF Worked, Out, Stored, Before, Sold, Given, Settling
  <2> QED
    BY <1>0, <2>3, <2>4, <2>5, <2>6, AboutHolder
<1>4. CASE CancelUnlock(x)
  <2>1. About(x, r)
    BY <1>0, <1>e, <1>4, PastEffects
       DEF CancelUnlock, About, UnlockUser, fixed, money
  <2>2. /\ work[x].pc = "cancelUnlock" /\ work'[x].pc = "cancelClean"
        /\ WithHold(x, r) /\ WithHold(x, r)'
    BY <1>e, <1>4 DEF CancelUnlock, AtWork, WithHold, HasHold
  <2>3. UNCHANGED <<hold, net, orders, paid, refunds, snapshot>>
    BY <1>4 DEF CancelUnlock, money
  <2>4. Worked(x, r) => Worked(x, r)'
    BY <2>2, <2>3
       DEF Worked, Out, Stored, Before, Sold, Given, Settling
  <2> QED
    BY <1>0, <2>1, <2>2, <2>3, <2>4, AboutHolder
<1>5. CASE CancelClean(x)
  <2>1. /\ work[x].pc = "cancelClean" /\ WithHold(x, r) /\ ~ WithHold(x, r)'
        /\ UNCHANGED <<client, create, net, orders, refunds, paid, snapshot>>
    BY <1>0, <1>e, <1>5, ReservationAssumption
       DEF CancelClean, AtWork, fixed, money, WithHold, HasHold
  <2>2. CleanUp(r)
    BY <1>5 DEF CancelClean
  <2>3. About(x, r)
    BY <1>0, <1>e, <1>5, <2>1, <2>2, HoldEffects DEF CancelClean, About
  <2>4. r \notin past'.troubled /\ Worked(x, r) => Rests(r)' /\ hold'[r] = "none"
    BY <1>0, <2>1, <2>2, HoldEffects
       DEF Worked, Rests, Out, Stored, Before, Sold, Given, Settling
  <2> QED
    BY <1>0, <2>1, <2>3, <2>4, AboutHolder
<1> QED
  BY <1>1, <1>2, <1>3, <1>4, <1>5

LEMMA ConfirmAccounted ==
  ASSUME TypeOK, NEW x \in Workers, NEW r \in Reservations, work[x].r = r, Account(r),
         \/ ConfirmMissing(x) \/ ConfirmExpired(x) \/ ConfirmLive(x)
         \/ ConfirmPay(x) \/ ConfirmOrder(x) \/ ConfirmUnlock(x)
         \/ ConfirmClean(x) \/ ConfirmEnd(x)
  PROVE  About(x, r) /\ Account(r)'
<1>e. /\ \A pc : Go(x, pc) => /\ \A y \in Workers \ {x} : work'[y] = work[y]
                              /\ work'[x].pc = pc
                              /\ work'[x].r = r /\ work'[x].lines = work[x].lines
      /\ Finish(x) => /\ \A y \in Workers \ {x} : work'[y] = work[y]
                      /\ work'[x].pc = "idle" /\ work'[x].r = None
  BY WorkEffects
<1>1. CASE ConfirmMissing(x) \/ ConfirmExpired(x)
  <2>1. About(x, r)
    BY <1>e, <1>1, PastEffects
       DEF ConfirmMissing, ConfirmExpired, About, fixed, keys, money
  <2>2. ~ WithHold(x, r) /\ ~ WithHold(x, r)'
    BY <1>e, <1>1 DEF ConfirmMissing, ConfirmExpired, AtWork, WithHold, HasHold
  <2>3. UNCHANGED <<hold, net, orders, refunds, snapshot>>
    BY <1>1 DEF ConfirmMissing, ConfirmExpired, keys, money
  <2> QED
    BY <2>1, <2>2, <2>3, AboutNoHold
<1>2. CASE ConfirmLive(x)
  <2>1. UNCHANGED <<client, create, hold, net, orders, refunds, paid, snapshot>>
    BY <1>2 DEF ConfirmLive, fixed, keys, money
  <2>2. Proceed(x, r, "pay") /\ hold[r] = "readable"
    BY <1>2 DEF ConfirmLive
  <2>3. /\ \A y \in Workers \ {x} : work'[y] = work[y]
        /\ work'[x].pc = "pay" /\ work'[x].r = r /\ work'[x].lines = Lines
    BY <2>2, WorkEffects DEF LinesRead
  <2>4. /\ past.troubled \subseteq past'.troubled
        /\ r \notin past'.troubled => \A y \in Workers \ {x} : ~ WithHold(y, r)
    BY <2>2, PastEffects
  <2>5. About(x, r)
    BY <2>1, <2>3, <2>4 DEF About
  <2>6. Rests(r) => Worked(x, r)'
    BY <2>1, <2>2, <2>3
       DEF Rests, Worked, Out, Stored, Before, Sold, Given, Settling
  <2>7. ~ WithHold(x, r) /\ WithHold(x, r)'
    BY <1>2, <2>3 DEF ConfirmLive, AtWork, WithHold, HasHold
  <2> QED
    BY <2>1, <2>2, <2>4, <2>5, <2>6, <2>7, AboutProceed DEF Stored
<1>3. CASE ConfirmPay(x)
  <2>1. UNCHANGED <<client, create, hold, net, orders, refunds, paid, snapshot>>
    BY <1>3 DEF ConfirmPay, fixed, keys, money
  <2>2. About(x, r)
    BY <1>e, <1>3, <2>1, PastEffects DEF ConfirmPay, About
  <2>3. work[x].pc = "pay" /\ WithHold(x, r)
    BY <1>3 DEF ConfirmPay, AtWork, WithHold, HasHold
  <2>4. CASE work'[x].pc = "order"
    <3>1. WithHold(x, r)' /\ work'[x].lines = work[x].lines /\ r \in paid
      BY <1>e, <1>3, <2>4 DEF ConfirmPay, WithHold, HasHold
    <3>2. Worked(x, r) => Worked(x, r)'
      BY <2>1, <2>3, <2>4, <3>1 DEF Worked, Out, Stored, Before, Sold, Given, Settling
    <3> QED
      BY <2>1, <2>2, <2>3, <3>1, <3>2, AboutHolder
  <2>5. CASE work'[x].pc = "confirmEnd"
    <3>1. ~ WithHold(x, r)'
      BY <2>5 DEF WithHold, HasHold
    <3>2. Worked(x, r) => Rests(r)'
      BY <2>1, <2>3 DEF Worked, Rests, Out, Stored, Before, Sold, Given, Settling
    <3> QED
      BY <2>1, <2>2, <2>3, <3>1, <3>2, AboutHolder
  <2> QED
    BY <1>e, <1>3, <2>2, <2>4, <2>5 DEF ConfirmPay
<1>4. CASE ConfirmOrder(x)
  <2>1. /\ UNCHANGED <<client, create, hold, net, refunds, paid, snapshot>>
        /\ orders' \in {orders, orders \cup {r}}
    BY <1>4 DEF ConfirmOrder, fixed, keys, money
  <2>2. About(x, r)
    BY <1>e, <1>4, <2>1, PastEffects DEF ConfirmOrder, About
  <2>3. work[x].pc = "order" /\ WithHold(x, r)
    BY <1>4 DEF ConfirmOrder, AtWork, WithHold, HasHold
  <2>4. r \notin past'.troubled =>
          /\ r \in orders' /\ work'[x].pc = "confirmUnlock" /\ WithHold(x, r)'
    BY <1>e, <1>4, PastEffects DEF ConfirmOrder, WithHold, HasHold
  <2>5. r \notin past'.troubled /\ Worked(x, r) => Worked(x, r)'
    BY <2>1, <2>3, <2>4 DEF Worked, Out, Stored, Before, Sold, Given, Settling
  <2> QED
    BY <2>1, <2>2, <2>3, <2>4, <2>5, AboutHolder
<1>5. CASE ConfirmUnlock(x)
  <2>1. UNCHANGED <<client, create, hold, net, orders, refunds, paid, snapshot>>
    BY <1>5 DEF ConfirmUnlock, fixed, money
  <2>2. About(x, r)
    BY <1>e, <1>5, <2>1, PastEffects DEF ConfirmUnlock, UnlockUser, About
  <2>3. /\ work[x].pc = "confirmUnlock" /\ work'[x].pc = "confirmClean"
        /\ WithHold(x, r) /\ WithHold(x, r)'
    BY <1>e, <1>5 DEF ConfirmUnlock, AtWork, WithHold, HasHold
  <2>4. Worked(x, r) => Worked(x, r)'
    BY <2>1, <2>3 DEF Worked, Out, Stored, Before, Sold, Given, Settling
  <2> QED
    BY <2>1, <2>2, <2>3, <2>4, AboutHolder
<1>6. CASE ConfirmClean(x)
  <2>1. UNCHANGED <<client, create, net, orders, refunds, paid, snapshot>>
    BY <1>6 DEF ConfirmClean, fixed, money
  <2>2. DropHold(r) \/ (UNCHANGED hold /\ Fault(r))
    BY <1>6 DEF ConfirmClean
  <2>3. About(x, r)
    BY <1>e, <1>6, <2>1, HoldEffects, PastEffects DEF ConfirmClean, About
  <2>4. work[x].pc = "confirmClean" /\ WithHold(x, r) /\ ~ WithHold(x, r)'
    BY <1>e, <1>6 DEF ConfirmClean, AtWork, WithHold, HasHold
  <2>5. r \notin past'.troubled => ~ Stored(r)'
    BY <2>2, HoldEffects, PastEffects
  <2>6. r \notin past'.troubled /\ Worked(x, r) => Rests(r)'
    BY <2>1, <2>4, <2>5 DEF Worked, Rests, Out, Stored, Before, Sold, Given, Settling
  <2> QED
    BY <2>1, <2>3, <2>4, <2>5, <2>6, AboutHolder DEF Stored
<1>7. CASE ConfirmEnd(x)
  <2>1. UNCHANGED <<client, create, hold, net, orders, refunds, paid, snapshot>>
    BY <1>7 DEF ConfirmEnd, fixed, money
  <2>2. About(x, r)
    BY <1>e, <1>7, <2>1, PastEffects DEF ConfirmEnd, About
  <2>3. ~ WithHold(x, r) /\ ~ WithHold(x, r)'
    BY <1>e, <1>7 DEF ConfirmEnd, WithHold, HasHold
  <2> QED
    BY <2>1, <2>2, <2>3, AboutNoHold
<1> QED
  BY <1>1, <1>2, <1>3, <1>4, <1>5, <1>6, <1>7

LEMMA ReapAccounted ==
  ASSUME TypeOK, NEW x \in Workers, NEW r \in Reservations, work[x].r = r, Account(r),
         \/ ReapLoad(x) \/ ReapMissing(x) \/ ReapRelease(x) \/ ReapUnlock(x)
         \/ ReapSnapshot(x) \/ ReapClean(x)
  PROVE  About(x, r) /\ Account(r)'
<1>e. /\ \A pc : Go(x, pc) => /\ \A y \in Workers \ {x} : work'[y] = work[y]
                              /\ work'[x].pc = pc
                              /\ work'[x].r = r /\ work'[x].lines = work[x].lines
      /\ Finish(x) => /\ \A y \in Workers \ {x} : work'[y] = work[y]
                      /\ work'[x].pc = "idle" /\ work'[x].r = None
  BY WorkEffects
<1>1. CASE ReapLoad(x)
  <2>1. /\ UNCHANGED <<client, create, hold, net, orders, refunds, paid, snapshot>>
        /\ work[x].pc = "reapLoad" /\ ~ WithHold(x, r)
    BY <1>1 DEF ReapLoad, AtWork, WithHold, HasHold, fixed, money
  <2>2. CASE hold[r] = "readable" /\ Proceed(x, r, "reapRelease")
    <3>1. /\ \A y \in Workers \ {x} : work'[y] = work[y]
          /\ work'[x].pc = "reapRelease" /\ work'[x].r = r /\ work'[x].lines = Lines
      BY <2>2, WorkEffects DEF LinesRead
    <3>2. /\ past.troubled \subseteq past'.troubled
          /\ r \notin past'.troubled => \A y \in Workers \ {x} : ~ WithHold(y, r)
      BY <2>2, PastEffects
    <3>3. About(x, r)
      BY <2>1, <3>1, <3>2 DEF About
    <3>4. Rests(r) => Worked(x, r)'
      BY <2>1, <2>2, <3>1
         DEF Rests, Worked, Out, Stored, Before, Sold, Given, Settling
    <3>5. WithHold(x, r)'
      BY <3>1 DEF WithHold, HasHold
    <3> QED
      BY <2>1, <2>2, <3>2, <3>3, <3>4, <3>5, AboutProceed DEF Stored
  <2>3. CASE ~ (hold[r] = "readable" /\ Proceed(x, r, "reapRelease"))
    <3>1. Go(x, "reapMissing") \/ Finish(x)
      BY <1>1, <2>3 DEF ReapLoad
    <3>2. past.troubled \subseteq past'.troubled
      BY <1>1, <2>3, PastEffects DEF ReapLoad
    <3>3. About(x, r) /\ ~ WithHold(x, r)'
      BY <1>e, <2>1, <3>1, <3>2 DEF About, WithHold, HasHold
    <3> QED
      BY <2>1, <3>3, AboutNoHold
  <2> QED
    BY <2>2, <2>3
<1>2. CASE ReapMissing(x)
  <2>1. UNCHANGED <<client, create, hold, net, orders, refunds, paid, snapshot>>
    BY <1>2 DEF ReapMissing, fixed, money
  <2>2. About(x, r)
    BY <1>e, <1>2, <2>1, PastEffects DEF ReapMissing, Unindex, About
  <2>3. ~ WithHold(x, r) /\ ~ WithHold(x, r)'
    BY <1>e, <1>2 DEF ReapMissing, AtWork, WithHold, HasHold
  <2> QED
    BY <2>1, <2>2, <2>3, AboutNoHold
<1>3. CASE ReapRelease(x)
  <2>1. work[x].pc = "reapRelease" /\ work[x].lines \in SUBSET Lines
    BY <1>3, BusyWorks DEF ReapRelease, AtWork
  <2>2. PICK told \in SUBSET work[x].lines :
          /\ GiveBack(r, work[x].lines, told)
          /\ IF told = work[x].lines THEN Go(x, "reapUnlock") ELSE Finish(x)
    BY <1>3 DEF ReapRelease
  <2>3. /\ \A s \in Reservations \ {r} : net'[s] = net[s]
        /\ past.troubled \subseteq past'.troubled
        /\ told = work[x].lines \/ r \in past'.troubled
        /\ r \notin past'.troubled => \A l \in Lines :
             net'[r][l] = IF l \in work[x].lines THEN net[r][l] - 1 ELSE net[r][l]
    BY <2>1, <2>2, GivenBack
  <2>4. UNCHANGED <<client, create, hold, orders, refunds, paid, snapshot>>
    BY <1>3 DEF ReapRelease, fixed, money
  <2>5. About(x, r)
    BY <1>e, <2>2, <2>3, <2>4 DEF About
  <2>6. /\ WithHold(x, r)
        /\ r \notin past'.troubled => work'[x].pc = "reapUnlock" /\ WithHold(x, r)'
    BY <1>e, <2>1, <2>2, <2>3 DEF WithHold, HasHold
  <2>7. r \notin past'.troubled /\ Worked(x, r) => Worked(x, r)'
    BY <2>1, <2>3, <2>4, <2>6 DEF Worked, Out, Stored, Before, Sold, Given, Settling
  <2> QED
    BY <2>4, <2>5, <2>6, <2>7, AboutHolder
<1>4. CASE ReapUnlock(x)
  <2>1. UNCHANGED <<client, create, hold, net, orders, refunds, paid, snapshot>>
    BY <1>4 DEF ReapUnlock, fixed, money
  <2>2. About(x, r)
    BY <1>e, <1>4, <2>1, PastEffects DEF ReapUnlock, About
  <2>3. /\ work[x].pc = "reapUnlock" /\ WithHold(x, r)
        /\ r \notin past'.troubled => work'[x].pc = "reapSnapshot" /\ WithHold(x, r)'
    BY <1>e, <1>4, PastEffects DEF ReapUnlock, AtWork, WithHold, HasHold
  <2>4. r \notin past'.troubled /\ Worked(x, r) => Worked(x, r)'
    BY <2>1, <2>3 DEF Worked, Out, Stored, Before, Sold, Given, Settling
  <2> QED
    BY <2>1, <2>2, <2>3, <2>4, AboutHolder
<1>5. CASE ReapSnapshot(x)
  <2>1. /\ UNCHANGED <<client, create, hold, net, orders, refunds, paid>>
        /\ snapshot' \in {snapshot, snapshot \cup {r}}
    BY <1>5 DEF ReapSnapshot, fixed, money
  <2>2. About(x, r)
    BY <1>e, <1>5, <2>1, PastEffects DEF ReapSnapshot, About
  <2>3. /\ work[x].pc = "reapSnapshot" /\ work'[x].pc = "reapClean"
        /\ WithHold(x, r) /\ WithHold(x, r)'
    BY <1>e, <1>5 DEF ReapSnapshot, AtWork, WithHold, HasHold
  <2>4. Worked(x, r) => Worked(x, r)'
    BY <2>1, <2>3 DEF Worked, Out, Stored, Before, Sold, Given, Settling
  <2> QED
    BY <2>1, <2>2, <2>3, <2>4, AboutHolder
<1>6. CASE ReapClean(x)
  <2>1. UNCHANGED <<client, create, net, orders, refunds, paid, snapshot>>
    BY <1>6 DEF ReapClean, fixed, money
  <2>2. CleanUp(r)
    BY <1>6 DEF ReapClean
  <2>3. About(x, r)
    BY <1>e, <1>6, <2>1, <2>2, HoldEffects DEF ReapClean, About
  <2>4. work[x].pc = "reapClean" /\ WithHold(x, r) /\ ~ WithHold(x, r)'
    BY <1>e, <1>6, ReservationAssumption DEF ReapClean, AtWork, WithHold, HasHold
  <2>5. r \notin past'.troubled => ~ Stored(r)'
    BY <2>2, HoldEffects
  <2>6. r \notin past'.troubled /\ Worked(x, r) => Rests(r)'
    BY <2>1, <2>4, <2>5 DEF Worked, Rests, Out, Stored, Before, Sold, Given, Settling
  <2> QED
    BY <2>1, <2>3, <2>4, <2>5, <2>6, AboutHolder DEF Stored
<1> QED
  BY <1>1, <1>2, <1>3, <1>4, <1>5, <1>6

LEMMA AutoAccounted ==
  ASSUME TypeOK, NEW x \in Workers, NEW r \in Reservations, work[x].r = r, Account(r),
         AutoSettle(x) \/ AutoClean(x) \/ CrashWork(x)
  PROVE  About(x, r) /\ Account(r)'
<1>e. /\ \A pc : Go(x, pc) => /\ \A y \in Workers \ {x} : work'[y] = work[y]
                              /\ work'[x].pc = pc
                              /\ work'[x].r = r /\ work'[x].lines = work[x].lines
      /\ Finish(x) => /\ \A y \in Workers \ {x} : work'[y] = work[y]
                      /\ work'[x].pc = "idle" /\ work'[x].r = None
  BY WorkEffects
<1>1. CASE AutoSettle(x)
  <2>1. /\ UNCHANGED <<client, create, hold, net, orders, paid, snapshot>>
        /\ refunds' \in {refunds, refunds \cup ({r} \cap paid \cap snapshot)}
    BY <1>1 DEF AutoSettle, fixed, keys
  <2>2. About(x, r)
    BY <1>e, <1>1, <2>1, PastEffects DEF AutoSettle, About
  <2>3. /\ work[x].pc = "settle" /\ work'[x].pc = "settleClean"
        /\ WithHold(x, r) /\ WithHold(x, r)'
    BY <1>e, <1>1 DEF AutoSettle, AtWork, WithHold, HasHold
  <2>4. Worked(x, r) => Worked(x, r)'
    BY <2>1, <2>3 DEF Worked, Out, Stored, Before, Sold, Given, Settling
  <2> QED
    BY <2>1, <2>2, <2>3, <2>4, AboutHolder
<1>2. CASE AutoClean(x)
  <2>1. /\ UNCHANGED <<client, create, hold, net, orders, refunds, paid>>
        /\ snapshot' \in {snapshot, snapshot \ {r}}
    BY <1>2 DEF AutoClean, fixed, money
  <2>2. About(x, r)
    BY <1>e, <1>2, <2>1, PastEffects DEF AutoClean, About
  <2>3. work[x].pc = "settleClean" /\ WithHold(x, r) /\ ~ WithHold(x, r)'
    BY <1>e, <1>2, ReservationAssumption DEF AutoClean, AtWork, WithHold, HasHold
  <2>4. Worked(x, r) => Rests(r)'
    BY <2>1, <2>3 DEF Worked, Rests, Out, Stored, Before, Sold, Given, Settling
  <2> QED
    BY <2>1, <2>2, <2>3, <2>4, AboutHolder
<1>3. CASE CrashWork(x)
  <2>1. UNCHANGED <<client, create, hold, net, orders, refunds, paid, snapshot>>
    BY <1>3 DEF CrashWork, fixed, keys, money
  <2>2. About(x, r) /\ r \in past'.troubled
    BY <1>e, <1>3, <2>1, PastEffects DEF CrashWork, About
  <2> QED
    BY <2>2 DEF Account
<1> QED
  BY <1>1, <1>2, <1>3

LEMMA TimeAccounted ==
  ASSUME TypeOK, NEW s \in Reservations, Account(s),
         \/ \E r \in Reservations : \/ Pay(r) \/ TimeUp(r)
                                    \/ HoldExpires(r) \/ SnapshotExpires(r)
         \/ \E u \in Users : UserHoldExpires(u)
         \/ \E k \in locks : LockExpires(k)
         \/ UNCHANGED vars
  PROVE  Account(s)'
<1>1. ASSUME NEW r \in Reservations,
             Pay(r) \/ TimeUp(r) \/ HoldExpires(r) \/ SnapshotExpires(r)
      PROVE  Account(s)'
  <2>1. CASE HoldExpires(r) /\ r = s
    BY <2>1 DEF HoldExpires, TypeOK, Pasts, Account
  <2>2. CASE HoldExpires(r) /\ r # s
    <3>1. past.troubled \subseteq past'.troubled /\ hold'[s] = hold[s]
      BY <2>2 DEF HoldExpires, TypeOK, Pasts
    <3> QED
      BY <2>2, <3>1, AccountKept DEF HoldExpires, fixed, money
  <2>3. CASE Pay(r) \/ TimeUp(r) \/ SnapshotExpires(r)
    BY <2>3, AccountKept DEF Pay, TimeUp, SnapshotExpires, fixed, keys, money
  <2> QED
    BY <1>1, <2>1, <2>2, <2>3
<1>2. ASSUME NEW u \in Users, UserHoldExpires(u)
      PROVE  Account(s)'
  BY <1>2, AccountKept DEF UserHoldExpires, fixed, money
<1>3. ASSUME NEW k \in locks, LockExpires(k)
      PROVE  Account(s)'
  BY <1>3, AccountKept DEF LockExpires, fixed, money
<1>4. CASE UNCHANGED vars
  BY <1>4, AccountKept DEF vars, fixed, keys, money
<1> QED
  BY <1>1, <1>2, <1>3, <1>4

LEMMA BusyWorker ==
  ASSUME TypeOK, NEW x \in Workers, Continue(x) \/ CrashWork(x)
  PROVE  work[x].r \in Reservations
<1>1. work[x].pc # "idle"
  BY DEF Continue, CrashWork, CancelMissing, CancelRefund, CancelRelease,
     CancelUnlock, CancelClean, ConfirmMissing, ConfirmExpired, ConfirmLive,
     ConfirmPay, ConfirmOrder, ConfirmUnlock, ConfirmClean, ConfirmEnd, ReapLoad,
     ReapMissing, ReapRelease, ReapUnlock, ReapSnapshot, ReapClean, AutoSettle,
     AutoClean, AtWork
<1> QED
  BY <1>1, BusyWorks

LEMMA NextAccounted == TypeOK /\ AccountInv /\ [Next]_vars => AccountInv'
<1> SUFFICES ASSUME TypeOK, AccountInv, [Next]_vars, NEW s \in Reservations
             PROVE  Account(s)'
  BY DEF AccountInv
<1>0. \A r \in Reservations : Account(r)
  BY DEF AccountInv
<1>1. ASSUME NEW r \in Reservations, Create(r) \/ CrashCreate(r)
      PROVE  Account(s)'
  <2>1. CASE r = s
    BY <1>0, <1>1, <2>1, CreateAccounted
  <2>2. CASE r # s
    <3> QED
      BY <1>0, <1>1, <2>2, OthersCreate, AccountKept
  <2> QED
    BY <2>1, <2>2
<1>2. ASSUME NEW x \in Workers, NEW r \in Reservations, About(x, r) /\ Account(r)'
      PROVE  Account(s)'
  BY <1>0, <1>2, AboutOthers
<1>3. ASSUME NEW x \in Workers, NEW r \in Reservations, Request(x, r) \/ Tick(x, r)
      PROVE  Account(s)'
  BY <1>0, <1>2, <1>3, RequestAccounted
<1>4. ASSUME NEW x \in Workers, Continue(x) \/ CrashWork(x)
      PROVE  Account(s)'
  <2>1. PICK r \in Reservations : work[x].r = r
    BY <1>4, BusyWorker
  <2>2. About(x, r) /\ Account(r)'
    BY <1>0, <1>4, <2>1, CancelAccounted, ConfirmAccounted, ReapAccounted,
       AutoAccounted DEF Continue
  <2> QED
    BY <1>2, <2>2
<1> QED
  BY <1>0, <1>1, <1>3, <1>4, TimeAccounted DEF Next, Workers

LEMMA InitAccounted == Init => AccountInv
<1> SUFFICES ASSUME Init, NEW r \in Reservations PROVE Account(r)
  BY DEF AccountInv
<1>1. create[r].pc = "new" /\ create[r].got = {} /\ Out(r, {})
  BY DEF Init, Out
<1>2. Untouched(r)
  BY ReservationAssumption
     DEF Init, Untouched, Stored, WithHold, HasHold, NoWork
<1> QED
  BY <1>1, <1>2 DEF Account, Creating, Starting, Taking

\* The stock and the money are right for every reservation that nothing has
\* troubled, whatever the requests, ticks, payments and keys that run out.
THEOREM BalanceKept == Spec => []Balanced
<1>1. TypeOK /\ AccountInv => Balanced
  <2> SUFFICES ASSUME TypeOK, AccountInv, NEW r \in Reservations \ past.troubled,
                      client = "typed" \/ create[r].pc = "refused"
               PROVE  /\ Quiet(r) => \A l \in Lines :
                           net[r][l] = IF Stored(r) \/ r \in orders THEN 1 ELSE 0
                      /\ r \in orders => r \in paid /\ r \notin refunds
    BY DEF Balanced
  <2>1. Creating(r) /\ (create[r].pc = "created" /\ client = "typed" => Held(r))
    BY DEF AccountInv, Account
  <2>2. CASE create[r].pc # "created"
    BY <2>1, <2>2 DEF Creating, Untouched, Out, Quiet
  <2>3. CASE create[r].pc = "created"
    <3>1. Held(r)
      BY <2>1, <2>3
    <3>2. Quiet(r) => Rests(r)
      BY <3>1 DEF Held, Quiet, WithHold
    <3>3. r \in orders => r \in paid /\ r \notin refunds
      BY <3>1 DEF Held, Rests, Worked, Before, Sold, Given, Settling
    <3> QED
      BY <3>2, <3>3 DEF Rests, Out
  <2> QED
    BY <2>2, <2>3
<1> QED
  BY <1>1, InitTyped, InitAccounted, NextTyped, NextAccounted, PTL DEF Spec

-----------------------------------------------------------------------------
(* The user hold of each reservation.                                      *)

\* Who had to have the user hold before, if not by this very step.
LEMMA LockingBefore ==
  ASSUME NEW r \in Reservations, client' = client, create'[r].pc = create[r].pc,
         past.troubled \subseteq past'.troubled, timeUp \subseteq timeUp',
         TakenForOrphan(r) => TakenForOrphan(r)',
         client = "typed" /\ r \notin past'.troubled /\ Keeping(r)' => Keeping(r),
         client \in {"ioredis", "typed"}, Locking(r)'
  PROVE  Locking(r)
BY DEF Locking

\* A user hold is deleted for the reservation it is of, and for no other.
LEMMA Deleted ==
  ASSUME TypeOK, NEW e \in Reservations, CompareDel(e),
         NEW s \in Reservations, userHold[UserOf[s]] = s, s # e \/ client # "typed"
  PROVE  userHold'[UserOf[s]] = s
BY ReservationAssumption DEF CompareDel, Matches, TypeOK

\* And it is set where there is none.
LEMMA Set ==
  ASSUME TypeOK, NEW r \in Reservations, SetUserHold(r)
  PROVE  /\ userHold'[UserOf[r]] = r
         /\ \A u \in Users : userHold[u] # userHold[UserOf[r]] => userHold'[u] = userHold[u]
BY ReservationAssumption DEF SetUserHold, TypeOK

\* A creation does not change what others keep, nor does it forget an orphan.
LEMMA OrphansStay ==
  ASSUME TypeOK, NEW r \in Reservations, Create(r) \/ CrashCreate(r), Looking(r)
  PROVE  /\ timeUp' = timeUp
         /\ create'[r].other = create[r].other \/ LookAtHolder(r)
         /\ \A s \in Reservations : TakenForOrphan(s) => TakenForOrphan(s)'
         /\ \A q \in Reservations \ {r} : Looking(q) => Looking(q)'
         /\ Looking(r)'
<1> USE CreateEffects DEF Looking
<1>1. timeUp' = timeUp
  BY DEF Create, Acquire, LookAtHolder, Steal, Reacquire, ReserveLine, Persist,
     RollBackUserHold, RollBackLines, CrashCreate
<1>2. CASE LookAtHolder(r)
  <2>1. /\ create[r].pc = "contended" /\ create[r].other = None
        /\ userHold[UserOf[r]] \in Reservations \cup {None}
        /\ create \in [Reservations -> Creations]
    BY <1>2, ReservationAssumption DEF LookAtHolder, TypeOK
  <2>2. PICK e : /\ e = userHold[UserOf[r]]
                 /\ \/ e # None /\ create' = [create EXCEPT ![r].other = e, ![r].pc = "steal"]
                    \/ GoCreate(r, "refused")
    BY <1>2 DEF LookAtHolder
  <2>3. \/ create'[r].pc = "steal" /\ create'[r].other \in Reservations
        \/ create'[r].pc = "refused" /\ create'[r].other = None
    <3>1. CASE GoCreate(r, "refused")
      BY <2>1, <3>1
    <3>2. CASE e # None /\ create' = [create EXCEPT ![r].other = e, ![r].pc = "steal"]
      BY <2>1, <2>2, <3>2 DEF Creations
    <3> QED
      BY <2>2, <3>1, <3>2
  <2>4. \A q \in Reservations \ {r} : create'[q] = create[q]
    BY <2>1, <2>2 DEF GoCreate
  <2>5. \A s \in Reservations : TakenForOrphan(s) => TakenForOrphan(s)'
    BY <1>2, <2>1, <2>4, ReservationAssumption DEF TakenForOrphan, LookAtHolder, fixed
  <2> QED
    BY <1>1, <1>2, <2>3, <2>4, <2>5
<1>3. CASE ~ LookAtHolder(r)
  <2>1. /\ create'[r].other = create[r].other
        /\ create'[r].pc \in {"new", "contended"} => create[r].pc = "new"
        /\ create'[r].pc # "steal"
    <3>1. CASE ReserveLine(r)
      BY <3>1 DEF ReserveLine, TypeOK, Creations
    <3> QED
      BY <1>3, <3>1 DEF Create, Acquire, Steal, Reacquire, Persist,
         RollBackUserHold, RollBackLines, CrashCreate
  <2>2. client' = client /\ \A q \in Reservations \ {r} : create'[q] = create[q]
    BY OthersCreate
  <2>3. \A s \in Reservations : TakenForOrphan(s) => TakenForOrphan(s)'
    BY <2>1, <2>2 DEF TakenForOrphan
  <2> QED
    BY <1>1, <2>1, <2>2, <2>3
<1> QED
  BY <1>2, <1>3

\* The creation of r leaves the user holds of the others alone.
LEMMA CreateKeepsOthers ==
  ASSUME TypeOK, UserHoldInv, NEW r \in Reservations, Create(r) \/ CrashCreate(r),
         NEW s \in Reservations \ {r}, Locking(s)'
  PROVE  userHold'[UserOf[s]] = s
<1>1. Looking(r)
  BY DEF UserHoldInv
<1>2. Locking(s)
  <2>1. Keeping(s)' => Keeping(s)
    BY OthersCreate DEF Keeping, Stored, WithHold, HasHold
  <2>2. client \in {"ioredis", "typed"}
    BY ReservationAssumption DEF TypeOK
  <2> QED
    BY <1>1, <2>1, <2>2, OthersCreate, OrphansStay, LockingBefore
<1>3. userHold[UserOf[s]] = s /\ UserOf[s] \in Users /\ s # None
  BY <1>2, ReservationAssumption DEF UserHoldInv
<1>4. CASE SetUserHold(r) /\ userHold[UserOf[r]] = None
  BY <1>3, <1>4, Set
<1>5. CASE CompareDel(r)
  BY <1>3, <1>5, Deleted
<1>6. CASE Steal(r)
  <2>1. PICK e \in Reservations : create[r].other = e
    BY <1>1, <1>6 DEF Looking, Steal
  <2>2. CompareDel(e) /\ create'[r].other = e /\ client' = client
    BY <1>6, <2>1, CreateEffects DEF Steal, fixed
  <2>3. e # s \/ client # "typed"
    BY <2>2 DEF Locking, TakenForOrphan
  <2> QED
    BY <1>3, <2>2, <2>3, Deleted
<1>7. CASE userHold' = userHold
  BY <1>3, <1>7
<1> QED
  BY <1>4, <1>5, <1>6, <1>7 DEF Create, Acquire, LookAtHolder, Reacquire, ReserveLine,
     Persist, RollBackUserHold, UnlockUser, RollBackLines, CrashCreate, keys

\* And gets that of its own user before it takes any units.
LEMMA CreateKeepsOwn ==
  ASSUME TypeOK, UserHoldInv, NEW r \in Reservations, Create(r) \/ CrashCreate(r),
         Locking(r)'
  PROVE  userHold'[UserOf[r]] = r
<1> USE CreateEffects
<1>1. create'[r].pc \in {"reserve", "persist", "created"}
  BY DEF Locking
<1>2. CASE SetUserHold(r)
  BY <1>2, Set
<1>3. CASE /\ create[r].pc \in {"reserve", "persist"} /\ userHold' = userHold
           /\ create'[r].pc = "created" => create[r].pc = "persist"
  <2>1. /\ client' = client /\ past.troubled \subseteq past'.troubled /\ work' = work
        /\ timeUp' = timeUp
        /\ TakenForOrphan(r) => TakenForOrphan(r)'
    BY OthersCreate, OrphansStay DEF UserHoldInv
  <2>2. Keeping(r)' => Keeping(r)
    BY <1>3, <2>1 DEF Keeping, WithHold, HasHold
  <2>3. Locking(r)
    BY <1>3, <2>1, <2>2 DEF Locking
  <2> QED
    BY <1>3, <2>3 DEF UserHoldInv
<1>4. Acquire(r) \/ Reacquire(r) => SetUserHold(r)
  BY <1>1 DEF Acquire, Reacquire
<1>5. ~ (\/ LookAtHolder(r) \/ Steal(r) \/ RollBackUserHold(r) \/ RollBackLines(r)
         \/ CrashCreate(r))
  BY <1>1 DEF LookAtHolder, Steal, RollBackUserHold, RollBackLines, CrashCreate,
     TypeOK, Creations
<1>6. ReserveLine(r) \/ Persist(r) =>
        /\ create[r].pc \in {"reserve", "persist"} /\ userHold' = userHold
        /\ create'[r].pc = "created" => create[r].pc = "persist"
  <2>1. CASE ReserveLine(r)
    BY <2>1 DEF ReserveLine, TypeOK, Creations, keys
  <2> QED
    BY <2>1 DEF Persist
<1> QED
  BY <1>2, <1>3, <1>4, <1>5, <1>6 DEF Create

\* A worker: what its step has to do for the user hold of its reservation.
LEMMA WorkerKeeps ==
  ASSUME TypeOK, UserHoldInv, NEW x \in Workers, NEW r \in Reservations, About(x, r),
         timeUp' = timeUp, userHold' = userHold \/ CompareDel(r),
         client = "typed" /\ r \notin past'.troubled /\ Keeping(r)'
           /\ create[r].pc \in {"reserve", "persist", "created"} =>
             Keeping(r) /\ userHold' = userHold,
         NEW s \in Reservations
  PROVE  Looking(s)' /\ (Locking(s)' => userHold'[UserOf[s]] = s)
<1>1. Looking(s)'
  BY DEF UserHoldInv, Looking, About
<1>2. client' = client /\ create' = create /\ past.troubled \subseteq past'.troubled
  BY DEF About
<1>3. TakenForOrphan(s) => TakenForOrphan(s)'
  BY <1>2 DEF TakenForOrphan
<1>4. client \in {"ioredis", "typed"}
  BY ReservationAssumption DEF TypeOK
<1>5. CASE s # r
  <2>1. Keeping(s)' => Keeping(s)
    BY <1>5, ReservationAssumption DEF Keeping, Stored, WithHold, HasHold, About
  <2>2. Locking(s)' => Locking(s)
    BY <1>2, <1>3, <1>4, <2>1, LockingBefore
  <2> QED
    BY <1>1, <1>5, <2>2, Deleted DEF UserHoldInv
<1>6. CASE s = r
  <2> SUFFICES ASSUME Locking(r)' PROVE userHold'[UserOf[r]] = r
    BY <1>1, <1>6
  <2>1. Locking(r)
    BY <1>2, <1>3, <1>4, <1>6 DEF Locking
  <2>2. userHold[UserOf[r]] = r
    BY <2>1 DEF UserHoldInv
  <2>3. client = "typed" => userHold' = userHold
    BY <1>2 DEF Locking
  <2> QED
    BY <1>4, <2>2, <2>3, Deleted
<1> QED
  BY <1>5, <1>6

Keeps(r) ==
  client = "typed" /\ r \notin past'.troubled /\ Keeping(r)'
    /\ create[r].pc \in {"reserve", "persist", "created"} =>
      Keeping(r) /\ userHold' = userHold

\* Most steps of a worker do not touch the user hold and leave the hold alone.
LEMMA MostKeep ==
  ASSUME TypeOK, NEW x \in Workers, NEW r \in Reservations, About(x, r),
         hold' = hold, userHold' = userHold, work[x].pc \notin Unlocked
  PROVE  Keeps(r)
BY DEF Keeps, Keeping, About, Stored, WithHold, HasHold

LEMMA RequestKeeps ==
  ASSUME TypeOK, NEW x \in Workers, NEW r \in Reservations, Account(r),
         Request(x, r) \/ Tick(x, r)
  PROVE  Keeps(r) /\ timeUp' = timeUp /\ userHold' = userHold
<1>1. /\ hold' = hold /\ userHold' = userHold /\ timeUp' = timeUp
      /\ work[x].pc \notin Unlocked
  BY DEF Request, Tick, CancelLoad, ConfirmLock, ReapLock, AutoMissing, AutoLock,
     AtWork, Unlocked, keys
<1> QED
  BY <1>1, RequestAccounted, MostKeep

LEMMA ContinueKeeps ==
  ASSUME TypeOK, NEW x \in Workers, NEW r \in Reservations, work[x].r = r, Account(r),
         Continue(x) \/ CrashWork(x)
  PROVE  /\ Keeps(r) /\ timeUp' = timeUp /\ About(x, r)
         /\ userHold' = userHold \/ CompareDel(r)
<1> USE PastEffects DEF AtWork
<1>0. About(x, r)
  BY CancelAccounted, ConfirmAccounted, ReapAccounted, AutoAccounted DEF Continue
<1>1. CASE \/ CancelMissing(x) \/ CancelRefund(x) \/ CancelRelease(x)
           \/ ConfirmMissing(x) \/ ConfirmExpired(x) \/ ConfirmLive(x) \/ ConfirmPay(x)
           \/ ConfirmOrder(x) \/ ConfirmEnd(x)
           \/ ReapLoad(x) \/ ReapMissing(x) \/ ReapRelease(x)
           \/ AutoSettle(x) \/ AutoClean(x)
  <2>1. /\ hold' = hold /\ userHold' = userHold /\ timeUp' = timeUp
        /\ work[x].pc \notin Unlocked
    BY <1>1 DEF CancelMissing, CancelRefund, CancelRelease, ConfirmMissing,
       ConfirmExpired, ConfirmLive, ConfirmPay, ConfirmOrder, ConfirmEnd, ReapLoad,
       ReapMissing, ReapRelease, AutoSettle, AutoClean, Unlocked, keys
  <2> QED
    BY <1>0, <2>1, MostKeep
<1>2. CASE CancelUnlock(x) \/ ConfirmUnlock(x) \/ ReapUnlock(x) \/ ReapSnapshot(x)
  <2>1. timeUp' = timeUp /\ (userHold' = userHold \/ CompareDel(r))
    BY <1>2 DEF CancelUnlock, ConfirmUnlock, UnlockUser, ReapUnlock, ReapSnapshot
  <2>2. r \notin past'.troubled =>
          work'[x].r = r /\ work'[x].pc \in Unlocked
    BY <1>2, WorkEffects DEF CancelUnlock, ConfirmUnlock, ReapUnlock, ReapSnapshot, Unlocked
  <2>3. r \notin past'.troubled => ~ Keeping(r)'
    BY <2>2 DEF Keeping, WithHold, HasHold, Unlocked
  <2> QED
    BY <1>0, <2>1, <2>3 DEF Keeps
<1>3. CASE CancelClean(x) \/ ConfirmClean(x) \/ ReapClean(x)
  <2>1. timeUp' = timeUp /\ userHold' = userHold
    BY <1>3 DEF CancelClean, ConfirmClean, ReapClean
  <2>2. r \notin past'.troubled => ~ Stored(r)'
    BY <1>3, HoldEffects DEF CancelClean, ConfirmClean, ReapClean
  <2>3. WithHold(x, r)
    BY <1>3 DEF CancelClean, ConfirmClean, ReapClean, WithHold, HasHold
  <2>4. r \notin past'.troubled /\ client = "typed" =>
          create'[r].pc = "created"
    BY <1>0, <2>3, Alone DEF About
  <2> QED
    BY <1>0, <2>1, <2>2, <2>4 DEF Keeps, Keeping
<1>4. CASE CrashWork(x)
  BY <1>0, <1>4 DEF CrashWork, Keeps, keys
<1> QED
  BY <1>1, <1>2, <1>3, <1>4 DEF Continue

LEMMA TimeKeeps ==
  ASSUME TypeOK, UserHoldInv, NEW s \in Reservations,
         \/ \E r \in Reservations : \/ Pay(r) \/ TimeUp(r)
                                    \/ HoldExpires(r) \/ SnapshotExpires(r)
         \/ \E u \in Users : UserHoldExpires(u)
         \/ \E k \in locks : LockExpires(k)
         \/ UNCHANGED vars
  PROVE  Looking(s)' /\ (Locking(s)' => userHold'[UserOf[s]] = s)
<1>1. /\ create' = create /\ client' = client /\ work' = work
      /\ past.troubled \subseteq past'.troubled /\ timeUp \subseteq timeUp'
      /\ s \notin past'.troubled => hold'[s] = hold[s]
  BY DEF Pay, TimeUp, HoldExpires, SnapshotExpires, UserHoldExpires, LockExpires,
     vars, fixed, keys, TypeOK, Pasts
<1>2. Looking(s)'
  BY <1>1 DEF UserHoldInv, Looking
<1>3. Locking(s)' => userHold[UserOf[s]] = s
  <2>1. client \in {"ioredis", "typed"}
    BY ReservationAssumption DEF TypeOK
  <2>2. s \notin past'.troubled /\ Keeping(s)' => Keeping(s)
    BY <1>1 DEF Keeping, Stored, WithHold, HasHold
  <2>3. TakenForOrphan(s) => TakenForOrphan(s)'
    BY <1>1 DEF TakenForOrphan
  <2> QED
    BY <1>1, <2>1, <2>2, <2>3, LockingBefore DEF UserHoldInv
<1>4. Locking(s)' => s \notin timeUp
  BY <1>1 DEF Locking
<1>5. CASE \E u \in Users : UserHoldExpires(u)
  <2>1. PICK u \in Users : UserHoldExpires(u)
    BY <1>5
  <2>2. Locking(s)' => userHold'[UserOf[s]] = userHold[UserOf[s]]
    BY <1>3, <1>4, <2>1, ReservationAssumption DEF UserHoldExpires, TypeOK
  <2> QED
    BY <1>2, <1>3, <2>2
<1>6. CASE userHold' = userHold
  BY <1>2, <1>3, <1>6
<1> QED
  BY <1>5, <1>6 DEF Pay, TimeUp, HoldExpires, SnapshotExpires, LockExpires, vars, keys

LEMMA NextKeeps == TypeOK /\ AccountInv /\ UserHoldInv /\ [Next]_vars => UserHoldInv'
<1> SUFFICES ASSUME TypeOK, AccountInv, UserHoldInv, [Next]_vars, NEW s \in Reservations
             PROVE  Looking(s)' /\ (Locking(s)' => userHold'[UserOf[s]] = s)
  BY DEF UserHoldInv
<1>0. \A r \in Reservations : Account(r) /\ Looking(r)
  BY DEF AccountInv, UserHoldInv
<1>1. ASSUME NEW r \in Reservations, Create(r) \/ CrashCreate(r)
      PROVE  Looking(s)' /\ (Locking(s)' => userHold'[UserOf[s]] = s)
  BY <1>0, <1>1, OrphansStay, CreateKeepsOthers, CreateKeepsOwn
<1>2. ASSUME NEW x \in Workers, NEW r \in Reservations, Request(x, r) \/ Tick(x, r)
      PROVE  Looking(s)' /\ (Locking(s)' => userHold'[UserOf[s]] = s)
  BY <1>0, <1>2, RequestAccounted, RequestKeeps, WorkerKeeps DEF Keeps
<1>3. ASSUME NEW x \in Workers, Continue(x) \/ CrashWork(x)
      PROVE  Looking(s)' /\ (Locking(s)' => userHold'[UserOf[s]] = s)
  <2>1. PICK r \in Reservations : work[x].r = r
    BY <1>3, BusyWorker
  <2> QED
    BY SMTT(60), <1>0, <1>3, <2>1, ContinueKeeps, WorkerKeeps DEF Keeps
<1> QED
  BY <1>1, <1>2, <1>3, TimeKeeps DEF Next, Workers

\* Of two live holds that a user has at the same event, one was taken for an
\* orphan while it was created; with ioredis there are never two.  This holds
\* of every number of users, reservations, handlers, faults and expiries.
THEOREM LiveHoldsAreOne == Spec => []OneLiveHold
<1>1. Init => AccountInv /\ UserHoldInv
  <2>1. Init => UserHoldInv
    BY DEF Init, UserHoldInv, Looking, Locking
  <2> QED
    BY <2>1, InitAccounted
<1>2. TypeOK /\ AccountInv /\ UserHoldInv => OneLiveHold
  <2> SUFFICES ASSUME TypeOK, AccountInv, UserHoldInv,
                      NEW r \in Reservations \ past.troubled,
                      NEW s \in Reservations \ past.troubled,
                      Live(r), Live(s), UserOf[r] = UserOf[s],
                      ~ TakenForOrphan(r), ~ TakenForOrphan(s)
               PROVE  r = s
    BY DEF OneLiveHold
  <2>1. ASSUME NEW q \in Reservations \ past.troubled, Live(q), ~ TakenForOrphan(q)
        PROVE  userHold[UserOf[q]] = q
    <3>1. create[q].pc = "created"
      BY <2>1 DEF AccountInv, Account, Creating, Untouched, Live, Quiet
    <3>2. Keeping(q)
      BY <2>1 DEF Keeping, Live, Quiet, WithHold
    <3>3. client \in {"ioredis", "typed"}
      BY ReservationAssumption DEF TypeOK
    <3> QED
      BY <2>1, <3>1, <3>2, <3>3 DEF UserHoldInv, Locking, Live
  <2> QED
    BY <2>1
<1> QED
  BY <1>1, <1>2, InitTyped, NextTyped, NextAccounted, NextKeeps, PTL DEF Spec

-----------------------------------------------------------------------------
(* The stock, as the sum of what the reservations have out.                *)

\* What Stock adds up, as SumOver does it.
Added(n, l) ==
  (CHOOSE g : g = [T \in SUBSET Reservations |->
                     IF T = {} THEN 0 ELSE n[Some(T)][l] + g[Rest(T)]])[Reservations]

LEMMA SumOfUnits ==
  ASSUME NEW n, NEW l, NEW f, f = [r \in Reservations |-> n[r][l]]
  PROVE  Added(n, l) = SumOver(f, Reservations)
<1> DEFINE R == Reservations
           F(g) == [T \in SUBSET R |-> IF T = {} THEN 0 ELSE n[Some(T)][l] + g[Rest(T)]]
           G(g) == [T \in SUBSET R |-> IF T = {} THEN 0 ELSE f[Some(T)] + g[Rest(T)]]
<1>1. ASSUME NEW g PROVE F(g) = G(g)
  <2>1. ASSUME NEW T \in SUBSET R, T # {} PROVE n[Some(T)][l] = f[Some(T)]
    BY <2>1, SomeIsIn
  <2> QED
    BY <2>1
<1>2. Added(n, l) = (CHOOSE g : g = F(g))[R]
  BY DEF Added
<1>3. SumOver(f, R) = (CHOOSE g : g = G(g))[R]
  BY SumUnfolds
<1> HIDE DEF F, G
<1>4. (CHOOSE g : g = F(g)) = (CHOOSE g : g = G(g))
  BY <1>1
<1> QED
  BY <1>2, <1>3, <1>4

OutOf(l) == [r \in Reservations |-> net[r][l]]

LEMMA OutTyped ==
  ASSUME TypeOK, NEW l \in Lines
  PROVE  \A r \in Reservations : OutOf(l)[r] = net[r][l] /\ OutOf(l)[r] \in Int
BY DEF OutOf, TypeOK

LEMMA StockIsSum ==
  ASSUME NEW l \in Lines
  PROVE  /\ Stock(l) = capacity[l] - SumOver(OutOf(l), Reservations)
         /\ Stock(l)' = capacity'[l] - SumOver(OutOf(l)', Reservations)
<1>1. Stock(l) = capacity[l] - Added(net, l)
  BY DEF Stock, Added, MapThenSumSet, MapThenFoldSet, Some, Rest
<1>2. Stock(l)' = capacity'[l] - Added(net', l)
  BY DEF Stock, Added, MapThenSumSet, MapThenFoldSet, Some, Rest
<1>3. Added(net, l) = SumOver(OutOf(l), Reservations)
  BY SumOfUnits DEF OutOf
<1>4. Added(net', l) = SumOver(OutOf(l)', Reservations)
  BY SumOfUnits DEF OutOf
<1> QED
  BY <1>1, <1>2, <1>3, <1>4

\* A step that changes what one reservation has out changes the stock by as much.
LEMMA StockChanges ==
  ASSUME IsFiniteSet(Reservations), TypeOK, TypeOK', capacity' = capacity,
         NEW r \in Reservations, \A s \in Reservations \ {r} : net'[s] = net[s],
         NEW l \in Lines
  PROVE  /\ Stock(l)' = Stock(l) + net[r][l] - net'[r][l]
         /\ Stock(l) \in Int
<1> DEFINE f == OutOf(l)
           h == OutOf(l)'
<1>1. \A s \in Reservations : f[s] = net[s][l] /\ f[s] \in Int
  BY OutTyped
<1>2. \A s \in Reservations : h[s] = net'[s][l] /\ h[s] \in Int
  BY DEF OutOf, TypeOK
<1>3. \A s \in Reservations \ {r} : h[s] = f[s]
  BY <1>1, <1>2
<1>4. Stock(l) = capacity[l] - SumOver(f, Reservations)
      /\ Stock(l)' = capacity[l] - SumOver(h, Reservations)
  BY StockIsSum
<1>5. capacity[l] \in Int /\ net[r][l] \in Int /\ net'[r][l] \in Int
  BY ReservationAssumption DEF TypeOK
<1> HIDE DEF f, h
<1>6. SumOver(h, Reservations) = SumOver(f, Reservations) + h[r] - f[r]
  BY <1>1, <1>2, <1>3, SumChanges
<1>7. SumOver(f, Reservations) \in Int
  BY <1>1, SumRest
<1> QED
  BY <1>1, <1>2, <1>4, <1>5, <1>6, <1>7

\* No unit is taken that is not there.
StockInv == \A l \in Lines : Stock(l) >= 0

LEMMA NetMoves ==
  ASSUME [Next]_vars
  PROVE  /\ capacity' = capacity
         /\ \/ net' = net
            \/ \E r \in Reservations : ReserveLine(r) \/ RollBackLines(r)
            \/ \E x \in Workers : CancelRelease(x) \/ ReapRelease(x)
<1>1. ASSUME NEW r \in Reservations, Create(r) \/ CrashCreate(r)
      PROVE  /\ capacity' = capacity
             /\ net' = net \/ ReserveLine(r) \/ RollBackLines(r)
  BY <1>1 DEF Create, Acquire, LookAtHolder, Steal, Reacquire, ReserveLine, Persist,
              RollBackUserHold, RollBackLines, CrashCreate, fixed
<1>2. ASSUME NEW x \in Workers, Continue(x) \/ CrashWork(x)
      PROVE  /\ capacity' = capacity
             /\ net' = net \/ CancelRelease(x) \/ ReapRelease(x)
  BY <1>2 DEF Continue, CrashWork, CancelMissing, CancelRefund, CancelRelease,
              CancelUnlock, CancelClean, ConfirmMissing, ConfirmExpired, ConfirmLive,
              ConfirmPay, ConfirmOrder, ConfirmUnlock, ConfirmClean, ConfirmEnd,
              ReapLoad, ReapMissing, ReapRelease, ReapUnlock, ReapSnapshot, ReapClean,
              AutoSettle, AutoClean, fixed
<1>3. ASSUME NEW r \in Reservations,
             \/ \E x \in Handlers : Request(x, r)
             \/ \E x \in Reapers : Tick(x, r)
             \/ Pay(r) \/ TimeUp(r) \/ HoldExpires(r) \/ SnapshotExpires(r)
      PROVE  capacity' = capacity /\ net' = net
  BY <1>3 DEF Request, Tick, CancelLoad, ConfirmLock, ReapLock, AutoMissing, AutoLock,
              Pay, TimeUp, HoldExpires, SnapshotExpires, fixed
<1>4. ASSUME \/ \E u \in Users : UserHoldExpires(u)
             \/ \E k \in locks : LockExpires(k)
      PROVE  capacity' = capacity /\ net' = net
  BY <1>4 DEF UserHoldExpires, LockExpires, fixed
<1>5. ASSUME UNCHANGED vars PROVE capacity' = capacity /\ net' = net
  BY <1>5 DEF vars, fixed
<1> QED
  BY <1>1, <1>2, <1>3, <1>4, <1>5 DEF Next

LEMMA NextStock ==
  ASSUME IsFiniteSet(Reservations), TypeOK, StockInv, [Next]_vars
  PROVE  StockInv'
<1>0. TypeOK' /\ capacity' = capacity
  BY NextTyped, NetMoves
<1>1. CASE net' = net
  <2> SUFFICES ASSUME NEW l \in Lines PROVE Stock(l)' >= 0
    BY DEF StockInv
  <2>1. OutOf(l)' = OutOf(l)
    BY <1>1 DEF OutOf
  <2>2. Stock(l)' = Stock(l)
    BY <1>0, <2>1, StockIsSum
  <2> QED
    BY <2>2 DEF StockInv
<1>2. ASSUME NEW r \in Reservations, \A s \in Reservations \ {r} : net'[s] = net[s],
             \A l \in Lines : net'[r][l] <= net[r][l]
      PROVE  StockInv'
  <2> SUFFICES ASSUME NEW l \in Lines PROVE Stock(l)' >= 0
    BY DEF StockInv
  <2>1. Stock(l)' = Stock(l) + net[r][l] - net'[r][l] /\ Stock(l) \in Int
    BY <1>0, <1>2, StockChanges
  <2>2. net[r][l] \in Int /\ net'[r][l] \in Int /\ net'[r][l] <= net[r][l]
    BY <1>0, <1>2 DEF TypeOK
  <2> QED
    BY <2>1, <2>2 DEF StockInv
<1>3. ASSUME NEW r \in Reservations, NEW lines \in SUBSET Lines,
             NEW told, GiveBack(r, lines, told)
      PROVE  StockInv'
  <2>1. PICK done \in SUBSET lines :
          net' = [net EXCEPT ![r] = [l \in Lines |-> IF l \in done THEN @[l] - 1
                                                                   ELSE @[l]]]
    BY <1>3 DEF GiveBack
  <2>2. net \in [Reservations -> [Lines -> Int]]
    BY DEF TypeOK
  <2>3. \A s \in Reservations \ {r} : net'[s] = net[s]
    BY <2>1, <2>2
  <2>4. \A l \in Lines : net'[r][l] <= net[r][l]
    BY <2>1, <2>2
  <2> QED
    BY <1>2, <2>3, <2>4
<1>4. ASSUME NEW r \in Reservations, NEW l \in Lines, Available(l), Take(r, l)
      PROVE  StockInv'
  <2>1. net \in [Reservations -> [Lines -> Int]]
    BY DEF TypeOK
  <2>2. /\ \A s \in Reservations \ {r} : net'[s] = net[s]
        /\ \A k \in Lines : net'[r][k] = IF k = l THEN net[r][k] + 1 ELSE net[r][k]
    BY <1>4, <2>1 DEF Take
  <2> SUFFICES ASSUME NEW k \in Lines PROVE Stock(k)' >= 0
    BY DEF StockInv
  <2>3. Stock(k)' = Stock(k) + net[r][k] - net'[r][k] /\ Stock(k) \in Int
    BY <1>0, <2>2, StockChanges
  <2>4. net[r][k] \in Int
    BY <2>1
  <2> QED
    BY <1>4, <2>2, <2>3, <2>4 DEF StockInv, Available
<1>5. ASSUME NEW r \in Reservations, ReserveLine(r) PROVE StockInv'
  <2>1. PICK l \in Lines : (Available(l) /\ Take(r, l)) \/ net' = net
    BY <1>5 DEF ReserveLine
  <2> QED
    BY <1>1, <1>4, <2>1
<1>6. ASSUME NEW r \in Reservations, RollBackLines(r) PROVE StockInv'
  <2>1. create[r].got \in SUBSET Lines
    BY DEF TypeOK, Creations
  <2> QED
    BY <1>3, <1>6, <2>1 DEF RollBackLines
<1>7. ASSUME NEW x \in Workers, CancelRelease(x) \/ ReapRelease(x) PROVE StockInv'
  <2>1. work[x].r \in Reservations /\ work[x].lines \in SUBSET Lines
    BY <1>7 DEF TypeOK, Works, NoWork, AtWork, CancelRelease, ReapRelease
  <2>2. PICK told \in SUBSET work[x].lines : GiveBack(work[x].r, work[x].lines, told)
    BY <1>7 DEF CancelRelease, ReapRelease
  <2> QED
    BY <1>3, <2>1, <2>2
<1> QED
  BY <1>1, <1>5, <1>6, <1>7, NetMoves

LEMMA InitStock == IsFiniteSet(Reservations) /\ Init => StockInv
<1> SUFFICES ASSUME IsFiniteSet(Reservations), Init, NEW l \in Lines PROVE Stock(l) >= 0
  BY DEF StockInv
<1> DEFINE f == OutOf(l)
<1>1. \A r \in Reservations : f[r] = 0
  BY DEF Init, OutOf
<1>2. Stock(l) = capacity[l] - SumOver(f, Reservations)
  BY StockIsSum
<1>3. capacity[l] \in Nat
  BY ReservationAssumption DEF Init
<1> HIDE DEF f
<1>4. SumOver(f, Reservations) = 0
  BY <1>1, SumOfNone
<1> QED
  BY <1>2, <1>3, <1>4

\* A set of numbers of which each is at least 1, among others that are not
\* negative, has no more members than their sum.
LEMMA CountAtMostSum ==
  ASSUME NEW S, IsFiniteSet(S), NEW f, \A x \in S : f[x] \in Int /\ f[x] >= 0,
         NEW T \in SUBSET S, \A x \in T : f[x] >= 1
  PROVE  Cardinality(T) <= SumOver(f, S)
<1> DEFINE good == {U \in SUBSET S :
                      SumOver([x \in S |-> IF x \in U THEN 1 ELSE 0], S) = Cardinality(U)}
           one == [x \in S |-> IF x \in T THEN 1 ELSE 0]
<1>1. \A x \in S : one[x] \in Int /\ f[x] \in Int /\ one[x] <= f[x]
  OBVIOUS
<1>2. good = SUBSET S
  <2> SUFFICES ASSUME NEW U \in SUBSET S, \A V \in (SUBSET U) \ {U} : V \in good
               PROVE  U \in good
    <3> HIDE DEF good
    <3>1. good \in SUBSET (SUBSET S)
      BY DEF good
    <3> QED
      BY <3>1, SubsetInduction
  <2>1. CASE U = {}
    <3>1. Cardinality(U) = 0
      BY <2>1, FS_EmptySet
    <3> DEFINE none == [x \in S |-> IF x \in U THEN 1 ELSE 0]
    <3>2. \A x \in S : none[x] = 0
      BY <2>1
    <3> HIDE DEF none
    <3>3. SumOver(none, S) = 0
      BY <3>2, SumOfNone
    <3> QED
      BY <3>1, <3>3 DEF none
  <2>2. ASSUME NEW u \in U PROVE U \in good
    <3> DEFINE V == U \ {u}
               g == [x \in S |-> IF x \in V THEN 1 ELSE 0]
               h == [x \in S |-> IF x \in U THEN 1 ELSE 0]
    <3>1. V \in (SUBSET U) \ {U}
      BY <2>2
    <3>2. SumOver(g, S) = Cardinality(V)
      BY <3>1
    <3>3. IsFiniteSet(U) /\ Cardinality(U) \in Nat /\ Cardinality(V) = Cardinality(U) - 1
      BY <2>2, FS_Subset, FS_CardinalityType, FS_RemoveElement
    <3>4. /\ \A x \in S : g[x] \in Int /\ h[x] \in Int
          /\ \A x \in S \ {u} : h[x] = g[x]
          /\ h[u] = 1 /\ g[u] = 0 /\ u \in S
      BY <2>2
    <3> HIDE DEF g, h, V
    <3>5. SumOver(h, S) = SumOver(g, S) + h[u] - g[u]
      BY <3>4, SumChanges
    <3>6. SumOver(h, S) = Cardinality(U)
      BY <3>2, <3>3, <3>4, <3>5
    <3> QED
      BY <3>6 DEF h
  <2> QED
    BY <2>1, <2>2
<1>3. SumOver(one, S) = Cardinality(T)
  BY <1>2
<1> HIDE DEF one, good
<1>4. SumOver(one, S) <= SumOver(f, S)
  BY <1>1, SumAtMost
<1> QED
  BY <1>3, <1>4

\* What is held or ordered fits into the stock, for every number of
\* reservations, lines, requests and failed calls.
THEOREM SoldFits == IsFiniteSet(Reservations) /\ Spec => []SoldWithinStock
<1> SUFFICES ASSUME IsFiniteSet(Reservations) PROVE Spec => []SoldWithinStock
  OBVIOUS
<1>1. TypeOK /\ AccountInv /\ StockInv => SoldWithinStock
  <2> SUFFICES ASSUME TypeOK, AccountInv, StockInv, client = "typed", NEW l \in Lines,
                      \A r \in past.troubled : net[r][l] >= 0
               PROVE  Cardinality({r \in Reservations \ past.troubled : Promised(r)})
                        <= capacity[l]
    BY DEF SoldWithinStock
  <2> DEFINE T == {r \in Reservations \ past.troubled : Promised(r)}
             f == OutOf(l)
  <2>1. \A r \in Reservations : f[r] = net[r][l] /\ f[r] \in Int
    BY OutTyped
  <2>2. ASSUME NEW r \in Reservations \ past.troubled
        PROVE  net[r][l] \in {0, 1} /\ (Promised(r) => net[r][l] = 1)
    <3>1. Creating(r) /\ (create[r].pc = "created" => Held(r))
      BY DEF AccountInv, Account
    <3>2. create[r].pc \in CreateSteps
      BY DEF TypeOK, Creations
    <3>3. CASE create[r].pc # "created"
      BY <3>1, <3>2, <3>3
         DEF Creating, CreateSteps, Starting, Taking, Out, Untouched, Promised, Quiet
    <3>4. CASE create[r].pc = "created"
      <4>1. Held(r)
        BY <3>1, <3>4
      <4>2. CASE \A x \in Workers : ~ WithHold(x, r)
        BY <4>1, <4>2 DEF Held, Rests, Out, Promised
      <4>3. CASE \E x \in Workers : WithHold(x, r)
        BY <4>1, <4>3 DEF Held, Worked, Out, Promised, Quiet, WithHold
      <4> QED
        BY <4>2, <4>3
    <3> QED
      BY <3>3, <3>4
  <2>3. \A r \in Reservations : f[r] >= 0
    BY <2>1, <2>2
  <2>4. T \in SUBSET Reservations /\ \A r \in T : f[r] >= 1
    BY <2>1, <2>2
  <2>5. Stock(l) = capacity[l] - SumOver(f, Reservations) /\ Stock(l) >= 0
    BY StockIsSum DEF StockInv
  <2>6. capacity[l] \in Int
    BY ReservationAssumption DEF TypeOK
  <2> HIDE DEF f, T
  <2>7. Cardinality(T) <= SumOver(f, Reservations) /\ SumOver(f, Reservations) \in Int
    BY <2>1, <2>3, <2>4, CountAtMostSum, SumRest
  <2>8. IsFiniteSet(T) /\ Cardinality(T) \in Nat
    BY <2>4, FS_Subset, FS_CardinalityType
  <2>9. Cardinality(T) <= capacity[l]
    BY <2>5, <2>6, <2>7, <2>8
  <2> QED
    BY <2>9 DEF T
<1>2. Init => StockInv
  BY InitStock
<1>3. TypeOK /\ StockInv /\ [Next]_vars => StockInv'
  BY NextStock
<1> QED
  BY <1>1, <1>2, <1>3, InitTyped, InitAccounted, NextTyped, NextAccounted, PTL DEF Spec

-----------------------------------------------------------------------------
(* The way of each reservation, as Booking describes it.                   *)

MoneySame(r) == /\ r \in paid' <=> r \in paid
                /\ r \in refunds' <=> r \in refunds

\* Money moves by a payment, or by a refund of what is paid and not ordered.
LEMMA MoneyMoves ==
  ASSUME TypeOK, AccountInv, [Next]_vars, NEW r \in Reservations
  PROVE  \/ MoneySame(r)
         \/ /\ r \notin paid /\ r \in paid'
            /\ UNCHANGED <<client, create, net, orders, refunds, past>>
         \/ /\ r \in paid /\ r \in refunds'
            /\ UNCHANGED <<client, create, net, orders, paid, past>>
            /\ Fate(r) \notin {"asked", "ordered"}
<1>1. ASSUME NEW s \in Reservations,
             \/ Create(s) \/ CrashCreate(s) \/ TimeUp(s)
             \/ HoldExpires(s) \/ SnapshotExpires(s)
             \/ \E x \in Handlers : Request(x, s)
             \/ \E x \in Reapers : Tick(x, s)
      PROVE  MoneySame(r)
  BY <1>1 DEF MoneySame, Create, Acquire, LookAtHolder, Steal, Reacquire, ReserveLine,
     Persist, RollBackUserHold, RollBackLines, CrashCreate, TimeUp, HoldExpires,
     SnapshotExpires, Request, Tick, CancelLoad, ConfirmLock, ReapLock, AutoMissing,
     AutoLock, money
<1>2. ASSUME NEW s \in Reservations, Pay(s), ~ MoneySame(r)
      PROVE  /\ r \notin paid /\ r \in paid'
             /\ UNCHANGED <<client, create, net, orders, refunds, past>>
  BY <1>2 DEF MoneySame, Pay, fixed
<1>3. ASSUME NEW x \in Workers, Continue(x) \/ CrashWork(x), ~ MoneySame(r)
      PROVE  /\ r \in paid /\ r \in refunds'
             /\ UNCHANGED <<client, create, net, orders, paid, past>>
             /\ Fate(r) \notin {"asked", "ordered"}
  <2>1. CancelRefund(x) \/ AutoSettle(x)
    BY <1>3 DEF MoneySame, Continue, CrashWork, CancelMissing, CancelRelease,
       CancelUnlock, CancelClean, ConfirmMissing, ConfirmExpired, ConfirmLive,
       ConfirmPay, ConfirmOrder, ConfirmUnlock, ConfirmClean, ConfirmEnd,
       ReapLoad, ReapMissing, ReapRelease, ReapUnlock, ReapSnapshot, ReapClean,
       AutoClean, money
  <2>2. /\ work[x].r = r /\ r \in paid /\ r \in refunds' /\ past' = past
        /\ UNCHANGED <<client, create, net, orders, paid>>
        /\ work[x].pc \in {"refund", "settle"}
    BY <1>3, <2>1 DEF MoneySame, CancelRefund, AutoSettle, AtWork, NoFault, fixed, keys
  <2>3. WithHold(x, r)
    BY <2>2 DEF WithHold, HasHold
  <2>4. CASE client # "typed" \/ r \in past.troubled
    BY <2>2, <2>4 DEF Fate
  <2>5. CASE client = "typed" /\ r \notin past.troubled
    <3>1. create[r].pc = "created" /\ Worked(x, r)
      BY <2>3, <2>5, Alone DEF AccountInv
    <3>2. r \notin orders
      BY <2>2, <3>1 DEF Worked, Sold
    <3> QED
      BY <2>2, <2>5, <3>1, <3>2 DEF Fate
  <2> QED
    BY <2>2, <2>4, <2>5
<1>4. ASSUME \/ \E u \in Users : UserHoldExpires(u)
             \/ \E k \in locks : LockExpires(k)
             \/ UNCHANGED vars
      PROVE  MoneySame(r)
  BY <1>4 DEF MoneySame, UserHoldExpires, LockExpires, vars, money
<1> QED
  BY <1>1, <1>2, <1>3, <1>4 DEF Next

\* A creation that has ended is not taken up again, and units are taken in its
\* course alone.
LEMMA CreationMoves ==
  ASSUME TypeOK, [Next]_vars, NEW r \in Reservations
  PROVE  /\ client' = client
         /\ \/ create'[r] = create[r]
            \/ Create(r) \/ CrashCreate(r)
         /\ create[r].pc = "created" =>
              /\ create'[r] = create[r]
              /\ \A l \in Lines : net'[r][l] <= net[r][l]
<1>1. \A s \in Reservations : Create(s) \/ CrashCreate(s) =>
        /\ create[s].pc # "created"
        /\ client' = client
        /\ s # r => create'[r] = create[r] /\ net'[r] = net[r]
  <2>1. \A s \in Reservations : Create(s) \/ CrashCreate(s) => create[s].pc # "created"
    BY DEF Create, Acquire, LookAtHolder, Steal, Reacquire, ReserveLine, Persist,
       RollBackUserHold, RollBackLines, CrashCreate
  <2> QED
    BY <2>1, OthersCreate
<1>2. ASSUME \A s \in Reservations : ~ (Create(s) \/ CrashCreate(s))
      PROVE  client' = client /\ create' = create
  <2>1. ASSUME NEW s \in Reservations,
               \/ Pay(s) \/ TimeUp(s) \/ HoldExpires(s) \/ SnapshotExpires(s)
               \/ \E x \in Handlers : Request(x, s)
               \/ \E x \in Reapers : Tick(x, s)
        PROVE  client' = client /\ create' = create
    BY <2>1 DEF Request, Tick, CancelLoad, ConfirmLock, ReapLock, AutoMissing, AutoLock,
       Pay, TimeUp, HoldExpires, SnapshotExpires, fixed
  <2>2. ASSUME NEW x \in Workers, Continue(x) \/ CrashWork(x)
        PROVE  client' = client /\ create' = create
    BY <2>2 DEF Continue, CrashWork, CancelMissing, CancelRefund, CancelRelease,
       CancelUnlock, CancelClean, ConfirmMissing, ConfirmExpired, ConfirmLive, ConfirmPay,
       ConfirmOrder, ConfirmUnlock, ConfirmClean, ConfirmEnd, ReapLoad, ReapMissing,
       ReapRelease, ReapUnlock, ReapSnapshot, ReapClean, AutoSettle, AutoClean, fixed
  <2>3. CASE \/ \E u \in Users : UserHoldExpires(u)
             \/ \E k \in locks : LockExpires(k)
             \/ UNCHANGED vars
    BY <2>3 DEF UserHoldExpires, LockExpires, vars, fixed
  <2> QED
    BY <1>2, <2>1, <2>2, <2>3 DEF Next
<1>3. net[r] \in [Lines -> Int] /\ \A l \in Lines : net[r][l] \in Int
  BY DEF TypeOK
<1>4. ASSUME NEW s \in Reservations, NEW lines, NEW told, GiveBack(s, lines, told)
      PROVE  \A l \in Lines : net'[r][l] <= net[r][l]
  <2>1. PICK done \in SUBSET lines :
          net' = [net EXCEPT ![s] = [l \in Lines |-> IF l \in done THEN @[l] - 1
                                                                   ELSE @[l]]]
    BY <1>4 DEF GiveBack
  <2>2. net \in [Reservations -> [Lines -> Int]]
    BY DEF TypeOK
  <2>3. CASE s = r
    BY <1>3, <2>1, <2>2, <2>3
  <2>4. CASE s # r
    BY <1>3, <2>1, <2>2, <2>4
  <2> QED
    BY <2>3, <2>4
<1>5. ASSUME create[r].pc = "created"
      PROVE  \A l \in Lines : net'[r][l] <= net[r][l]
  <2>1. CASE net' = net
    BY <1>3, <2>1
  <2>2. ASSUME NEW s \in Reservations, ReserveLine(s) \/ RollBackLines(s)
        PROVE  \A l \in Lines : net'[r][l] <= net[r][l]
    BY <1>1, <1>3, <1>5, <2>2 DEF Create
  <2>3. ASSUME NEW x \in Workers, CancelRelease(x) \/ ReapRelease(x)
        PROVE  \A l \in Lines : net'[r][l] <= net[r][l]
    <3>1. work[x].r \in Reservations
      BY <2>3, BusyWorks DEF CancelRelease, ReapRelease, AtWork
    <3>2. \E told \in SUBSET work[x].lines : GiveBack(work[x].r, work[x].lines, told)
      BY <2>3 DEF CancelRelease, ReapRelease
    <3> QED
      BY <1>4, <3>1, <3>2
  <2> QED
    BY <2>1, <2>2, <2>3, NetMoves
<1> QED
  BY <1>1, <1>2, <1>5

\* What has gone wrong, and what is ordered, stays so.
LEMMA TroublesStay ==
  ASSUME TypeOK, [Next]_vars
  PROVE  past.troubled \subseteq past'.troubled
<1>1. ASSUME NEW r \in Reservations, Create(r) \/ CrashCreate(r)
      PROVE  past.troubled \subseteq past'.troubled
  BY <1>1, OthersCreate
<1>2. ASSUME NEW x \in Workers, NEW r \in Reservations, Request(x, r) \/ Tick(x, r)
      PROVE  past.troubled \subseteq past'.troubled
  BY <1>2, PastEffects DEF Request, Tick, CancelLoad, ConfirmLock, ReapLock, AutoMissing,
     AutoLock
<1>3. ASSUME NEW x \in Workers, Continue(x) \/ CrashWork(x)
      PROVE  past.troubled \subseteq past'.troubled
  <2>1. work[x].r \in Reservations
    BY <1>3, BusyWorker
  <2>2. CASE CancelRelease(x) \/ ReapRelease(x)
    BY <2>1, <2>2, PastEffects DEF CancelRelease, ReapRelease, GiveBack
  <2>3. CASE ~ (CancelRelease(x) \/ ReapRelease(x))
    BY <1>3, <2>1, <2>3, PastEffects, HoldEffects
       DEF Continue, CrashWork, CancelMissing, CancelRefund, CancelUnlock, CancelClean,
           ConfirmMissing, ConfirmExpired, ConfirmLive, ConfirmPay, ConfirmOrder,
           ConfirmUnlock, ConfirmClean, ConfirmEnd, ReapLoad, ReapMissing, ReapUnlock,
           ReapSnapshot, ReapClean, AutoSettle, AutoClean, UnlockUser, Unindex
  <2> QED
    BY <2>2, <2>3
<1>4. ASSUME \/ \E r \in Reservations : \/ Pay(r) \/ TimeUp(r)
                                        \/ HoldExpires(r) \/ SnapshotExpires(r)
             \/ \E u \in Users : UserHoldExpires(u)
             \/ \E k \in locks : LockExpires(k)
             \/ UNCHANGED vars
      PROVE  past.troubled \subseteq past'.troubled
  BY <1>4 DEF Pay, TimeUp, HoldExpires, SnapshotExpires, UserHoldExpires, LockExpires,
     vars, TypeOK, Pasts
<1> QED
  BY <1>1, <1>2, <1>3, <1>4 DEF Next, Workers

LEMMA OrdersStay ==
  ASSUME [Next]_vars
  PROVE  orders \subseteq orders'
<1>1. ASSUME NEW r \in Reservations,
             \/ Create(r) \/ CrashCreate(r) \/ Pay(r) \/ TimeUp(r)
             \/ HoldExpires(r) \/ SnapshotExpires(r)
             \/ \E x \in Handlers : Request(x, r)
             \/ \E x \in Reapers : Tick(x, r)
      PROVE  orders \subseteq orders'
  BY <1>1 DEF Create, Acquire, LookAtHolder, Steal, Reacquire, ReserveLine, Persist,
     RollBackUserHold, RollBackLines, CrashCreate, Pay, TimeUp, HoldExpires,
     SnapshotExpires, Request, Tick, CancelLoad, ConfirmLock, ReapLock, AutoMissing,
     AutoLock, money
<1>2. ASSUME NEW x \in Workers, Continue(x) \/ CrashWork(x)
      PROVE  orders \subseteq orders'
  BY <1>2 DEF Continue, CrashWork, CancelMissing, CancelRefund, CancelRelease,
     CancelUnlock, CancelClean, ConfirmMissing, ConfirmExpired, ConfirmLive, ConfirmPay,
     ConfirmOrder, ConfirmUnlock, ConfirmClean, ConfirmEnd, ReapLoad, ReapMissing,
     ReapRelease, ReapUnlock, ReapSnapshot, ReapClean, AutoSettle, AutoClean, money
<1>3. ASSUME \/ \E u \in Users : UserHoldExpires(u)
             \/ \E k \in locks : LockExpires(k)
             \/ UNCHANGED vars
      PROVE  orders \subseteq orders'
  BY <1>3 DEF UserHoldExpires, LockExpires, vars, money
<1> QED
  BY <1>1, <1>2, <1>3 DEF Next

\* Where nothing goes wrong and no money moves, a step takes the fate of r on, or
\* leaves it as it is.
LEMMA FateMoves ==
  ASSUME TypeOK, AccountInv, AccountInv', [Next]_vars, NEW r \in Reservations,
         client = "typed", r \notin past.troubled, r \notin past'.troubled, MoneySame(r)
  PROVE  \/ Fate(r)' = Fate(r)
         \/ Fate(r) = "asked" /\ Fate(r)' = "held"
         \/ Fate(r) \in {"asked", "held"} /\ Fate(r)' = "given up"
         \/ /\ Fate(r) = "held" /\ Fate(r)' = "ordered"
            /\ r \in paid /\ r \notin refunds
<1>1. Creating(r) /\ Creating(r)' /\ client' = "typed"
  BY CreationMoves DEF AccountInv, Account
<1>2. CASE create[r].pc # "created" /\ create'[r].pc # "created"
  <2>1. r \notin orders /\ r \notin orders'
    BY <1>1, <1>2 DEF Creating, Untouched
  <2>2. CASE create[r].pc = "refused"
    <3>1. create'[r] = create[r]
      BY <2>2, CreationMoves
         DEF Create, Acquire, LookAtHolder, Steal, Reacquire, ReserveLine, Persist,
             RollBackUserHold, RollBackLines, CrashCreate
    <3> QED
      BY <1>1, <1>2, <2>1, <2>2, <3>1 DEF Fate
  <2>3. CASE create[r].pc # "refused"
    BY <1>1, <1>2, <2>1, <2>3 DEF Fate
  <2> QED
    BY <2>2, <2>3
<1>3. CASE create[r].pc # "created" /\ create'[r].pc = "created"
  <2>1. Persist(r)
    <3>1. LookAtHolder(r) => create'[r].pc # "created"
      BY DEF LookAtHolder, TypeOK, Creations, GoCreate
    <3>2. ReserveLine(r) => create'[r].pc # "created"
      <4>1. create \in [Reservations -> Creations] /\ create[r] \in Creations
        BY DEF TypeOK
      <4> QED
        BY <4>1, CreateEffects DEF ReserveLine, Creations
    <3>3. CrashCreate(r) \/ Acquire(r) \/ Steal(r) \/ Reacquire(r)
            \/ RollBackUserHold(r) \/ RollBackLines(r) => create'[r].pc # "created"
      BY CreateEffects
         DEF Acquire, Steal, Reacquire, RollBackUserHold, RollBackLines, CrashCreate
    <3>4. Create(r) \/ CrashCreate(r)
      BY <1>3, CreationMoves
    <3> QED
      BY <1>3, <3>1, <3>2, <3>3, <3>4 DEF Create
  <2>2. create[r].pc = "persist" /\ net' = net /\ orders' = orders
    BY <2>1 DEF Persist, money
  <2>3. r \notin orders /\ \A l \in Lines : net[r][l] = 1
    BY <1>1, <2>2 DEF Creating, Untouched, Taking, Out
  <2> QED
    BY <1>1, <1>3, <2>2, <2>3 DEF Fate
<1>4. CASE create[r].pc = "created"
  <2>1. create'[r] = create[r] /\ \A l \in Lines : net'[r][l] <= net[r][l]
    BY <1>4, CreationMoves
  <2>2. Held(r) /\ Held(r)'
    BY <1>1, <1>4, <2>1 DEF AccountInv, Account
  <2>3. /\ r \in orders => Out(r, Lines)
        /\ r \in orders' => Out(r, Lines)' /\ r \in paid' /\ r \notin refunds'
    BY <2>2 DEF Held, Rests, Worked, Before, Sold, Given, Settling
  <2>4. Out(r, Lines) \/ Out(r, {})
    BY <2>2 DEF Held, Rests, Worked
  <2>5. r \in orders => r \in orders'
    BY OrdersStay
  <2>6. CASE r \in orders
    BY <1>1, <2>5, <2>6 DEF Fate
  <2>7. CASE r \notin orders /\ r \in orders'
    <3>1. \A l \in Lines : net[r][l] = 1
      BY <2>1, <2>3, <2>4, <2>7 DEF Out
    <3> QED
      BY <1>1, <1>4, <2>1, <2>3, <2>7, <3>1 DEF Fate, MoneySame
  <2>8. CASE r \notin orders /\ r \notin orders'
    <3>1. (\A l \in Lines : net'[r][l] = 1) => (\A l \in Lines : net[r][l] = 1)
      BY <2>1, <2>4 DEF Out
    <3> QED
      BY <1>1, <1>4, <2>1, <2>8, <3>1 DEF Fate
  <2> QED
    BY <2>6, <2>7, <2>8
<1> QED
  BY <1>2, <1>3, <1>4

\* Each reservation keeps to Booking, whatever the numbers of reservations,
\* users, lines, handlers, reapers and faults.
THEOREM KeepsPromises == Spec => PromisesKept
<1>1. Init => \A r \in Reservations : Promise(r)!Init
  <2> SUFFICES ASSUME Init, NEW r \in Reservations PROVE Promise(r)!Init
    OBVIOUS
  <2>1. r \notin paid /\ r \notin refunds /\ Fate(r) \in {"asked", "unknown"}
    BY DEF Init, Fate
  <2> QED
    BY <2>1 DEF Promise!Init
<1>2. ASSUME TypeOK, AccountInv, AccountInv', [Next]_vars, NEW r \in Reservations
      PROVE  [Promise(r)!Next]_(Promise(r)!vars)
  <2> USE DEF Promise!Next, Promise!vars, Promise!Hold, Promise!Order, Promise!GiveUp,
              Promise!GoWrong, Promise!Pay, Promise!Refund
  <2>1. CASE ~ MoneySame(r)
    <3>1. Fate(r)' = Fate(r)
      BY <1>2, <2>1, MoneyMoves DEF Fate
    <3> QED
      BY <1>2, <2>1, <3>1, MoneyMoves DEF MoneySame
  <2>2. CASE MoneySame(r) /\ (client # "typed" \/ r \in past'.troubled)
    <3>1. Fate(r)' = "unknown"
      BY <1>2, <2>2, CreationMoves DEF Fate
    <3> QED
      BY <2>2, <3>1 DEF MoneySame
  <2>3. CASE MoneySame(r) /\ client = "typed" /\ r \notin past'.troubled
    <3>1. r \notin past.troubled
      BY <1>2, <2>3, TroublesStay
    <3>2. \/ Fate(r)' = Fate(r)
          \/ Fate(r) = "asked" /\ Fate(r)' = "held"
          \/ Fate(r) \in {"asked", "held"} /\ Fate(r)' = "given up"
          \/ /\ Fate(r) = "held" /\ Fate(r)' = "ordered"
             /\ r \in paid /\ r \notin refunds
      BY <1>2, <2>3, <3>1, FateMoves
    <3>3. UNCHANGED <<r \in paid, r \in refunds>>
      BY <2>3 DEF MoneySame
    <3>4. CASE Fate(r)' = Fate(r)
      BY <3>3, <3>4
    <3>5. CASE Fate(r) = "asked" /\ Fate(r)' = "held"
      BY <3>3, <3>5
    <3>6. CASE Fate(r) \in {"asked", "held"} /\ Fate(r)' = "given up"
      BY <3>3, <3>6
    <3>7. CASE /\ Fate(r) = "held" /\ Fate(r)' = "ordered"
               /\ r \in paid /\ r \notin refunds
      BY <3>3, <3>7
    <3> QED
      BY <3>2, <3>4, <3>5, <3>6, <3>7
  <2> QED
    BY <2>1, <2>2, <2>3
<1>3. [Next]_vars /\ TypeOK /\ AccountInv /\ AccountInv'
        => [\A r \in Reservations : [Promise(r)!Next]_(Promise(r)!vars)]_vars
  BY <1>2
<1> QED
  BY <1>1, <1>3, InitTyped, InitAccounted, NextTyped, NextAccounted,
     PTL DEF Spec, PromisesKept
=============================================================================
