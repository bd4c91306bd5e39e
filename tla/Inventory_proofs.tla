-------------------------- MODULE Inventory_proofs --------------------------
(***************************************************************************)
(* Theorems about Inventory, for every set of requests, capacity, number   *)
(* of shards, number of probes and bound on repeated releases.             *)
(***************************************************************************)
EXTENDS MCInventory, Sums

\* A probe always lands on an existing shard (buildProbeOrder).
LEMMA ProbeInRange ==
  ASSUME NEW m \in Nat \ {0}, NEW f \in Nat, NEW k \in Nat
  PROVE  ProbeAt(f, k, m) \in 0 .. m - 1
BY DEF ProbeAt

\* Dividing a capacity leaves no negative share.
LEMMA DivNat ==
  ASSUME NEW c \in Nat, NEW m \in Nat \ {0}
  PROVE  c \div m \in Nat
OBVIOUS

\* seed.lua never writes a negative counter, whatever key it writes to.
LEMMA SeedNat ==
  ASSUME NEW pos \in Int, NEW c \in Nat, NEW m \in Nat \ {0}
  PROVE  SeedValueAt(pos, c, m) \in Nat
<1>1. CASE pos \notin FilledPos(m)
  BY <1>1 DEF SeedValueAt
<1>2. CASE pos \in FilledPos(m)
  <2>1. pos - 2 \in 0 .. m - 1
    BY <1>2 DEF FilledPos
  <2>2. AllocateShards(c, m)[pos - 2]
          = (c \div m) + (IF pos - 2 < c % m THEN 1 ELSE 0)
    BY <2>1 DEF AllocateShards
  <2>3. AllocateShards(c, m)[pos - 2] \in Nat
    BY <2>2, DivNat
  <2> QED
    BY <1>2, <2>3 DEF SeedValueAt
<1> QED
  BY <1>1, <1>2

-----------------------------------------------------------------------------
LEMMA SeedTypes ==
  /\ \A i \in Shards : ShardSeed(i) \in Nat
  /\ VersionSeed \in Nat
  /\ 0 \in Shards
<1>1. ASSUME NEW i \in Shards PROVE ShardSeed(i) \in Nat
  <2>1. ShardKeyPos(i) \in Int
    BY DEF ShardKeyPos, Shards
  <2> QED
    BY <2>1, SeedNat, InventoryAssumption DEF ShardSeed
<1>2. VersionSeed \in Nat
  BY SeedNat, InventoryAssumption DEF VersionSeed, VersionKeyPos
<1>3. 0 \in Shards
  BY InventoryAssumption DEF Shards
<1> QED
  BY <1>1, <1>2, <1>3

LEMMA ProbedShardType ==
  ASSUME TypeOK, NEW r \in Requests
  PROVE  ProbedShard(r) \in Shards
<1>1. req[r].first \in Nat /\ req[r].probes \in Nat
  BY DEF TypeOK, Request, Shards
<1> QED
  BY <1>1, ProbeInRange, InventoryAssumption DEF ProbedShard, Shards

LEMMA InitIInv == Init => IInv
<1> SUFFICES ASSUME Init PROVE IInv
  OBVIOUS
<1>1. TypeOK
  BY SeedTypes DEF Init, TypeOK, NoRequest, Request, ReqState
<1>2. StockAccounted
  BY SeedTypes DEF Init, StockAccounted
<1>3. DistinctVersions
  BY DEF Init, DistinctVersions
<1>4. QuietBeforeSeed
  BY DEF Init, QuietBeforeSeed, NoRequest
<1> QED
  BY <1>1, <1>2, <1>3, <1>4 DEF IInv

-----------------------------------------------------------------------------
(* Each action keeps IInv. *)

LEMMA SeedStep == IInv /\ Seed => IInv'
<1> SUFFICES ASSUME IInv, Seed PROVE IInv'
  OBVIOUS
<1> USE DEF IInv, Seed
<1>1. TypeOK'
  BY SeedTypes DEF TypeOK
<1>2. StockAccounted'
  BY SeedTypes DEF StockAccounted, QuietBeforeSeed, TypeOK
<1>3. DistinctVersions'
  BY DEF DistinctVersions, Stamped, QuietBeforeSeed
<1>4. QuietBeforeSeed'
  BY DEF QuietBeforeSeed
<1> QED
  BY <1>1, <1>2, <1>3, <1>4

LEMMA ExpireStep == IInv /\ Expire => IInv'
<1> SUFFICES ASSUME IInv, Expire PROVE IInv'
  OBVIOUS
<1> USE DEF IInv, Expire
<1>1. TypeOK'
  BY DEF TypeOK
<1>2. StockAccounted'
  <2> SUFFICES ASSUME NEW i \in Shards
               PROVE  shard'[i] + out'[i] <= ShardSeed(i)
    BY DEF StockAccounted
  <2>1. shard[i] + out[i] = ShardSeed(i)
    BY DEF StockAccounted
  <2>2. shard'[i] = 0 \/ shard'[i] = shard[i]
    OBVIOUS
  <2>3. shard[i] \in Nat /\ out[i] \in Int /\ ShardSeed(i) \in Nat
    BY SeedTypes DEF TypeOK
  <2> QED
    BY <2>1, <2>2, <2>3
<1>3. DistinctVersions'
  BY DEF DistinctVersions
<1>4. QuietBeforeSeed'
  BY DEF QuietBeforeSeed
<1> QED
  BY <1>1, <1>2, <1>3, <1>4

LEMMA StartStep ==
  ASSUME IInv, NEW r \in Requests, Start(r)
  PROVE  IInv'
<1> USE DEF IInv, Start
<1> PICK q \in Quantities, f \in Shards :
      req' = [req EXCEPT ![r] = [NoRequest EXCEPT !.pc = "probing",
                                                  !.qty = q, !.first = f]]
  OBVIOUS
<1>1. TypeOK'
  <2>1. [NoRequest EXCEPT !.pc = "probing", !.qty = q, !.first = f] \in Request
    BY SeedTypes, InventoryAssumption DEF NoRequest, Request, ReqState
  <2> QED
    BY <2>1 DEF TypeOK
<1>2. StockAccounted'
  BY DEF StockAccounted
<1>3. DistinctVersions'
  BY DEF DistinctVersions, Stamped, NoRequest, TypeOK
<1>4. QuietBeforeSeed'
  BY DEF QuietBeforeSeed
<1> QED
  BY <1>1, <1>2, <1>3, <1>4

LEMMA ReserveShortStep ==
  ASSUME IInv, NEW r \in Requests, ReserveShort(r)
  PROVE  IInv'
<1> USE DEF IInv, ReserveShort
<1>1. TypeOK'
  <2> DEFINE k == req[r].probes + 1
             pc == IF k < ProbeCount(ExtraProbes, ShardCount)
                   THEN "probing" ELSE "rejected"
  <2>1. k \in Nat /\ pc \in ReqState
    BY DEF TypeOK, Request, ReqState
  <2>2. [req[r] EXCEPT !.probes = k, !.pc = pc] \in Request
    <3> HIDE DEF k, pc
    <3> QED
      BY <2>1 DEF TypeOK, Request
  <2>3. req' = [req EXCEPT ![r] = [@ EXCEPT !.probes = k, !.pc = pc]]
    OBVIOUS
  <2> HIDE DEF k, pc
  <2> QED
    BY <2>2, <2>3 DEF TypeOK
<1>2. StockAccounted'
  BY DEF StockAccounted
<1>3. DistinctVersions'
  BY DEF DistinctVersions, Stamped, TypeOK, Request
<1>4. QuietBeforeSeed'
  BY DEF QuietBeforeSeed
<1> QED
  BY <1>1, <1>2, <1>3, <1>4

\* A change of one shard stamped with the incremented version: what ReserveOk
\* and Release have in common.
LEMMA StampStep ==
  ASSUME IInv, NEW r \in Requests, NEW i \in Shards, NEW d \in Int,
         req[r].pc # "idle",
         shard[i] - d \in Nat,
         shard' = [shard EXCEPT ![i] = @ - d],
         out' = [out EXCEPT ![i] = @ + d],
         version' = version + 1,
         req' \in [Requests -> Request],
         Stamped(r)',
         req'[r].ver = version + 1,
         \A s \in Requests \ {r} : req'[s] = req[s],
         keys' = keys
  PROVE  IInv'
<1> USE DEF IInv
<1>1. TypeOK'
  BY DEF TypeOK
<1>2. StockAccounted'
  <2> SUFFICES ASSUME NEW j \in Shards
               PROVE  shard'[j] + out'[j] = shard[j] + out[j]
    BY DEF StockAccounted
  <2>1. shard[j] \in Nat /\ out[j] \in Int
    BY DEF TypeOK
  <2>2. CASE j = i
    BY <2>1, <2>2 DEF TypeOK
  <2>3. CASE j # i
    BY <2>1, <2>3 DEF TypeOK
  <2> QED
    BY <2>2, <2>3
<1>3. DistinctVersions'
  <2> SUFFICES ASSUME keys = "live", NEW s \in Requests, Stamped(s)'
               PROVE  /\ req'[s].ver <= version'
                      /\ \A t \in Requests :
                           s # t /\ Stamped(t)' => req'[s].ver # req'[t].ver
    BY DEF DistinctVersions
  <2>1. \A t \in Requests \ {r} :
          Stamped(t)' => /\ Stamped(t)
                         /\ req'[t].ver = req[t].ver
                         /\ req[t].ver <= version
    BY DEF DistinctVersions, Stamped
  <2>2. version \in Nat /\ \A t \in Requests : req[t].ver \in Nat
    BY DEF TypeOK, Request
  <2>3. CASE s = r
    BY <2>1, <2>2, <2>3
  <2>4. CASE s # r
    BY <2>1, <2>2, <2>4 DEF DistinctVersions
  <2> QED
    BY <2>3, <2>4
<1>4. QuietBeforeSeed'
  BY DEF QuietBeforeSeed
<1> QED
  BY <1>1, <1>2, <1>3, <1>4

LEMMA ReserveOkStep ==
  ASSUME IInv, NEW r \in Requests, ReserveOk(r)
  PROVE  IInv'
<1> DEFINE i == ProbedShard(r)
           d == req[r].qty
<1>1. i \in Shards
  BY ProbedShardType DEF IInv
<1>2. d \in Nat /\ shard[i] \in Nat
  BY <1>1 DEF IInv, TypeOK, Request
<1>3. d \in Int /\ shard[i] - d \in Nat
  BY <1>2 DEF ReserveOk
<1>4. req' \in [Requests -> Request]
  <2> DEFINE q == [req[r] EXCEPT !.pc = "reserved", !.at = i, !.ver = version + 1]
  <2>1. req[r] \in Request /\ version + 1 \in Nat
    BY DEF IInv, TypeOK
  <2>2. q \in Request
    <3> HIDE DEF i
    <3> QED
      BY <1>1, <2>1 DEF Request, ReqState
  <2>3. req' = [req EXCEPT ![r] = q]
    BY DEF ReserveOk
  <2> HIDE DEF q
  <2> QED
    BY <2>2, <2>3 DEF IInv, TypeOK
<1>5. Stamped(r)' /\ req'[r].ver = version + 1 /\ req[r].pc # "idle"
  BY DEF ReserveOk, Stamped, IInv, TypeOK, Request
<1>6. \A s \in Requests \ {r} : req'[s] = req[s]
  BY DEF ReserveOk, IInv, TypeOK
<1>7. /\ shard' = [shard EXCEPT ![i] = @ - d]
      /\ out' = [out EXCEPT ![i] = @ + d]
      /\ version' = version + 1
      /\ keys' = keys
  BY DEF ReserveOk
<1> HIDE DEF i, d
<1> QED
  BY <1>1, <1>2, <1>3, <1>4, <1>5, <1>6, <1>7, StampStep

LEMMA ReleaseStep ==
  ASSUME IInv, NEW r \in Requests, Release(r)
  PROVE  IInv'
<1> DEFINE i == req[r].at
           d == 0 - req[r].qty
<1> USE DEF Release, ReleaseAt
<1>1. i \in Shards
  BY DEF IInv, TypeOK, Request
<1>2. req[r].qty \in Nat /\ shard[i] \in Nat /\ out[i] \in Int
  BY <1>1 DEF IInv, TypeOK, Request
<1>3. d \in Int /\ shard[i] - d \in Nat
  BY <1>2
<1>4. req' \in [Requests -> Request]
  <2> DEFINE q == [req[r] EXCEPT !.pc = "released", !.ver = version + 1,
                                 !.releases = req[r].releases + 1]
  <2>1. req[r] \in Request /\ version + 1 \in Nat
    BY DEF IInv, TypeOK
  <2>2. q \in Request
    <3> DEFINE n == req[r].releases + 1
    <3>1. n \in Nat
      BY <2>1 DEF Request
    <3>2. q = [req[r] EXCEPT !.pc = "released", !.ver = version + 1,
                             !.releases = n]
      OBVIOUS
    <3> HIDE DEF i, d, n, q
    <3> QED
      BY <2>1, <3>1, <3>2 DEF Request, ReqState
  <2>3. req' = [req EXCEPT ![r] = q]
    BY DEF IInv, TypeOK
  <2> HIDE DEF q
  <2> QED
    BY <2>2, <2>3 DEF IInv, TypeOK
<1>5. Stamped(r)' /\ req'[r].ver = version + 1 /\ req[r].pc # "idle"
  BY DEF Stamped, IInv, TypeOK, Request
<1>6. \A s \in Requests \ {r} : req'[s] = req[s]
  BY DEF IInv, TypeOK
<1>7. /\ shard[i] + req[r].qty = shard[i] - d
      /\ out[i] - req[r].qty = out[i] + d
  BY <1>2
<1>8. /\ shard' = [shard EXCEPT ![i] = @ - d]
      /\ out' = [out EXCEPT ![i] = @ + d]
      /\ version' = version + 1
      /\ keys' = keys
  BY <1>7
<1> HIDE DEF i, d
<1> QED
  BY <1>1, <1>3, <1>4, <1>5, <1>6, <1>8, StampStep

LEMMA NextIInv == IInv /\ [Next]_vars => IInv'
<1> SUFFICES ASSUME IInv, [Next]_vars PROVE IInv'
  OBVIOUS
<1>1. CASE Seed
  BY <1>1, SeedStep
<1>2. CASE Expire
  BY <1>2, ExpireStep
<1>3. ASSUME NEW r \in Requests, Start(r) PROVE IInv'
  BY <1>3, StartStep
<1>4. ASSUME NEW r \in Requests, ReserveOk(r) PROVE IInv'
  BY <1>4, ReserveOkStep
<1>5. ASSUME NEW r \in Requests, ReserveShort(r) PROVE IInv'
  BY <1>5, ReserveShortStep
<1>6. ASSUME NEW r \in Requests, Release(r) PROVE IInv'
  BY <1>6, ReleaseStep
<1>7. CASE UNCHANGED vars
  BY <1>7 DEF vars, IInv, TypeOK, StockAccounted, DistinctVersions, Stamped,
              QuietBeforeSeed
<1> QED
  BY <1>1, <1>2, <1>3, <1>4, <1>5, <1>6, <1>7 DEF Next

-----------------------------------------------------------------------------
LEMMA Invariance == Spec => []IInv
  BY InitIInv, NextIInv, PTL DEF Spec

\* Counters never go below zero and every request names an existing shard.
THEOREM TypeCorrect == Spec => []TypeOK
  BY Invariance, PTL DEF IInv

\* On every shard, units in stock and units handed out add up to what the
\* seeding script put there; expiry only takes away.  Holds for any number of
\* repeated releases: then the units handed out may become negative.
THEOREM StockIsAccounted == Spec => []StockAccounted
  BY Invariance, PTL DEF IInv

\* Changes of the stock carry distinct versions while the version key lives.
THEOREM VersionsAreDistinct == Spec => []DistinctVersions
  BY Invariance, PTL DEF IInv

-----------------------------------------------------------------------------
(***************************************************************************)
(* The shards together.  Sums need finitely many requests; and the units a *)
(* request holds are those out of its shard only if the caller releases a  *)
(* reservation once, for release.lua does not remember that it has.        *)
(***************************************************************************)
LEMMA Distributes == ASSUME NEW d \in Nat, NEW k \in Nat PROVE (k + 1) * d = k * d + d
OBVIOUS

LEMMA Divides ==
  ASSUME NEW c \in Nat, NEW m \in Nat \ {0}
  PROVE  /\ m * (c \div m) + (c % m) = c
         /\ c % m \in 0 .. m - 1 /\ c \div m \in Nat
OBVIOUS

\* allocateShards splits a capacity without a rest (sharding.js:4).
LEMMA AllocatesAll ==
  ASSUME NEW c \in Nat, NEW m \in Nat \ {0}
  PROVE  SumOver(AllocateShards(c, m), 0 .. m - 1) = c
<1> DEFINE a == AllocateShards(c, m)
           d == c \div m
           e == c % m
           good == {k \in Nat : k <= m =>
                      SumOver(a, 0 .. k - 1) = k * d + (IF k <= e THEN k ELSE e)}
<1>1. d \in Nat /\ e \in 0 .. m - 1 /\ m * d + e = c
  BY Divides
<1>2. \A i \in 0 .. m - 1 : a[i] = d + (IF i < e THEN 1 ELSE 0) /\ a[i] \in Int
  BY <1>1 DEF AllocateShards
<1> HIDE DEF a, d, e
<1>3. 0 \in good
  <2>1. 0 .. 0 - 1 = {}
    OBVIOUS
  <2>2. SumOver(a, 0 .. 0 - 1) = 0
    BY <2>1, SumOfNone, FS_EmptySet
  <2>3. 0 * d = 0
    BY <1>1
  <2> QED
    BY <1>1, <2>2, <2>3
<1>4. ASSUME NEW k \in good PROVE k + 1 \in good
  <2> SUFFICES ASSUME k + 1 <= m
               PROVE  SumOver(a, 0 .. (k + 1) - 1)
                        = (k + 1) * d + (IF k + 1 <= e THEN k + 1 ELSE e)
    OBVIOUS
  <2> DEFINE T == 0 .. k
  <2>1. k \in Nat /\ SumOver(a, 0 .. k - 1) = k * d + (IF k <= e THEN k ELSE e)
    OBVIOUS
  <2> HIDE DEF good
  <2>2. T = 0 .. (k + 1) - 1 /\ T \ {k} = 0 .. k - 1 /\ k \in T /\ k \in 0 .. m - 1
    BY <2>1
  <2>3. IsFiniteSet(T) /\ \A i \in T : a[i] \in Int
    BY <1>2, <2>1, FS_Interval
  <2>4. SumOver(a, T) = a[k] + SumOver(a, T \ {k})
    <3> HIDE DEF T
    <3> QED
      BY <2>2, <2>3, SumTakes
  <2>5. (k + 1) * d = k * d + d /\ k * d \in Int
    BY <1>1, <2>1, Distributes
  <2>6. a[k] = d + (IF k < e THEN 1 ELSE 0)
    BY <1>2, <2>2
  <2>7. SumOver(a, T \ {k}) = k * d + (IF k <= e THEN k ELSE e)
    BY <2>1, <2>2
  <2>8. PICK p \in Int : p = k * d /\ (k + 1) * d = p + d
    BY <2>5
  <2>9. SumOver(a, T) = p + d + (IF k + 1 <= e THEN k + 1 ELSE e)
    BY <1>1, <2>1, <2>4, <2>6, <2>7, <2>8
  <2>10. SumOver(a, T) = (k + 1) * d + (IF k + 1 <= e THEN k + 1 ELSE e)
    BY <2>8, <2>9
  <2> QED
    BY <2>2, <2>10
<1>5. m \in good
  <2>1. good \in SUBSET Nat
    OBVIOUS
  <2> HIDE DEF good
  <2>2. good = Nat
    BY <1>3, <1>4, <2>1, NaturalInduction
  <2> QED
    BY <2>2
<1>6. SumOver(a, 0 .. m - 1) = m * d + (IF m <= e THEN m ELSE e)
  BY <1>5
<1>7. SumOver(a, 0 .. m - 1) = c
  BY <1>1, <1>6
<1> QED
  BY <1>7 DEF a

\* seed.lua's shift fills no shard with more than allocateShards gives it.
LEMMA SeedAtMostAllocated ==
  ASSUME NEW i \in Shards
  PROVE  /\ AllocateShards(Capacity, ShardCount)[i] \in Nat
         /\ ShardSeed(i) <= AllocateShards(Capacity, ShardCount)[i]
<1> DEFINE a == AllocateShards(Capacity, ShardCount)
           d == Capacity \div ShardCount
           e == Capacity % ShardCount
<1>1. d \in Nat /\ e \in 0 .. ShardCount - 1
  BY Divides, InventoryAssumption
<1>2. \A j \in Shards : a[j] = d + (IF j < e THEN 1 ELSE 0)
  BY DEF AllocateShards, Shards
<1>3. ShardSeed(i) = 0 \/ (i + 2 \in Shards /\ ShardSeed(i) = a[i + 2])
  BY InventoryAssumption DEF ShardSeed, SeedValueAt, ShardKeyPos, FilledPos, Shards
<1>4. i \in Nat
  BY DEF Shards
<1> HIDE DEF a, d, e
<1>5. a[i] \in Nat /\ ShardSeed(i) <= a[i]
  BY <1>1, <1>2, <1>3, <1>4
<1> QED
  BY <1>5 DEF a

LEMMA SeedsFit ==
  ASSUME NEW f, \A i \in Shards : f[i] = ShardSeed(i)
  PROVE  Total(f) \in 0 .. Capacity
<1> DEFINE a == AllocateShards(Capacity, ShardCount)
<1>1. IsFiniteSet(Shards)
  BY InventoryAssumption, FS_Interval DEF Shards
<1>2. SumOver(a, Shards) = Capacity
  BY AllocatesAll, InventoryAssumption DEF Shards
<1>3. \A i \in Shards : /\ a[i] \in Nat /\ f[i] \in Nat
                        /\ a[i] \in Int /\ f[i] \in Int /\ f[i] <= a[i]
  BY SeedAtMostAllocated, SeedTypes
<1> HIDE DEF a
<1>4. SumOver(f, Shards) <= SumOver(a, Shards) /\ SumOver(f, Shards) \in Nat
  BY <1>1, <1>3, SumAtMost, SumNat
<1> QED
  BY <1>2, <1>4, InventoryAssumption DEF Total, SumOver

Qty == [r \in Requests |-> req[r].qty]
Holders(i) == {r \in Requests : req[r].pc = "reserved" /\ req[r].at = i}

Repeaters(i) == {r \in Requests : req[r].pc = "released" /\ req[r].at = i}

\* Whoever reserves and does not release holds what is out; whoever releases again
\* takes it back in once more.
HeldInv ==
  /\ keys = "unseeded" => \A i \in Shards : shard[i] = 0
  /\ \A r \in Requests :
       /\ IF req[r].pc = "released" THEN req[r].releases \in 1 .. MaxReleases
                                   ELSE req[r].releases = 0
       /\ req[r].pc # "idle" => req[r].qty >= 1
  /\ \A i \in Shards : out[i] = HeldFrom(i) - RepeatedTo(i)

LEMMA HeldIsSum == \A i \in Shards : HeldFrom(i) = SumOver(Qty, Holders(i))
BY DEF HeldFrom, SumOver, Qty, Holders

LEMMA HeldTypes ==
  ASSUME IsFiniteSet(Requests), TypeOK
  PROVE  /\ \A r \in Requests : Qty[r] \in Nat /\ Qty[r] \in Int /\ Qty[r] = req[r].qty
         /\ \A i \in Shards : IsFiniteSet(Holders(i)) /\ Holders(i) \subseteq Requests
<1>1. \A i \in Shards : Holders(i) \in SUBSET Requests
  BY DEF Holders
<1> QED
  BY <1>1, FS_Subset DEF Qty, TypeOK, Request

LEMMA RepeatedIsSum ==
  \A i \in Shards : /\ RepeatedTo(i) = SumOver(Repeated, Repeaters(i))
                    /\ RepeatedTo(i)' = SumOver(Repeated', Repeaters(i)')
BY DEF RepeatedTo, SumOver, Repeaters, Repeated

LEMMA RepeatedTypes ==
  ASSUME IsFiniteSet(Requests), TypeOK
  PROVE  /\ \A r \in Requests : Repeated[r] \in Int
         /\ \A i \in Shards : /\ IsFiniteSet(Repeaters(i)) /\ Repeaters(i) \subseteq Requests
                              /\ RepeatedTo(i) \in Int /\ HeldFrom(i) \in Int
<1>1. \A i \in Shards : Repeaters(i) \subseteq Requests /\ IsFiniteSet(Repeaters(i))
  <2>1. \A i \in Shards : Repeaters(i) \in SUBSET Requests
    BY DEF Repeaters
  <2> QED
    BY <2>1, FS_Subset
<1>2. \A r \in Requests : Repeated[r] \in Int
  <2> SUFFICES ASSUME NEW r \in Requests PROVE Repeated[r] \in Int
    OBVIOUS
  <2>1. req[r].qty \in Int /\ req[r].releases - 1 \in Int
    BY DEF TypeOK, Request
  <2>2. Repeated[r] = req[r].qty * (req[r].releases - 1)
    BY DEF Repeated
  <2> QED
    BY <2>1, <2>2
<1>3. ASSUME NEW i \in Shards PROVE RepeatedTo(i) \in Int
  <2>1. SumOver(Repeated, Repeaters(i)) \in Int
    BY <1>1, <1>2, SumRest
  <2> QED
    BY <2>1, RepeatedIsSum
<1>4. ASSUME NEW i \in Shards PROVE HeldFrom(i) \in Int
  <2>1. IsFiniteSet(Holders(i)) /\ \A r \in Holders(i) : Qty[r] \in Int
    BY HeldTypes
  <2>2. SumOver(Qty, Holders(i)) \in Int
    BY <2>1, SumRest
  <2> QED
    BY <2>2, HeldIsSum
<1> QED
  BY <1>1, <1>2, <1>3, <1>4

LEMMA HeldInit == IsFiniteSet(Requests) /\ Init => HeldInv
<1> SUFFICES ASSUME IsFiniteSet(Requests), Init PROVE HeldInv
  OBVIOUS
<1>1. \A r \in Requests : req[r].pc = "idle" /\ req[r].releases = 0
  BY DEF Init, NoRequest
<1>2. \A i \in Shards : Holders(i) = {} /\ Repeaters(i) = {}
  BY <1>1 DEF Holders, Repeaters
<1>3. SumOver(Qty, {}) = 0 /\ SumOver(Repeated, {}) = 0
  BY FS_EmptySet, SumOfNone
<1>4. \A i \in Shards : HeldFrom(i) = 0 /\ RepeatedTo(i) = 0
  BY <1>2, <1>3, HeldIsSum, RepeatedIsSum
<1>5. \A i \in Shards : shard[i] = 0 /\ out[i] = 0
  BY DEF Init
<1>6. \A i \in Shards : out[i] = HeldFrom(i) - RepeatedTo(i)
  BY <1>4, <1>5
<1> QED
  BY <1>1, <1>5, <1>6 DEF HeldInv

\* Whoever does not release, before and after, gives nothing back.
LEMMA RepeatedStays ==
  ASSUME IsFiniteSet(Requests), TypeOK, TypeOK', NEW i \in Shards,
         Repeaters(i)' = Repeaters(i), \A r \in Repeaters(i) : Repeated'[r] = Repeated[r]
  PROVE  RepeatedTo(i)' = RepeatedTo(i)
<1>1. IsFiniteSet(Repeaters(i)) /\ \A r \in Repeaters(i) : Repeated[r] \in Int
  BY RepeatedTypes
<1>2. SumOver(Repeated', Repeaters(i)) = SumOver(Repeated, Repeaters(i))
  BY <1>1, SumSame
<1> QED
  BY <1>2, RepeatedIsSum

\* The first release gives nothing back again.
LEMMA RepeatedFirst ==
  ASSUME IsFiniteSet(Requests), TypeOK, TypeOK', NEW r \in Requests, NEW i \in Shards,
         r \notin Repeaters(i), Repeaters(i)' = Repeaters(i) \cup {r},
         \A s \in Repeaters(i) : Repeated'[s] = Repeated[s], Repeated'[r] = 0
  PROVE  RepeatedTo(i)' = RepeatedTo(i)
<1> DEFINE S == Repeaters(i) \cup {r}
<1>1. /\ IsFiniteSet(Repeaters(i)) /\ IsFiniteSet(S) /\ S \ {r} = Repeaters(i)
      /\ \A s \in Repeaters(i) : Repeated[s] \in Int
      /\ \A s \in S : Repeated'[s] \in Int
      /\ r \in S
  BY RepeatedTypes, FS_AddElement
<1> HIDE DEF S
<1>2. SumOver(Repeated', S) = Repeated'[r] + SumOver(Repeated', S \ {r})
  BY <1>1, SumTakes
<1>3. SumOver(Repeated', Repeaters(i)) = SumOver(Repeated, Repeaters(i))
  BY <1>1, SumSame
<1>4. RepeatedTo(i)' = SumOver(Repeated', S)
  BY RepeatedIsSum DEF S
<1>5. RepeatedTo(i) = SumOver(Repeated, Repeaters(i)) /\ RepeatedTo(i) \in Int
  BY RepeatedIsSum, RepeatedTypes
<1>6. SumOver(Repeated', S) = 0 + RepeatedTo(i)
  BY <1>1, <1>2, <1>3, <1>5
<1> QED
  BY <1>4, <1>5, <1>6

\* Every further one gives the units back again.
LEMMA RepeatedAgain ==
  ASSUME IsFiniteSet(Requests), TypeOK, TypeOK', NEW r \in Requests, NEW i \in Shards,
         r \in Repeaters(i), Repeaters(i)' = Repeaters(i),
         \A s \in Repeaters(i) \ {r} : Repeated'[s] = Repeated[s],
         Repeated'[r] = Repeated[r] + req[r].qty
  PROVE  RepeatedTo(i)' = RepeatedTo(i) + req[r].qty
<1>1. /\ IsFiniteSet(Repeaters(i)) /\ \A s \in Repeaters(i) : Repeated[s] \in Int
      /\ req[r].qty \in Int
      /\ \A s \in Repeaters(i) : Repeated'[s] \in Int
  BY RepeatedTypes DEF TypeOK, Request
<1>2. SumOver(Repeated', Repeaters(i)) =
        SumOver(Repeated, Repeaters(i)) + Repeated'[r] - Repeated[r]
  BY ONLY <1>1, r \in Repeaters(i), \A s \in Repeaters(i) \ {r} : Repeated'[s] = Repeated[s],
          SumChanges
<1>3. RepeatedTo(i) \in Int
  BY RepeatedTypes
<1> QED
  BY <1>1, <1>2, <1>3, RepeatedIsSum

\* Requests that do not hold, before and after, do not count.
LEMMA HeldStays ==
  ASSUME IsFiniteSet(Requests), TypeOK, TypeOK', NEW i \in Shards,
         Holders(i)' = Holders(i), \A r \in Holders(i) : req'[r].qty = req[r].qty
  PROVE  HeldFrom(i)' = HeldFrom(i)
<1>1. /\ IsFiniteSet(Holders(i)) /\ \A r \in Holders(i) : Qty[r] \in Int
      /\ \A r \in Holders(i) : Qty'[r] = Qty[r]
  BY HeldTypes DEF Qty, Holders
<1>2. SumOver(Qty', Holders(i)) = SumOver(Qty, Holders(i))
  BY <1>1, SumSame
<1>3. HeldFrom(i) = SumOver(Qty, Holders(i)) /\ HeldFrom(i)' = SumOver(Qty', Holders(i)')
  BY DEF HeldFrom, SumOver, Qty, Holders
<1> QED
  BY <1>2, <1>3

\* The larger set of holders is that after a reservation or before a release.
LEMMA HeldCounts ==
  ASSUME IsFiniteSet(Requests), TypeOK, NEW i \in Shards, NEW r \in Holders(i)
  PROVE  HeldFrom(i) = req[r].qty + SumOver(Qty, Holders(i) \ {r})
<1>1. /\ IsFiniteSet(Holders(i)) /\ \A s \in Holders(i) : Qty[s] \in Int
      /\ Qty[r] = req[r].qty
  BY HeldTypes
<1>2. SumOver(Qty, Holders(i)) = Qty[r] + SumOver(Qty, Holders(i) \ {r})
  BY <1>1, SumTakes
<1> QED
  BY <1>1, <1>2, HeldIsSum

\* A request that held nothing at a shard now holds q there.
LEMMA HeldMore ==
  ASSUME IsFiniteSet(Requests), TypeOK, TypeOK', NEW r \in Requests, NEW i \in Shards,
         r \notin Holders(i), Holders(i)' = Holders(i) \cup {r},
         \A s \in Requests : req'[s].qty = req[s].qty
  PROVE  HeldFrom(i)' = HeldFrom(i) + req[r].qty
<1> DEFINE H == Holders(i) \cup {r}
<1>1. /\ IsFiniteSet(Holders(i)) /\ IsFiniteSet(H) /\ H \ {r} = Holders(i)
      /\ \A s \in H : Qty[s] \in Int /\ Qty[r] = req[r].qty /\ Qty'[s] = Qty[s]
      /\ r \in H
  BY HeldTypes, FS_AddElement DEF Qty
<1> HIDE DEF H
<1>2. SumOver(Qty, H) = Qty[r] + SumOver(Qty, H \ {r})
  BY <1>1, SumTakes
<1>3. SumOver(Qty', H) = SumOver(Qty, H)
  BY <1>1, SumSame
<1>4. HeldFrom(i) = SumOver(Qty, Holders(i)) /\ HeldFrom(i)' = SumOver(Qty', Holders(i)')
  BY DEF HeldFrom, SumOver, Qty, Holders
<1>5. SumOver(Qty, Holders(i)) \in Int
  BY <1>1, SumRest
<1>6. HeldFrom(i)' = SumOver(Qty', H)
  BY <1>4 DEF H
<1>7. Qty[r] = req[r].qty /\ req[r].qty \in Int
  BY <1>1, HeldTypes
<1>8. HeldFrom(i)' = Qty[r] + SumOver(Qty, Holders(i))
  BY <1>1, <1>2, <1>3, <1>6
<1> QED
  BY <1>4, <1>5, <1>7, <1>8

LEMMA HeldLess ==
  ASSUME IsFiniteSet(Requests), TypeOK, TypeOK', NEW r \in Requests, NEW i \in Shards,
         r \in Holders(i), Holders(i)' = Holders(i) \ {r},
         \A s \in Requests : req'[s].qty = req[s].qty
  PROVE  HeldFrom(i)' = HeldFrom(i) - req[r].qty
<1> DEFINE H == Holders(i) \ {r}
<1>1. /\ IsFiniteSet(H) /\ \A s \in H : Qty[s] \in Int /\ Qty'[s] = Qty[s]
  BY HeldTypes, FS_RemoveElement DEF Qty
<1> HIDE DEF H
<1>2. HeldFrom(i) = req[r].qty + SumOver(Qty, H)
  BY HeldCounts DEF H
<1>3. SumOver(Qty', H) = SumOver(Qty, H) /\ SumOver(Qty, H) \in Int
  BY <1>1, SumSame, SumRest
<1>4. HeldFrom(i)' = SumOver(Qty', H)
  BY DEF HeldFrom, SumOver, Qty, Holders, H
<1> QED
  BY <1>2, <1>3, <1>4 DEF TypeOK, Request

LEMMA ReserveHeld ==
  ASSUME IsFiniteSet(Requests), IInv, IInv', HeldInv, NEW r \in Requests, ReserveOk(r)
  PROVE  HeldInv'
<1>1. PICK i \in Shards : i = ProbedShard(r)
  BY ProbedShardType DEF IInv
<1>2. /\ req' = [req EXCEPT ![r] = [@ EXCEPT !.pc = "reserved", !.at = i, !.ver = version + 1]]
      /\ out' = [out EXCEPT ![i] = @ + req[r].qty]
      /\ shard' = [shard EXCEPT ![i] = @ - req[r].qty]
      /\ keys' = keys /\ req[r].pc = "probing"
  BY <1>1 DEF ReserveOk
<1>3. /\ req'[r].pc = "reserved" /\ req'[r].at = i /\ req'[r].qty = req[r].qty
      /\ \A s \in Requests \ {r} : req'[s] = req[s]
  BY <1>2 DEF IInv, TypeOK, Request
<1>4. r \notin Holders(i) /\ Holders(i)' = Holders(i) \cup {r}
  BY <1>2, <1>3 DEF Holders
<1>5. HeldFrom(i)' = HeldFrom(i) + req[r].qty
  BY <1>3, <1>4, HeldMore DEF IInv
<1>6. ASSUME NEW j \in Shards \ {i} PROVE HeldFrom(j)' = HeldFrom(j)
  <2>1. Holders(j)' = Holders(j)
    BY <1>2, <1>3 DEF Holders
  <2> QED
    BY <1>3, <2>1, HeldStays DEF IInv, Holders
<1>7. keys # "unseeded"
  BY <1>2 DEF IInv, QuietBeforeSeed
<1>8. ASSUME NEW j \in Shards PROVE RepeatedTo(j)' = RepeatedTo(j)
  <2>1. Repeaters(j)' = Repeaters(j) /\ r \notin Repeaters(j) /\ Repeaters(j) \subseteq Requests
    BY <1>2, <1>3 DEF Repeaters
  <2>2. \A s \in Repeaters(j) : Repeated'[s] = Repeated[s]
    BY <1>3, <2>1 DEF Repeated
  <2> QED
    BY <2>1, <2>2, RepeatedStays DEF IInv
<1>9. \A j \in Shards : out'[j] = HeldFrom(j)' - RepeatedTo(j)'
  <2>1. \A j \in Shards : /\ HeldFrom(j) \in Int /\ RepeatedTo(j) \in Int
                          /\ out[j] = HeldFrom(j) - RepeatedTo(j)
        /\ req[r].qty \in Int
    BY RepeatedTypes DEF IInv, HeldInv, TypeOK, Request
  <2> QED
    BY <1>2, <1>5, <1>6, <1>8, <2>1 DEF IInv, TypeOK
<1>10. req'[r].releases = 0
  BY <1>2 DEF HeldInv, IInv, TypeOK, Request
<1> QED
  BY <1>2, <1>3, <1>7, <1>9, <1>10 DEF HeldInv

\* Released for the first time the units are no longer held, afterwards they come
\* back once more; either way they are no longer out.
LEMMA ReleaseHeld ==
  ASSUME IsFiniteSet(Requests), IInv, IInv', HeldInv, NEW r \in Requests, Release(r)
  PROVE  HeldInv'
<1>1. PICK i \in Shards : i = req[r].at
  BY DEF IInv, TypeOK, Request
<1>2. /\ req' = [req EXCEPT ![r] = [@ EXCEPT !.pc = "released", !.ver = version + 1,
                                              !.releases = req[r].releases + 1]]
      /\ out' = [out EXCEPT ![i] = @ - req[r].qty]
      /\ keys' = keys /\ req[r].pc \in {"reserved", "released"}
      /\ req[r].releases < MaxReleases /\ req[r].releases \in Nat
      /\ req[r].qty \in Nat
  BY <1>1 DEF Release, ReleaseAt, IInv, TypeOK, Request
<1>3. /\ req'[r].pc = "released" /\ req'[r].at = i /\ req'[r].qty = req[r].qty
      /\ req'[r].releases = req[r].releases + 1
      /\ \A s \in Requests \ {r} : req'[s] = req[s]
  BY <1>1, <1>2 DEF IInv, TypeOK, Request
<1>4. /\ \A s \in Requests \ {r} : Repeated'[s] = Repeated[s]
      /\ Repeated'[r] = req[r].qty * req[r].releases
  BY <1>2, <1>3 DEF Repeated
<1>5. ASSUME NEW j \in Shards \ {i}
      PROVE  HeldFrom(j)' = HeldFrom(j) /\ RepeatedTo(j)' = RepeatedTo(j)
  <2>1. /\ Holders(j)' = Holders(j) /\ r \notin Holders(j) /\ Holders(j) \subseteq Requests
        /\ Repeaters(j)' = Repeaters(j) /\ r \notin Repeaters(j) /\ Repeaters(j) \subseteq Requests
    BY <1>1, <1>3 DEF Holders, Repeaters
  <2>2. HeldFrom(j)' = HeldFrom(j)
    BY <1>3, <2>1, HeldStays DEF IInv
  <2>3. RepeatedTo(j)' = RepeatedTo(j)
    BY <1>4, <2>1, RepeatedStays DEF IInv
  <2> QED
    BY <2>2, <2>3
<1>6. HeldFrom(i)' - RepeatedTo(i)' = HeldFrom(i) - RepeatedTo(i) - req[r].qty
  <2>0. HeldFrom(i) \in Int /\ RepeatedTo(i) \in Int
    BY RepeatedTypes DEF IInv
  <2>1. CASE req[r].pc = "reserved"
    <3>1. /\ r \in Holders(i) /\ Holders(i)' = Holders(i) \ {r}
          /\ r \notin Repeaters(i) /\ Repeaters(i)' = Repeaters(i) \cup {r}
          /\ Repeaters(i) \subseteq Requests
      BY <1>1, <1>3, <2>1 DEF Holders, Repeaters
    <3>2. HeldFrom(i)' = HeldFrom(i) - req[r].qty
      BY <1>3, <3>1, HeldLess DEF IInv
    <3>3. req[r].releases = 0
      BY <2>1 DEF HeldInv
    <3>4. Repeated'[r] = 0
      BY <1>2, <1>4, <3>3
    <3>5. RepeatedTo(i)' = RepeatedTo(i)
      BY <1>4, <3>1, <3>4, RepeatedFirst DEF IInv
    <3> QED
      BY <1>2, <2>0, <3>2, <3>5
  <2>2. CASE req[r].pc = "released"
    <3>1. /\ r \notin Holders(i) /\ Holders(i)' = Holders(i) /\ Holders(i) \subseteq Requests
          /\ r \in Repeaters(i) /\ Repeaters(i)' = Repeaters(i)
          /\ Repeaters(i) \subseteq Requests
      BY <1>1, <1>3, <2>2 DEF Holders, Repeaters
    <3>2. HeldFrom(i)' = HeldFrom(i)
      BY <1>3, <3>1, HeldStays DEF IInv
    <3>3. Repeated[r] = req[r].qty * (req[r].releases - 1)
      BY DEF Repeated
    <3>4. \A q, k \in Nat : q * k = q * (k - 1) + q
      BY SMT
    <3>5. Repeated'[r] = Repeated[r] + req[r].qty
      BY <1>2, <1>4, <3>3, <3>4
    <3>6. RepeatedTo(i)' = RepeatedTo(i) + req[r].qty
      BY <1>4, <3>1, <3>5, RepeatedAgain DEF IInv
    <3> QED
      BY <1>2, <2>0, <3>2, <3>6
  <2> QED
    BY <1>2, <2>1, <2>2
<1>7. keys # "unseeded"
  BY <1>2 DEF IInv, QuietBeforeSeed
<1>8. \A j \in Shards : out'[j] = HeldFrom(j)' - RepeatedTo(j)'
  <2>1. out[i] \in Int /\ out'[i] = out[i] - req[r].qty /\ out[i] = HeldFrom(i) - RepeatedTo(i)
    BY <1>2 DEF IInv, TypeOK, HeldInv
  <2>2. out'[i] = HeldFrom(i)' - RepeatedTo(i)'
    BY <1>6, <2>1
  <2>3. \A j \in Shards \ {i} : out'[j] = out[j] /\ out[j] = HeldFrom(j) - RepeatedTo(j)
    BY <1>2 DEF IInv, TypeOK, HeldInv
  <2> QED
    BY <1>5, <2>2, <2>3
<1>9. req'[r].releases \in 1 .. MaxReleases
  BY <1>2, <1>3, InventoryAssumption
<1> QED
  BY <1>2, <1>3, <1>7, <1>8, <1>9 DEF HeldInv

\* Nobody holds more or less after any other step.
LEMMA OthersHeld ==
  ASSUME IsFiniteSet(Requests), IInv, IInv', HeldInv, UNCHANGED out,
         keys' = "unseeded" => keys = "unseeded" /\ shard' = shard,
         \A r \in Requests :
           \/ req'[r] = req[r]
           \/ /\ req[r].pc \notin {"reserved", "released"}
              /\ req'[r].pc \notin {"reserved", "released"} /\ req'[r].releases = 0
              /\ req'[r].pc # "idle" => req'[r].qty >= 1
  PROVE  HeldInv'
<1>1. \A i \in Shards : Holders(i)' = Holders(i) /\ Repeaters(i)' = Repeaters(i)
  BY DEF Holders, Repeaters
<1>2. \A i \in Shards : HeldFrom(i)' = HeldFrom(i)
  BY <1>1, HeldStays DEF IInv, Holders
<1>3. ASSUME NEW i \in Shards PROVE RepeatedTo(i)' = RepeatedTo(i)
  <2>1. \A r \in Repeaters(i) : r \in Requests /\ req'[r] = req[r]
    BY DEF Repeaters
  <2>2. \A r \in Repeaters(i) : Repeated'[r] = Repeated[r]
    BY <2>1 DEF Repeated
  <2> QED
    BY <1>1, <2>2, RepeatedStays DEF IInv
<1>4. \A i \in Shards : out'[i] = HeldFrom(i)' - RepeatedTo(i)'
  BY <1>2, <1>3 DEF HeldInv
<1>5. \A r \in Requests :
        /\ IF req'[r].pc = "released" THEN req'[r].releases \in 1 .. MaxReleases
                                     ELSE req'[r].releases = 0
        /\ req'[r].pc # "idle" => req'[r].qty >= 1
  BY DEF HeldInv
<1>6. keys' = "unseeded" => \A i \in Shards : shard'[i] = 0
  BY DEF HeldInv
<1> QED
  BY <1>4, <1>5, <1>6 DEF HeldInv

LEMMA HeldStep ==
  ASSUME IsFiniteSet(Requests), IInv, IInv', HeldInv, [Next]_vars
  PROVE  HeldInv'
<1>1. CASE Seed
  BY <1>1, OthersHeld DEF Seed
<1>2. CASE Expire
  BY <1>2, OthersHeld DEF Expire
<1>3. ASSUME NEW r \in Requests, Start(r) PROVE HeldInv'
  <2>1. PICK q \in Quantities, f \in Shards :
          req' = [req EXCEPT ![r] = [NoRequest EXCEPT !.pc = "probing", !.qty = q, !.first = f]]
    BY <1>3 DEF Start
  <2>2. /\ req'[r].pc = "probing" /\ req'[r].qty = q /\ req[r].pc = "idle"
        /\ req'[r].releases = 0
    BY <1>3, <2>1 DEF Start, NoRequest, IInv, TypeOK
  <2>3. \A s \in Requests \ {r} : req'[s] = req[s]
    BY <2>1 DEF IInv, TypeOK
  <2>4. q >= 1
    BY InventoryAssumption
  <2> QED
    BY <1>3, <2>2, <2>3, <2>4, OthersHeld DEF Start
<1>4. ASSUME NEW r \in Requests, ReserveOk(r) PROVE HeldInv'
  BY <1>4, ReserveHeld
<1>5. ASSUME NEW r \in Requests, ReserveShort(r) PROVE HeldInv'
  <2>1. /\ req'[r].pc \in {"probing", "rejected"} /\ req'[r].qty = req[r].qty
        /\ req'[r].releases = req[r].releases
        /\ \A s \in Requests \ {r} : req'[s] = req[s]
    BY <1>5 DEF ReserveShort, IInv, TypeOK, Request
  <2>2. req[r].pc = "probing" /\ req[r].qty >= 1 /\ req[r].releases = 0
    BY <1>5 DEF ReserveShort, HeldInv
  <2> QED
    BY <1>5, <2>1, <2>2, OthersHeld DEF ReserveShort
<1>6. ASSUME NEW r \in Requests, Release(r) PROVE HeldInv'
  BY <1>6, ReleaseHeld
<1>7. CASE UNCHANGED vars
  BY <1>7, OthersHeld DEF vars
<1> QED
  BY <1>1, <1>2, <1>3, <1>4, <1>5, <1>6, <1>7 DEF Next

\* Released once, nothing comes back again, and what is out is held.
LEMMA OnceHeld ==
  ASSUME IsFiniteSet(Requests), OncePerRequest, IInv, HeldInv
  PROVE  \A i \in Shards : out[i] = HeldFrom(i)
<1>1. \A r \in Requests : req[r].pc = "released" => req[r].releases = 1
  <2> SUFFICES ASSUME NEW r \in Requests, req[r].pc = "released" PROVE req[r].releases = 1
    OBVIOUS
  <2>1. req[r].releases \in 1 .. MaxReleases /\ req[r].releases <= 1
    BY DEF HeldInv, OncePerRequest
  <2> QED
    BY <2>1, InventoryAssumption
<1> SUFFICES ASSUME NEW i \in Shards PROVE out[i] = HeldFrom(i)
  OBVIOUS
<1>2. \A r \in Repeaters(i) : r \in Requests /\ req[r].qty \in Nat /\ req[r].releases = 1
  BY <1>1 DEF Repeaters, IInv, TypeOK, Request
<1>3. \A r \in Repeaters(i) : Repeated[r] = 0
  BY <1>2 DEF Repeated
<1>4. IsFiniteSet(Repeaters(i)) /\ HeldFrom(i) \in Int
  BY RepeatedTypes DEF IInv
<1>5. RepeatedTo(i) = 0
  BY <1>3, <1>4, SumOfNone, RepeatedIsSum
<1> QED
  BY <1>4, <1>5 DEF HeldInv

\* A first release is that of a reservation that holds.
LEMMA OnceReleased ==
  ASSUME OncePerRequest', IInv, HeldInv, NEW r \in Requests, Release(r)
  PROVE  req[r].pc = "reserved"
<1>1. /\ req[r].pc \in {"reserved", "released"} /\ req[r].releases \in Nat
      /\ req'[r].releases = req[r].releases + 1 /\ req'[r].releases <= 1
  BY DEF Release, ReleaseAt, OncePerRequest, IInv, TypeOK, Request
<1>2. req[r].pc = "released" => req[r].releases \in 1 .. MaxReleases
  BY DEF HeldInv
<1> QED
  BY <1>1, <1>2, InventoryAssumption

\* Who has released once has not released twice before.
LEMMA OnceBefore ==
  ASSUME OncePerRequest', IInv, HeldInv, [Next]_vars
  PROVE  OncePerRequest
<1> SUFFICES ASSUME NEW r \in Requests PROVE req[r].releases <= 1
  BY DEF OncePerRequest
<1>1. req'[r].releases <= 1 /\ req[r].releases \in Nat
  BY DEF OncePerRequest, IInv, TypeOK, Request
<1>2. CASE req' = req
  BY <1>1, <1>2
<1>3. ASSUME NEW s \in Requests, Start(s) \/ ReserveOk(s) \/ ReserveShort(s) \/ Release(s)
      PROVE  req[r].releases <= 1
  <2>1. CASE r # s
    BY <1>1, <1>3, <2>1
       DEF Start, ReserveOk, ReserveShort, Release, ReleaseAt, IInv, TypeOK
  <2>2. CASE r = s /\ Start(s)
    <3>1. req[r].pc = "idle"
      BY <2>2 DEF Start
    <3>2. req[r].releases = 0
      BY <3>1 DEF HeldInv
    <3> QED
      BY <3>2
  <2>3. CASE r = s /\ ReserveOk(s)
    <3>1. req'[r].releases = req[r].releases
      BY <2>3 DEF ReserveOk, IInv, TypeOK, Request
    <3> QED
      BY <1>1, <3>1
  <2>4. CASE r = s /\ ReserveShort(s)
    <3>1. req'[r].releases = req[r].releases
      BY <2>4 DEF ReserveShort, IInv, TypeOK, Request
    <3> QED
      BY <1>1, <3>1
  <2>5. CASE r = s /\ Release(s)
    <3>1. req'[r].releases = req[r].releases + 1
      BY <2>5 DEF Release, ReleaseAt, IInv, TypeOK, Request
    <3> QED
      BY <1>1, <3>1
  <2> QED
    BY <1>3, <2>1, <2>2, <2>3, <2>4, <2>5
<1>4. \/ req' = req
      \/ \E s \in Requests : Start(s) \/ ReserveOk(s) \/ ReserveShort(s) \/ Release(s)
  BY DEF Next, Seed, Expire, vars
<1> QED
  BY <1>2, <1>3, <1>4

LEMMA ShardsFit ==
  ASSUME IsFiniteSet(Requests), IInv, HeldInv, NEW i \in Shards
  PROVE  HeldFrom(i) + shard[i] <= ShardSeed(i) + RepeatedTo(i)
<1>1. HeldFrom(i) \in Int /\ RepeatedTo(i) \in Int
  BY RepeatedTypes DEF IInv
<1>2. shard[i] \in Int /\ out[i] \in Int /\ ShardSeed(i) \in Int
  BY SeedTypes DEF IInv, TypeOK
<1>3. shard[i] + out[i] <= ShardSeed(i)
  BY <1>2 DEF IInv, StockAccounted
<1>4. out[i] = HeldFrom(i) - RepeatedTo(i)
  BY DEF HeldInv
<1> QED
  BY <1>1, <1>2, <1>3, <1>4

-----------------------------------------------------------------------------
LEMMA TotalTypes ==
  ASSUME TypeOK
  PROVE  /\ IsFiniteSet(Shards) /\ Total(shard) \in Nat /\ Total(out) \in Int
         /\ \A i \in Shards : shard[i] <= Total(shard)
<1>1. IsFiniteSet(Shards)
  BY InventoryAssumption, FS_Interval DEF Shards
<1>2. \A i \in Shards : shard[i] \in Nat /\ out[i] \in Int
  BY DEF TypeOK
<1> QED
  BY <1>1, <1>2, SumNat, SumRest DEF Total, SumOver

LEMMA TotalFits == ASSUME IInv PROVE Total(out) + Total(shard) <= Capacity
<1> DEFINE both == [i \in Shards |-> out[i] + shard[i]]
           seed == [i \in Shards |-> ShardSeed(i)]
<1>1. IsFiniteSet(Shards)
  BY TotalTypes DEF IInv
<1>2. \A i \in Shards : /\ shard[i] \in Int /\ out[i] \in Int /\ seed[i] \in Int
                        /\ both[i] = out[i] + shard[i] /\ both[i] \in Int
                        /\ both[i] <= seed[i]
  BY SeedTypes DEF IInv, TypeOK, StockAccounted
<1>3. \A i \in Shards : seed[i] = ShardSeed(i)
  OBVIOUS
<1> HIDE DEF both, seed
<1>4. SumOver(both, Shards) = SumOver(out, Shards) + SumOver(shard, Shards)
  BY <1>1, <1>2, SumAdds
<1>5. SumOver(both, Shards) <= SumOver(seed, Shards)
  BY <1>1, <1>2, SumAtMost
<1>6. SumOver(seed, Shards) <= Capacity /\ SumOver(seed, Shards) \in Int
  BY <1>3, SeedsFit, InventoryAssumption DEF Total, SumOver
<1>7. SumOver(out, Shards) \in Int /\ SumOver(shard, Shards) \in Int
  BY <1>1, <1>2, SumRest
<1> QED
  BY <1>4, <1>5, <1>6, <1>7, InventoryAssumption DEF Total, SumOver

\* The units that requests hold, less those given back to a shard again, are those out
\* of it; held units and stock exceed neither its share nor the capacity by more than
\* that, whatever the probes, the order of requests, the number of releases and the
\* expiry of the keys (reserve.lua, release.lua, seed.lua).
THEOREM NothingOversold ==
  ASSUME IsFiniteSet(Requests)
  PROVE  Spec => []NoOversell
<1>1. Init => IInv /\ HeldInv
  BY InitIInv, HeldInit
<1>2. (IInv /\ HeldInv) /\ [Next]_vars => (IInv /\ HeldInv)'
  BY NextIInv, HeldStep
<1>3. IInv /\ HeldInv => NoOversell
  BY TotalFits, ShardsFit DEF NoOversell, HeldInv
<1> QED
  BY <1>1, <1>2, <1>3, PTL DEF Spec

-----------------------------------------------------------------------------
(* Seen from outside the shards are one counter. *)

LEMMA TotalHeld ==
  ASSUME IsFiniteSet(Requests), OncePerRequest, IInv, HeldInv
  PROVE  /\ \A i \in Shards : out[i] \in Nat
         /\ \A r \in Requests : req[r].pc = "reserved" =>
              req[r].qty <= out[req[r].at] /\ req[r].at \in Shards
         /\ \A i \in Shards : out[i] <= Total(out)
<1>1. ASSUME NEW i \in Shards
      PROVE  out[i] \in Nat /\ \A r \in Holders(i) : req[r].qty <= out[i]
  <2>1. /\ IsFiniteSet(Holders(i))
        /\ \A s \in Holders(i) : Qty[s] \in Nat /\ Qty[s] = req[s].qty
    BY HeldTypes DEF IInv
  <2>2. out[i] = SumOver(Qty, Holders(i))
    BY HeldIsSum, OnceHeld
  <2> QED
    BY <2>1, <2>2, SumNat
<1>2. \A r \in Requests : req[r].pc = "reserved" =>
        req[r].at \in Shards /\ r \in Holders(req[r].at)
  BY DEF IInv, TypeOK, Request, Holders
<1>3. \A i \in Shards : out[i] <= Total(out)
  BY <1>1, TotalTypes, SumNat DEF IInv, Total, SumOver
<1> QED
  BY <1>1, <1>2, <1>3

\* One shard changes.
LEMMA TotalChanges ==
  ASSUME TypeOK, TypeOK', NEW i \in Shards, NEW d \in Int,
         shard' = [shard EXCEPT ![i] = @ - d], out' = [out EXCEPT ![i] = @ + d]
  PROVE  Total(shard)' = Total(shard) - d /\ Total(out)' = Total(out) + d
<1>1. /\ \A j \in Shards : /\ shard[j] \in Int /\ shard'[j] \in Int
                           /\ out[j] \in Int /\ out'[j] \in Int
      /\ shard'[i] = shard[i] - d /\ out'[i] = out[i] + d
      /\ \A j \in Shards \ {i} : shard'[j] = shard[j] /\ out'[j] = out[j]
  BY DEF TypeOK
<1>0. IsFiniteSet(Shards) /\ i \in Shards
  BY TotalTypes
<1>2. /\ SumOver(shard', Shards) = SumOver(shard, Shards) + shard'[i] - shard[i]
      /\ SumOver(out', Shards) = SumOver(out, Shards) + out'[i] - out[i]
  <2>1. SumOver(shard', Shards) = SumOver(shard, Shards) + shard'[i] - shard[i]
    BY ONLY <1>0, <1>1, SumChanges
  <2>2. SumOver(out', Shards) = SumOver(out, Shards) + out'[i] - out[i]
    BY ONLY <1>0, <1>1, SumChanges
  <2> QED
    BY <2>1, <2>2
<1>3. /\ SumOver(shard, Shards) \in Int /\ SumOver(out, Shards) \in Int
      /\ shard[i] \in Int /\ out[i] \in Int
  BY <1>0, <1>1, SumRest
<1>4. /\ Total(shard) = SumOver(shard, Shards) /\ Total(out) = SumOver(out, Shards)
      /\ Total(shard)' = SumOver(shard', Shards) /\ Total(out)' = SumOver(out', Shards)
  BY DEF Total, SumOver
<1> QED
  BY <1>1, <1>2, <1>3, <1>4

LEMMA StockInit == Init => Stock!Init
<1> SUFFICES ASSUME Init PROVE Stock!Init
  OBVIOUS
<1>1. IsFiniteSet(Shards) /\ \A i \in Shards : shard[i] = 0 /\ out[i] = 0
  BY InventoryAssumption, FS_Interval DEF Init, Shards
<1>2. SumOver(shard, Shards) = 0 /\ SumOver(out, Shards) = 0
  BY <1>1, SumOfNone
<1> QED
  BY <1>2 DEF Stock!Init, Total, SumOver

LEMMA StockStep ==
  ASSUME IsFiniteSet(Requests), OncePerRequest', IInv, IInv', HeldInv, [Next]_vars
  PROVE  [Stock!Next]_(Stock!vars)
<1>0. OncePerRequest
  BY OnceBefore
<1>1. /\ IsFiniteSet(Shards) /\ Total(shard) \in Nat /\ Total(out) \in Int
      /\ \A i \in Shards : shard[i] <= Total(shard)
  BY TotalTypes DEF IInv
<1> TypeOK /\ TypeOK'
  BY DEF IInv
<1>2. ASSUME shard' = shard, out' = out PROVE UNCHANGED Stock!vars
  BY <1>2 DEF Stock!vars
<1>3. CASE Seed
  <2>1. /\ \A i \in Shards : shard[i] = 0 /\ out[i] = 0 /\ shard'[i] = ShardSeed(i)
        /\ out' = out
    BY <1>3 DEF Seed, HeldInv, IInv, QuietBeforeSeed
  <2>2. Total(shard) = 0 /\ Total(out) = 0
    BY <1>1, <2>1, SumOfNone DEF Total, SumOver
  <2>3. Total(shard)' \in 0 .. Capacity /\ Total(out)' = Total(out)
    BY <2>1, SeedsFit
  <2> QED
    BY <2>2, <2>3 DEF Stock!Next, Stock!Open
<1>4. CASE Expire
  <2>1. out' = out /\ \A i \in Shards : /\ shard[i] \in Int /\ shard'[i] \in Int
                                        /\ shard'[i] <= shard[i] /\ shard'[i] \in Nat
    BY <1>4 DEF Expire, TypeOK
  <2>2. SumOver(shard', Shards) <= SumOver(shard, Shards) /\ SumOver(shard', Shards) \in Nat
    BY <1>1, <2>1, SumAtMost, SumNat
  <2>3. /\ Total(shard)' <= Total(shard) /\ Total(shard)' \in Nat
        /\ Total(out)' = Total(out)
    BY <2>1, <2>2 DEF Total, SumOver
  <2>4. Total(shard)' \in 0 .. Total(shard)
    BY <1>1, <2>3
  <2> QED
    BY <2>3, <2>4 DEF Stock!Next, Stock!Lose
<1>5. ASSUME NEW r \in Requests, ReserveOk(r) PROVE Stock!Next
  <2>1. PICK i \in Shards : i = ProbedShard(r)
    BY ProbedShardType DEF IInv
  <2>2. PICK q \in Int : q = req[r].qty
    BY DEF IInv, TypeOK, Request
  <2>3. /\ shard' = [shard EXCEPT ![i] = @ - q] /\ out' = [out EXCEPT ![i] = @ + q]
        /\ q >= 1 /\ q <= shard[i] /\ shard[i] \in Nat
    BY <1>5, <2>1, <2>2 DEF ReserveOk, HeldInv, IInv, TypeOK
  <2>4. Total(shard)' = Total(shard) - q /\ Total(out)' = Total(out) + q
    BY <2>3, TotalChanges
  <2>5. q \in 1 .. Total(shard)
    BY <1>1, <2>3
  <2> QED
    BY <2>4, <2>5 DEF Stock!Next, Stock!Take
<1>6. ASSUME NEW r \in Requests, Release(r) PROVE Stock!Next
  <2>1. req[r].pc = "reserved"
    BY <1>6, OnceReleased
  <2>2. PICK i \in Shards : i = req[r].at
    BY DEF IInv, TypeOK, Request
  <2>3. PICK q \in Nat : q = req[r].qty
    BY DEF IInv, TypeOK, Request
  <2> PICK d \in Int : d = 0 - q
    OBVIOUS
  <2>4. shard' = [shard EXCEPT ![i] = @ - d] /\ out' = [out EXCEPT ![i] = @ + d]
    <3>1. shard' = [shard EXCEPT ![i] = @ + q] /\ out' = [out EXCEPT ![i] = @ - q]
      BY <1>6, <2>2, <2>3 DEF Release, ReleaseAt
    <3>2. shard[i] + q = shard[i] - d /\ out[i] - q = out[i] + d
      BY DEF TypeOK
    <3> QED
      BY <3>1, <3>2
  <2>5. q >= 1 /\ q <= out[i] /\ out[i] <= Total(out) /\ out[i] \in Nat
    BY <1>0, <2>1, <2>2, <2>3, TotalHeld DEF HeldInv
  <2>6. Total(shard)' = Total(shard) - d /\ Total(out)' = Total(out) + d
    BY <2>4, TotalChanges
  <2>7. Total(shard)' = Total(shard) + q /\ Total(out)' = Total(out) - q
    BY <1>1, <2>6
  <2>8. q \in 1 .. Total(out)
    BY <1>1, <2>5
  <2> QED
    BY <2>7, <2>8 DEF Stock!Next, Stock!Give
<1>7. ASSUME NEW r \in Requests, Start(r) \/ ReserveShort(r) PROVE shard' = shard /\ out' = out
  BY <1>7 DEF Start, ReserveShort
<1>8. CASE UNCHANGED vars
  BY <1>2, <1>8 DEF vars
<1> QED
  BY <1>2, <1>3, <1>4, <1>5, <1>6, <1>7, <1>8 DEF Next

\* The sharded counters implement the one counter of StockCounter, as long as
\* reservations are released once: units are opened once and no more than the
\* capacity, taken only if they are there, given back only if they are out, and
\* otherwise lost.
THEOREM ShardsAreOneCounter ==
  ASSUME IsFiniteSet(Requests)
  PROVE  Spec => StockSpec
<1>1. Init => IInv /\ HeldInv
  BY InitIInv, HeldInit
<1>2. (IInv /\ HeldInv) /\ [Next]_vars => (IInv /\ HeldInv)'
  BY NextIInv, HeldStep
<1>3. (IInv /\ HeldInv) /\ [Next]_vars => [OncePerRequest' => [Stock!Next]_(Stock!vars)]_vars
  BY NextIInv, StockStep
<1> QED
  BY <1>1, <1>2, <1>3, StockInit, PTL DEF Spec, StockSpec

\* Where every caller releases a reservation once, they implement it for good.
THEOREM OnceIsOneCounter ==
  ASSUME IsFiniteSet(Requests), MaxReleases <= 1
  PROVE  Spec => Stock!Spec
<1>1. Init => IInv /\ HeldInv
  BY InitIInv, HeldInit
<1>2. (IInv /\ HeldInv) /\ [Next]_vars => (IInv /\ HeldInv)'
  BY NextIInv, HeldStep
<1>3. IInv /\ HeldInv => OncePerRequest
  <2> SUFFICES ASSUME IInv, HeldInv, NEW r \in Requests PROVE req[r].releases <= 1
    BY DEF OncePerRequest
  <2>1. req[r].releases \in 1 .. MaxReleases \/ req[r].releases = 0
    BY DEF HeldInv
  <2> QED
    BY <2>1, InventoryAssumption
<1>4. (IInv /\ HeldInv)' => OncePerRequest'
  BY <1>3, PTL
<1>5. (IInv /\ HeldInv) /\ [Next]_vars => [Stock!Next]_(Stock!vars)
  BY <1>2, <1>4, NextIInv, StockStep
<1> QED
  BY <1>1, <1>2, <1>5, StockInit, PTL DEF Spec, Stock!Spec
=============================================================================
