----------------------------- MODULE Inventory ------------------------------
(***************************************************************************)
(* The sharded stock counters of one ticket type as the event service      *)
(* keeps them in Redis, under concurrent reserve and release requests.     *)
(*                                                                         *)
(* Each Lua script is one atomic step; a reserve request runs one script   *)
(* per probed shard, and other requests run between its probes.  A counter *)
(* whose key does not exist reads as 0 (the scripts create it with SETNX), *)
(* so a missing key and a counter at 0 are one value here.                 *)
(*                                                                         *)
(* Ticket types share no key, so one ticket type is enough.  Messages sent *)
(* after a change (_afterChange) carry the version the script returned;    *)
(* they change no counter and are left out.                                *)
(***************************************************************************)
EXTENDS Sharding

CONSTANTS Requests,     \* reserve requests
          Quantities,   \* quantities they may ask for
          Capacity,     \* tickets of this type
          ShardCount,   \* shards they are split into
          ExtraProbes,  \* INVENTORY_MULTI_PROBE
          MaxReleases   \* bound: release calls made for one reservation

ASSUME InventoryAssumption ==
  /\ Quantities \subseteq Nat \ {0}
  /\ Capacity \in Nat
  /\ ShardCount \in Nat \ {0}
  /\ ExtraProbes \in Nat
  /\ MaxReleases \in Nat

VARIABLES keys,      \* "unseeded", "live", or "expired" once the TTL has run out
          shard,     \* inv:{tt}:shard:{i}:remaining
          version,   \* inv:{tt}:version
          req,       \* the requests
          out        \* history: units reserved minus released, per shard

vars == <<keys, shard, version, req, out>>

Shards == 0 .. ShardCount - 1

ReqState == {"idle", "probing", "reserved", "rejected", "released"}
Request == [pc : ReqState, qty : Nat, first : Shards, probes : Nat,
            at : Shards, ver : Nat, releases : Nat]

NoRequest == [pc |-> "idle", qty |-> 0, first |-> 0, probes |-> 0,
              at |-> 0, ver |-> 0, releases |-> 0]

ShardSeed(i) == SeedValueAt(ShardKeyPos(i), Capacity, ShardCount)
VersionSeed == SeedValueAt(VersionKeyPos, Capacity, ShardCount)
SeededShard(i) == ShardKeyPos(i) \in FilledPos(ShardCount)

TypeOK ==
  /\ keys \in {"unseeded", "live", "expired"}
  /\ shard \in [Shards -> Nat]
  /\ version \in Nat
  /\ req \in [Requests -> Request]
  /\ out \in [Shards -> Int]

Init ==
  /\ keys = "unseeded"
  /\ shard = [i \in Shards |-> 0]
  /\ version = 0
  /\ req = [r \in Requests |-> NoRequest]
  /\ out = [i \in Shards |-> 0]

\* Mutant of Seed: the script does not look for the meta hash first.
SeedAgain ==
  /\ keys' = "live"
  /\ shard' = [i \in Shards |-> ShardSeed(i)]
  /\ version' = VersionSeed
  /\ UNCHANGED <<req, out>>

\* seedSharded at publication.  Seeding again finds the meta hash, which has
\* no TTL, and answers EXISTS or MISMATCH without writing.
Seed ==
  /\ keys = "unseeded"
  /\ keys' = "live"
  /\ shard' = [i \in Shards |-> ShardSeed(i)]
  /\ version' = VersionSeed
  /\ UNCHANGED <<req, out>>

\* reserve, up to the probe order.  Before seeding getShardCount throws.
Start(r) ==
  /\ keys # "unseeded"
  /\ req[r].pc = "idle"
  /\ \E q \in Quantities, f \in Shards :
       req' = [req EXCEPT ![r] = [NoRequest EXCEPT !.pc = "probing",
                                                   !.qty = q, !.first = f]]
  /\ UNCHANGED <<keys, shard, version, out>>

ProbedShard(r) == ProbeAt(req[r].first, req[r].probes, ShardCount)

\* Mutants of ReserveOk: no check of the counter; the hashed shard is answered
\* instead of the probed one.
ReserveUnchecked(r) ==
  LET i == ProbedShard(r) IN
  /\ req[r].pc = "probing"
  /\ shard' = [shard EXCEPT ![i] = @ - req[r].qty]
  /\ version' = version + 1
  /\ out' = [out EXCEPT ![i] = @ + req[r].qty]
  /\ req' = [req EXCEPT ![r] = [@ EXCEPT !.pc = "reserved", !.at = i,
                                         !.ver = version + 1]]
  /\ UNCHANGED keys
ReserveAnswersFirst(r) ==
  LET i == ProbedShard(r) IN
  /\ req[r].pc = "probing"
  /\ shard[i] >= req[r].qty
  /\ shard' = [shard EXCEPT ![i] = @ - req[r].qty]
  /\ version' = version + 1
  /\ out' = [out EXCEPT ![i] = @ + req[r].qty]
  /\ req' = [req EXCEPT ![r] = [@ EXCEPT !.pc = "reserved", !.at = req[r].first,
                                         !.ver = version + 1]]
  /\ UNCHANGED keys

\* reserve.lua on the probed shard, which has enough.
ReserveOk(r) ==
  LET i == ProbedShard(r) IN
  /\ req[r].pc = "probing"
  /\ shard[i] >= req[r].qty
  /\ shard' = [shard EXCEPT ![i] = @ - req[r].qty]
  /\ version' = version + 1
  /\ out' = [out EXCEPT ![i] = @ + req[r].qty]
  /\ req' = [req EXCEPT ![r] = [@ EXCEPT !.pc = "reserved", !.at = i,
                                         !.ver = version + 1]]
  /\ UNCHANGED keys

\* reserve.lua on a shard that is short: the next probe, or a rejection.
ReserveShort(r) ==
  /\ req[r].pc = "probing"
  /\ shard[ProbedShard(r)] < req[r].qty
  /\ LET k == req[r].probes + 1 IN
     req' = [req EXCEPT ![r] =
       [@ EXCEPT !.probes = k,
                 !.pc = IF k < ProbeCount(ExtraProbes, ShardCount)
                        THEN "probing" ELSE "rejected"]]
  /\ UNCHANGED <<keys, shard, version, out>>

\* Mutants of Release: the units go back to the hashed shard; the version is
\* read instead of incremented.
ReleaseAt(r, i, ver) ==
  /\ req[r].pc \in {"reserved", "released"}
  /\ req[r].releases < MaxReleases
  /\ shard' = [shard EXCEPT ![i] = @ + req[r].qty]
  /\ version' = ver
  /\ out' = [out EXCEPT ![req[r].at] = @ - req[r].qty]
  /\ req' = [req EXCEPT ![r] = [@ EXCEPT !.pc = "released", !.ver = ver,
                                         !.releases = req[r].releases + 1]]
  /\ UNCHANGED keys
ReleaseToFirst(r) == ReleaseAt(r, req[r].first, version + 1)
ReleaseKeepsVersion(r) == ReleaseAt(r, req[r].at, version)

\* release.lua on the shard the caller names, the one the reservation came
\* from.  Nothing here remembers that a reservation was released already.
Release(r) == ReleaseAt(r, req[r].at, version + 1)

\* The keys the seeding script wrote share one TTL and vanish together, the
\* version among them; INCRBY and INCR keep a TTL, SETNX sets none.
Expire ==
  /\ keys = "live"
  /\ keys' = "expired"
  /\ shard' = [i \in Shards |-> IF SeededShard(i) THEN 0 ELSE shard[i]]
  /\ version' = 0
  /\ UNCHANGED <<req, out>>

Next ==
  \/ Seed
  \/ Expire
  \/ \E r \in Requests : Start(r) \/ ReserveOk(r) \/ ReserveShort(r) \/ Release(r)

Spec == Init /\ [][Next]_vars

-----------------------------------------------------------------------------
\* Every unit a shard was seeded with is in the shard or handed out from it:
\* exactly so until the TTL runs out, and never more than that afterwards.
\* reserve.lua and release.lua against each other, on every shard.
StockAccounted ==
  \A i \in Shards :
    IF keys = "live" THEN shard[i] + out[i] = ShardSeed(i)
                     ELSE shard[i] + out[i] <= ShardSeed(i)

\* No two changes of the stock are reported under one version, and none under
\* a version the key has yet to reach, as long as the key lives: consumers
\* drop a version they have already seen.
Stamped(r) == req[r].pc \in {"reserved", "released"}
DistinctVersions ==
  keys = "live" =>
    \A r \in Requests : Stamped(r) =>
      /\ req[r].ver <= version
      /\ \A s \in Requests : r # s /\ Stamped(s) => req[r].ver # req[s].ver

\* What makes the two inductive: no request gets anywhere before the seeding.
QuietBeforeSeed ==
  keys = "unseeded" => /\ \A r \in Requests : req[r].pc = "idle"
                       /\ \A i \in Shards : out[i] = 0
IInv == TypeOK /\ StockAccounted /\ DistinctVersions /\ QuietBeforeSeed
=============================================================================
