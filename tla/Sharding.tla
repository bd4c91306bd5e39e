------------------------------ MODULE Sharding ------------------------------
(***************************************************************************)
(* The pure part of the sharded inventory of one ticket type: how a        *)
(* capacity is split, which shards one reserve request tries, and which    *)
(* Redis keys the seeding script fills.                                    *)
(*                                                                         *)
(* Source: event/src/inventory/sharding.js, the key lists built by         *)
(* event/src/services/inventory.service.js and event/src/inventory/lua/    *)
(* seed.lua.  The FNV hash of pickShardIndex is abstracted to the index it *)
(* yields: any shard may come first.                                       *)
(***************************************************************************)
EXTENDS Integers

\* allocateShards: the first capacity % m shards hold one unit more.
AllocateShards(capacity, m) ==
  [i \in 0 .. m - 1 |-> (capacity \div m) + (IF i < capacity % m THEN 1 ELSE 0)]

\* buildProbeOrder: the hashed shard, then its successors, never more than m.
ProbeCount(extra, m) == IF 1 + extra <= m THEN 1 + extra ELSE m
ProbeAt(first, k, m) == (first + k) % m

-----------------------------------------------------------------------------
(* seedSharded passes KEYS = <<meta, version, aggregate, shard 0, ...>>,   *)
(* numbered from 1 ...                                                     *)
VersionKeyPos == 2
ShardKeyPos(i) == 4 + i

(* ... and seed.lua, whose header expects <<meta, shard 1, ..., shard M>>, *)
(* writes the i-th allocation to KEYS[i + 1] for i in 1 .. m.              *)
FilledPos(m) == 2 .. m + 1
SeedValueAt(pos, capacity, m) ==
  IF pos \in FilledPos(m) THEN AllocateShards(capacity, m)[pos - 2] ELSE 0
=============================================================================
