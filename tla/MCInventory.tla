---------------------------- MODULE MCInventory -----------------------------
(***************************************************************************)
(* Inventory for TLC: three requests against four shards, two probes each. *)
(***************************************************************************)
EXTENDS Inventory, Functions, FiniteSets, TLC

HeldFrom(i) ==
  SumFunctionOnSet([r \in Requests |-> req[r].qty],
                   {r \in Requests : req[r].pc = "reserved" /\ req[r].at = i})

Total(f) == SumFunctionOnSet(f, Shards)

\* Units of request r that were given back again after its first release.
Repeated == [r \in Requests |-> req[r].qty * (req[r].releases - 1)]
RepeatedTo(i) ==
  SumFunctionOnSet(Repeated, {r \in Requests : req[r].pc = "released" /\ req[r].at = i})

\* The tickets that requests hold are those out of the shards, and never exceed the
\* capacity, whatever the order of probes, releases and expiry: nothing is sold
\* twice.  A release that is repeated after a lost answer gives its units back again
\* (inventory.service.js:412): from no shard can more be sold than its share and
\* what came back to it in that way.
NoOversell ==
  /\ \A i \in Shards : /\ out[i] = HeldFrom(i) - RepeatedTo(i)
                       /\ HeldFrom(i) + shard[i] <= ShardSeed(i) + RepeatedTo(i)
  /\ Total(out) + Total(shard) <= Capacity

OncePerRequest == \A r \in Requests : req[r].releases <= 1

\* Seen from outside, the shards are one counter of StockCounter until a
\* reservation is released a second time: Stock!Spec up to there.
Stock == INSTANCE StockCounter WITH stock <- Total(shard), out <- Total(out)
StockSpec ==
  /\ Stock!Init
  /\ [][OncePerRequest' => [Stock!Next]_(Stock!vars)]_vars

\* inv.service.seed.test.js:53-54 sums the shards after seedSharded and
\* expects the capacity; sharding.js:4 says the split always adds up to it.
SeededInFull == keys = "live" => Total(shard) + Total(out) = Capacity

Symmetry == Permutations(Requests)
=============================================================================
