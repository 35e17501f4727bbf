-------------------------- MODULE MCClusterPipeline --------------------------
(***************************************************************************)
(* Small instances of ClusterPipeline: clusters of one to four shards over    *)
(* six slots, and one of which two shards have a prefix of three bytes,        *)
(* reported out of order; two callers, two workers.                          *)
(***************************************************************************)
EXTENDS ClusterPipeline

CONSTANTS c1, c2

Shard(lower, upper, address) == [lower |-> lower, upper |-> upper, address |-> address]

Reported == {
  <<Shard(0, 5, 1)>>,
  <<Shard(4, 5, 1), Shard(0, 0, 2), Shard(1, 3, 3)>>,
  <<Shard(3, 4, 1), Shard(0, 0, 2), Shard(5, 5, 3), Shard(1, 2, 4)>>,
  <<Shard(75, 16383, 1), Shard(0, 8, 2), Shard(9, 74, 3)>> }

ThreeAndOne == [c \in {c1, c2} |-> IF c = c1 THEN <<5, 0, 4>> ELSE <<2>>]
=============================================================================
