----------------------------- MODULE ClusterMap ------------------------------
(***************************************************************************)
(* How SmartRedis finds the shard of a key (rediscluster.cpp).               *)
(*                                                                         *)
(* A shard is [lower, upper, address]: the hash slots it serves and where it  *)
(* is; in the table it also has the prefix that addresses it.  The table of     *)
(* shards is a sequence in the order of their slots; its indices start at 0 in   *)
(* the code, as they do here.  A key is its hash slot.                        *)
(***************************************************************************)
EXTENDS HashSlots, Functions, Selection

(* The table is sorted by the lower slots (_parse_reply_for_slots), which are different. *)
DbNode(shard) ==
  [lower |-> shard.lower, upper |-> shard.upper, address |-> shard.address,
   prefix |-> GetCrc16Prefix(shard.lower)]
DbNodes(reply) ==
  LET lowers == InOrder({shard.lower : shard \in ToSet(reply)})
  IN [k \in DOMAIN lowers |-> DbNode(CHOOSE shard \in ToSet(reply) : shard.lower = lowers[k])]
At(nodes, m) == nodes[m + 1]

(* Mutant of HashSearch: a shard is taken whose slots begin after this one.          *)
SearchUpperOnly(nodes, slot, lhs, rhs) ==
  LET search[l \in 0 .. Len(nodes), r \in 0 .. Len(nodes)] ==
        LET m == (l + r) \div 2 IN
        IF slot <= At(nodes, m).upper THEN m ELSE search[m + 1, r]
  IN search[lhs, rhs]

(* _db_node_hash_search: a binary search, from lhs to rhs.  lhs is a place of the      *)
(* table, rhs may be the one after it.                                             *)
HashSearch(nodes, slot, lhs, rhs) ==
  LET search[at \in (0 .. Len(nodes) - 1) \X (0 .. Len(nodes))] ==
        LET m == (at[1] + at[2]) \div 2 IN
        CASE At(nodes, m).lower <= slot /\ slot <= At(nodes, m).upper -> m
          [] At(nodes, m).lower > slot -> search[<<at[1], m - 1>>]
          [] OTHER -> search[<<m + 1, at[2]>>]
  IN search[<<lhs, rhs>>]

(* _get_db_node_index *)
DbNodeIndex(nodes, slot) == HashSearch(nodes, slot, 0, Len(nodes) - 1)
=============================================================================
