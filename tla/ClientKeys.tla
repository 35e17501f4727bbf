----------------------------- MODULE ClientKeys ------------------------------
(***************************************************************************)
(* The keys a SmartRedis client makes of the names its callers use, and the   *)
(* shards they are on.                                                       *)
(*                                                                         *)
(* A key is [tag, rest]: the part that is hashed, all of it for a plain key     *)
(* and the part in braces otherwise, and what stands around the braces.  A     *)
(* prefix is << >> or <<p>>.  A client is described by                        *)
(*   put, sources  the prefixes of SSKEYOUT and SSKEYIN                      *)
(*   source        the one of them that is read from                         *)
(*   use           which kinds of names get a prefix                         *)
(*   cluster       whether it is connected to a cluster                       *)
(*   last, chunk   the shard that answered last, and the chunk size it set     *)
(***************************************************************************)
EXTENDS Integers, Sequences, SequencesExt

CONSTANTS Order,       \* the shards in the order of their slots
          Reported,    \* the shards in the order CLUSTER SLOTS reports them
          Home(_)      \* the shard that serves the slot of a hash tag

ASSUME ShardAssumption ==
  /\ Order \in Seq(ToSet(Order)) /\ Reported \in Seq(ToSet(Order))
  /\ Len(Order) > 0 /\ Len(Reported) = Len(Order) /\ ToSet(Reported) = ToSet(Order)

InPrefix(cl, kind) == IF cl.use[kind] THEN cl.source ELSE << >>
OutPrefix(cl, kind) == IF cl.use[kind] THEN cl.put ELSE << >>

Plain(prefix, name) == [tag |-> Append(prefix, name), rest |-> << >>]
KeyIn(cl, kind, name) == Plain(InPrefix(cl, kind), name)
KeyOut(cl, kind, name) == Plain(OutPrefix(cl, kind), name)

DatasetIn(cl, name) == [tag |-> <<name>>, rest |-> InPrefix(cl, "dataset")]
DatasetOut(cl, name) == [tag |-> <<name>>, rest |-> OutPrefix(cl, "dataset")]
Under(key, part) == [key EXCEPT !.rest = Append(@, part)]
Meta(key) == Under(key, "meta")
Parts(key, names) == [i \in DOMAIN names |-> Under(key, names[i])]

\* The copy of a model or script for one GPU, and the copy on one shard.
OnGpu(key, gpu) == [key EXCEPT !.tag = Append(@, gpu)]
OnNode(s, key) == [tag |-> <<s>>, rest |-> key.tag \o key.rest]
(* Mutant of Temporary: all temporary tensors of a shard have one name.          *)
TemporaryOfShard(s, key) == [tag |-> <<s>>, rest |-> <<"TMP">>]

\* The name of a tensor while a model on that shard works on it.
Temporary(s, key) == Under(OnNode(s, key), "TMP")

Shard(cl, key) == IF cl.cluster THEN Home(key.tag) ELSE Order[1]

\* The map from addresses to shards is filled with the places of the shards in
\* the table as it is reported, which is sorted afterwards.
Addressed(cl, s) ==
  IF cl.cluster THEN Order[CHOOSE i \in DOMAIN Reported : Reported[i] = s] ELSE s
=============================================================================
