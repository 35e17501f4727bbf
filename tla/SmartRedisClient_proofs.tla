----------------------- MODULE SmartRedisClient_proofs ------------------------
(***************************************************************************)
(* The statistics of a shard follow its models and scripts (StatsFollowObjects),   *)
(* and what it has on disk is all it had (KeptAcrossRestart), whatever the clients  *)
(* call, in whatever order their commands come, with lost replies, restarts and     *)
(* rewrites of the append-only file.                                               *)
(*                                                                         *)
(* The first invariant is about one shard: the models and scripts that are alive, in *)
(* a key or in an execution, are told apart by their numbers, which are below the    *)
(* next one, and every entry has one of them.  Each command keeps it, what ends      *)
(* an execution keeps it, and a shard that is read from disk has it.  It is true     *)
(* of the shards and of what is on disk, as this becomes a shard at a restart.       *)
(***************************************************************************)
EXTENDS SmartRedisClient, TLAPS

Kinds == {"model", "script"}
Types == {"tensor", "string", "hash", "list"} \cup Kinds
Fixtures == {"keys", "stats", "running", "next"}
Executions == {"MODELEXECUTE", "SCRIPTRUN"}

ShardOK(d) ==
  /\ Fixtures \subseteq DOMAIN d
  /\ d.next \in Nat
  /\ \A k \in DOMAIN d.keys : d.keys[k].type \in Types
  /\ \A o \in Alive(d) : o.id \in 0 .. d.next - 1 /\ o.type \in Kinds
  /\ \A j, k \in ObjectKeys(d) : d.keys[j].id = d.keys[k].id => j = k
  /\ \A o, p \in Alive(d) : o.id = p.id => o.key = p.key /\ o.type = p.type
  /\ \A c \in DOMAIN d.running : "object" \in DOMAIN d.running[c]
  /\ \A k \in DOMAIN d.stats : {"id", "type"} \subseteq DOMAIN d.stats[k]
EntriesOK(d) == \A k \in DOMAIN d.stats : \E o \in Alive(d) : IsEntryOf(d, k, o)
Good(d) == ShardOK(d) /\ EntriesOK(d)

\* Each model and script is in the key it was created under, and has its entry.
Placed(d) == \A k \in ObjectKeys(d) : k \in DOMAIN d.stats /\ IsEntryOf(d, k, d.keys[k])

\* What a command leaves: a good shard, and its objects in their places if they were.
Follows(d, e) == Good(e) /\ (Placed(d) => Placed(e))

-----------------------------------------------------------------------------
(* What is alive.                                                              *)
LEMMA AliveIs ==
  ASSUME NEW d
  PROVE  /\ \A k \in ObjectKeys(d) : d.keys[k] \in Alive(d)
         /\ \A c \in DOMAIN d.running : d.running[c].object \in Alive(d)
         /\ \A o \in Alive(d) : \/ \E k \in ObjectKeys(d) : o = d.keys[k]
                                \/ \E c \in DOMAIN d.running : o = d.running[c].object
BY DEF Alive

LEMMA ReferencedIs ==
  ASSUME NEW d, NEW id
  PROVE  Referenced(d, id) <=> \E o \in Alive(d) : o.id = id
BY DEF Referenced, Alive, ObjectKeys

(* A shard whose models, scripts and executions are those of another, as are its   *)
(* entries but for their numbers of calls.                                       *)
LEMMA SameObjects ==
  ASSUME NEW d, NEW e, Fixtures \subseteq DOMAIN e, e.next = d.next, e.running = d.running,
         ObjectKeys(e) = ObjectKeys(d),
         \A k \in ObjectKeys(d) : e.keys[k] = d.keys[k],
         \A k \in DOMAIN e.keys : e.keys[k].type \in Types,
         DOMAIN e.stats = DOMAIN d.stats,
         \A k \in DOMAIN d.stats : {"id", "type"} \subseteq DOMAIN e.stats[k]
                                   /\ e.stats[k].id = d.stats[k].id /\ e.stats[k].type = d.stats[k].type
  PROVE  /\ Good(d) => Good(e)
         /\ Placed(d) => Placed(e)
<1>1. Alive(e) = Alive(d)
  BY DEF Alive
<1>2. \A k \in ObjectKeys(d) : k \in DOMAIN d.keys
  BY DEF ObjectKeys
<1>3. ASSUME Good(d) PROVE Good(e)
  <2>1. ShardOK(e)
    BY <1>1, <1>3 DEF Good, ShardOK
  <2>2. EntriesOK(e)
    BY <1>1, <1>3 DEF Good, EntriesOK, IsEntryOf
  <2> QED BY <2>1, <2>2 DEF Good
<1>4. ASSUME Placed(d) PROVE Placed(e)
  BY <1>4 DEF Placed, IsEntryOf
<1> QED BY <1>3, <1>4

-----------------------------------------------------------------------------
(* Objects that are no longer referenced are freed with their entries: what entries    *)
(* remain have an object that is alive.                                            *)
LEMMA FreeKeeps ==
  ASSUME NEW d, NEW objects, ShardOK(d),
         \A o \in objects, p \in Alive(d) : o.id = p.id => o.key = p.key /\ o.type = p.type,
         \A k \in DOMAIN d.stats : \E o \in Alive(d) \cup objects : IsEntryOf(d, k, o)
  PROVE  LET e == ModelFree(d, objects)
         IN  /\ Good(e)
             /\ Placed(d) => Placed(e)
             /\ e.keys = d.keys /\ e.running = d.running /\ e.next = d.next
<1> DEFINE e == ModelFree(d, objects)
           gone == {k \in DOMAIN d.stats :
                      \E o \in {p \in objects : ~Referenced(d, p.id)} : o.key = k /\ o.id = d.stats[k].id}
<1>1. /\ e.keys = d.keys /\ e.running = d.running /\ e.next = d.next /\ Fixtures \subseteq DOMAIN e
      /\ e.stats = Restrict(d.stats, DOMAIN d.stats \ gone)
  BY DEF ModelFree, Drop, ShardOK, Fixtures
<1>2. DOMAIN e.stats = DOMAIN d.stats \ gone /\ \A k \in DOMAIN e.stats : e.stats[k] = d.stats[k]
  BY <1>1 DEF Restrict
<1>3. ObjectKeys(e) = ObjectKeys(d) /\ Alive(e) = Alive(d)
  BY <1>1 DEF Alive, ObjectKeys
<1> HIDE DEF e
<1>4. ShardOK(e)
  BY <1>1, <1>2, <1>3 DEF ShardOK
<1>5. EntriesOK(e)
  <2> SUFFICES ASSUME NEW k \in DOMAIN e.stats PROVE \E o \in Alive(e) : IsEntryOf(e, k, o)
    BY DEF EntriesOK
  <2>1. PICK o \in Alive(d) \cup objects : IsEntryOf(d, k, o)
    BY <1>2
  <2>2. CASE o \in Alive(d)
    BY <1>2, <1>3, <2>1, <2>2 DEF IsEntryOf
  <2>3. CASE o \in objects
    <3>1. k \notin gone /\ o.key = k /\ o.id = d.stats[k].id /\ o.type = d.stats[k].type
      BY <1>2, <2>1 DEF IsEntryOf
    <3>2. Referenced(d, o.id)
      BY <1>2, <2>3, <3>1
    <3>3. PICK p \in Alive(d) : p.id = o.id
      BY <3>2, ReferencedIs
    <3>4. p.key = o.key /\ p.type = o.type
      BY <2>3, <3>3
    <3> QED BY <1>2, <1>3, <3>1, <3>3, <3>4 DEF IsEntryOf
  <2> QED BY <2>2, <2>3
<1>6. ASSUME Placed(d) PROVE Placed(e)
  <2> SUFFICES ASSUME NEW k \in ObjectKeys(d) PROVE k \in DOMAIN e.stats /\ IsEntryOf(e, k, e.keys[k])
    BY <1>3 DEF Placed
  <2>1. k \in DOMAIN d.stats /\ IsEntryOf(d, k, d.keys[k])
    BY <1>6 DEF Placed
  <2>2. Referenced(d, d.stats[k].id)
    <3>1. d.keys[k] \in Alive(d)
      BY AliveIs
    <3> QED BY <2>1, <3>1, ReferencedIs DEF IsEntryOf
  <2>3. k \notin gone
    BY <2>2
  <2> QED BY <1>1, <1>2, <2>1, <2>3 DEF IsEntryOf
<1> QED BY <1>1, <1>4, <1>5, <1>6 DEF Good, e

(* Keys are deleted.                                                            *)
LEMMA DeleteKeeps ==
  ASSUME NEW d, NEW keys, Good(d)
  PROVE  LET e == DeleteAll(d, keys)
         IN  /\ Good(e)
             /\ Placed(d) => Placed(e)
             /\ e.keys = Drop(d.keys, keys) /\ e.running = d.running /\ e.next = d.next
<1> DEFINE bare == [d EXCEPT !.keys = Drop(d.keys, keys)]
           objects == {o \in {d.keys[k] : k \in keys \cap DOMAIN d.keys} : o.type \in Kinds}
<1>1. DeleteAll(d, keys) = ModelFree(bare, objects)
  BY DEF DeleteAll, Kinds
<1>2. /\ bare.keys = Drop(d.keys, keys) /\ bare.running = d.running /\ bare.next = d.next
      /\ bare.stats = d.stats /\ Fixtures \subseteq DOMAIN bare
  BY DEF Good, ShardOK, Fixtures
<1> HIDE DEF bare
<1>3. DOMAIN bare.keys = DOMAIN d.keys \ keys /\ \A k \in DOMAIN bare.keys : bare.keys[k] = d.keys[k]
  BY <1>2 DEF Drop, Restrict
<1>4. ObjectKeys(bare) = ObjectKeys(d) \ keys
  BY <1>3 DEF ObjectKeys
<1>5. \A k \in ObjectKeys(bare) : bare.keys[k] = d.keys[k]
  BY <1>3 DEF ObjectKeys
<1>6. Alive(bare) \subseteq Alive(d)
  BY <1>2, <1>4, <1>5 DEF Alive
<1>7. Alive(d) = Alive(bare) \cup objects
  <2>1. objects = {d.keys[k] : k \in ObjectKeys(d) \cap keys}
    BY DEF ObjectKeys, Kinds
  <2> HIDE DEF objects
  <2>2. \A o \in Alive(d) : o \in Alive(bare) \cup objects
    <3> SUFFICES ASSUME NEW o \in Alive(d) PROVE o \in Alive(bare) \cup objects
      OBVIOUS
    <3>1. CASE \E k \in ObjectKeys(d) : o = d.keys[k]
      BY <1>4, <1>5, <2>1, <3>1, AliveIs
    <3>2. CASE \E c \in DOMAIN d.running : o = d.running[c].object
      BY <1>2, <3>2, AliveIs
    <3> QED BY <3>1, <3>2, AliveIs
  <2>3. objects \subseteq Alive(d)
    BY <2>1, AliveIs
  <2> QED BY <1>6, <2>2, <2>3
<1> HIDE DEF objects
<1>8. ShardOK(bare)
  BY <1>2, <1>3, <1>4, <1>5, <1>6 DEF Good, ShardOK
<1>9. \A o \in objects, p \in Alive(bare) : o.id = p.id => o.key = p.key /\ o.type = p.type
  BY <1>7 DEF Good, ShardOK
<1>10. \A k \in DOMAIN bare.stats : \E o \in Alive(bare) \cup objects : IsEntryOf(bare, k, o)
  BY <1>2, <1>7 DEF Good, EntriesOK, IsEntryOf
<1>11. Placed(d) => Placed(bare)
  BY <1>2, <1>4, <1>5 DEF Placed, IsEntryOf
<1>12. LET e == ModelFree(bare, objects)
       IN  /\ Good(e)
           /\ Placed(bare) => Placed(e)
           /\ e.keys = bare.keys /\ e.running = bare.running /\ e.next = bare.next
  BY <1>8, <1>9, <1>10, FreeKeeps
<1> QED BY <1>1, <1>2, <1>11, <1>12

-----------------------------------------------------------------------------
(* A value that is no model or script is put into a key.                            *)
LEMMA SetValueKeeps ==
  ASSUME NEW d, NEW key, NEW v, Good(d), v.type \in Types \ Kinds
  PROVE  Follows(d, SetValue(d, key, v))
<1> DEFINE bare == DeleteAll(d, {key})
           e == SetValue(d, key, v)
<1>1. Good(bare) /\ (Placed(d) => Placed(bare)) /\ bare.keys = Drop(d.keys, {key})
  BY DeleteKeeps
<1> HIDE DEF bare
<1>2. e = [bare EXCEPT !.keys = Put(bare.keys, key, v)]
  BY DEF SetValue, DeleteKey, bare
<1>3. /\ e.keys = Put(bare.keys, key, v) /\ e.running = bare.running /\ e.next = bare.next
      /\ e.stats = bare.stats /\ Fixtures \subseteq DOMAIN e
  BY <1>1, <1>2 DEF Good, ShardOK, Fixtures
<1> HIDE DEF e
<1>4. /\ key \notin DOMAIN bare.keys /\ DOMAIN e.keys = DOMAIN bare.keys \cup {key} /\ e.keys[key] = v
      /\ \A k \in DOMAIN bare.keys : e.keys[k] = bare.keys[k]
  BY <1>1, <1>3 DEF Drop, Restrict, Put
<1>5. /\ ObjectKeys(e) = ObjectKeys(bare)
      /\ \A k \in ObjectKeys(bare) : e.keys[k] = bare.keys[k]
  BY <1>4 DEF ObjectKeys, Kinds
<1>6. /\ \A k \in DOMAIN bare.keys : bare.keys[k].type \in Types
      /\ \A k \in DOMAIN bare.stats : {"id", "type"} \subseteq DOMAIN bare.stats[k]
  BY <1>1 DEF Good, ShardOK
<1>7. \A k \in DOMAIN e.keys : e.keys[k].type \in Types
  BY <1>4, <1>6
<1>8. /\ Good(bare) => Good(e)
      /\ Placed(bare) => Placed(e)
  BY <1>3, <1>5, <1>6, <1>7, SameObjects
<1> QED BY <1>1, <1>8 DEF Follows, e

(* A new model or script is stored, and its entry.                                 *)
LEMMA StoreKeeps ==
  ASSUME NEW d, NEW key, NEW o, NEW type \in Kinds, Good(d),
         o.key = key, o.type = type, o.id = d.next
  PROVE  Follows(d, StoreStats(SetValue(d, key, o), key, type, d.next))
<1> DEFINE bare == DeleteAll(d, {key})
           n == d.next
           e == StoreStats(SetValue(d, key, o), key, type, n)
           entry == [type |-> type, id |-> n, calls |-> 0]
<1>1. /\ Good(bare) /\ (Placed(d) => Placed(bare))
      /\ bare.keys = Drop(d.keys, {key}) /\ bare.next = n
  BY DeleteKeeps
<1>2. n \in Nat /\ o.id = n
  BY DEF Good, ShardOK
<1> HIDE DEF bare, n
<1>3. SetValue(d, key, o) = [bare EXCEPT !.keys = Put(bare.keys, key, o)]
  BY DEF SetValue, DeleteKey, bare
<1>4. /\ e.keys = Put(bare.keys, key, o) /\ e.running = bare.running /\ e.next = n + 1
      /\ e.stats = Put(bare.stats, key, entry) /\ Fixtures \subseteq DOMAIN e
  BY <1>1, <1>3 DEF Good, ShardOK, Fixtures, StoreStats
<1> HIDE DEF e
<1>5. /\ key \notin DOMAIN bare.keys /\ DOMAIN e.keys = DOMAIN bare.keys \cup {key} /\ e.keys[key] = o
      /\ \A k \in DOMAIN bare.keys : e.keys[k] = bare.keys[k]
  BY <1>1, <1>4 DEF Drop, Restrict, Put
<1>6. /\ DOMAIN e.stats = DOMAIN bare.stats \cup {key} /\ e.stats[key] = entry
      /\ \A k \in DOMAIN bare.stats \ {key} : e.stats[k] = bare.stats[k]
  BY <1>4 DEF Put
<1>7. /\ ObjectKeys(e) = ObjectKeys(bare) \cup {key} /\ key \notin ObjectKeys(bare)
      /\ \A k \in ObjectKeys(bare) : e.keys[k] = bare.keys[k]
  BY <1>5 DEF ObjectKeys, Kinds
<1>8. Alive(e) = Alive(bare) \cup {o}
  <2>1. Alive(e) = {e.keys[k] : k \in ObjectKeys(bare) \cup {key}}
                   \cup {bare.running[c].object : c \in DOMAIN bare.running}
    BY <1>4, <1>7 DEF Alive
  <2>2. {e.keys[k] : k \in ObjectKeys(bare) \cup {key}} = {bare.keys[k] : k \in ObjectKeys(bare)} \cup {o}
    BY <1>5, <1>7
  <2> QED BY <2>1, <2>2 DEF Alive
<1>9. ShardOK(e)
  <2>1. ShardOK(bare)
    BY <1>1 DEF Good
  <2>2. e.next \in Nat
    BY <1>2, <1>4
  <2>3. \A k \in DOMAIN e.keys : e.keys[k].type \in Types
    BY <1>5, <2>1 DEF ShardOK, Types
  <2>4. \A p \in Alive(bare) : p.id \in 0 .. n - 1 /\ p.type \in Kinds
    BY <1>1, <2>1 DEF ShardOK
  <2>5. \A p \in Alive(e) : p.id \in 0 .. e.next - 1 /\ p.type \in Kinds
    BY <1>2, <1>4, <1>8, <2>4
  <2>6. \A p \in Alive(bare) : p.id # o.id
    BY <1>2, <2>4
  <2>7. \A j, k \in ObjectKeys(e) : e.keys[j].id = e.keys[k].id => j = k
    <3>1. \A k \in ObjectKeys(bare) : e.keys[k].id # o.id
      BY <1>7, <2>6, AliveIs
    <3>2. \A j, k \in ObjectKeys(bare) : e.keys[j].id = e.keys[k].id => j = k
      BY <1>7, <2>1 DEF ShardOK
    <3> QED BY <1>5, <1>7, <3>1, <3>2
  <2>8. \A p, q \in Alive(e) : p.id = q.id => p.key = q.key /\ p.type = q.type
    BY <1>8, <2>1, <2>6 DEF ShardOK
  <2>9. \A c \in DOMAIN e.running : "object" \in DOMAIN e.running[c]
    BY <1>4, <2>1 DEF ShardOK
  <2>10. \A k \in DOMAIN e.stats : {"id", "type"} \subseteq DOMAIN e.stats[k]
    BY <1>6, <2>1 DEF ShardOK
  <2> QED BY <1>4, <2>2, <2>3, <2>5, <2>7, <2>8, <2>9, <2>10 DEF ShardOK
<1>10. EntriesOK(e)
  <2> SUFFICES ASSUME NEW k \in DOMAIN e.stats PROVE \E p \in Alive(e) : IsEntryOf(e, k, p)
    BY DEF EntriesOK
  <2>1. CASE k = key
    BY <1>2, <1>6, <1>8, <2>1 DEF IsEntryOf
  <2>2. CASE k # key
    BY <1>1, <1>6, <1>8, <2>2 DEF Good, EntriesOK, IsEntryOf
  <2> QED BY <2>1, <2>2
<1>11. ASSUME Placed(bare) PROVE Placed(e)
  <2> SUFFICES ASSUME NEW k \in ObjectKeys(e) PROVE k \in DOMAIN e.stats /\ IsEntryOf(e, k, e.keys[k])
    BY DEF Placed
  <2>1. CASE k = key
    BY <1>2, <1>5, <1>6, <2>1 DEF IsEntryOf
  <2>2. CASE k # key
    BY <1>6, <1>7, <1>11, <2>2 DEF Placed, IsEntryOf
  <2> QED BY <2>1, <2>2
<1> QED BY <1>1, <1>9, <1>10, <1>11 DEF Follows, Good, e, n

(* A field that neither objects nor entries are in is changed.                        *)
LEMMA OtherFields ==
  ASSUME NEW d, NEW e, Good(d), DOMAIN e = DOMAIN d,
         e.keys = d.keys, e.stats = d.stats, e.running = d.running, e.next = d.next
  PROVE  Follows(d, e)
<1>1. ObjectKeys(e) = ObjectKeys(d)
  BY DEF ObjectKeys
<1>2. /\ Fixtures \subseteq DOMAIN e
      /\ \A k \in DOMAIN e.keys : e.keys[k].type \in Types
      /\ \A k \in DOMAIN d.stats : {"id", "type"} \subseteq DOMAIN d.stats[k]
  BY DEF Good, ShardOK
<1>3. /\ Good(d) => Good(e)
      /\ Placed(d) => Placed(e)
  BY <1>1, <1>2, SameObjects
<1> QED BY <1>3 DEF Follows

-----------------------------------------------------------------------------
(* The commands.                                                               *)
LEMMA BackendKeeps ==
  ASSUME NEW d, NEW backend, Good(d)
  PROVE  Follows(d, WithBackend(d, backend)) /\ WithBackend(d, backend).next = d.next
<1> DEFINE e == WithBackend(d, backend)
<1>1. DOMAIN e = DOMAIN d /\ e.keys = d.keys /\ e.stats = d.stats /\ e.running = d.running /\ e.next = d.next
  BY DEF Good, ShardOK, Fixtures, WithBackend
<1> HIDE DEF e
<1>2. Follows(d, e)
  BY <1>1, OtherFields
<1> QED BY <1>1, <1>2 DEF e

LEMMA StoreModelKeeps ==
  ASSUME NEW d, NEW key, NEW def, Good(d)
  PROVE  Follows(d, StoreModel(d, key, def)) /\ Follows(d, StoreScript(d, key, def))
<1>1. Follows(d, StoreModel(d, key, def))
  <2> DEFINE o == Model(key, d.next, def)
  <2>1. o.key = key /\ o.type = "model" /\ o.id = d.next
    BY DEF Model
  <2> HIDE DEF o
  <2>2. Follows(d, StoreStats(SetValue(d, key, o), key, "model", d.next))
    BY <2>1, StoreKeeps DEF Kinds
  <2> QED BY <2>2 DEF StoreModel, o
<1>2. Follows(d, StoreScript(d, key, def))
  <2> DEFINE o == Script(key, d.next, def)
  <2>1. o.key = key /\ o.type = "script" /\ o.id = d.next
    BY DEF Script
  <2> HIDE DEF o
  <2>2. Follows(d, StoreStats(SetValue(d, key, o), key, "script", d.next))
    BY <2>1, StoreKeeps DEF Kinds
  <2> QED BY <2>2 DEF StoreScript, o
<1> QED BY <1>1, <1>2

LEMMA StoresKeep ==
  ASSUME NEW d, NEW key, NEW def, Good(d)
  PROVE  /\ Follows(d, ModelStore(d, key, def).db)
         /\ Follows(d, ScriptSet(d, key, def).db)
         /\ Follows(d, ScriptStore(d, key, def).db)
<1>1. Follows(d, d)
  BY DEF Follows
<1>2. Follows(d, WithBackend(d, def.backend)) /\ Follows(d, WithBackend(d, "TORCH"))
  BY BackendKeeps
<1>3. /\ Follows(WithBackend(d, def.backend), StoreModel(WithBackend(d, def.backend), key, ModelFields(def)))
      /\ Follows(WithBackend(d, "TORCH"), StoreScript(WithBackend(d, "TORCH"), key, ScriptFields(def)))
  BY <1>2, StoreModelKeeps DEF Follows
<1>4. /\ Follows(d, StoreModel(WithBackend(d, def.backend), key, ModelFields(def)))
      /\ Follows(d, StoreScript(WithBackend(d, "TORCH"), key, ScriptFields(def)))
  BY <1>2, <1>3 DEF Follows
<1>5. Follows(d, ModelStore(d, key, def).db)
  BY <1>1, <1>2, <1>4 DEF ModelStore, Ok, Error, Died
<1>6. Follows(d, ScriptSet(d, key, def).db)
  BY <1>2, <1>4 DEF ScriptSet, Ok, Error
<1>7. Follows(d, ScriptStore(d, key, def).db)
  BY <1>1, <1>6 DEF ScriptStore, Error
<1> QED BY <1>5, <1>6, <1>7

LEMMA TensorSetKeeps ==
  ASSUME NEW d, NEW key, NEW arg, Good(d)
  PROVE  Follows(d, TensorSet(d, key, arg).db)
<1> DEFINE v == Tensor(TensorNew(arg.dtype, arg.dims, arg.data))
<1>1. v.type \in Types \ Kinds
  BY DEF Tensor, Types, Kinds
<1> HIDE DEF v
<1>2. Follows(d, SetValue(d, key, v)) /\ Follows(d, d)
  BY <1>1, SetValueKeeps DEF Follows
<1> QED BY <1>2 DEF TensorSet, Ok, Error, v

LEMMA StringSetKeeps ==
  ASSUME NEW d, NEW key, NEW data, Good(d)
  PROVE  Follows(d, StringSet(d, key, data).db)
<1> DEFINE v == Bytes(data)
<1>1. v.type \in Types \ Kinds
  BY DEF Bytes, Types, Kinds
<1> HIDE DEF v
<1>2. Follows(d, SetValue(d, key, v))
  BY <1>1, SetValueKeeps
<1> QED BY <1>2 DEF StringSet, Ok, v

(* A key that holds no model or script gets a value that is none either.                *)
LEMMA PutKeeps ==
  ASSUME NEW d, NEW key, NEW v, Good(d), v.type \in Types \ Kinds, key \notin ObjectKeys(d)
  PROVE  Follows(d, [d EXCEPT !.keys = Put(@, key, v)])
<1> DEFINE e == [d EXCEPT !.keys = Put(@, key, v)]
<1>1. /\ e.keys = Put(d.keys, key, v) /\ e.running = d.running /\ e.next = d.next
      /\ e.stats = d.stats /\ Fixtures \subseteq DOMAIN e
  BY DEF Good, ShardOK, Fixtures
<1> HIDE DEF e
<1>2. /\ DOMAIN e.keys = DOMAIN d.keys \cup {key} /\ e.keys[key] = v
      /\ \A k \in DOMAIN d.keys \ {key} : e.keys[k] = d.keys[k]
  BY <1>1 DEF Put
<1>3. /\ ObjectKeys(e) = ObjectKeys(d)
      /\ \A k \in ObjectKeys(d) : e.keys[k] = d.keys[k]
  BY <1>2 DEF ObjectKeys, Kinds
<1>4. /\ \A k \in DOMAIN d.keys : d.keys[k].type \in Types
      /\ \A k \in DOMAIN d.stats : {"id", "type"} \subseteq DOMAIN d.stats[k]
  BY DEF Good, ShardOK
<1>5. \A k \in DOMAIN e.keys : e.keys[k].type \in Types
  BY <1>2, <1>4
<1>6. /\ Good(d) => Good(e)
      /\ Placed(d) => Placed(e)
  BY <1>1, <1>3, <1>4, <1>5, SameObjects
<1> QED BY <1>6 DEF Follows, e

LEMMA AppendsKeep ==
  ASSUME NEW d, NEW key, NEW arg, Good(d)
  PROVE  Follows(d, HashSet(d, key, arg).db) /\ Follows(d, PushRight(d, key, arg).db)
<1>1. Follows(d, d)
  BY DEF Follows
<1>2. \A type \in {"hash", "list"} : May(d, key, type) => key \notin ObjectKeys(d)
  BY DEF May, Has, ObjectKeys
<1>3. Follows(d, HashSet(d, key, arg).db)
  <2> DEFINE v == Hash([f \in DOMAIN arg \cup DOMAIN Fields(d, key) |->
                         IF f \in DOMAIN arg THEN arg[f] ELSE Fields(d, key)[f]])
  <2>1. v.type \in Types \ Kinds
    BY DEF Hash, Types, Kinds
  <2>2. HashSet(d, key, arg).db = IF May(d, key, "hash") THEN [d EXCEPT !.keys = Put(@, key, v)] ELSE d
    BY DEF HashSet, Ok, Error
  <2> HIDE DEF v
  <2>3. May(d, key, "hash") => Follows(d, [d EXCEPT !.keys = Put(@, key, v)])
    BY <1>2, <2>1, PutKeeps
  <2> QED BY <1>1, <2>2, <2>3
<1>4. Follows(d, PushRight(d, key, arg).db)
  <2> DEFINE v == List(Pushed(d, key, arg))
  <2>1. v.type \in Types \ Kinds
    BY DEF List, Types, Kinds
  <2>2. PushRight(d, key, arg).db = IF May(d, key, "list") THEN [d EXCEPT !.keys = Put(@, key, v)] ELSE d
    BY DEF PushRight, Ok, Error
  <2> HIDE DEF v
  <2>3. May(d, key, "list") => Follows(d, [d EXCEPT !.keys = Put(@, key, v)])
    BY <1>2, <2>1, PutKeeps
  <2> QED BY <1>1, <2>2, <2>3
<1> QED BY <1>3, <1>4

LEMMA DeletionsKeep ==
  ASSUME NEW d, NEW key, NEW keys, Good(d)
  PROVE  /\ Follows(d, ModelDel(d, key).db)
         /\ Follows(d, ScriptDel(d, key).db)
         /\ Follows(d, Del(d, keys).db)
         /\ Follows(d, Flush(d).db)
<1>1. Follows(d, d) /\ Follows(d, DeleteAll(d, {key})) /\ Follows(d, DeleteAll(d, keys))
      /\ Follows(d, DeleteAll(d, DOMAIN d.keys))
  BY DeleteKeeps DEF Follows
<1>2. Follows(d, ModelDel(d, key).db) /\ Follows(d, ScriptDel(d, key).db)
  BY <1>1 DEF ModelDel, ScriptDel, DeleteKey, Ok, Error
<1>3. Follows(d, Del(d, keys).db) /\ Follows(d, Flush(d).db)
  BY <1>1 DEF Del, Flush, Ok
<1> QED BY <1>2, <1>3

(* The numbers of calls change.                                                    *)
LEMMA CallsChange ==
  ASSUME NEW d, NEW key \in DOMAIN d.stats, NEW n, Good(d)
  PROVE  LET e == [d EXCEPT !.stats[key].calls = n]
         IN  Follows(d, e) /\ e.keys = d.keys /\ e.running = d.running
<1> DEFINE e == [d EXCEPT !.stats[key].calls = n]
<1>1. /\ e.keys = d.keys /\ e.running = d.running /\ e.next = d.next /\ Fixtures \subseteq DOMAIN e
      /\ e.stats = [d.stats EXCEPT ![key] = [d.stats[key] EXCEPT !.calls = n]]
  BY DEF Good, ShardOK, Fixtures
<1> HIDE DEF e
<1>2. ObjectKeys(e) = ObjectKeys(d) /\ \A k \in DOMAIN e.keys : e.keys[k].type \in Types
  BY <1>1 DEF ObjectKeys, Good, ShardOK
<1>3. DOMAIN e.stats = DOMAIN d.stats
  BY <1>1
<1>4. \A k \in DOMAIN d.stats : {"id", "type"} \subseteq DOMAIN d.stats[k]
  BY DEF Good, ShardOK
<1>5. ASSUME NEW k \in DOMAIN d.stats
      PROVE  /\ {"id", "type"} \subseteq DOMAIN e.stats[k]
             /\ e.stats[k].id = d.stats[k].id /\ e.stats[k].type = d.stats[k].type
  <2>1. CASE k = key
    <3>1. e.stats[k] = [d.stats[key] EXCEPT !.calls = n]
      BY <1>1, <2>1
    <3> QED BY <1>4, <2>1, <3>1
  <2>2. CASE k # key
    BY <1>1, <1>4, <2>2
  <2> QED BY <2>1, <2>2
<1>6. /\ Good(d) => Good(e)
      /\ Placed(d) => Placed(e)
  BY <1>1, <1>2, <1>3, <1>5, SameObjects
<1> QED BY <1>1, <1>6 DEF Follows, e

LEMMA ResetKeeps ==
  ASSUME NEW d, NEW key, Good(d)
  PROVE  Follows(d, ResetStat(d, key).db)
<1>1. CASE key \in DOMAIN d.stats
  <2>1. ResetStat(d, key).db = [d EXCEPT !.stats[key].calls = 0]
    BY <1>1 DEF ResetStat, Ok
  <2>2. Follows(d, [d EXCEPT !.stats[key].calls = 0])
    BY <1>1, CallsChange
  <2> QED BY <2>1, <2>2
<1>2. CASE key \notin DOMAIN d.stats
  BY <1>2 DEF ResetStat, Error, Follows
<1> QED BY <1>1, <1>2

LEMMA SettingsKeep ==
  ASSUME NEW d, NEW arg, Good(d)
  PROVE  Follows(d, ConfigSetChunk(d, arg).db) /\ Follows(d, ConfigSet(d, arg).db)
<1>1. Follows(d, d)
  BY DEF Follows
<1>2. Follows(d, ConfigSetChunk(d, arg).db)
  <2> DEFINE e == [d EXCEPT !.chunk = arg]
  <2>1. DOMAIN e = DOMAIN d /\ e.keys = d.keys /\ e.stats = d.stats /\ e.running = d.running /\ e.next = d.next
    BY DEF Good, ShardOK, Fixtures
  <2> HIDE DEF e
  <2>2. Follows(d, e)
    BY <2>1, OtherFields
  <2> QED BY <1>1, <2>2 DEF ConfigSetChunk, Ok, Error, e
<1>3. Follows(d, ConfigSet(d, arg).db)
  <2> DEFINE e == [d EXCEPT !.config[arg[1]] = arg[2]]
  <2>1. DOMAIN e = DOMAIN d /\ e.keys = d.keys /\ e.stats = d.stats /\ e.running = d.running /\ e.next = d.next
    BY DEF Good, ShardOK, Fixtures
  <2>2. ConfigSet(d, arg).db = IF arg[1] \in DOMAIN d.config THEN e ELSE d
    BY DEF ConfigSet, Ok, Error
  <2> HIDE DEF e
  <2>3. Follows(d, e)
    BY <2>1, OtherFields
  <2> QED BY <1>1, <2>2, <2>3
<1> QED BY <1>2, <1>3

(* A value moves from one key to another.  What is alive and what entries there are does   *)
(* not change, but a model or script is no longer in its place.                        *)
LEMMA RenameKeeps ==
  ASSUME NEW d, NEW from, NEW to, Good(d)
  PROVE  /\ Good(Rename(d, from, to).db)
         /\ Placed(d) /\ from \notin ObjectKeys(d) => Placed(Rename(d, from, to).db)
<1>1. CASE ~Has(d, from) \/ from = to
  BY <1>1 DEF Rename, Ok, Error
<1>2. CASE Has(d, from) /\ from # to
  <2> DEFINE bare == DeleteAll(d, {to})
             e == [bare EXCEPT !.keys = Put(Drop(@, {from}), to, d.keys[from])]
             v == d.keys[from]
  <2>1. Good(bare) /\ (Placed(d) => Placed(bare)) /\ bare.keys = Drop(d.keys, {to})
    BY DeleteKeeps
  <2>2. Rename(d, from, to).db = e
    BY <1>2 DEF Rename, DeleteKey, Ok
  <2> HIDE DEF bare
  <2>3. /\ e.keys = Put(Drop(bare.keys, {from}), to, v) /\ e.running = bare.running /\ e.next = bare.next
        /\ e.stats = bare.stats /\ Fixtures \subseteq DOMAIN e
    BY <2>1 DEF Good, ShardOK, Fixtures
  <2> HIDE DEF e
  <2>4. from \in DOMAIN bare.keys /\ to \notin DOMAIN bare.keys /\ bare.keys[from] = v
    BY <1>2, <2>1 DEF Drop, Restrict, Has
  <2>5. /\ DOMAIN e.keys = (DOMAIN bare.keys \ {from}) \cup {to} /\ e.keys[to] = v
        /\ \A k \in DOMAIN bare.keys \ {from} : e.keys[k] = bare.keys[k]
    BY <2>3, <2>4 DEF Put, Drop, Restrict
  <2> DEFINE old(k) == IF k = to THEN from ELSE k
  <2>6. \A k \in DOMAIN e.keys : old(k) \in DOMAIN bare.keys /\ e.keys[k] = bare.keys[old(k)]
    BY <2>4, <2>5
  <2>7. /\ \A k \in ObjectKeys(e) : old(k) \in ObjectKeys(bare) /\ e.keys[k] = bare.keys[old(k)]
        /\ \A k \in ObjectKeys(bare) \ {from} : k \in ObjectKeys(e) /\ e.keys[k] = bare.keys[k]
        /\ from \in ObjectKeys(bare) => to \in ObjectKeys(e)
    BY <2>4, <2>5, <2>6 DEF ObjectKeys
  <2>8. Alive(e) = Alive(bare)
    <3>1. \A o \in Alive(e) : o \in Alive(bare)
      <4> SUFFICES ASSUME NEW o \in Alive(e) PROVE o \in Alive(bare)
        OBVIOUS
      <4>1. CASE \E k \in ObjectKeys(e) : o = e.keys[k]
        BY <2>7, <4>1, AliveIs
      <4>2. CASE \E c \in DOMAIN e.running : o = e.running[c].object
        BY <2>3, <4>2, AliveIs
      <4> QED BY <4>1, <4>2, AliveIs
    <3>2. \A o \in Alive(bare) : o \in Alive(e)
      <4> SUFFICES ASSUME NEW o \in Alive(bare) PROVE o \in Alive(e)
        OBVIOUS
      <4>1. CASE \E k \in ObjectKeys(bare) : o = bare.keys[k]
        BY <2>4, <2>5, <2>7, <4>1, AliveIs
      <4>2. CASE \E c \in DOMAIN bare.running : o = bare.running[c].object
        BY <2>3, <4>2, AliveIs
      <4> QED BY <4>1, <4>2, AliveIs
    <3> QED BY <3>1, <3>2
  <2>9. \A k \in DOMAIN e.keys : e.keys[k].type \in Types
    BY <2>1, <2>6 DEF Good, ShardOK
  <2>10. \A j, k \in ObjectKeys(e) : e.keys[j].id = e.keys[k].id => j = k
    <3>1. \A j, k \in ObjectKeys(bare) : bare.keys[j].id = bare.keys[k].id => j = k
      BY <2>1 DEF Good, ShardOK
    <3>2. \A k \in ObjectKeys(e) : k # from
      BY <1>2, <2>5 DEF ObjectKeys
    <3> QED BY <2>7, <3>1, <3>2
  <2>11. ShardOK(e)
    BY <2>1, <2>3, <2>8, <2>9, <2>10 DEF Good, ShardOK
  <2>12. EntriesOK(e)
    BY <2>1, <2>3, <2>8 DEF Good, EntriesOK, IsEntryOf
  <2>13. ASSUME Placed(d), from \notin ObjectKeys(d) PROVE Placed(e)
    <3>1. from \notin ObjectKeys(bare)
      BY <2>1, <2>13 DEF ObjectKeys, Drop, Restrict
    <3>2. \A k \in ObjectKeys(e) : k \in ObjectKeys(bare) /\ e.keys[k] = bare.keys[k]
      BY <2>7, <3>1
    <3> QED BY <2>1, <2>3, <2>13, <3>2 DEF Placed, IsEntryOf
  <2> QED BY <2>2, <2>11, <2>12, <2>13 DEF Good
<1> QED BY <1>1, <1>2

(* An execution begins: it has an object that is in a key.                            *)
LEMMA ExecuteKeeps ==
  ASSUME NEW d, NEW who, NEW type \in Kinds, NEW key, NEW arg, Good(d),
         who \notin DOMAIN d.running
  PROVE  Follows(d, Execute(d, who, type, key, arg).db)
<1> DEFINE run == [object |-> d.keys[key], fn |-> arg.fn, outs |-> arg.outs, answer |-> << >>,
                   ins |-> [i \in DOMAIN arg.ins |-> d.keys[arg.ins[i]].data]]
           e == [d EXCEPT !.running = Put(@, who, run)]
<1>1. \/ Execute(d, who, type, key, arg).db = d
      \/ Execute(d, who, type, key, arg).db = e /\ Is(d, key, type)
  BY DEF Execute, Ok, Error
<1>2. ASSUME Is(d, key, type) PROVE Follows(d, e)
  <2>1. run.object = d.keys[key] /\ "object" \in DOMAIN run
    OBVIOUS
  <2> HIDE DEF run
  <2>2. /\ e.keys = d.keys /\ e.running = Put(d.running, who, run) /\ e.next = d.next
        /\ e.stats = d.stats /\ Fixtures \subseteq DOMAIN e
    BY DEF Good, ShardOK, Fixtures
  <2> HIDE DEF e
  <2>3. /\ DOMAIN e.running = DOMAIN d.running \cup {who} /\ e.running[who] = run
        /\ \A c \in DOMAIN d.running : e.running[c] = d.running[c]
    BY <2>2 DEF Put
  <2>4. key \in ObjectKeys(d)
    BY <1>2 DEF Is, Has, ObjectKeys, Kinds
  <2>5. ObjectKeys(e) = ObjectKeys(d)
    BY <2>2 DEF ObjectKeys
  <2>6. Alive(e) = Alive(d)
    <3>1. \A o \in Alive(e) : o \in Alive(d)
      BY <2>1, <2>2, <2>3, <2>4, <2>5, AliveIs
    <3>2. \A o \in Alive(d) : o \in Alive(e)
      BY <2>2, <2>3, <2>5, AliveIs
    <3> QED BY <3>1, <3>2
  <2>7. ShardOK(e)
    BY <2>1, <2>2, <2>3, <2>5, <2>6 DEF Good, ShardOK
  <2>8. EntriesOK(e)
    BY <2>2, <2>6 DEF Good, EntriesOK, IsEntryOf
  <2>9. Placed(d) => Placed(e)
    BY <2>2, <2>5 DEF Placed, IsEntryOf
  <2> QED BY <2>7, <2>8, <2>9 DEF Follows, Good
<1>3. Follows(d, d)
  BY DEF Follows
<1> QED BY <1>1, <1>2, <1>3

(* Every command.                                                 *)
LEMMA PerformKeeps ==
  ASSUME NEW d, NEW who, NEW cmd, Good(d),
         who \notin DOMAIN d.running \/ cmd.op \notin Executions
  PROVE  LET e == Perform(d, who, cmd).db
         IN  /\ Good(e)
             /\ Placed(d) /\ (cmd.op = "RENAME" => cmd.key \notin ObjectKeys(d)) => Placed(e)
<1> DEFINE e == Perform(d, who, cmd).db
           key == cmd.key
           arg == cmd.arg
<1>1. CASE cmd.op \in {"TENSORSET", "SET", "HSET", "RPUSH"}
  <2>1. /\ Follows(d, TensorSet(d, key, arg).db) /\ Follows(d, StringSet(d, key, arg).db)
        /\ Follows(d, HashSet(d, key, arg).db) /\ Follows(d, PushRight(d, key, arg).db)
    BY TensorSetKeeps, StringSetKeeps, AppendsKeep
  <2> QED BY <1>1, <2>1 DEF Perform, Follows
<1>2. CASE cmd.op \in {"MODELSTORE", "SCRIPTSET", "SCRIPTSTORE"}
  <2>1. /\ Follows(d, ModelStore(d, key, arg).db) /\ Follows(d, ScriptSet(d, key, arg).db)
        /\ Follows(d, ScriptStore(d, key, arg).db)
    BY StoresKeep
  <2> QED BY <1>2, <2>1 DEF Perform, Follows
<1>3. CASE cmd.op \in {"MODELDEL", "SCRIPTDEL", "DEL", "FLUSHDB"}
  <2>1. /\ Follows(d, ModelDel(d, key).db) /\ Follows(d, ScriptDel(d, key).db)
        /\ Follows(d, Del(d, {key} \cup arg).db) /\ Follows(d, Flush(d).db)
    BY DeletionsKeep
  <2> QED BY <1>3, <2>1 DEF Perform, Follows
<1>4. CASE cmd.op \in {"AI.INFO RESETSTAT", "AI.CONFIG", "CONFIG SET"}
  <2>1. /\ Follows(d, ResetStat(d, key).db) /\ Follows(d, ConfigSetChunk(d, arg).db)
        /\ Follows(d, ConfigSet(d, arg).db)
    BY ResetKeeps, SettingsKeep
  <2> QED BY <1>4, <2>1 DEF Perform, Follows
<1>5. CASE cmd.op \in Executions
  <2>1. /\ Follows(d, Execute(d, who, "model", key, arg).db)
        /\ Follows(d, Execute(d, who, "script", key, arg).db)
    BY <1>5, ExecuteKeeps DEF Kinds
  <2> QED BY <1>5, <2>1 DEF Perform, Follows, Executions
<1>6. CASE cmd.op = "RENAME"
  <2>1. /\ Good(Rename(d, key, arg).db)
        /\ Placed(d) /\ key \notin ObjectKeys(d) => Placed(Rename(d, key, arg).db)
    BY RenameKeeps
  <2> QED BY <1>6, <2>1 DEF Perform
<1>7. CASE cmd.op \in {"TENSORGET", "MODELGET", "SCRIPTGET", "AI.INFO", "AI.CONFIG GET", "CONFIG GET"}
  <2>1. /\ TensorGet(d, key).db = d /\ ModelGet(d, key).db = d /\ ScriptGet(d, key).db = d
        /\ Info(d, key).db = d /\ ConfigGetChunk(d).db = d /\ ConfigGet(d, arg).db = d
    BY DEF TensorGet, ModelGet, ScriptGet, Info, ConfigGetChunk, ConfigGet, Ok, Error
  <2> QED BY <1>7, <2>1 DEF Perform
<1>8. CASE cmd.op \in {"EXISTS", "GET", "HGETALL", "HEXISTS", "LRANGE", "LLEN"}
  <2>1. /\ Exists(d, key).db = d /\ StringGet(d, key).db = d /\ HashGetAll(d, key).db = d
        /\ HashExists(d, key, arg).db = d /\ ListLength(d, key).db = d
    BY DEF Exists, StringGet, HashGetAll, HashExists, ListLength, Ok, Error
  <2>2. ListRange(d, key, arg).db = d
    BY DEF ListRange, Ok, Error
  <2> QED BY <1>8, <2>1, <2>2 DEF Perform
<1>9. CASE cmd.op \notin {"TENSORSET", "SET", "HSET", "RPUSH", "MODELSTORE", "SCRIPTSET", "SCRIPTSTORE",
                          "MODELDEL", "SCRIPTDEL", "DEL", "FLUSHDB", "AI.INFO RESETSTAT", "AI.CONFIG",
                          "CONFIG SET", "RENAME", "TENSORGET", "MODELGET", "SCRIPTGET", "AI.INFO",
                          "AI.CONFIG GET", "CONFIG GET", "EXISTS", "GET", "HGETALL", "HEXISTS",
                          "LRANGE", "LLEN"} \cup Executions
  <2>1. Perform(d, who, cmd).db = d
    BY <1>9 DEF Perform, Executions, Ok, Error
  <2> QED BY <2>1
<1> QED BY <1>1, <1>2, <1>3, <1>4, <1>5, <1>6, <1>7, <1>8, <1>9

-----------------------------------------------------------------------------
(* An execution ends.                                                          *)
LEMMA PutAllKeeps ==
  ASSUME NEW d, NEW f, Good(d),
         \A k \in DOMAIN f : f[k].type \in Types \ Kinds /\ k \notin ObjectKeys(d)
  PROVE  LET e == [d EXCEPT !.keys = PutAll(@, f)]
         IN  Follows(d, e) /\ e.running = d.running
<1> DEFINE e == [d EXCEPT !.keys = PutAll(@, f)]
<1>1. /\ e.keys = PutAll(d.keys, f) /\ e.running = d.running /\ e.next = d.next
      /\ e.stats = d.stats /\ Fixtures \subseteq DOMAIN e
  BY DEF Good, ShardOK, Fixtures
<1> HIDE DEF e
<1>2. /\ DOMAIN e.keys = DOMAIN f \cup DOMAIN d.keys
      /\ \A k \in DOMAIN f : e.keys[k] = f[k]
      /\ \A k \in DOMAIN d.keys \ DOMAIN f : e.keys[k] = d.keys[k]
  BY <1>1 DEF PutAll
<1>3. /\ ObjectKeys(e) = ObjectKeys(d)
      /\ \A k \in ObjectKeys(d) : e.keys[k] = d.keys[k]
  BY <1>2 DEF ObjectKeys, Kinds
<1>4. /\ \A k \in DOMAIN d.keys : d.keys[k].type \in Types
      /\ \A k \in DOMAIN d.stats : {"id", "type"} \subseteq DOMAIN d.stats[k]
  BY DEF Good, ShardOK
<1>5. \A k \in DOMAIN e.keys : e.keys[k].type \in Types
  BY <1>2, <1>4
<1>6. /\ Good(d) => Good(e)
      /\ Placed(d) => Placed(e)
  BY <1>1, <1>3, <1>4, <1>5, SameObjects
<1> QED BY <1>1, <1>6 DEF Follows, e

LEMMA OutputsKeep ==
  ASSUME NEW d, NEW outs, NEW tensors, Good(d)
  PROVE  LET e == StoreOutputs(d, outs, tensors).db
         IN  Follows(d, e) /\ e.running = d.running
<1> DEFINE fit == {i \in DOMAIN outs : \A j \in {i} \cup 1 .. i - 1 : May(d, outs[j], "tensor")}
           stored == {outs[i] : i \in fit}
           last(k) == CHOOSE i \in fit : outs[i] = k /\ \A j \in fit : outs[j] = k => j <= i
           f == [k \in stored |-> Tensor(tensors[last(k)])]
<1>1. StoreOutputs(d, outs, tensors).db = [d EXCEPT !.keys = PutAll(@, f)]
  BY DEF StoreOutputs
<1> HIDE DEF last
<1>2. \A k \in DOMAIN f : f[k].type \in Types \ Kinds
  BY DEF Tensor, Types, Kinds
<1>3. \A k \in DOMAIN f : k \notin ObjectKeys(d)
  <2> SUFFICES ASSUME NEW i \in fit PROVE outs[i] \notin ObjectKeys(d)
    OBVIOUS
  <2>1. May(d, outs[i], "tensor")
    OBVIOUS
  <2> QED BY <2>1 DEF May, Has, ObjectKeys
<1> HIDE DEF f
<1> QED BY <1>1, <1>2, <1>3, PutAllKeeps

LEMMA FinishKeeps ==
  ASSUME NEW d, NEW who \in DOMAIN d.running, NEW answer, Good(d)
  PROVE  Follows(d, Finish(d, who, answer).reply.db)
<1> DEFINE run == d.running[who]
           o == run.object
           counted == Counted(d, o)
           out == IF answer.ok THEN StoreOutputs(counted, run.outs, answer.outs).db ELSE counted
           bare == [out EXCEPT !.running = Drop(@, {who})]
<1>1. Finish(d, who, answer).reply.db = ModelFree(bare, {o})
  BY DEF Finish, Ok, Error
<1>2. Follows(d, counted) /\ counted.running = d.running
  <2>1. CASE o.key \in DOMAIN d.stats /\ d.stats[o.key].id = o.id
    <3>1. counted = [d EXCEPT !.stats[o.key].calls = d.stats[o.key].calls + 1]
      BY <2>1 DEF Counted
    <3> HIDE DEF counted, o
    <3> QED BY <2>1, <3>1, CallsChange
  <2>2. CASE ~(o.key \in DOMAIN d.stats /\ d.stats[o.key].id = o.id)
    <3>1. counted = d
      BY <2>2 DEF Counted
    <3> HIDE DEF counted
    <3> QED BY <3>1 DEF Follows
  <2> QED BY <2>1, <2>2
<1>3. Follows(d, out) /\ out.running = d.running
  <2> HIDE DEF counted
  <2>1. LET e == StoreOutputs(counted, run.outs, answer.outs).db
        IN  Follows(counted, e) /\ e.running = counted.running
    BY <1>2, OutputsKeep DEF Follows
  <2> QED BY <1>2, <2>1 DEF Follows
<1>4. /\ o \in Alive(out) /\ out.running[who] = run
  BY <1>3, AliveIs
<1> HIDE DEF out, o, run
<1>5. Good(out)
  BY <1>3 DEF Follows
<1>6. /\ bare.keys = out.keys /\ bare.running = Drop(out.running, {who}) /\ bare.next = out.next
      /\ bare.stats = out.stats /\ Fixtures \subseteq DOMAIN bare
  BY <1>5 DEF Good, ShardOK, Fixtures
<1> HIDE DEF bare
<1>7. /\ DOMAIN bare.running = DOMAIN out.running \ {who}
      /\ \A c \in DOMAIN bare.running : bare.running[c] = out.running[c]
  BY <1>6 DEF Drop, Restrict
<1>8. ObjectKeys(bare) = ObjectKeys(out)
  BY <1>6 DEF ObjectKeys
<1>9. Alive(out) = Alive(bare) \cup {o}
  <2>1. \A p \in Alive(out) : p \in Alive(bare) \cup {o}
    <3> SUFFICES ASSUME NEW p \in Alive(out) PROVE p \in Alive(bare) \cup {o}
      OBVIOUS
    <3>1. CASE \E k \in ObjectKeys(out) : p = out.keys[k]
      BY <1>6, <1>8, <3>1, AliveIs
    <3>2. CASE \E c \in DOMAIN out.running : p = out.running[c].object
      <4>1. PICK c \in DOMAIN out.running : p = out.running[c].object
        BY <3>2
      <4>2. CASE c = who
        BY <1>4, <4>1, <4>2 DEF o
      <4>3. CASE c # who
        BY <1>7, <4>1, <4>3, AliveIs
      <4> QED BY <4>2, <4>3
    <3> QED BY <3>1, <3>2, AliveIs
  <2>2. \A p \in Alive(bare) : p \in Alive(out)
    <3> SUFFICES ASSUME NEW p \in Alive(bare) PROVE p \in Alive(out)
      OBVIOUS
    <3>1. CASE \E k \in ObjectKeys(bare) : p = bare.keys[k]
      BY <1>6, <1>8, <3>1, AliveIs
    <3>2. CASE \E c \in DOMAIN bare.running : p = bare.running[c].object
      BY <1>7, <3>2, AliveIs
    <3> QED BY <3>1, <3>2, AliveIs
  <2> QED BY <1>4, <2>1, <2>2
<1>10. ShardOK(bare)
  BY <1>5, <1>6, <1>7, <1>8, <1>9 DEF Good, ShardOK
<1>11. \A p \in {o}, q \in Alive(bare) : p.id = q.id => p.key = q.key /\ p.type = q.type
  BY <1>5, <1>9 DEF Good, ShardOK
<1>12. \A k \in DOMAIN bare.stats : \E p \in Alive(bare) \cup {o} : IsEntryOf(bare, k, p)
  BY <1>5, <1>6, <1>9 DEF Good, EntriesOK, IsEntryOf
<1>13. Placed(out) => Placed(bare)
  BY <1>6, <1>8 DEF Placed, IsEntryOf
<1>14. LET e == ModelFree(bare, {o})
       IN  /\ Good(e)
           /\ Placed(bare) => Placed(e)
  BY <1>10, <1>11, <1>12, FreeKeeps
<1> QED BY <1>1, <1>3, <1>13, <1>14 DEF Follows

(* What the append-only file gets of the outputs.                                    *)
LEMMA OutputsStoredKeep ==
  ASSUME NEW d, NEW outs, NEW from, Good(d)
  PROVE  Follows(d, OutputsStored(d, outs, from))
<1> DEFINE set(k) == TensorSet(d, k, from.keys[k].data)
           f == [k \in {j \in outs : set(j).ok} |-> set(k).db.keys[k]]
<1>1. OutputsStored(d, outs, from) = [d EXCEPT !.keys = PutAll(@, f)]
  BY DEF OutputsStored
<1>2. ASSUME NEW k, set(k).ok
      PROVE  set(k).db.keys[k].type \in Types \ Kinds /\ k \notin ObjectKeys(d)
  <2> DEFINE arg == from.keys[k].data
             v == Tensor(TensorNew(arg.dtype, arg.dims, arg.data))
             bare == DeleteAll(d, {k})
  <2>1. May(d, k, "tensor") /\ set(k).db = SetValue(d, k, v)
    BY <1>2 DEF TensorSet, Ok, Error
  <2>2. v.type \in Types \ Kinds
    BY DEF Tensor, Types, Kinds
  <2> HIDE DEF v
  <2>3. Good(bare)
    BY DeleteKeeps
  <2>4. SetValue(d, k, v) = [bare EXCEPT !.keys = Put(bare.keys, k, v)]
    BY DEF SetValue, DeleteKey
  <2> HIDE DEF bare
  <2>5. SetValue(d, k, v).keys[k] = v
    BY <2>3, <2>4 DEF Good, ShardOK, Fixtures, Put
  <2>6. k \notin ObjectKeys(d)
    BY <2>1 DEF May, Has, ObjectKeys
  <2> HIDE DEF set
  <2> QED BY <2>1, <2>2, <2>5, <2>6
<1> HIDE DEF set
<1>3. \A k \in DOMAIN f : f[k].type \in Types \ Kinds /\ k \notin ObjectKeys(d)
  BY <1>2
<1> HIDE DEF f
<1> QED BY <1>1, <1>3, PutAllKeeps

(* Two executions are answered together.                                             *)
LEMMA RunTwoKeeps ==
  ASSUME NEW d, NEW a \in DOMAIN d.running, NEW b \in DOMAIN d.running, Good(d)
  PROVE  Follows(d, RunTwo(d, a, b))
<1> DEFINE answers == RunBatch(d.running[a].object.def, <<d.running[a].ins, d.running[b].ins>>,
                               Len(d.running[a].outs))
           e == RunTwo(d, a, b)
           one == [d.running EXCEPT ![a].answer = <<answers[1]>>]
           two == [one EXCEPT ![b].answer = <<answers[2]>>]
<1>1. /\ e.keys = d.keys /\ e.running = two /\ e.next = d.next
      /\ e.stats = d.stats /\ Fixtures \subseteq DOMAIN e
  BY DEF Good, ShardOK, Fixtures, RunTwo
<1> HIDE DEF e, answers
<1>2. \A c \in DOMAIN d.running : "object" \in DOMAIN d.running[c]
  BY DEF Good, ShardOK
<1>3. /\ DOMAIN one = DOMAIN d.running
      /\ \A c \in DOMAIN d.running : "object" \in DOMAIN one[c] /\ one[c].object = d.running[c].object
  <2>1. /\ DOMAIN one = DOMAIN d.running
        /\ one[a] = [d.running[a] EXCEPT !.answer = <<answers[1]>>]
        /\ \A c \in DOMAIN d.running \ {a} : one[c] = d.running[c]
    OBVIOUS
  <2> HIDE DEF one
  <2>2. "object" \in DOMAIN one[a] /\ one[a].object = d.running[a].object
    BY <1>2, <2>1
  <2> QED BY <1>2, <2>1, <2>2
<1> HIDE DEF one
<1>4. /\ DOMAIN two = DOMAIN d.running
      /\ \A c \in DOMAIN d.running : "object" \in DOMAIN two[c] /\ two[c].object = d.running[c].object
  <2>1. /\ DOMAIN two = DOMAIN one
        /\ two[b] = [one[b] EXCEPT !.answer = <<answers[2]>>]
        /\ \A c \in DOMAIN one \ {b} : two[c] = one[c]
    BY <1>3
  <2> HIDE DEF two
  <2>2. "object" \in DOMAIN two[b] /\ two[b].object = d.running[b].object
    BY <1>3, <2>1
  <2> QED BY <1>3, <2>1, <2>2
<1> HIDE DEF two
<1>5. ObjectKeys(e) = ObjectKeys(d)
  BY <1>1 DEF ObjectKeys
<1>6. Alive(e) = Alive(d)
  <2>1. \A o \in Alive(e) : o \in Alive(d)
    BY <1>1, <1>4, <1>5, AliveIs
  <2>2. \A o \in Alive(d) : o \in Alive(e)
    BY <1>1, <1>4, <1>5, AliveIs
  <2> QED BY <2>1, <2>2
<1>7. ShardOK(e)
  BY <1>1, <1>4, <1>5, <1>6 DEF Good, ShardOK
<1>8. EntriesOK(e)
  BY <1>1, <1>6 DEF Good, EntriesOK, IsEntryOf
<1>9. Placed(d) => Placed(e)
  BY <1>1, <1>5 DEF Placed, IsEntryOf
<1> QED BY <1>7, <1>8, <1>9 DEF Follows, Good, e

-----------------------------------------------------------------------------
(* What is read from disk: shards of one object each, put together.                  *)

\* A shard that has nothing yet, and gives the number of an object next.
Base(object, d) ==
  /\ Good(d) /\ Placed(d) /\ DOMAIN d.keys = {} /\ DOMAIN d.running = {}
  /\ object.type \in Kinds => d.next = object.id
\* A shard that has at most the object, in this key.
PartOf(key, object, d) ==
  /\ Good(d) /\ Placed(d) /\ DOMAIN d.keys \subseteq {key} /\ DOMAIN d.running = {}
  /\ \A k \in ObjectKeys(d) : object.type \in Kinds /\ d.keys[k].id = object.id

LEMMA EmptyGood ==
  ASSUME NEW host, NEW n \in Nat
  PROVE  LET d == [EmptyShard(host) EXCEPT !.next = n]
         IN  Good(d) /\ Placed(d) /\ DOMAIN d.keys = {} /\ DOMAIN d.running = {} /\ d.next = n
<1> DEFINE d == [EmptyShard(host) EXCEPT !.next = n]
<1>1. /\ d.keys = << >> /\ d.stats = << >> /\ d.running = << >> /\ d.next = n
      /\ Fixtures \subseteq DOMAIN d
  BY DEF EmptyShard, Fixtures
<1> HIDE DEF d
<1>2. DOMAIN d.keys = {} /\ DOMAIN d.stats = {} /\ DOMAIN d.running = {}
  BY <1>1
<1>3. ObjectKeys(d) = {} /\ Alive(d) = {}
  BY <1>2 DEF ObjectKeys, Alive
<1>4. Good(d) /\ Placed(d)
  BY <1>1, <1>2, <1>3 DEF Good, ShardOK, EntriesOK, Placed
<1> QED BY <1>1, <1>2, <1>4 DEF d

LEMMA PartIsBase ==
  ASSUME NEW host, NEW object, object.type \in Kinds => object.id \in Nat
  PROVE  Base(object, Part(host, object))
<1> DEFINE n == IF object.type \in Kinds THEN object.id ELSE 0
           d == [EmptyShard(host) EXCEPT !.next = n]
<1>1. n \in Nat /\ Part(host, object) = d
  BY DEF Part, Kinds
<1> HIDE DEF n
<1>2. Good(d) /\ Placed(d) /\ DOMAIN d.keys = {} /\ DOMAIN d.running = {} /\ d.next = n
  BY <1>1, EmptyGood
<1> QED BY <1>1, <1>2 DEF Base, n

LEMMA BaseIsPart ==
  ASSUME NEW key, NEW object, NEW d, Base(object, d)
  PROVE  PartOf(key, object, d)
BY DEF Base, PartOf, ObjectKeys

\* What a value in the key of a base is.
LEMMA BaseSet ==
  ASSUME NEW key, NEW object, NEW d, NEW v, Base(object, d)
  PROVE  LET e == SetValue(d, key, v)
         IN  /\ DOMAIN e.keys = {key} /\ e.keys[key] = v /\ e.running = d.running
             /\ Fixtures \subseteq DOMAIN e
<1> DEFINE bare == DeleteAll(d, {key})
           e == SetValue(d, key, v)
<1>1. Good(bare) /\ bare.keys = Drop(d.keys, {key}) /\ bare.running = d.running
  BY DeleteKeeps DEF Base
<1> HIDE DEF bare
<1>2. e = [bare EXCEPT !.keys = Put(bare.keys, key, v)]
  BY DEF SetValue, DeleteKey, bare
<1>3. e.keys = Put(bare.keys, key, v) /\ e.running = bare.running /\ Fixtures \subseteq DOMAIN e
  BY <1>1, <1>2 DEF Good, ShardOK, Fixtures
<1> HIDE DEF e
<1>4. DOMAIN bare.keys = {}
  BY <1>1 DEF Base, Drop, Restrict
<1>5. DOMAIN e.keys = {key} /\ e.keys[key] = v
  BY <1>3, <1>4 DEF Put
<1> QED BY <1>1, <1>3, <1>5 DEF e

LEMMA PartsSet ==
  ASSUME NEW key, NEW object, NEW d, NEW v, Base(object, d), v.type \in Types \ Kinds
  PROVE  PartOf(key, object, SetValue(d, key, v))
<1> DEFINE e == SetValue(d, key, v)
<1>1. Good(e) /\ Placed(e)
  BY SetValueKeeps DEF Base, Follows
<1>2. DOMAIN e.keys = {key} /\ e.keys[key] = v /\ e.running = d.running
  BY BaseSet
<1> HIDE DEF e
<1>3. ObjectKeys(e) = {}
  BY <1>2 DEF ObjectKeys, Kinds
<1>4. PartOf(key, object, e)
  BY <1>1, <1>2, <1>3 DEF PartOf, Base
<1> QED BY <1>4 DEF e

LEMMA PartsStore ==
  ASSUME NEW key, NEW object, NEW d, NEW def, Base(object, d), object.type \in Kinds
  PROVE  PartOf(key, object, StoreModel(d, key, def)) /\ PartOf(key, object, StoreScript(d, key, def))
<1>1. ASSUME NEW e, NEW v, NEW type, Follows(d, e), v.id = d.next,
             e = StoreStats(SetValue(d, key, v), key, type, d.next)
      PROVE  PartOf(key, object, e)
  <2> DEFINE b == SetValue(d, key, v)
  <2>1. DOMAIN b.keys = {key} /\ b.keys[key] = v /\ b.running = d.running /\ Fixtures \subseteq DOMAIN b
    BY BaseSet
  <2> HIDE DEF b
  <2>2. e.keys = b.keys /\ e.running = b.running
    BY <1>1, <2>1 DEF StoreStats, Fixtures, b
  <2>3. \A k \in ObjectKeys(e) : e.keys[k].id = object.id
    BY <1>1, <2>1, <2>2 DEF ObjectKeys, Base
  <2> QED BY <1>1, <2>1, <2>2, <2>3 DEF PartOf, Base, Follows
<1>2. Follows(d, StoreModel(d, key, def)) /\ Follows(d, StoreScript(d, key, def))
  BY StoreModelKeeps DEF Base
<1>3. Model(key, d.next, def).id = d.next /\ Script(key, d.next, def).id = d.next
  BY DEF Model, Script
<1>4. PartOf(key, object, StoreModel(d, key, def))
  BY <1>1, <1>2, <1>3 DEF StoreModel
<1>5. PartOf(key, object, StoreScript(d, key, def))
  BY <1>1, <1>2, <1>3 DEF StoreScript
<1> QED BY <1>4, <1>5

LEMMA BaseBackend ==
  ASSUME NEW object, NEW d, NEW backend, Base(object, d)
  PROVE  Base(object, WithBackend(d, backend))
<1> DEFINE e == WithBackend(d, backend)
<1>1. Follows(d, e) /\ e.next = d.next
  BY BackendKeeps DEF Base
<1>2. e.keys = d.keys /\ e.running = d.running
  BY DEF WithBackend, Base, Good, ShardOK, Fixtures
<1> HIDE DEF e
<1>3. Base(object, e)
  BY <1>1, <1>2 DEF Base, Follows
<1> QED BY <1>3 DEF e

(* The parts of a snapshot, of an earlier one, and of a rewritten file.                 *)
LEMMA LoadedParts ==
  ASSUME NEW key, NEW object, NEW d, Base(object, d), object.type \in Types
  PROVE  PartOf(key, object, LoadObject(d, key, object))
<1>1. CASE object.type = "model"
  <2> DEFINE b == WithBackend(d, object.def.backend)
             def == LoadModel(SaveModel(object.def))
  <2>1. Base(object, b)
    BY BaseBackend
  <2>2. LoadObject(d, key, object) = StoreModel(b, key, def)
    BY <1>1 DEF LoadObject
  <2> HIDE DEF b, def
  <2> QED BY <1>1, <2>1, <2>2, PartsStore DEF Kinds
<1>2. CASE object.type = "script"
  <2> DEFINE b == WithBackend(d, "TORCH")
             def == LoadScript(SaveScript(object.def))
  <2>1. Base(object, b)
    BY BaseBackend
  <2>2. LoadObject(d, key, object) = StoreScript(b, key, def)
    BY <1>2 DEF LoadObject
  <2> HIDE DEF b, def
  <2> QED BY <1>2, <2>1, <2>2, PartsStore DEF Kinds
<1>3. CASE object.type = "tensor"
  <2> DEFINE v == Tensor(LoadTensor(SaveTensor(object.data)))
  <2>1. v.type \in Types \ Kinds
    BY DEF Tensor, Types, Kinds
  <2>2. LoadObject(d, key, object) = SetValue(d, key, v)
    BY <1>3 DEF LoadObject
  <2> HIDE DEF v
  <2> QED BY <2>1, <2>2, PartsSet
<1>4. CASE object.type \in {"string", "hash", "list"}
  <2>1. LoadObject(d, key, object) = SetValue(d, key, object)
    BY <1>4 DEF LoadObject
  <2>2. object.type \in Types \ Kinds
    BY <1>4 DEF Types, Kinds
  <2> QED BY <2>1, <2>2, PartsSet
<1> QED BY <1>1, <1>2, <1>3, <1>4 DEF Types, Kinds

LEMMA EarlierParts ==
  ASSUME NEW key, NEW object, NEW d, NEW version, Base(object, d),
         object.type \in {"model", "script", "tensor"}
  PROVE  PartOf(key, object, LoadEarlier(d, key, version, object))
<1>1. CASE object.type = "model"
  <2> DEFINE b == WithBackend(d, object.def.backend)
             def == DecodePreviousModel(version, EarlierModel(version, object.def))
  <2>1. Base(object, b)
    BY BaseBackend
  <2>2. LoadEarlier(d, key, version, object) = StoreModel(b, key, def)
    BY <1>1 DEF LoadEarlier
  <2> HIDE DEF b, def
  <2> QED BY <1>1, <2>1, <2>2, PartsStore DEF Kinds
<1>2. CASE object.type = "script"
  <2> DEFINE b == WithBackend(d, "TORCH")
             def == DecodePreviousScript(version, EarlierScript(version, object.def))
  <2>1. Base(object, b)
    BY BaseBackend
  <2>2. LoadEarlier(d, key, version, object) = StoreScript(b, key, def)
    BY <1>2 DEF LoadEarlier
  <2> HIDE DEF b, def
  <2> QED BY <1>2, <2>1, <2>2, PartsStore DEF Kinds
<1>3. CASE object.type = "tensor"
  <2> DEFINE v == Tensor(LoadTensor_v0(EarlierTensor(object.data)))
  <2>1. v.type \in Types \ Kinds
    BY DEF Tensor, Types, Kinds
  <2>2. LoadEarlier(d, key, version, object) = SetValue(d, key, v)
    BY <1>3 DEF LoadEarlier
  <2> HIDE DEF v
  <2> QED BY <2>1, <2>2, PartsSet
<1> QED BY <1>1, <1>2, <1>3

LEMMA RewrittenParts ==
  ASSUME NEW key, NEW object, NEW d, Base(object, d), object.type \in Types
  PROVE  PartOf(key, object, Replayed(d, Emitted(key, object)))
<1> DEFINE cmd == Emitted(key, object)
<1>1. PartOf(key, object, d)
  BY BaseIsPart
<1>2. Good(d)
  BY DEF Base
<1>3. CASE object.type = "model"
  <2> DEFINE b == WithBackend(d, cmd.arg.backend)
  <2>1. cmd.op = "MODELSTORE" /\ cmd.key = key
    BY <1>3 DEF Emitted
  <2> HIDE DEF cmd
  <2>2. Replayed(d, cmd) = ModelStore(d, key, cmd.arg).db
    BY <2>1 DEF Replayed, Perform
  <2>3. Base(object, b) /\ PartOf(key, object, b)
    BY BaseBackend, BaseIsPart
  <2>4. PartOf(key, object, StoreModel(b, key, ModelFields(cmd.arg)))
    BY <1>3, <2>3, PartsStore DEF Kinds
  <2>5. ModelStore(d, key, cmd.arg).db \in {d, b, StoreModel(b, key, ModelFields(cmd.arg))}
    BY DEF ModelStore, Ok, Error, Died
  <2> HIDE DEF b
  <2>6. PartOf(key, object, Replayed(d, cmd))
    BY <1>1, <2>2, <2>3, <2>4, <2>5
  <2> QED BY <2>6 DEF cmd
<1>4. CASE object.type = "script"
  <2> DEFINE b == WithBackend(d, "TORCH")
  <2>1. cmd.op = "SCRIPTSTORE" /\ cmd.key = key
    BY <1>4 DEF Emitted
  <2> HIDE DEF cmd
  <2>2. Replayed(d, cmd) = ScriptStore(d, key, cmd.arg).db
    BY <2>1 DEF Replayed, Perform
  <2>3. Base(object, b) /\ PartOf(key, object, b)
    BY BaseBackend, BaseIsPart
  <2>4. PartOf(key, object, StoreScript(b, key, ScriptFields(cmd.arg)))
    BY <1>4, <2>3, PartsStore DEF Kinds
  <2>5. ScriptStore(d, key, cmd.arg).db \in {d, b, StoreScript(b, key, ScriptFields(cmd.arg))}
    BY DEF ScriptStore, ScriptSet, Ok, Error
  <2> HIDE DEF b
  <2>6. PartOf(key, object, Replayed(d, cmd))
    BY <1>1, <2>2, <2>3, <2>4, <2>5
  <2> QED BY <2>6 DEF cmd
<1>5. CASE object.type = "tensor"
  <2> DEFINE v == Tensor(TensorNew(cmd.arg.dtype, cmd.arg.dims, cmd.arg.data))
  <2>1. cmd.op = "TENSORSET" /\ cmd.key = key
    BY <1>5 DEF Emitted
  <2> HIDE DEF cmd
  <2>2. Replayed(d, cmd) = TensorSet(d, key, cmd.arg).db
    BY <2>1 DEF Replayed, Perform
  <2>3. TensorSet(d, key, cmd.arg).db \in {d, SetValue(d, key, v)}
    BY DEF TensorSet, Ok, Error
  <2>4. v.type \in Types \ Kinds
    BY DEF Tensor, Types, Kinds
  <2> HIDE DEF v
  <2>5. PartOf(key, object, SetValue(d, key, v))
    BY <2>4, PartsSet
  <2>6. PartOf(key, object, Replayed(d, cmd))
    BY <1>1, <2>2, <2>3, <2>5
  <2> QED BY <2>6 DEF cmd
<1>6. CASE object.type = "string"
  <2> DEFINE v == Bytes(cmd.arg)
  <2>1. cmd.op = "SET" /\ cmd.key = key
    BY <1>6 DEF Emitted
  <2> HIDE DEF cmd
  <2>2. Replayed(d, cmd) = SetValue(d, key, v)
    BY <2>1 DEF Replayed, Perform, StringSet, Ok
  <2>3. v.type \in Types \ Kinds
    BY DEF Bytes, Types, Kinds
  <2> HIDE DEF v
  <2>4. PartOf(key, object, Replayed(d, cmd))
    BY <2>2, <2>3, PartsSet
  <2> QED BY <2>4 DEF cmd
<1>7. CASE object.type \in {"hash", "list"}
  <2>1. cmd.op = (IF object.type = "hash" THEN "HSET" ELSE "RPUSH") /\ cmd.key = key
    BY <1>7 DEF Emitted
  <2> DEFINE fields == Fields(d, key)
             v == IF object.type = "list" THEN List(Pushed(d, key, cmd.arg))
                  ELSE Hash([f \in DOMAIN cmd.arg \cup DOMAIN fields |->
                               IF f \in DOMAIN cmd.arg THEN cmd.arg[f] ELSE fields[f]])
             e == [d EXCEPT !.keys = Put(@, key, v)]
  <2> HIDE DEF cmd
  <2>2. Replayed(d, cmd) = IF object.type = "hash" THEN HashSet(d, key, cmd.arg).db
                           ELSE PushRight(d, key, cmd.arg).db
    BY <1>7, <2>1 DEF Replayed, Perform
  <2>3. v.type \in Types \ Kinds
    BY <1>7 DEF Hash, List, Types, Kinds
  <2>4. Replayed(d, cmd) \in {d, e}
    <3>1. HashSet(d, key, cmd.arg).db =
            IF May(d, key, "hash")
            THEN [d EXCEPT !.keys = Put(@, key, Hash([f \in DOMAIN cmd.arg \cup DOMAIN fields |->
                    IF f \in DOMAIN cmd.arg THEN cmd.arg[f] ELSE fields[f]]))] ELSE d
      BY DEF HashSet, Ok, Error
    <3>2. PushRight(d, key, cmd.arg).db =
            IF May(d, key, "list") THEN [d EXCEPT !.keys = Put(@, key, List(Pushed(d, key, cmd.arg)))] ELSE d
      BY DEF PushRight, Ok, Error
    <3>3. CASE object.type = "hash"
      BY <2>2, <3>1, <3>3
    <3>4. CASE object.type = "list"
      BY <2>2, <3>2, <3>4
    <3> QED BY <1>7, <3>3, <3>4
  <2> HIDE DEF v
  <2>5. ObjectKeys(d) = {}
    BY DEF ObjectKeys, Base
  <2>6. Follows(d, e)
    BY <1>2, <2>3, <2>5, PutKeeps
  <2>7. e.keys = Put(d.keys, key, v) /\ e.running = d.running
    BY <1>2 DEF Good, ShardOK, Fixtures
  <2>8. DOMAIN e.keys = {key} /\ e.keys[key] = v
    BY <2>7 DEF Put, Base
  <2> HIDE DEF e
  <2>9. ObjectKeys(e) = {}
    BY <2>3, <2>8 DEF ObjectKeys, Kinds
  <2>10. PartOf(key, object, e)
    BY <2>6, <2>7, <2>8, <2>9 DEF PartOf, Base, Follows
  <2>11. PartOf(key, object, Replayed(d, cmd))
    BY <1>1, <2>4, <2>10
  <2> QED BY <2>11 DEF cmd
<1> QED BY <1>3, <1>4, <1>5, <1>6, <1>7 DEF Types, Kinds

(* Put together, the parts make a good shard with its objects in their places, as their  *)
(* numbers tell them apart.                                                          *)
LEMMA CombinedGood ==
  ASSUME NEW host, NEW next \in Nat, NEW objects, NEW parts, DOMAIN parts = DOMAIN objects,
         \A k \in DOMAIN objects : PartOf(k, objects[k], parts[k]),
         \A k \in DOMAIN objects : objects[k].type \in Kinds => objects[k].id \in 0 .. next - 1,
         \A j, k \in DOMAIN objects :
           objects[j].type \in Kinds /\ objects[k].type \in Kinds /\ objects[j].id = objects[k].id => j = k
  PROVE  Good(Combined(host, next, parts)) /\ Placed(Combined(host, next, parts))
<1> DEFINE e == Combined(host, next, parts)
           here == {k \in DOMAIN parts : k \in ObjectKeys(parts[k])}
<1>1. /\ e.keys = [k \in {j \in DOMAIN parts : j \in DOMAIN parts[j].keys} |-> parts[k].keys[k]]
      /\ e.stats = [k \in {j \in DOMAIN parts : j \in DOMAIN parts[j].stats} |-> parts[k].stats[k]]
      /\ e.next = next /\ e.running = << >> /\ Fixtures \subseteq DOMAIN e
  BY DEF Combined, EmptyShard, Has, Fixtures
<1> HIDE DEF e
<1>2. DOMAIN e.running = {}
  BY <1>1
<1>3. ObjectKeys(e) = here /\ \A k \in here : e.keys[k] = parts[k].keys[k]
  BY <1>1 DEF ObjectKeys
<1>4. ASSUME NEW k \in DOMAIN parts
      PROVE  /\ Good(parts[k]) /\ Placed(parts[k])
             /\ DOMAIN parts[k].keys \subseteq {k} /\ DOMAIN parts[k].running = {}
             /\ k \in here => objects[k].type \in Kinds /\ parts[k].keys[k].id = objects[k].id
  BY DEF PartOf
<1>5. ASSUME NEW k \in here
      PROVE  /\ parts[k].keys[k].type \in Kinds /\ parts[k].keys[k].key = k
             /\ k \in DOMAIN parts[k].stats /\ IsEntryOf(parts[k], k, parts[k].keys[k])
             /\ parts[k].keys[k].id \in 0 .. next - 1
  <2>1. k \in ObjectKeys(parts[k]) /\ Placed(parts[k]) /\ k \in DOMAIN objects
    BY <1>4
  <2>2. k \in DOMAIN parts[k].stats /\ IsEntryOf(parts[k], k, parts[k].keys[k])
    BY <2>1 DEF Placed
  <2>3. parts[k].keys[k].type \in Kinds
    BY <2>1 DEF ObjectKeys, Kinds
  <2>4. parts[k].keys[k].id \in 0 .. next - 1
    BY <1>4, <2>1
  <2> QED BY <2>2, <2>3, <2>4 DEF IsEntryOf
<1>6. Alive(e) = {e.keys[k] : k \in here}
  BY <1>2, <1>3 DEF Alive
<1>7. \A j, k \in here : e.keys[j].id = e.keys[k].id => j = k
  BY <1>3, <1>4
<1>8. ASSUME NEW k \in DOMAIN e.stats
      PROVE  k \in here /\ e.stats[k] = parts[k].stats[k] /\ {"id", "type"} \subseteq DOMAIN e.stats[k]
  <2>1. k \in DOMAIN parts /\ k \in DOMAIN parts[k].stats /\ e.stats[k] = parts[k].stats[k]
    BY <1>1
  <2>2. Good(parts[k]) /\ DOMAIN parts[k].keys \subseteq {k} /\ DOMAIN parts[k].running = {}
    BY <1>4, <2>1
  <2>3. \E o \in Alive(parts[k]) : TRUE
    BY <2>1, <2>2 DEF Good, EntriesOK
  <2>4. \E j \in ObjectKeys(parts[k]) : TRUE
    BY <2>2, <2>3, AliveIs
  <2>5. k \in ObjectKeys(parts[k])
    BY <2>2, <2>4 DEF ObjectKeys
  <2>6. {"id", "type"} \subseteq DOMAIN parts[k].stats[k]
    BY <2>1, <2>2 DEF Good, ShardOK
  <2> QED BY <2>1, <2>5, <2>6
<1>9. Placed(e)
  <2> SUFFICES ASSUME NEW k \in here PROVE k \in DOMAIN e.stats /\ IsEntryOf(e, k, e.keys[k])
    BY <1>3 DEF Placed
  <2>1. k \in DOMAIN e.stats /\ e.stats[k] = parts[k].stats[k]
    BY <1>1, <1>5
  <2> QED BY <1>3, <1>5, <2>1 DEF IsEntryOf
<1>10. EntriesOK(e)
  <2> SUFFICES ASSUME NEW k \in DOMAIN e.stats PROVE \E o \in Alive(e) : IsEntryOf(e, k, o)
    BY DEF EntriesOK
  <2>1. k \in here
    BY <1>8
  <2> QED BY <1>3, <1>6, <1>9, <2>1 DEF Placed
<1>11. ShardOK(e)
  <2>1. \A k \in DOMAIN e.keys : e.keys[k].type \in Types
    <3> SUFFICES ASSUME NEW k \in DOMAIN e.keys PROVE e.keys[k].type \in Types
      OBVIOUS
    <3>1. k \in DOMAIN parts /\ k \in DOMAIN parts[k].keys /\ e.keys[k] = parts[k].keys[k]
      BY <1>1
    <3> QED BY <1>4, <3>1 DEF Good, ShardOK
  <2>2. \A o \in Alive(e) : o.id \in 0 .. e.next - 1 /\ o.type \in Kinds
    BY <1>1, <1>3, <1>5, <1>6
  <2>3. \A o, p \in Alive(e) : o.id = p.id => o.key = p.key /\ o.type = p.type
    BY <1>6, <1>7
  <2>4. \A k \in DOMAIN e.stats : {"id", "type"} \subseteq DOMAIN e.stats[k]
    BY <1>8
  <2> QED BY <1>1, <1>2, <1>3, <1>7, <2>1, <2>2, <2>3, <2>4 DEF ShardOK
<1> QED BY <1>9, <1>10, <1>11 DEF Good, e

LEMMA ImagesGood ==
  ASSUME NEW d, NEW preamble, Good(d)
  PROVE  /\ Good(Snapshot(d)) /\ Placed(Snapshot(d))
         /\ Good(Rewritten(d, preamble)) /\ Placed(Rewritten(d, preamble))
<1> DEFINE part(k) == Part(d.host, d.keys[k])
           read == [k \in DOMAIN d.keys |-> LoadObject(part(k), k, d.keys[k])]
           replayed == [k \in DOMAIN d.keys |-> Replayed(part(k), Emitted(k, d.keys[k]))]
<1>1. /\ d.next \in Nat
      /\ \A k \in DOMAIN d.keys : d.keys[k].type \in Types
      /\ \A o \in Alive(d) : o.id \in 0 .. d.next - 1
      /\ \A j, k \in ObjectKeys(d) : d.keys[j].id = d.keys[k].id => j = k
  BY DEF Good, ShardOK
<1>2. \A k \in DOMAIN d.keys : d.keys[k].type \in Kinds => k \in ObjectKeys(d)
  BY DEF ObjectKeys, Kinds
<1>3. \A k \in DOMAIN d.keys : d.keys[k].type \in Kinds => d.keys[k].id \in 0 .. d.next - 1
  BY <1>1, <1>2, AliveIs
<1>4. \A j, k \in DOMAIN d.keys :
        d.keys[j].type \in Kinds /\ d.keys[k].type \in Kinds /\ d.keys[j].id = d.keys[k].id => j = k
  BY <1>1, <1>2
<1>5. \A k \in DOMAIN d.keys : Base(d.keys[k], part(k))
  <2> SUFFICES ASSUME NEW k \in DOMAIN d.keys PROVE Base(d.keys[k], part(k))
    OBVIOUS
  <2>1. d.keys[k].type \in Kinds => d.keys[k].id \in Nat
    BY <1>1, <1>3
  <2> QED BY <2>1, PartIsBase
<1> HIDE DEF part
<1>6. \A k \in DOMAIN d.keys : PartOf(k, d.keys[k], read[k]) /\ PartOf(k, d.keys[k], replayed[k])
  BY <1>1, <1>5, LoadedParts, RewrittenParts
<1>7. DOMAIN read = DOMAIN d.keys /\ DOMAIN replayed = DOMAIN d.keys
  OBVIOUS
<1>8. Snapshot(d) = Combined(d.host, d.next, read) /\ RewriteCommands(d) = Combined(d.host, d.next, replayed)
  BY DEF Snapshot, RewriteCommands, part
<1> HIDE DEF read, replayed
<1>9. Good(Snapshot(d)) /\ Placed(Snapshot(d))
  BY <1>1, <1>3, <1>4, <1>6, <1>7, <1>8, CombinedGood
<1>10. Good(RewriteCommands(d)) /\ Placed(RewriteCommands(d))
  BY <1>1, <1>3, <1>4, <1>6, <1>7, <1>8, CombinedGood
<1> QED BY <1>9, <1>10 DEF Rewritten

LEMMA FoundGood ==
  ASSUME NEW s \in Scenarios
  PROVE  Good(Found(s)) /\ Placed(Found(s))
<1> DEFINE objects == s.older.objects
           n == s.older.next
           parts == [k \in DOMAIN objects |->
                       LoadEarlier(Part(s.host, objects[k]), k, s.older.version, objects[k])]
<1>1. /\ n \in Nat
      /\ \A k \in DOMAIN objects :
           /\ objects[k].type \in {"model", "script", "tensor"}
           /\ objects[k].type # "tensor" =>
                /\ objects[k].id \in 0 .. n - 1
                /\ \A j \in DOMAIN objects \ {k} :
                     objects[j].type # "tensor" => objects[j].id # objects[k].id
  BY ScenarioAssumption
<1>2. Found(s) = Combined(s.host, n, parts)
  BY DEF Found, EarlierSnapshot
<1>3. DOMAIN parts = DOMAIN objects
  OBVIOUS
<1> HIDE DEF n
<1>4. \A k \in DOMAIN objects : PartOf(k, objects[k], parts[k])
  <2> SUFFICES ASSUME NEW k \in DOMAIN objects PROVE PartOf(k, objects[k], parts[k])
    OBVIOUS
  <2>1. objects[k].type \in {"model", "script", "tensor"}
    BY <1>1
  <2>2. objects[k].type \in Kinds => objects[k].id \in Nat
    BY <1>1 DEF Kinds
  <2>3. Base(objects[k], Part(s.host, objects[k]))
    BY <2>2, PartIsBase
  <2> QED BY <2>1, <2>3, EarlierParts
<1>5. \A k \in DOMAIN objects : objects[k].type \in Kinds => objects[k].id \in 0 .. n - 1
  BY <1>1 DEF Kinds
<1>6. \A j, k \in DOMAIN objects :
        objects[j].type \in Kinds /\ objects[k].type \in Kinds /\ objects[j].id = objects[k].id => j = k
  BY <1>1 DEF Kinds
<1> HIDE DEF parts, objects
<1> QED BY <1>1, <1>2, <1>3, <1>4, <1>5, <1>6, CombinedGood

-----------------------------------------------------------------------------
(* The invariant: the shards and what is on disk are good; and where the objects are,   *)
(* as long as no RENAME moves one.                                                  *)
ShardsInv ==
  /\ DOMAIN db = ShardSet /\ DOMAIN image = ShardSet
  /\ \A s \in ShardSet : Good(db[s]) /\ Good(image[s])
PlacedInv == \A s \in ShardSet : Placed(db[s]) /\ Placed(image[s])

LEMMA NewGood ==
  ASSUME NEW host
  PROVE  Good(EmptyShard(host)) /\ Placed(EmptyShard(host))
<1>1. EmptyShard(host).next = 1
  BY DEF EmptyShard
<1>2. EmptyShard(host) = [f \in DOMAIN EmptyShard(host) |-> EmptyShard(host)[f]]
  BY Zenon DEF EmptyShard
<1>3. [EmptyShard(host) EXCEPT !.next = 1] = EmptyShard(host)
  BY <1>1, <1>2
<1> QED BY <1>3, EmptyGood

LEMMA InitKeeps ==
  ASSUME Init
  PROVE  ShardsInv /\ PlacedInv
<1>1. scenario \in Scenarios /\ db = image
      /\ image = [s \in ShardSet |-> IF s = Order[1] THEN Found(scenario) ELSE EmptyShard(scenario.host)]
  BY DEF Init
<1>2. Good(EmptyShard(scenario.host)) /\ Placed(EmptyShard(scenario.host))
  BY NewGood
<1>3. \A s \in ShardSet : Good(image[s]) /\ Placed(image[s])
  BY <1>1, <1>2, FoundGood
<1> QED BY <1>1, <1>3 DEF ShardsInv, PlacedInv

(* One of the shards changes.                                                     *)
LEMMA OneShard ==
  ASSUME NEW f, NEW s, NEW e, DOMAIN f = ShardSet, \A t \in ShardSet : Good(f[t]),
         s \in ShardSet => Good(e)
  PROVE  LET g == [f EXCEPT ![s] = e]
         IN  /\ DOMAIN g = ShardSet
             /\ \A t \in ShardSet : Good(g[t])
             /\ (\A t \in ShardSet : Placed(f[t])) /\ (s \in ShardSet => Placed(e))
                  => \A t \in ShardSet : Placed(g[t])
<1> DEFINE g == [f EXCEPT ![s] = e]
<1>1. DOMAIN g = ShardSet /\ \A t \in ShardSet : g[t] = IF t = s THEN e ELSE f[t]
  OBVIOUS
<1> HIDE DEF g
<1>2. \A t \in ShardSet : Good(g[t])
  BY <1>1
<1>3. ASSUME \A t \in ShardSet : Placed(f[t]), s \in ShardSet => Placed(e)
      PROVE  \A t \in ShardSet : Placed(g[t])
  BY <1>1, <1>3
<1> QED BY <1>1, <1>2, <1>3 DEF g

(* A shard carries out a command of a client that waits for no execution.              *)
LEMMA CommandKeeps ==
  ASSUME ShardsInv, NEW c \in Clients, NEW i \in Places(c), ~Waiting(c),
         NEW s \in ShardSet, s = Commands(client[c])[i].at
  PROVE  LET cmd == Commands(client[c])[i]
             reply == Perform(db[s], c, cmd)
         IN  /\ Good(reply.db) /\ Good(Stored(s, cmd, reply))
             /\ PlacedInv /\ RenamesNoObject => Placed(reply.db) /\ Placed(Stored(s, cmd, reply))
<1> DEFINE cmd == Commands(client[c])[i]
           reply == Perform(db[s], c, cmd)
           replay == Perform(image[s], "loading", cmd).db
           renamed(d) == cmd.op = "RENAME" => cmd.key \notin ObjectKeys(d)
<1>1. Good(db[s]) /\ Good(image[s])
  BY DEF ShardsInv
<1>2. c \notin DOMAIN db[s].running
  BY DEF Waiting
<1>3. Good(reply.db) /\ (Placed(db[s]) /\ renamed(db[s]) => Placed(reply.db))
  BY <1>1, <1>2, PerformKeeps
<1>4. ASSUME cmd.op \in Writes
      PROVE  Good(replay) /\ (Placed(image[s]) /\ renamed(image[s]) => Placed(replay))
  <2>1. cmd.op \notin Executions
    BY <1>4 DEF Writes, Executions
  <2> QED BY <1>1, <2>1, PerformKeeps
<1>5. Good(Snapshot(db[s])) /\ Placed(Snapshot(db[s]))
  BY <1>1, ImagesGood
<1>6. \/ cmd.op \in Writes /\ Stored(s, cmd, reply) = replay
      \/ Stored(s, cmd, reply) = Snapshot(db[s])
      \/ Stored(s, cmd, reply) = image[s]
  BY DEF Stored, Replayed
<1>7. RenamesNoObject => renamed(db[s]) /\ renamed(image[s])
  BY DEF RenamesNoObject
<1>8. PlacedInv => Placed(db[s]) /\ Placed(image[s])
  BY DEF PlacedInv
<1> HIDE DEF reply, replay, renamed, cmd
<1>9. Good(Stored(s, cmd, reply))
  BY <1>1, <1>4, <1>5, <1>6
<1>10. PlacedInv /\ RenamesNoObject => Placed(reply.db) /\ Placed(Stored(s, cmd, reply))
  BY <1>3, <1>4, <1>5, <1>6, <1>7, <1>8
<1> QED BY <1>3, <1>9, <1>10 DEF reply, cmd

LEMMA CarriedKeeps ==
  ASSUME ShardsInv, NEW c \in Clients, NEW i \in Places(c), ~Waiting(c),
         LET cmd == Commands(client[c])[i]
         IN  Carried(cmd.at, cmd, Perform(db[cmd.at], c, cmd))
  PROVE  ShardsInv' /\ (PlacedInv /\ RenamesNoObject => PlacedInv')
<1> DEFINE cmd == Commands(client[c])[i]
           s == cmd.at
           reply == Perform(db[s], c, cmd)
           stored == Stored(s, cmd, reply)
<1>1. db' = [db EXCEPT ![s] = reply.db] /\ image' = [image EXCEPT ![s] = stored]
  BY DEF Carried
<1>2. ASSUME s \in ShardSet
      PROVE  /\ Good(reply.db) /\ Good(stored)
             /\ PlacedInv /\ RenamesNoObject => Placed(reply.db) /\ Placed(stored)
  BY <1>2, CommandKeeps
<1> HIDE DEF s, reply, stored
<1>3. DOMAIN db = ShardSet /\ DOMAIN image = ShardSet
      /\ (\A t \in ShardSet : Good(db[t])) /\ \A t \in ShardSet : Good(image[t])
  BY DEF ShardsInv
<1>4. /\ DOMAIN db' = ShardSet
      /\ \A t \in ShardSet : Good(db'[t])
      /\ (\A t \in ShardSet : Placed(db[t])) /\ (s \in ShardSet => Placed(reply.db))
           => \A t \in ShardSet : Placed(db'[t])
  BY <1>1, <1>2, <1>3, OneShard
<1>5. /\ DOMAIN image' = ShardSet
      /\ \A t \in ShardSet : Good(image'[t])
      /\ (\A t \in ShardSet : Placed(image[t])) /\ (s \in ShardSet => Placed(stored))
           => \A t \in ShardSet : Placed(image'[t])
  BY <1>1, <1>2, <1>3, OneShard
<1>6. ASSUME PlacedInv, RenamesNoObject PROVE PlacedInv'
  BY <1>2, <1>4, <1>5, <1>6 DEF PlacedInv
<1>7. ShardsInv'
  BY <1>4, <1>5 DEF ShardsInv
<1> QED BY <1>6, <1>7

(* One shard, and what it has on disk, change to what keeps to the invariant.          *)
LEMMA ShardChanges ==
  ASSUME ShardsInv, NEW s, NEW d, NEW found,
         db' = db \/ db' = [db EXCEPT ![s] = d],
         image' = image \/ image' = [image EXCEPT ![s] = found],
         s \in ShardSet => /\ Good(d) /\ Good(found)
                           /\ PlacedInv => Placed(d) /\ Placed(found)
  PROVE  ShardsInv' /\ (PlacedInv => PlacedInv')
<1>1. DOMAIN db = ShardSet /\ DOMAIN image = ShardSet
      /\ (\A t \in ShardSet : Good(db[t])) /\ \A t \in ShardSet : Good(image[t])
  BY DEF ShardsInv
<1>2. /\ DOMAIN db' = ShardSet
      /\ \A t \in ShardSet : Good(db'[t])
      /\ (\A t \in ShardSet : Placed(db[t])) /\ (s \in ShardSet => Placed(d))
           => \A t \in ShardSet : Placed(db'[t])
  <2>1. CASE db' = db
    BY <1>1, <2>1
  <2>2. CASE db' = [db EXCEPT ![s] = d]
    BY <1>1, <2>2, OneShard
  <2> QED BY <2>1, <2>2
<1>3. /\ DOMAIN image' = ShardSet
      /\ \A t \in ShardSet : Good(image'[t])
      /\ (\A t \in ShardSet : Placed(image[t])) /\ (s \in ShardSet => Placed(found))
           => \A t \in ShardSet : Placed(image'[t])
  <2>1. CASE image' = image
    BY <1>1, <2>1
  <2>2. CASE image' = [image EXCEPT ![s] = found]
    BY <1>1, <2>2, OneShard
  <2> QED BY <2>1, <2>2
<1>4. ASSUME PlacedInv PROVE PlacedInv'
  BY <1>2, <1>3, <1>4 DEF PlacedInv
<1>5. ShardsInv'
  BY <1>2, <1>3 DEF ShardsInv
<1> QED BY <1>4, <1>5

\* Nothing of a shard or of what is on disk changes where it is not written.
LEMMA SameShards ==
  ASSUME ShardsInv, UNCHANGED <<db, image>>
  PROVE  ShardsInv' /\ (PlacedInv => PlacedInv')
BY DEF ShardsInv, PlacedInv

LEMMA ShardStarts ==
  ASSUME ShardsInv, NEW s, (Down(s) /\ UNCHANGED image) \/ Restart(s)
  PROVE  ShardsInv' /\ (PlacedInv => PlacedInv')
<1>1. s \in ShardSet => /\ Good(image[s])
                        /\ PlacedInv => Placed(image[s])
  BY DEF ShardsInv, PlacedInv
<1>2. Good(EmptyShard(scenario.host)) /\ Placed(EmptyShard(scenario.host))
  BY NewGood
<1>3. PICK d : /\ db' = [db EXCEPT ![s] = d]
               /\ d = image[s] \/ d = EmptyShard(scenario.host)
  BY DEF Down, Restart
<1>4. image' = image
  BY DEF Restart
<1> QED BY <1>1, <1>2, <1>3, <1>4, ShardChanges

LEMMA RunEnds ==
  ASSUME ShardsInv, NEW c \in Clients, NEW s \in ShardSet, FinishRun(c, s)
  PROVE  ShardsInv' /\ (PlacedInv => PlacedInv')
<1> DEFINE end == Finish(db[s], c, Outcome(c, s))
           found == IF scenario.aof THEN OutputsStored(image[s], end.stored, end.reply.db) ELSE image[s]
<1>1. /\ db' = [db EXCEPT ![s] = end.reply.db]
      /\ image' = [image EXCEPT ![s] = found]
      /\ c \in DOMAIN db[s].running
  BY DEF FinishRun, HasRun
<1>2. Good(db[s]) /\ Good(image[s]) /\ (PlacedInv => Placed(db[s]) /\ Placed(image[s]))
  BY DEF ShardsInv, PlacedInv
<1>3. Follows(db[s], end.reply.db)
  BY <1>1, <1>2, FinishKeeps
<1>4. Good(found) /\ (Placed(image[s]) => Placed(found))
  BY <1>2, OutputsStoredKeep DEF Follows
<1> HIDE DEF end, found
<1>5. s \in ShardSet => /\ Good(end.reply.db) /\ Good(found)
                        /\ PlacedInv => Placed(end.reply.db) /\ Placed(found)
  BY <1>2, <1>3, <1>4 DEF Follows
<1> QED BY <1>1, <1>5, ShardChanges

LEMMA RunBegins ==
  ASSUME ShardsInv, NEW c \in Clients, StartRun(c)
  PROVE  ShardsInv' /\ (PlacedInv /\ RenamesNoObject => PlacedInv')
<1>1. PICK i \in Places(c) :
        LET cmd == Commands(client[c])[i]
        IN  /\ ~Waiting(c) /\ IsRun(cmd)
            /\ db' = [db EXCEPT ![cmd.at] = Perform(db[cmd.at], c, cmd).db]
            /\ image' = image
  BY DEF StartRun, Sends
<1> DEFINE cmd == Commands(client[c])[i]
           s == cmd.at
           new == Perform(db[s], c, cmd).db
<1>2. s \in ShardSet => Good(db[s]) /\ Good(image[s]) /\ c \notin DOMAIN db[s].running
      /\ (PlacedInv => Placed(db[s]) /\ Placed(image[s]))
  BY <1>1 DEF ShardsInv, PlacedInv, Waiting
<1>3. cmd.op # "RENAME"
  BY <1>1 DEF IsRun
<1>4. s \in ShardSet => Good(new) /\ (Placed(db[s]) => Placed(new))
  BY <1>2, <1>3, PerformKeeps
<1>5. db' = [db EXCEPT ![s] = new] /\ image' = image
  BY <1>1
<1> HIDE DEF s, new
<1>6. s \in ShardSet => /\ Good(new) /\ Good(image[s])
                        /\ PlacedInv => Placed(new) /\ Placed(image[s])
  BY <1>2, <1>4
<1> QED BY <1>5, <1>6, ShardChanges

LEMMA BatchRuns ==
  ASSUME ShardsInv, NEW s \in ShardSet, RunTogether(s)
  PROVE  ShardsInv' /\ (PlacedInv => PlacedInv')
<1>1. PICK a, b \in DOMAIN db[s].running : db' = [db EXCEPT ![s] = RunTwo(db[s], a, b)]
  BY DEF RunTogether
<1>2. image' = image
  BY DEF RunTogether
<1>3. Good(db[s]) /\ Good(image[s]) /\ (PlacedInv => Placed(db[s]) /\ Placed(image[s]))
  BY DEF ShardsInv, PlacedInv
<1>4. Follows(db[s], RunTwo(db[s], a, b))
  BY <1>3, RunTwoKeeps
<1>5. s \in ShardSet => /\ Good(RunTwo(db[s], a, b)) /\ Good(image[s])
                        /\ PlacedInv => Placed(RunTwo(db[s], a, b)) /\ Placed(image[s])
  BY <1>3, <1>4 DEF Follows
<1> QED BY <1>1, <1>2, <1>5, ShardChanges

LEMMA FileRewritten ==
  ASSUME ShardsInv, NEW s \in ShardSet, Rewrite(s)
  PROVE  ShardsInv' /\ (PlacedInv => PlacedInv')
<1>1. db' = db /\ image' = [image EXCEPT ![s] = Rewritten(db[s], scenario.preamble)]
  BY DEF Rewrite
<1>2. Good(db[s]) /\ (PlacedInv => Placed(db[s]))
  BY DEF ShardsInv, PlacedInv
<1>3. Good(Rewritten(db[s], scenario.preamble)) /\ Placed(Rewritten(db[s], scenario.preamble))
  BY <1>2, ImagesGood
<1> QED BY <1>1, <1>2, <1>3, ShardChanges

(* What only the client, its settings or the JAX worker see.                          *)
LEMMA OthersKeep ==
  ASSUME ShardsInv, NEW c,
         \/ Refuse(c) \/ Begin(c) \/ UsePrefix(c) \/ SetDataSource(c) \/ CallMethod(c) \/ Resume(c)
         \/ SetEnvironment(c) \/ Configure(c) \/ Construct(c) \/ GiveUp(c) \/ Reduce
         \/ \E s \in ShardSet : AskWorker(c, s) \/ WorkerServes(s)
  PROVE  ShardsInv' /\ (PlacedInv => PlacedInv')
<1>1. UNCHANGED <<db, image>>
  <2>1. CASE Refuse(c) \/ Begin(c) \/ UsePrefix(c) \/ SetDataSource(c)
    BY <2>1 DEF Refuse, Begin, UsePrefix, SetDataSource
  <2>2. CASE CallMethod(c) \/ Resume(c) \/ SetEnvironment(c) \/ Configure(c)
    BY <2>2 DEF CallMethod, Resume, SetEnvironment, Configure
  <2>3. CASE Construct(c) \/ GiveUp(c) \/ Reduce
    BY <2>3 DEF Construct, GiveUp, Reduce
  <2>4. CASE \E s \in ShardSet : AskWorker(c, s) \/ WorkerServes(s)
    BY <2>4 DEF AskWorker, WorkerServes
  <2> QED BY <2>1, <2>2, <2>3, <2>4
<1> QED BY <1>1, SameShards

LEMMA StepKeeps ==
  ASSUME ShardsInv, [Next]_vars
  PROVE  ShardsInv' /\ (PlacedInv /\ RenamesNoObject => PlacedInv')
<1>1. CASE UNCHANGED vars
  BY <1>1, SameShards DEF vars
<1>2. ASSUME NEW c \in Clients, Send(c) PROVE ShardsInv' /\ (PlacedInv /\ RenamesNoObject => PlacedInv')
  BY <1>2, CarriedKeeps DEF Send, Sends
<1>3. ASSUME NEW c \in Clients, LoseReply(c)
      PROVE  ShardsInv' /\ (PlacedInv /\ RenamesNoObject => PlacedInv')
  BY <1>3, CarriedKeeps DEF LoseReply, Sends
<1>4. ASSUME NEW c \in Clients, StartRun(c)
      PROVE  ShardsInv' /\ (PlacedInv /\ RenamesNoObject => PlacedInv')
  BY <1>4, RunBegins
<1>5. ASSUME NEW c \in Clients, EndedByCommand(c) PROVE ShardsInv' /\ (PlacedInv => PlacedInv')
  <2>1. PICK s : Down(s) /\ UNCHANGED image
    BY <1>5 DEF EndedByCommand
  <2> QED BY <2>1, ShardStarts
<1>6. ASSUME NEW c \in Clients,
             \/ Refuse(c) \/ Begin(c) \/ UsePrefix(c) \/ SetDataSource(c) \/ CallMethod(c) \/ Resume(c)
             \/ SetEnvironment(c) \/ Configure(c) \/ Construct(c) \/ GiveUp(c)
      PROVE  ShardsInv' /\ (PlacedInv => PlacedInv')
  BY <1>6, OthersKeep
<1>7. ASSUME Reduce PROVE ShardsInv' /\ (PlacedInv => PlacedInv')
  BY <1>7, OthersKeep
<1>8. ASSUME NEW c \in Clients, NEW s \in ShardSet, AskWorker(c, s) \/ FinishRun(c, s)
      PROVE  ShardsInv' /\ (PlacedInv => PlacedInv')
  <2>1. CASE AskWorker(c, s)
    BY <2>1, OthersKeep
  <2>2. CASE FinishRun(c, s)
    BY <2>2, RunEnds
  <2> QED BY <1>8, <2>1, <2>2
<1>9. ASSUME NEW s \in ShardSet, RunTogether(s) PROVE ShardsInv' /\ (PlacedInv => PlacedInv')
  BY <1>9, BatchRuns
<1>10. ASSUME NEW s \in ShardSet, WorkerServes(s) PROVE ShardsInv' /\ (PlacedInv => PlacedInv')
  BY <1>10, OthersKeep
<1>11. ASSUME NEW s \in ShardSet, Crash(s) \/ Restart(s) PROVE ShardsInv' /\ (PlacedInv => PlacedInv')
  <2>1. (Down(s) /\ UNCHANGED image) \/ Restart(s)
    BY <1>11 DEF Crash
  <2> QED BY <2>1, ShardStarts
<1>12. ASSUME NEW s \in ShardSet, Rewrite(s) PROVE ShardsInv' /\ (PlacedInv => PlacedInv')
  BY <1>12, FileRewritten
<1> QED
  BY <1>1, <1>2, <1>3, <1>4, <1>5, <1>6, <1>7, <1>8, <1>9, <1>10, <1>11, <1>12 DEF Next

-----------------------------------------------------------------------------
(* The models and scripts of every shard, and of what it has on disk, are told apart by  *)
(* their numbers, and each entry of the statistics has one of them, in every order of     *)
(* the clients' commands, with lost replies, runs that end late, crashes and rewrites of   *)
(* the append-only file.                                                            *)
THEOREM ShardStatsInvariant == Spec => []ShardsInv
<1>1. Init => ShardsInv
  BY InitKeeps
<1>2. ShardsInv /\ [Next]_vars => ShardsInv'
  BY StepKeeps
<1> QED BY <1>1, <1>2, PTL DEF Spec

(* No entry of the statistics outlives the model or script it was made for: RAI_ModelFree  *)
(* and RAI_ScriptFree of the last reference remove it, also when the key was given to       *)
(* another object, or moved, while the old one was still running.                        *)
THEOREM StatsHaveObjects == Spec => []EntriesHaveObjects
<1>1. ShardsInv => EntriesHaveObjects
  BY DEF ShardsInv, EntriesHaveObjects, Good, EntriesOK
<1> QED BY <1>1, ShardStatsInvariant, PTL

(* As long as RENAME is not given the key of a model or script, AI._MODELSCAN and           *)
(* AI._SCRIPTSCAN list every one there is, and nothing else.                             *)
THEOREM StatsFollow == Spec /\ []RenamesNoObject => []StatsFollowObjects
<1>1. Init => PlacedInv
  BY InitKeeps
<1>2. ShardsInv /\ PlacedInv /\ RenamesNoObject /\ [Next]_vars => PlacedInv'
  BY StepKeeps
<1>3. ShardsInv /\ PlacedInv => StatsFollowObjects
  <2> SUFFICES ASSUME ShardsInv, PlacedInv PROVE ObjectsHaveEntries /\ EntriesHaveObjects
    BY DEF StatsFollowObjects
  <2>1. EntriesHaveObjects
    BY DEF ShardsInv, EntriesHaveObjects, Good, EntriesOK
  <2>2. ObjectsHaveEntries
    <3> SUFFICES ASSUME NEW s \in ShardSet, NEW k \in ObjectKeys(db[s])
                 PROVE  \E e \in ModelScan(db[s]) \cup ScriptScan(db[s]) : IsEntryOf(db[s], e, db[s].keys[k])
      BY DEF ObjectsHaveEntries
    <3>1. k \in DOMAIN db[s].stats /\ IsEntryOf(db[s], k, db[s].keys[k])
      BY DEF PlacedInv, Placed
    <3>2. db[s].stats[k].type \in {"model", "script"}
      BY <3>1 DEF ObjectKeys, IsEntryOf
    <3>3. k \in ModelScan(db[s]) \cup ScriptScan(db[s])
      BY <3>1, <3>2 DEF ModelScan, ScriptScan
    <3> QED BY <3>1, <3>3
  <2> QED BY <2>1, <2>2
<1> QED BY <1>1, <1>2, <1>3, ShardStatsInvariant, PTL DEF Spec

-----------------------------------------------------------------------------
(***************************************************************************)
(* What is on disk (KeptAcrossRestart).  What the properties know of a shard, its    *)
(* contents, is what the objects keep of the commands, without their numbers.  What  *)
(* a command does is therefore said of contents alone (Allowed, Afterwards): a shard  *)
(* does so whatever else it has, so carrying a command out again on the contents on   *)
(* disk gives what it gave to the shard.  Saving and reading an object back gives it  *)
(* again, if its host accepts it.  Hence the invariant (KeptInv) says that, and that    *)
(* the shards have what the file has.                                              *)
(***************************************************************************)
\* The library of a backend has all that is needed, on a shard's host.
Ready(h, b) == Needed[b] \subseteq Exports(h, b)
\* A shard runs where it is meant to and has loaded no other backends.
Equipped(h, d) ==
  /\ {"host", "loaded"} \subseteq DOMAIN d
  /\ d.host = h /\ \A b \in d.loaded : Ready(h, b)
AllAccepted(h, K) == \A k \in DOMAIN K : K[k].type \in Types /\ Accepted(h, K[k])
Sound(h, d) == Good(d) /\ Equipped(h, d) /\ AllAccepted(h, Contents(d))

\* F has what K has, but for the scripts that a rewritten file loses.
Recalls(lossy, K, F) ==
  /\ \A k \in DOMAIN F : k \in DOMAIN K /\ F[k] = K[k]
  /\ \A k \in DOMAIN K \ DOMAIN F : lossy /\ K[k].type = "script" /\ K[k].def.entryPoints = << >>

\* The same as what the commands do to a shard, of the contents alone.
In(K, key, type) == key \in DOMAIN K /\ K[key].type = type
Free(K, key, type) == key \in DOMAIN K => K[key].type = type
After(K, gone, new) ==
  [k \in (DOMAIN K \ gone) \cup DOMAIN new |-> IF k \in DOMAIN new THEN new[k] ELSE K[k]]
Single(key, v) == [k \in {key} |-> v]

CanStore(h, def) ==
  ModelArgsValid(def) /\ Ready(h, def.backend) /\ ModelCreate(h, {def.backend}, def)
CanScript(h, def) == Ready(h, "TORCH") /\ ScriptCreate(h, {"TORCH"}, def)
Allowed(h, K, cmd) ==
  LET key == cmd.key  arg == cmd.arg IN
  CASE cmd.op = "TENSORSET" -> ParseTensorSetArgs(arg) /\ Free(K, key, "tensor")
    [] cmd.op = "MODELSTORE" -> CanStore(h, arg) /\ Free(K, key, "model")
    [] cmd.op = "SCRIPTSET" -> CanScript(h, arg) /\ Free(K, key, "script")
    [] cmd.op = "SCRIPTSTORE" -> arg.entryPoints # << >> /\ CanScript(h, arg) /\ Free(K, key, "script")
    [] cmd.op = "MODELDEL" -> In(K, key, "model")
    [] cmd.op = "SCRIPTDEL" -> In(K, key, "script")
    [] cmd.op = "RENAME" -> key \in DOMAIN K
    [] cmd.op = "HSET" -> Free(K, key, "hash")
    [] cmd.op = "RPUSH" -> Free(K, key, "list")
    [] OTHER -> TRUE
FieldsOf(K, key) == IF key \in DOMAIN K THEN K[key].fields ELSE << >>
Erased(K, cmd) ==
  CASE cmd.op \in {"MODELDEL", "SCRIPTDEL", "RENAME"} -> {cmd.key}
    [] cmd.op = "DEL" -> {cmd.key} \cup cmd.arg
    [] cmd.op = "FLUSHDB" -> DOMAIN K
    [] OTHER -> {}
Written(K, cmd) ==
  LET key == cmd.key  arg == cmd.arg IN
  CASE cmd.op = "TENSORSET" -> Single(key, Tensor(TensorNew(arg.dtype, arg.dims, arg.data)))
    [] cmd.op = "MODELSTORE" -> Single(key, [type |-> "model", def |-> ModelFields(arg)])
    [] cmd.op \in {"SCRIPTSET", "SCRIPTSTORE"} -> Single(key, [type |-> "script", def |-> ScriptFields(arg)])
    [] cmd.op = "RENAME" -> Single(arg, K[key])
    [] cmd.op = "SET" -> Single(key, Bytes(arg))
    [] cmd.op = "HSET" -> Single(key, Hash([f \in DOMAIN arg \cup DOMAIN FieldsOf(K, key) |->
                                          IF f \in DOMAIN arg THEN arg[f] ELSE FieldsOf(K, key)[f]]))
    [] cmd.op = "RPUSH" -> Single(key, List(IF key \in DOMAIN K THEN K[key].items \o arg ELSE arg))
    [] OTHER -> << >>
Afterwards(K, cmd) == After(K, Erased(K, cmd), Written(K, cmd))

-----------------------------------------------------------------------------
(* What the commands do to the contents.                                           *)
LEMMA ContentIs ==
  ASSUME NEW o
  PROVE  /\ Content(o).type = o.type
         /\ o.type \in Kinds => Content(o) = [type |-> o.type, def |-> o.def] /\ Content(o).def = o.def
         /\ o.type \notin Kinds => Content(o) = o
BY DEF Content, Kinds

LEMMA ContentsAre ==
  ASSUME NEW d
  PROVE  /\ DOMAIN Contents(d) = DOMAIN d.keys
         /\ \A k \in DOMAIN d.keys : Contents(d)[k] = Content(d.keys[k])
         /\ \A key, type : /\ Is(d, key, type) <=> In(Contents(d), key, type)
                           /\ May(d, key, type) <=> Free(Contents(d), key, type)
BY ContentIs DEF Contents, Is, May, Has, In, Free

(* What a shard runs on does not change with its keys and statistics.                 *)
LEMMA SameHost ==
  ASSUME NEW h, NEW d, NEW e, Equipped(h, d), DOMAIN e = DOMAIN d, e.host = d.host, e.loaded = d.loaded
  PROVE  Equipped(h, e)
BY DEF Equipped

LEMMA BackendEquips ==
  ASSUME NEW h, NEW d, NEW backend, Good(d), Equipped(h, d)
  PROVE  LET e == WithBackend(d, backend)
         IN  /\ Good(e) /\ Equipped(h, e) /\ e.keys = d.keys /\ Contents(e) = Contents(d)
             /\ backend \in e.loaded <=> Ready(h, backend)
<1> DEFINE e == WithBackend(d, backend)
<1>1. Good(e)
  BY BackendKeeps DEF Follows
<1>2. /\ DOMAIN e = DOMAIN d /\ e.keys = d.keys /\ e.host = d.host
      /\ e.loaded = LoadedFor(d.host, d.loaded, backend)
  BY DEF WithBackend, Equipped, Good, ShardOK, Fixtures
<1> HIDE DEF e
<1>3. /\ \A b \in e.loaded : Ready(h, b)
      /\ backend \in e.loaded <=> Ready(h, backend)
  BY <1>2 DEF LoadedFor, LoadBackend, Equipped, Ready
<1>4. Equipped(h, e)
  BY <1>2, <1>3 DEF Equipped
<1>5. Contents(e) = Contents(d)
  BY <1>2 DEF Contents
<1> QED BY <1>1, <1>2, <1>3, <1>4, <1>5 DEF e

LEMMA CreateNeeds ==
  ASSUME NEW h, NEW L, NEW def
  PROVE  /\ ModelCreate(h, L, def) <=> def.backend \in L /\ ModelCreate(h, {def.backend}, def)
         /\ ScriptCreate(h, L, def) <=> "TORCH" \in L /\ ScriptCreate(h, {"TORCH"}, def)
<1>1. ModelCreate(h, L, def) <=> def.backend \in L /\ ModelCreate(h, {def.backend}, def)
  BY DEF ModelCreate
<1>2. ScriptCreate(h, L, def) <=> "TORCH" \in L /\ ScriptCreate(h, {"TORCH"}, def)
  BY DEF ScriptCreate
<1> QED BY <1>1, <1>2

(* Keys are deleted, and a value is put into a key.                                   *)
LEMMA EraseEffect ==
  ASSUME NEW h, NEW d, NEW keys, Good(d), Equipped(h, d)
  PROVE  LET e == DeleteAll(d, keys)
         IN  /\ Good(e) /\ Equipped(h, e) /\ DOMAIN e = DOMAIN d /\ e.keys = Drop(d.keys, keys)
             /\ Contents(e) = After(Contents(d), keys, << >>)
<1> DEFINE e == DeleteAll(d, keys)
<1>1. Good(e) /\ e.keys = Drop(d.keys, keys)
  BY DeleteKeeps
<1>2. DOMAIN e = DOMAIN d /\ e.host = d.host /\ e.loaded = d.loaded
  BY DEF DeleteAll, ModelFree, Equipped
<1> HIDE DEF e
<1>3. Equipped(h, e)
  BY <1>2, SameHost
<1>4. DOMAIN e.keys = DOMAIN d.keys \ keys /\ \A k \in DOMAIN e.keys : e.keys[k] = d.keys[k]
  BY <1>1 DEF Drop, Restrict
<1>5. Contents(e) = After(Contents(d), keys, << >>)
  <2>1. Contents(e) = [k \in DOMAIN d.keys \ keys |-> Content(d.keys[k])]
    BY <1>4 DEF Contents
  <2>2. After(Contents(d), keys, << >>) = [k \in DOMAIN d.keys \ keys |-> Contents(d)[k]]
    <3>1. DOMAIN << >> = {}
      OBVIOUS
    <3> QED BY <3>1, ContentsAre DEF After
  <2> QED BY <2>1, <2>2, ContentsAre
<1> QED BY <1>1, <1>2, <1>3, <1>5 DEF e

LEMMA PutEffect ==
  ASSUME NEW h, NEW d, NEW key, NEW v, Good(d), Equipped(h, d)
  PROVE  LET e == [d EXCEPT !.keys = Put(@, key, v)]
         IN  /\ Equipped(h, e) /\ DOMAIN e = DOMAIN d
             /\ Contents(e) = After(Contents(d), {}, Single(key, Content(v)))
<1> DEFINE e == [d EXCEPT !.keys = Put(@, key, v)]
<1>1. DOMAIN e = DOMAIN d /\ e.host = d.host /\ e.loaded = d.loaded /\ e.keys = Put(d.keys, key, v)
  BY DEF Equipped, Good, ShardOK, Fixtures
<1> HIDE DEF e
<1>2. Equipped(h, e)
  BY <1>1, SameHost
<1>3. /\ DOMAIN e.keys = DOMAIN d.keys \cup {key} /\ e.keys[key] = v
      /\ \A k \in DOMAIN d.keys \ {key} : e.keys[k] = d.keys[k]
  BY <1>1 DEF Put
<1> DEFINE K == Contents(d)
           new == Single(key, Content(v))
<1>4. DOMAIN new = {key} /\ new[key] = Content(v)
  BY DEF Single
<1>5. DOMAIN K = DOMAIN d.keys /\ \A k \in DOMAIN d.keys : K[k] = Content(d.keys[k])
  BY ContentsAre
<1> HIDE DEF new, K
<1>6. Contents(e) = After(K, {}, new)
  <2>1. Contents(e) = [k \in DOMAIN d.keys \cup {key} |-> Content(e.keys[k])]
    BY <1>3 DEF Contents
  <2>2. After(K, {}, new) = [k \in DOMAIN d.keys \cup {key} |-> IF k = key THEN Content(v) ELSE K[k]]
    BY <1>4, <1>5 DEF After
  <2> QED BY <1>3, <1>5, <2>1, <2>2
<1> QED BY <1>1, <1>2, <1>6 DEF e, new, K

LEMMA SetEffect ==
  ASSUME NEW h, NEW d, NEW key, NEW v, Good(d), Equipped(h, d)
  PROVE  LET e == SetValue(d, key, v)
         IN  /\ Equipped(h, e) /\ DOMAIN e = DOMAIN d
             /\ Contents(e) = After(Contents(d), {}, Single(key, Content(v)))
<1> DEFINE bare == DeleteAll(d, {key})
           K == Contents(d)
           new == Single(key, Content(v))
<1>1. /\ Good(bare) /\ Equipped(h, bare) /\ DOMAIN bare = DOMAIN d
      /\ Contents(bare) = After(K, {key}, << >>)
  BY EraseEffect
<1>2. SetValue(d, key, v) = [bare EXCEPT !.keys = Put(@, key, v)]
  BY DEF SetValue, DeleteKey
<1> HIDE DEF bare, K
<1>3. LET e == [bare EXCEPT !.keys = Put(@, key, v)]
      IN  /\ Equipped(h, e) /\ DOMAIN e = DOMAIN bare
          /\ Contents(e) = After(Contents(bare), {}, Single(key, Content(v)))
  BY <1>1, PutEffect
<1>4. DOMAIN new = {key} /\ DOMAIN << >> = {}
  BY DEF Single
<1> HIDE DEF new
<1>5. After(After(K, {key}, << >>), {}, new) = After(K, {}, new)
  <2> DEFINE one == After(K, {key}, << >>)
  <2>1. one = [k \in DOMAIN K \ {key} |-> K[k]]
    BY <1>4 DEF After
  <2> HIDE DEF one
  <2>2. After(one, {}, new) = [k \in DOMAIN K \cup {key} |-> IF k = key THEN new[k] ELSE K[k]]
    BY <1>4, <2>1 DEF After
  <2>3. After(K, {}, new) = [k \in DOMAIN K \cup {key} |-> IF k = key THEN new[k] ELSE K[k]]
    BY <1>4 DEF After
  <2> QED BY <2>2, <2>3 DEF one
<1> QED BY <1>1, <1>2, <1>3, <1>5 DEF new, K

LEMMA StoreEffect ==
  ASSUME NEW h, NEW d, NEW key, NEW v, NEW type, NEW id, Good(d), Equipped(h, d)
  PROVE  LET e == StoreStats(SetValue(d, key, v), key, type, id)
         IN  /\ Equipped(h, e)
             /\ Contents(e) = After(Contents(d), {}, Single(key, Content(v)))
<1> DEFINE b == SetValue(d, key, v)
           e == StoreStats(b, key, type, id)
<1>1. Equipped(h, b) /\ DOMAIN b = DOMAIN d /\ Contents(b) = After(Contents(d), {}, Single(key, Content(v)))
  BY SetEffect
<1> HIDE DEF b
<1>2. "keys" \in DOMAIN b
  BY <1>1 DEF Good, ShardOK, Fixtures
<1>3. DOMAIN e = DOMAIN b /\ e.host = b.host /\ e.loaded = b.loaded /\ e.keys = b.keys
  BY <1>1, <1>2 DEF StoreStats, Equipped
<1> HIDE DEF e
<1>4. Equipped(h, e) /\ Contents(e) = Contents(b)
  BY <1>1, <1>3, SameHost DEF Contents
<1> QED BY <1>1, <1>4 DEF e, b

LEMMA StoreModelEffect ==
  ASSUME NEW h, NEW d, NEW key, NEW def, Good(d), Equipped(h, d)
  PROVE  LET e == StoreModel(d, key, def)
         IN  /\ Equipped(h, e)
             /\ Contents(e) = After(Contents(d), {}, Single(key, [type |-> "model", def |-> def]))
<1>1. Content(Model(key, d.next, def)) = [type |-> "model", def |-> def]
  BY DEF Content, Model
<1> QED BY <1>1, StoreEffect DEF StoreModel

LEMMA StoreScriptEffect ==
  ASSUME NEW h, NEW d, NEW key, NEW def, Good(d), Equipped(h, d)
  PROVE  LET e == StoreScript(d, key, def)
         IN  /\ Equipped(h, e)
             /\ Contents(e) = After(Contents(d), {}, Single(key, [type |-> "script", def |-> def]))
<1>1. Content(Script(key, d.next, def)) = [type |-> "script", def |-> def]
  BY DEF Content, Script
<1> QED BY <1>1, StoreEffect DEF StoreScript

\* What a command does to a shard, and when it is refused.
Does(h, d, cmd, r) ==
  LET K == Contents(d) IN
  /\ Equipped(h, r.db)
  /\ \/ Allowed(h, K, cmd) /\ r.ok = TRUE /\ Contents(r.db) = Afterwards(K, cmd)
     \/ ~Allowed(h, K, cmd) /\ r.ok = FALSE /\ Contents(r.db) = K

LEMMA ReplyDoes ==
  ASSUME NEW h, NEW d, NEW cmd, NEW r, NEW e, NEW f, NEW value, Equipped(h, e), Equipped(h, f),
         Contents(f) = Contents(d),
         Contents(e) = Afterwards(Contents(d), cmd),
         \/ Allowed(h, Contents(d), cmd) /\ r = Ok(e, value)
         \/ ~Allowed(h, Contents(d), cmd) /\ (r = Error(f) \/ r = Died(f))
  PROVE  Does(h, d, cmd, r)
BY DEF Does, Ok, Error, Died

LEMMA TensorSetDoes ==
  ASSUME NEW h, NEW d, NEW cmd, Good(d), Equipped(h, d), cmd.op = "TENSORSET"
  PROVE  Does(h, d, cmd, TensorSet(d, cmd.key, cmd.arg))
<1> DEFINE key == cmd.key
           arg == cmd.arg
           v == Tensor(TensorNew(arg.dtype, arg.dims, arg.data))
           e == SetValue(d, key, v)
           K == Contents(d)
<1>1. Content(v) = v
  BY DEF Content, Tensor
<1>2. Equipped(h, e) /\ Contents(e) = After(K, {}, Single(key, v))
  BY <1>1, SetEffect
<1>3. Afterwards(K, cmd) = After(K, {}, Single(key, v))
  BY DEF Afterwards, Erased, Written
<1>4. Allowed(h, K, cmd) <=> ParseTensorSetArgs(arg) /\ Free(K, key, "tensor")
  BY DEF Allowed
<1>5. May(d, key, "tensor") <=> Free(K, key, "tensor")
  BY ContentsAre
<1>6. TensorSet(d, key, arg) = IF ParseTensorSetArgs(arg) /\ May(d, key, "tensor")
                               THEN Ok(e, Nothing) ELSE Error(d)
  BY DEF TensorSet
<1> HIDE DEF v, e, key, arg
<1>7. Contents(d) = Contents(d)
  OBVIOUS
<1>8. \/ Allowed(h, K, cmd) /\ TensorSet(d, key, arg) = Ok(e, Nothing)
      \/ ~Allowed(h, K, cmd) /\ TensorSet(d, key, arg) = Error(d)
  BY <1>4, <1>5, <1>6
<1>9. Does(h, d, cmd, TensorSet(d, key, arg))
  BY <1>2, <1>3, <1>7, <1>8, ReplyDoes
<1> QED BY <1>9 DEF key, arg

LEMMA ModelStoreDoes ==
  ASSUME NEW h, NEW d, NEW cmd, Good(d), Equipped(h, d), cmd.op = "MODELSTORE"
  PROVE  Does(h, d, cmd, ModelStore(d, cmd.key, cmd.arg))
<1> DEFINE key == cmd.key
           arg == cmd.arg
           ready == WithBackend(d, arg.backend)
           e == StoreModel(ready, key, ModelFields(arg))
           K == Contents(d)
           r == ModelStore(d, key, arg)
<1>1. /\ Good(ready) /\ Equipped(h, ready) /\ Contents(ready) = K
      /\ arg.backend \in ready.loaded <=> Ready(h, arg.backend)
  BY BackendEquips
<1>2. ModelCreate(d.host, ready.loaded, arg) <=> Ready(h, arg.backend) /\ ModelCreate(h, {arg.backend}, arg)
  BY <1>1, CreateNeeds DEF Equipped
<1> HIDE DEF ready
<1>3. Equipped(h, e) /\ Contents(e) = After(K, {}, Single(key, [type |-> "model", def |-> ModelFields(arg)]))
  <2> DEFINE def == ModelFields(arg)
  <2> HIDE DEF def, K
  <2>1. Equipped(h, StoreModel(ready, key, def))
        /\ Contents(StoreModel(ready, key, def)) = After(Contents(ready), {}, Single(key, [type |-> "model", def |-> def]))
    BY <1>1, StoreModelEffect
  <2> QED BY <1>1, <2>1 DEF def
<1>4. Afterwards(K, cmd) = After(K, {}, Single(key, [type |-> "model", def |-> ModelFields(arg)]))
  BY DEF Afterwards, Erased, Written
<1>5. Allowed(h, K, cmd) <=> CanStore(h, arg) /\ Free(K, key, "model")
  BY DEF Allowed
<1>6. May(d, key, "model") <=> Free(K, key, "model")
  BY ContentsAre
<1>7. r = IF ~ModelArgsValid(arg) THEN Error(d)
          ELSE IF ~ModelCreate(d.host, ready.loaded, arg) THEN Error(ready)
          ELSE IF May(d, key, "model") THEN Ok(e, Nothing)
          ELSE Died(d)
  BY DEF ModelStore, ready
<1> HIDE DEF e, key, arg, r
<1>8. \/ Allowed(h, K, cmd) /\ r = Ok(e, Nothing)
      \/ ~Allowed(h, K, cmd) /\ (r = Error(d) \/ r = Died(d))
      \/ ~Allowed(h, K, cmd) /\ (r = Error(ready) \/ r = Died(ready))
  BY <1>2, <1>5, <1>6, <1>7 DEF CanStore
<1>9. Does(h, d, cmd, r)
  BY <1>1, <1>3, <1>4, <1>8, ReplyDoes
<1> QED BY <1>9 DEF key, arg, r

LEMMA ScriptStoreDoes ==
  ASSUME NEW h, NEW d, NEW cmd, Good(d), Equipped(h, d)
  PROVE  /\ cmd.op = "SCRIPTSET" => Does(h, d, cmd, ScriptSet(d, cmd.key, cmd.arg))
         /\ cmd.op = "SCRIPTSTORE" => Does(h, d, cmd, ScriptStore(d, cmd.key, cmd.arg))
<1> DEFINE key == cmd.key
           arg == cmd.arg
           ready == WithBackend(d, "TORCH")
           e == StoreScript(ready, key, ScriptFields(arg))
           K == Contents(d)
           set == ScriptSet(d, key, arg)
           store == ScriptStore(d, key, arg)
<1>1. /\ Good(ready) /\ Equipped(h, ready) /\ Contents(ready) = K
      /\ "TORCH" \in ready.loaded <=> Ready(h, "TORCH")
  BY BackendEquips
<1>2. ScriptCreate(d.host, ready.loaded, arg) <=> CanScript(h, arg)
  BY <1>1, CreateNeeds DEF Equipped, CanScript
<1> HIDE DEF ready
<1>3. Equipped(h, e) /\ Contents(e) = After(K, {}, Single(key, [type |-> "script", def |-> ScriptFields(arg)]))
  <2> DEFINE def == ScriptFields(arg)
  <2> HIDE DEF def, K
  <2>1. Equipped(h, StoreScript(ready, key, def))
        /\ Contents(StoreScript(ready, key, def)) = After(Contents(ready), {}, Single(key, [type |-> "script", def |-> def]))
    BY <1>1, StoreScriptEffect
  <2> QED BY <1>1, <2>1 DEF def
<1>4. cmd.op \in {"SCRIPTSET", "SCRIPTSTORE"}
        => Afterwards(K, cmd) = After(K, {}, Single(key, [type |-> "script", def |-> ScriptFields(arg)]))
  BY DEF Afterwards, Erased, Written
<1>5. /\ cmd.op = "SCRIPTSET" => (Allowed(h, K, cmd) <=> CanScript(h, arg) /\ Free(K, key, "script"))
      /\ cmd.op = "SCRIPTSTORE" => (Allowed(h, K, cmd) <=>
                                      arg.entryPoints # << >> /\ CanScript(h, arg) /\ Free(K, key, "script"))
  BY DEF Allowed
<1>6. May(d, key, "script") <=> Free(K, key, "script")
  BY ContentsAre
<1>7. /\ set = IF ScriptCreate(d.host, ready.loaded, arg) /\ May(d, key, "script")
               THEN Ok(e, Nothing) ELSE Error(ready)
      /\ store = IF arg.entryPoints = << >> THEN Error(d) ELSE set
  BY DEF ScriptSet, ScriptStore, ready
<1> HIDE DEF e, key, arg, set, store
<1>8. ASSUME cmd.op = "SCRIPTSET" PROVE Does(h, d, cmd, set)
  <2>1. \/ Allowed(h, K, cmd) /\ set = Ok(e, Nothing)
        \/ ~Allowed(h, K, cmd) /\ (set = Error(ready) \/ set = Died(ready))
    BY <1>2, <1>5, <1>6, <1>7, <1>8
  <2> QED BY <1>1, <1>3, <1>4, <1>8, <2>1, ReplyDoes
<1>9. ASSUME cmd.op = "SCRIPTSTORE" PROVE Does(h, d, cmd, store)
  <2>1. \/ Allowed(h, K, cmd) /\ store = Ok(e, Nothing)
        \/ ~Allowed(h, K, cmd) /\ (store = Error(d) \/ store = Died(d))
        \/ ~Allowed(h, K, cmd) /\ (store = Error(ready) \/ store = Died(ready))
    BY <1>2, <1>5, <1>6, <1>7, <1>9
  <2> QED BY <1>1, <1>3, <1>4, <1>9, <2>1, ReplyDoes
<1> QED BY <1>8, <1>9 DEF key, arg, set, store

LEMMA DeletionsDo ==
  ASSUME NEW h, NEW d, NEW cmd, Good(d), Equipped(h, d)
  PROVE  /\ cmd.op = "MODELDEL" => Does(h, d, cmd, ModelDel(d, cmd.key))
         /\ cmd.op = "SCRIPTDEL" => Does(h, d, cmd, ScriptDel(d, cmd.key))
         /\ cmd.op = "DEL" => Does(h, d, cmd, Del(d, {cmd.key} \cup cmd.arg))
         /\ cmd.op = "FLUSHDB" => Does(h, d, cmd, Flush(d))
<1> DEFINE key == cmd.key
           K == Contents(d)
           gone == {key} \cup cmd.arg
<1>1. \A keys : /\ Equipped(h, DeleteAll(d, keys))
                /\ Contents(DeleteAll(d, keys)) = After(K, keys, << >>)
  BY EraseEffect
<1>2. /\ cmd.op \in {"MODELDEL", "SCRIPTDEL"} => Afterwards(K, cmd) = After(K, {key}, << >>)
      /\ cmd.op = "DEL" => Afterwards(K, cmd) = After(K, gone, << >>)
      /\ cmd.op = "FLUSHDB" => Afterwards(K, cmd) = After(K, DOMAIN K, << >>)
  BY DEF Afterwards, Erased, Written
<1>3. /\ cmd.op = "MODELDEL" => (Allowed(h, K, cmd) <=> In(K, key, "model"))
      /\ cmd.op = "SCRIPTDEL" => (Allowed(h, K, cmd) <=> In(K, key, "script"))
      /\ cmd.op \in {"DEL", "FLUSHDB"} => Allowed(h, K, cmd)
  BY DEF Allowed
<1>4. /\ Is(d, key, "model") <=> In(K, key, "model")
      /\ Is(d, key, "script") <=> In(K, key, "script")
      /\ DOMAIN K = DOMAIN d.keys
  BY ContentsAre
<1>5. ASSUME NEW r, NEW keys, NEW value, Afterwards(K, cmd) = After(K, keys, << >>),
             \/ Allowed(h, K, cmd) /\ r = Ok(DeleteAll(d, keys), value)
             \/ ~Allowed(h, K, cmd) /\ r = Error(d)
      PROVE  Does(h, d, cmd, r)
  BY <1>1, <1>5, ReplyDoes
<1>6. ASSUME cmd.op = "MODELDEL" PROVE Does(h, d, cmd, ModelDel(d, key))
  BY <1>2, <1>3, <1>4, <1>5, <1>6 DEF ModelDel, DeleteKey
<1>7. ASSUME cmd.op = "SCRIPTDEL" PROVE Does(h, d, cmd, ScriptDel(d, key))
  BY <1>2, <1>3, <1>4, <1>5, <1>7 DEF ScriptDel, DeleteKey
<1>8. ASSUME cmd.op = "DEL" PROVE Does(h, d, cmd, Del(d, gone))
  BY <1>2, <1>3, <1>5, <1>8 DEF Del
<1>9. ASSUME cmd.op = "FLUSHDB" PROVE Does(h, d, cmd, Flush(d))
  BY <1>2, <1>3, <1>4, <1>5, <1>9 DEF Flush, Del
<1> QED BY <1>6, <1>7, <1>8, <1>9

LEMMA RenameDoes ==
  ASSUME NEW h, NEW d, NEW cmd, Good(d), Equipped(h, d), cmd.op = "RENAME"
  PROVE  Does(h, d, cmd, Rename(d, cmd.key, cmd.arg))
<1> DEFINE from == cmd.key
           to == cmd.arg
           K == Contents(d)
           v == K[from]
           r == Rename(d, from, to)
<1>1. Afterwards(K, cmd) = After(K, {from}, Single(to, v))
  BY DEF Afterwards, Erased, Written
<1>2. Allowed(h, K, cmd) <=> from \in DOMAIN K
  BY DEF Allowed
<1>3. /\ DOMAIN K = DOMAIN d.keys
      /\ \A k \in DOMAIN d.keys : K[k] = Content(d.keys[k])
      /\ K = [k \in DOMAIN K |-> K[k]]
  BY ContentsAre DEF Contents
<1>4. DOMAIN Single(to, v) = {to} /\ Single(to, v)[to] = v
  BY DEF Single
<1> DEFINE K2 == [k \in (DOMAIN K \ {from}) \cup {to} |-> IF k = to THEN v ELSE K[k]]
<1>5. After(K, {from}, Single(to, v)) = K2
  BY <1>4 DEF After
<1>6. CASE ~Has(d, from)
  <2>1. r = Error(d) /\ ~Allowed(h, K, cmd)
    BY <1>2, <1>3, <1>6 DEF Rename, Has
  <2> HIDE DEF r
  <2> QED BY <2>1 DEF Does, Error, r
<1>7. CASE Has(d, from) /\ from = to
  <2>1. r = Ok(d, Nothing) /\ Allowed(h, K, cmd)
    BY <1>2, <1>3, <1>7 DEF Rename, Has
  <2>2. DOMAIN K2 = DOMAIN K /\ \A k \in DOMAIN K : K2[k] = K[k]
    BY <1>3, <1>7 DEF Has
  <2>3. K2 = K
    <3>1. K2 = [k \in DOMAIN K |-> K[k]]
      BY <2>2
    <3> QED BY <1>3, <3>1
  <2> HIDE DEF r, K, K2
  <2> QED BY <1>1, <1>5, <2>1, <2>3 DEF Does, Ok, r, K
<1>8. CASE Has(d, from) /\ from # to
  <2> DEFINE bare == DeleteAll(d, {to})
             keys == Put(Drop(bare.keys, {from}), to, d.keys[from])
             e == [bare EXCEPT !.keys = keys]
  <2>1. /\ Good(bare) /\ Equipped(h, bare) /\ DOMAIN bare = DOMAIN d /\ bare.keys = Drop(d.keys, {to})
    BY EraseEffect
  <2>2. r = Ok(e, Nothing) /\ Allowed(h, K, cmd)
    BY <1>2, <1>3, <1>8 DEF Rename, Has, DeleteKey
  <2> HIDE DEF bare
  <2>3. DOMAIN e = DOMAIN bare /\ e.host = bare.host /\ e.loaded = bare.loaded /\ e.keys = keys
    BY <2>1 DEF Good, ShardOK, Fixtures, Equipped
  <2>4. /\ DOMAIN keys = (DOMAIN d.keys \ {from}) \cup {to} /\ keys[to] = d.keys[from]
        /\ \A k \in DOMAIN d.keys \ {from, to} : keys[k] = d.keys[k]
    BY <1>8, <2>1 DEF Put, Drop, Restrict
  <2> HIDE DEF e, keys, r
  <2>5. Equipped(h, e)
    BY <2>1, <2>3, SameHost
  <2>6. Contents(e) = K2
    <3>1. Contents(e) = [k \in (DOMAIN d.keys \ {from}) \cup {to} |-> Content(keys[k])]
      BY <2>3, <2>4 DEF Contents
    <3>2. from \in DOMAIN d.keys
      BY <1>8 DEF Has
    <3> HIDE DEF K
    <3> QED BY <1>3, <2>4, <3>1, <3>2
  <2> HIDE DEF K, K2
  <2> QED BY <1>1, <1>5, <2>2, <2>5, <2>6 DEF Does, Ok, r, K
<1> QED BY <1>6, <1>7, <1>8

LEMMA StringSetDoes ==
  ASSUME NEW h, NEW d, NEW cmd, Good(d), Equipped(h, d), cmd.op = "SET"
  PROVE  Does(h, d, cmd, StringSet(d, cmd.key, cmd.arg))
<1> DEFINE v == Bytes(cmd.arg)
           e == SetValue(d, cmd.key, v)
           K == Contents(d)
<1>1. Content(v) = v
  BY DEF Content, Bytes
<1>2. Equipped(h, e) /\ Contents(e) = After(K, {}, Single(cmd.key, v))
  BY <1>1, SetEffect
<1>3. Afterwards(K, cmd) = After(K, {}, Single(cmd.key, v)) /\ Allowed(h, K, cmd)
  BY DEF Afterwards, Erased, Written, Allowed
<1>4. StringSet(d, cmd.key, cmd.arg) = Ok(e, Nothing)
  BY DEF StringSet
<1> HIDE DEF e, v
<1> QED BY <1>2, <1>3, <1>4 DEF Does, Ok

LEMMA AppendsDo ==
  ASSUME NEW h, NEW d, NEW cmd, Good(d), Equipped(h, d)
  PROVE  /\ cmd.op = "HSET" => Does(h, d, cmd, HashSet(d, cmd.key, cmd.arg))
         /\ cmd.op = "RPUSH" => Does(h, d, cmd, PushRight(d, cmd.key, cmd.arg))
<1> DEFINE key == cmd.key
           arg == cmd.arg
           K == Contents(d)
           fields(old) == Hash([f \in DOMAIN arg \cup DOMAIN old |-> IF f \in DOMAIN arg THEN arg[f] ELSE old[f]])
           put(v) == [d EXCEPT !.keys = Put(@, key, v)]
<1>1. /\ DOMAIN K = DOMAIN d.keys
      /\ \A k \in DOMAIN d.keys : K[k] = Content(d.keys[k])
      /\ \A type : May(d, key, type) <=> Free(K, key, type)
  BY ContentsAre
<1>2. ASSUME NEW type \in {"hash", "list"}, Free(K, key, type), key \in DOMAIN K
      PROVE  K[key] = d.keys[key]
  BY <1>1, <1>2, ContentIs DEF Free, Kinds
<1> HIDE DEF K
<1>3. ASSUME NEW v, v.type \notin Kinds, Afterwards(K, cmd) = After(K, {}, Single(key, v))
      PROVE  Equipped(h, put(v)) /\ Contents(put(v)) = Afterwards(K, cmd)
  <2>1. Content(v) = v
    BY <1>3, ContentIs
  <2> QED BY <1>3, <2>1, PutEffect DEF K
<1>4. ASSUME cmd.op = "HSET" PROVE Does(h, d, cmd, HashSet(d, key, arg))
  <2> DEFINE v == fields(Fields(d, key))
             n == Cardinality(DOMAIN arg \ DOMAIN Fields(d, key))
  <2>1. Allowed(h, K, cmd) <=> Free(K, key, "hash")
    BY <1>4 DEF Allowed
  <2>2. HashSet(d, key, arg) = IF May(d, key, "hash") THEN Ok(put(v), n) ELSE Error(d)
    BY DEF HashSet
  <2>3. v.type \notin Kinds
    BY DEF Hash, Kinds
  <2>4. CASE Free(K, key, "hash")
    <3>1. FieldsOf(K, key) = Fields(d, key)
      BY <1>1, <1>2, <2>4 DEF FieldsOf, Fields, Has
    <3>2. Afterwards(K, cmd) = After(K, {}, Single(key, fields(FieldsOf(K, key))))
      BY <1>4 DEF Afterwards, Erased, Written
    <3>3. Afterwards(K, cmd) = After(K, {}, Single(key, v))
      BY <3>1, <3>2
    <3> HIDE DEF v, put, n
    <3>4. Equipped(h, put(v)) /\ Contents(put(v)) = Afterwards(K, cmd)
      BY <1>3, <2>3, <3>3
    <3> QED BY <1>1, <2>1, <2>2, <2>4, <3>4 DEF Does, Ok, K
  <2>5. CASE ~Free(K, key, "hash")
    <3> HIDE DEF v, put, n
    <3> QED BY <1>1, <2>1, <2>2, <2>5 DEF Does, Error, K
  <2> QED BY <2>4, <2>5
<1>5. ASSUME cmd.op = "RPUSH" PROVE Does(h, d, cmd, PushRight(d, key, arg))
  <2> DEFINE v == List(Pushed(d, key, arg))
             n == Len(Pushed(d, key, arg))
  <2>1. Allowed(h, K, cmd) <=> Free(K, key, "list")
    BY <1>5 DEF Allowed
  <2>2. PushRight(d, key, arg) = IF May(d, key, "list") THEN Ok(put(v), n) ELSE Error(d)
    BY DEF PushRight
  <2>3. v.type \notin Kinds
    BY DEF List, Kinds
  <2>4. CASE Free(K, key, "list")
    <3>1. Pushed(d, key, arg) = IF key \in DOMAIN K THEN K[key].items \o arg ELSE arg
      BY <1>1, <1>2, <2>4 DEF Pushed, Items, Has
    <3>2. Afterwards(K, cmd) = After(K, {}, Single(key, List(IF key \in DOMAIN K THEN K[key].items \o arg ELSE arg)))
      BY <1>5 DEF Afterwards, Erased, Written
    <3>3. Afterwards(K, cmd) = After(K, {}, Single(key, v))
      BY <3>1, <3>2
    <3> HIDE DEF v, put, n
    <3>4. Equipped(h, put(v)) /\ Contents(put(v)) = Afterwards(K, cmd)
      BY <1>3, <2>3, <3>3
    <3> QED BY <1>1, <2>1, <2>2, <2>4, <3>4 DEF Does, Ok, K
  <2>5. CASE ~Free(K, key, "list")
    <3> HIDE DEF v, put, n
    <3> QED BY <1>1, <2>1, <2>2, <2>5 DEF Does, Error, K
  <2> QED BY <2>4, <2>5
<1> QED BY <1>4, <1>5

(* Every command that is written to the append-only file.                             *)
LEMMA WritesDo ==
  ASSUME NEW h, NEW d, NEW who, NEW cmd, Good(d), Equipped(h, d), cmd.op \in Writes
  PROVE  Does(h, d, cmd, Perform(d, who, cmd))
<1>1. CASE cmd.op = "TENSORSET"
  BY <1>1, TensorSetDoes DEF Perform
<1>2. CASE cmd.op = "MODELSTORE"
  BY <1>2, ModelStoreDoes DEF Perform
<1>3. CASE cmd.op \in {"SCRIPTSET", "SCRIPTSTORE"}
  BY <1>3, ScriptStoreDoes DEF Perform
<1>4. CASE cmd.op \in {"MODELDEL", "SCRIPTDEL", "DEL", "FLUSHDB"}
  BY <1>4, DeletionsDo DEF Perform
<1>5. CASE cmd.op = "RENAME"
  BY <1>5, RenameDoes DEF Perform
<1>6. CASE cmd.op = "SET"
  BY <1>6, StringSetDoes DEF Perform
<1>7. CASE cmd.op \in {"HSET", "RPUSH"}
  BY <1>7, AppendsDo DEF Perform
<1> QED BY <1>1, <1>2, <1>3, <1>4, <1>5, <1>6, <1>7 DEF Writes

\* The keys of a shard, and what it runs on, are as before.
Leaves(d, e) == DOMAIN e = DOMAIN d /\ e.keys = d.keys /\ e.host = d.host /\ e.loaded = d.loaded

LEMMA LeavesContents ==
  ASSUME NEW h, NEW d, NEW e, Leaves(d, e)
  PROVE  /\ Contents(e) = Contents(d)
         /\ Equipped(h, d) => Equipped(h, e)
<1>1. Contents(e) = Contents(d)
  BY DEF Leaves, Contents
<1>2. Equipped(h, d) => Equipped(h, e)
  BY SameHost DEF Leaves
<1> QED BY <1>1, <1>2

(* The other commands.                                                         *)
LEMMA OthersLeave ==
  ASSUME NEW h, NEW d, NEW who, NEW cmd, Good(d), Equipped(h, d), cmd.op \notin Writes
  PROVE  Leaves(d, Perform(d, who, cmd).db)
<1> DEFINE key == cmd.key
           arg == cmd.arg
<1>1. Leaves(d, d)
  BY DEF Leaves
<1>2. Fixtures \cup {"host", "loaded"} \subseteq DOMAIN d
  BY DEF Good, ShardOK, Equipped
<1>3. CASE cmd.op \in {"MODELEXECUTE", "SCRIPTRUN"}
  <2>1. \A type : Leaves(d, Execute(d, who, type, key, arg).db)
    BY <1>1, <1>2 DEF Leaves, Execute, Ok, Error, Fixtures
  <2> QED BY <1>3, <2>1 DEF Perform
<1>4. CASE cmd.op \in {"AI.INFO RESETSTAT", "AI.CONFIG", "CONFIG SET"}
  <2>1. Leaves(d, ResetStat(d, key).db)
    BY <1>1, <1>2 DEF Leaves, ResetStat, Ok, Error, Fixtures
  <2>2. Leaves(d, ConfigSetChunk(d, arg).db)
    BY <1>1, <1>2 DEF Leaves, ConfigSetChunk, Ok, Error, Fixtures
  <2>3. Leaves(d, ConfigSet(d, arg).db)
    BY <1>1, <1>2 DEF Leaves, ConfigSet, Ok, Error, Fixtures
  <2> QED BY <1>4, <2>1, <2>2, <2>3 DEF Perform
<1>5. CASE cmd.op \in {"TENSORGET", "MODELGET", "SCRIPTGET", "AI.INFO", "AI.CONFIG GET", "CONFIG GET"}
  <2>1. /\ TensorGet(d, key).db = d /\ ModelGet(d, key).db = d /\ ScriptGet(d, key).db = d
        /\ Info(d, key).db = d /\ ConfigGetChunk(d).db = d /\ ConfigGet(d, arg).db = d
    BY DEF TensorGet, ModelGet, ScriptGet, Info, ConfigGetChunk, ConfigGet, Ok, Error
  <2> QED BY <1>1, <1>5, <2>1 DEF Perform
<1>6. CASE cmd.op \in {"EXISTS", "GET", "HGETALL", "HEXISTS", "LRANGE", "LLEN"}
  <2>1. /\ Exists(d, key).db = d /\ StringGet(d, key).db = d /\ HashGetAll(d, key).db = d
        /\ HashExists(d, key, arg).db = d /\ ListLength(d, key).db = d
    BY DEF Exists, StringGet, HashGetAll, HashExists, ListLength, Ok, Error
  <2>2. ListRange(d, key, arg).db = d
    BY DEF ListRange, Ok, Error
  <2> QED BY <1>1, <1>6, <2>1, <2>2 DEF Perform
<1>7. CASE cmd.op \notin {"AI.INFO RESETSTAT", "AI.CONFIG", "CONFIG SET", "TENSORGET", "MODELGET", "SCRIPTGET",
                          "AI.INFO", "AI.CONFIG GET", "CONFIG GET", "EXISTS", "GET", "HGETALL", "HEXISTS",
                          "LRANGE", "LLEN", "MODELEXECUTE", "SCRIPTRUN"}
  <2>1. Perform(d, who, cmd).db = d
    BY <1>7 DEF Perform, Writes, Ok, Error
  <2> QED BY <1>1, <2>1
<1> QED BY <1>3, <1>4, <1>5, <1>6, <1>7

-----------------------------------------------------------------------------
LEMMA AcceptedAfter ==
  ASSUME NEW h, NEW K, NEW gone, NEW new, AllAccepted(h, K), AllAccepted(h, new)
  PROVE  AllAccepted(h, After(K, gone, new))
<1> DEFINE L == After(K, gone, new)
<1>1. /\ DOMAIN L = (DOMAIN K \ gone) \cup DOMAIN new
      /\ \A k \in DOMAIN new : L[k] = new[k]
      /\ \A k \in (DOMAIN K \ gone) \ DOMAIN new : L[k] = K[k]
  BY DEF After
<1> HIDE DEF L
<1>2. AllAccepted(h, L)
  BY <1>1 DEF AllAccepted
<1> QED BY <1>2 DEF L

LEMMA RecallsAfter ==
  ASSUME NEW lossy, NEW K, NEW F, NEW gone, NEW new, Recalls(lossy, K, F)
  PROVE  Recalls(lossy, After(K, gone, new), After(F, gone, new))
<1> DEFINE L == After(K, gone, new)
           G == After(F, gone, new)
<1>1. /\ DOMAIN L = (DOMAIN K \ gone) \cup DOMAIN new
      /\ \A k \in DOMAIN new : L[k] = new[k]
      /\ \A k \in (DOMAIN K \ gone) \ DOMAIN new : L[k] = K[k]
  BY DEF After
<1>2. /\ DOMAIN G = (DOMAIN F \ gone) \cup DOMAIN new
      /\ \A k \in DOMAIN new : G[k] = new[k]
      /\ \A k \in (DOMAIN F \ gone) \ DOMAIN new : G[k] = F[k]
  BY DEF After
<1> HIDE DEF L, G
<1>3. Recalls(lossy, L, G)
  BY <1>1, <1>2 DEF Recalls
<1> QED BY <1>3 DEF L, G

LEMMA CreateAgain ==
  ASSUME NEW h, NEW def, CanStore(h, def)
  PROVE  LET new == ModelFields(def)
         IN  /\ new = ModelFields(new) /\ ModelArgsValid(new)
             /\ ModelCreate(h, LoadedFor(h, {}, new.backend), new)
<1> DEFINE new == ModelFields(def)
<1>1. /\ new.backend = def.backend /\ new.device = def.device /\ new.tag = def.tag
      /\ new.batchsize = def.batchsize /\ new.minbatchsize = def.minbatchsize
      /\ new.minbatchtimeout = def.minbatchtimeout /\ new.inputs = def.inputs
      /\ new.outputs = def.outputs /\ new.size = def.size /\ new.blob = def.blob
  BY DEF ModelFields
<1>2. new = ModelFields(new)
  BY DEF ModelFields
<1> HIDE DEF new
<1>3. ModelArgsValid(new)
  BY <1>1 DEF CanStore, ModelArgsValid
<1>4. def.backend \in LoadedFor(h, {}, def.backend)
  BY DEF CanStore, Ready, LoadedFor, LoadBackend
<1>5. ModelCreate(h, {def.backend}, new)
  <2>1. ModelCreate(h, {def.backend}, def)
    BY DEF CanStore
  <2>2. /\ CreateTF(h, new) <=> CreateTF(h, def)
        /\ CreateTFLite(h, new) <=> CreateTFLite(h, def)
        /\ CreateTorch(h, new) <=> CreateTorch(h, def)
        /\ CreateORT(h, new) <=> CreateORT(h, def)
        /\ CreateJAX(h, new) <=> CreateJAX(h, def)
    BY <1>1 DEF CreateTF, CreateTFLite, TFLiteLoadModel, CreateTorch, CreateORT, CreateJAX, DeviceFound
  <2>3. def.backend = "TF" => (ModelCreate(h, {def.backend}, new) <=> ModelCreate(h, {def.backend}, def))
    BY <1>1, <2>2 DEF ModelCreate
  <2>4. def.backend = "TFLITE" => (ModelCreate(h, {def.backend}, new) <=> ModelCreate(h, {def.backend}, def))
    BY <1>1, <2>2 DEF ModelCreate
  <2>5. def.backend = "TORCH" => (ModelCreate(h, {def.backend}, new) <=> ModelCreate(h, {def.backend}, def))
    BY <1>1, <2>2 DEF ModelCreate
  <2>6. def.backend = "ONNX" => (ModelCreate(h, {def.backend}, new) <=> ModelCreate(h, {def.backend}, def))
    BY <1>1, <2>2 DEF ModelCreate
  <2>7. def.backend = "JAX" => (ModelCreate(h, {def.backend}, new) <=> ModelCreate(h, {def.backend}, def))
    BY <1>1, <2>2 DEF ModelCreate
  <2>8. def.backend \in {"TF", "TFLITE", "TORCH", "ONNX", "JAX"}
    BY DEF CanStore, ModelArgsValid, Needed
  <2> QED BY <2>1, <2>3, <2>4, <2>5, <2>6, <2>7, <2>8
<1>6. ModelCreate(h, LoadedFor(h, {}, new.backend), new)
  BY <1>1, <1>4, <1>5, CreateNeeds
<1> QED BY <1>2, <1>3, <1>6 DEF new

LEMMA CreateScriptAgain ==
  ASSUME NEW h, NEW def, CanScript(h, def)
  PROVE  LET new == ScriptFields(def)
         IN  new = ScriptFields(new) /\ ScriptCreate(h, LoadedFor(h, {}, "TORCH"), new)
<1> DEFINE new == ScriptFields(def)
<1>1. /\ new.device = def.device /\ new.blob = def.blob /\ new.entryPoints = def.entryPoints
      /\ new = ScriptFields(new)
  BY DEF ScriptFields
<1> HIDE DEF new
<1>2. "TORCH" \in LoadedFor(h, {}, "TORCH")
  BY DEF CanScript, Ready, LoadedFor, LoadBackend
<1>3. ScriptCreate(h, {"TORCH"}, new)
  BY <1>1 DEF CanScript, ScriptCreate, DeviceFound
<1> QED BY <1>1, <1>2, <1>3, CreateNeeds DEF new

LEMMA DoneAccepted ==
  ASSUME NEW h, NEW K, NEW cmd, AllAccepted(h, K), cmd.op \in Writes, Allowed(h, K, cmd)
  PROVE  AllAccepted(h, Afterwards(K, cmd))
<1> DEFINE key == cmd.key
           arg == cmd.arg
           new == Written(K, cmd)
<1>1. SUFFICES AllAccepted(h, new)
  BY AcceptedAfter DEF Afterwards
<1>2. ASSUME NEW k, NEW v, v.type \in Types, Accepted(h, v) PROVE AllAccepted(h, Single(k, v))
  BY <1>2 DEF AllAccepted, Single
<1>3. CASE cmd.op = "TENSORSET"
  <2> DEFINE t == TensorNew(arg.dtype, arg.dims, arg.data)
  <2>1. new = Single(key, Tensor(t))
    BY <1>3 DEF Written
  <2>2. ParseTensorSetArgs(arg)
    BY <1>3 DEF Allowed
  <2>3. t.dtype = arg.dtype /\ t.dims = arg.dims /\ t.data = arg.data /\ t = TensorNew(t.dtype, t.dims, t.data)
    BY DEF TensorNew
  <2> HIDE DEF t
  <2>4. IsTensor(t)
    BY <2>2, <2>3 DEF IsTensor, ParseTensorSetArgs, CreateFromBlob
  <2>5. Tensor(t).type \in Types /\ Accepted(h, Tensor(t))
    BY <2>4 DEF Accepted, Tensor, Types
  <2> QED BY <1>2, <2>1, <2>5
<1>4. CASE cmd.op = "MODELSTORE"
  <2> DEFINE v == [type |-> "model", def |-> ModelFields(arg)]
  <2>1. new = Single(key, v)
    BY <1>4 DEF Written
  <2>2. CanStore(h, arg)
    BY <1>4 DEF Allowed
  <2>3. v.type = "model" /\ v.def = ModelFields(arg)
    OBVIOUS
  <2> HIDE DEF v
  <2>4. Accepted(h, v) /\ v.type \in Types
    BY <2>2, <2>3, CreateAgain DEF Accepted, Types, Kinds
  <2> QED BY <1>2, <2>1, <2>4
<1>5. CASE cmd.op \in {"SCRIPTSET", "SCRIPTSTORE"}
  <2> DEFINE v == [type |-> "script", def |-> ScriptFields(arg)]
  <2>1. new = Single(key, v)
    BY <1>5 DEF Written
  <2>2. CanScript(h, arg)
    BY <1>5 DEF Allowed
  <2>3. v.type = "script" /\ v.def = ScriptFields(arg)
    OBVIOUS
  <2> HIDE DEF v
  <2>4. Accepted(h, v) /\ v.type \in Types
    BY <2>2, <2>3, CreateScriptAgain DEF Accepted, Types, Kinds
  <2> QED BY <1>2, <2>1, <2>4
<1>6. CASE cmd.op = "RENAME"
  <2>1. new = Single(arg, K[key]) /\ key \in DOMAIN K
    BY <1>6 DEF Written, Allowed
  <2> QED BY <1>2, <2>1 DEF AllAccepted
<1>7. CASE cmd.op = "SET"
  <2>1. new = Single(key, Bytes(arg))
    BY <1>7 DEF Written
  <2>2. Bytes(arg).type \in Types /\ Accepted(h, Bytes(arg))
    BY DEF Accepted, Bytes, Types
  <2> QED BY <1>2, <2>1, <2>2
<1>8. CASE cmd.op = "HSET"
  <2> DEFINE old == FieldsOf(K, key)
             fields == [f \in DOMAIN arg \cup DOMAIN old |-> IF f \in DOMAIN arg THEN arg[f] ELSE old[f]]
  <2>1. new = Single(key, Hash(fields))
    BY <1>8 DEF Written
  <2>2. fields = [f \in DOMAIN fields |-> fields[f]]
    OBVIOUS
  <2> HIDE DEF fields
  <2>3. Hash(fields).type \in Types /\ Accepted(h, Hash(fields))
    BY <2>2 DEF Accepted, Hash, Types
  <2> QED BY <1>2, <2>1, <2>3
<1>9. CASE cmd.op = "RPUSH"
  <2> DEFINE items == IF key \in DOMAIN K THEN K[key].items \o arg ELSE arg
  <2>1. new = Single(key, List(items))
    BY <1>9 DEF Written
  <2> HIDE DEF items
  <2>2. List(items).type \in Types /\ Accepted(h, List(items))
    BY DEF Accepted, List, Types
  <2> QED BY <1>2, <2>1, <2>2
<1>10. CASE cmd.op \in {"MODELDEL", "SCRIPTDEL", "DEL", "FLUSHDB"}
  <2>1. new = << >>
    BY <1>10 DEF Written
  <2> QED BY <2>1 DEF AllAccepted
<1> QED BY <1>3, <1>4, <1>5, <1>6, <1>7, <1>8, <1>9, <1>10 DEF Writes

(* A command that a shard carries out does the same to what recalls its contents.        *)
LEMMA ReplayRecalls ==
  ASSUME NEW h, NEW lossy, NEW K, NEW F, NEW cmd, Recalls(lossy, K, F),
         cmd.op \in Writes, Allowed(h, K, cmd), cmd.op = "RENAME" => ~In(K, cmd.key, "script")
  PROVE  Recalls(lossy, Afterwards(K, cmd), IF Allowed(h, F, cmd) THEN Afterwards(F, cmd) ELSE F)
<1> DEFINE key == cmd.key
<1>1. \A k \in DOMAIN F : k \in DOMAIN K /\ F[k] = K[k]
  BY DEF Recalls
<1>2. \A k \in DOMAIN K \ DOMAIN F : K[k].type = "script"
  BY DEF Recalls
<1>3. CASE cmd.op = "SCRIPTDEL" /\ ~In(F, key, "script")
  <2>1. ~Allowed(h, F, cmd) /\ In(K, key, "script")
    BY <1>3 DEF Allowed
  <2>2. key \notin DOMAIN F
    BY <1>1, <1>3, <2>1 DEF In
  <2>3. Afterwards(K, cmd) = After(K, {key}, << >>) /\ DOMAIN << >> = {}
    BY <1>3 DEF Afterwards, Erased, Written
  <2> DEFINE L == After(K, {key}, << >>)
  <2>4. DOMAIN L = DOMAIN K \ {key} /\ \A k \in DOMAIN L : L[k] = K[k]
    BY <2>3 DEF After
  <2> HIDE DEF L
  <2>5. Recalls(lossy, L, F)
    BY <2>2, <2>4 DEF Recalls
  <2> QED BY <2>1, <2>3, <2>5 DEF L
<1>4. CASE ~(cmd.op = "SCRIPTDEL" /\ ~In(F, key, "script"))
  <2>1. Allowed(h, F, cmd)
    BY <1>1, <1>2, <1>4 DEF Allowed, Free, In
  <2>2. Written(F, cmd) = Written(K, cmd)
    <3>1. CASE cmd.op = "RENAME"
      BY <1>1, <2>1, <3>1 DEF Allowed, Written
    <3>2. CASE cmd.op = "HSET"
      <4>1. FieldsOf(F, key) = FieldsOf(K, key)
        BY <1>1, <1>2, <3>2 DEF Allowed, Free, FieldsOf
      <4> QED BY <3>2, <4>1 DEF Written
    <3>3. CASE cmd.op = "RPUSH"
      <4>1. /\ key \in DOMAIN F <=> key \in DOMAIN K
            /\ key \in DOMAIN K => F[key] = K[key]
        BY <1>1, <1>2, <3>3 DEF Allowed, Free
      <4> QED BY <3>3, <4>1 DEF Written
    <3>4. CASE cmd.op \notin {"RENAME", "HSET", "RPUSH"}
      BY <3>4 DEF Written
    <3> QED BY <3>1, <3>2, <3>3, <3>4
  <2>3. After(F, Erased(F, cmd), Written(K, cmd)) = After(F, Erased(K, cmd), Written(K, cmd))
    <3>1. CASE cmd.op = "FLUSHDB"
      <4>1. DOMAIN F \ DOMAIN F = DOMAIN F \ DOMAIN K
        BY <1>1
      <4> QED BY <3>1, <4>1 DEF Erased, After
    <3>2. CASE cmd.op # "FLUSHDB"
      BY <3>2 DEF Erased
    <3> QED BY <3>1, <3>2
  <2>4. Recalls(lossy, Afterwards(K, cmd), Afterwards(F, cmd))
    BY <2>2, <2>3, RecallsAfter DEF Afterwards
  <2> QED BY <2>1, <2>4
<1> QED BY <1>3, <1>4

-----------------------------------------------------------------------------
(* What is recalled of what is recalled.                                            *)
LEMMA RecallsItself ==
  ASSUME NEW lossy, NEW K
  PROVE  Recalls(lossy, K, K)
BY DEF Recalls

LEMMA RecallsChain ==
  ASSUME NEW lossy, NEW K, NEW F, NEW G, Recalls(lossy, K, F), Recalls(lossy, F, G)
  PROVE  Recalls(lossy, K, G)
<1>1. \A k \in DOMAIN G : k \in DOMAIN K /\ G[k] = K[k]
  BY DEF Recalls
<1>2. ASSUME NEW k \in DOMAIN K \ DOMAIN G
      PROVE  lossy /\ K[k].type = "script" /\ K[k].def.entryPoints = << >>
  <2>1. CASE k \in DOMAIN F
    BY <2>1 DEF Recalls
  <2>2. CASE k \notin DOMAIN F
    BY <2>2 DEF Recalls
  <2> QED BY <2>1, <2>2
<1> QED BY <1>1, <1>2 DEF Recalls

LEMMA RecallsMore ==
  ASSUME NEW lossy, NEW more, NEW K, NEW F, Recalls(lossy, K, F), lossy => more
  PROVE  Recalls(more, K, F)
BY DEF Recalls

LEMMA RecallsAccepted ==
  ASSUME NEW h, NEW lossy, NEW K, NEW F, Recalls(lossy, K, F), AllAccepted(h, K)
  PROVE  AllAccepted(h, F)
BY DEF Recalls, AllAccepted

-----------------------------------------------------------------------------
(* What the parts of an image have.                                              *)
Bare(h, d) == Good(d) /\ Equipped(h, d) /\ DOMAIN Contents(d) = {}

LEMMA EmptyBare ==
  ASSUME NEW h
  PROVE  Bare(h, EmptyShard(h))
<1>1. Good(EmptyShard(h))
  BY NewGood
<1>2. Equipped(h, EmptyShard(h)) /\ DOMAIN EmptyShard(h).keys = {}
  BY DEF Equipped, EmptyShard
<1> QED BY <1>1, <1>2, ContentsAre DEF Bare

LEMMA PartBare ==
  ASSUME NEW h, NEW object, object.type \in Kinds => object.id \in Nat
  PROVE  Bare(h, Part(h, object))
<1>1. Good(Part(h, object)) /\ DOMAIN Part(h, object).keys = {}
  BY PartIsBase DEF Base
<1>2. Equipped(h, Part(h, object))
  BY DEF Equipped, EmptyShard, Part
<1> QED BY <1>1, <1>2, ContentsAre DEF Bare

LEMMA BareAfter ==
  ASSUME NEW h, NEW d, NEW key, NEW v, Bare(h, d)
  PROVE  After(Contents(d), {}, Single(key, v)) = Single(key, v)
<1> DEFINE K == Contents(d)
<1>1. DOMAIN K = {}
  BY DEF Bare
<1> HIDE DEF K
<1>2. After(K, {}, Single(key, v)) = [k \in {key} |-> v]
  BY <1>1 DEF After, Single
<1> QED BY <1>2 DEF Single, K

LEMMA BareBackend ==
  ASSUME NEW h, NEW d, NEW backend, Bare(h, d)
  PROVE  Bare(h, WithBackend(d, backend))
BY BackendEquips DEF Bare

\* What an object that is accepted needs is there.
LEMMA AcceptedModel ==
  ASSUME NEW h, NEW o, o.type = "model", Accepted(h, o)
  PROVE  /\ o.def = ModelFields(o.def) /\ CanStore(h, o.def)
         /\ o.def.backend # "TF" => [o.def EXCEPT !.inputs = << >>, !.outputs = << >>] = o.def
<1> DEFINE def == o.def
<1>1. /\ def = ModelFields(def) /\ ModelArgsValid(def)
      /\ ModelCreate(h, LoadedFor(h, {}, def.backend), def)
  BY DEF Accepted
<1>2. def.backend \in LoadedFor(h, {}, def.backend) /\ ModelCreate(h, {def.backend}, def)
  BY <1>1, CreateNeeds
<1>3. Ready(h, def.backend)
  BY <1>2 DEF LoadedFor, LoadBackend, Ready
<1>4. def.backend # "TF" => def.inputs = << >> /\ def.outputs = << >>
  BY <1>1 DEF ModelArgsValid
<1> HIDE DEF def
<1>5. ASSUME def.backend # "TF" PROVE [def EXCEPT !.inputs = << >>, !.outputs = << >>] = def
  <2>1. DOMAIN def = {"backend", "device", "tag", "batchsize", "minbatchsize", "minbatchtimeout",
                      "inputs", "outputs", "size", "blob"}
        /\ def = [f \in DOMAIN def |-> def[f]]
    BY <1>1, Zenon DEF ModelFields
  <2>2. [def EXCEPT !.inputs = << >>, !.outputs = << >>] = [f \in DOMAIN def |-> def[f]]
    BY <1>4, <1>5, <2>1
  <2> QED BY <2>1, <2>2
<1> QED BY <1>1, <1>2, <1>3, <1>5 DEF CanStore, def

LEMMA AcceptedScript ==
  ASSUME NEW h, NEW o, o.type = "script", Accepted(h, o)
  PROVE  o.def = ScriptFields(o.def) /\ CanScript(h, o.def)
<1>1. o.def = ScriptFields(o.def) /\ ScriptCreate(h, LoadedFor(h, {}, "TORCH"), o.def)
  BY DEF Accepted
<1>2. "TORCH" \in LoadedFor(h, {}, "TORCH") /\ ScriptCreate(h, {"TORCH"}, o.def)
  BY <1>1, CreateNeeds
<1>3. Ready(h, "TORCH")
  BY <1>2 DEF LoadedFor, LoadBackend, Ready
<1> QED BY <1>1, <1>2, <1>3 DEF CanScript

LEMMA AcceptedContent ==
  ASSUME NEW h, NEW o
  PROVE  Accepted(h, o) <=> Accepted(h, Content(o))
<1>1. CASE o.type \in Kinds
  <2> DEFINE p == Content(o)
  <2>1. p.type = o.type /\ p.def = o.def
    BY <1>1, ContentIs
  <2> HIDE DEF p
  <2>2. CASE o.type = "model"
    BY <2>1, <2>2 DEF Accepted, p
  <2>3. CASE o.type = "script"
    BY <2>1, <2>3 DEF Accepted, p
  <2> QED BY <1>1, <2>2, <2>3 DEF Kinds
<1>2. CASE o.type \notin Kinds
  BY <1>2, ContentIs
<1> QED BY <1>1, <1>2

\* The object, in a shard that has nothing yet.
Only(h, key, object, e) == Equipped(h, e) /\ Contents(e) = Single(key, Content(object))

LEMMA SetOnly ==
  ASSUME NEW h, NEW d, NEW key, NEW v, Bare(h, d)
  PROVE  Only(h, key, v, SetValue(d, key, v))
BY SetEffect, BareAfter DEF Bare, Only

LEMMA StoreOnly ==
  ASSUME NEW h, NEW d, NEW key, NEW o, Bare(h, d)
  PROVE  /\ o.type = "model" => Only(h, key, o, StoreModel(d, key, o.def))
         /\ o.type = "script" => Only(h, key, o, StoreScript(d, key, o.def))
<1>1. ASSUME o.type = "model" PROVE Only(h, key, o, StoreModel(d, key, o.def))
  <2>1. Content(o) = [type |-> "model", def |-> o.def]
    BY <1>1, ContentIs DEF Kinds
  <2> DEFINE def == o.def
  <2> HIDE DEF def
  <2>2. /\ Equipped(h, StoreModel(d, key, def))
        /\ Contents(StoreModel(d, key, def)) = After(Contents(d), {}, Single(key, [type |-> "model", def |-> def]))
    BY StoreModelEffect DEF Bare
  <2>3. After(Contents(d), {}, Single(key, [type |-> "model", def |-> def]))
          = Single(key, [type |-> "model", def |-> def])
    BY BareAfter
  <2> QED BY <2>1, <2>2, <2>3 DEF Only, def
<1>2. ASSUME o.type = "script" PROVE Only(h, key, o, StoreScript(d, key, o.def))
  <2>1. Content(o) = [type |-> "script", def |-> o.def]
    BY <1>2, ContentIs DEF Kinds
  <2> DEFINE def == o.def
  <2> HIDE DEF def
  <2>2. /\ Equipped(h, StoreScript(d, key, def))
        /\ Contents(StoreScript(d, key, def)) = After(Contents(d), {}, Single(key, [type |-> "script", def |-> def]))
    BY StoreScriptEffect DEF Bare
  <2>3. After(Contents(d), {}, Single(key, [type |-> "script", def |-> def]))
          = Single(key, [type |-> "script", def |-> def])
    BY BareAfter
  <2> QED BY <2>1, <2>2, <2>3 DEF Only, def
<1> QED BY <1>1, <1>2

LEMMA LoadedOnly ==
  ASSUME NEW h, NEW d, NEW key, NEW o, Bare(h, d), o.type \in Types, Accepted(h, o)
  PROVE  Only(h, key, o, LoadObject(d, key, o))
<1>1. CASE o.type = "model"
  <2> DEFINE def == o.def
  <2>1. def = ModelFields(def)
    BY <1>1, AcceptedModel
  <2> HIDE DEF def
  <2>2. LoadModel(SaveModel(def)) = def
    <3>1. LoadModel(SaveModel(def)) = ModelFields(def)
      BY DEF LoadModel, SaveModel, ModelFields
    <3> QED BY <2>1, <3>1
  <2>3. LoadObject(d, key, o) = StoreModel(WithBackend(d, def.backend), key, LoadModel(SaveModel(def)))
    BY <1>1 DEF LoadObject, def
  <2>4. Bare(h, WithBackend(d, def.backend))
    BY BareBackend
  <2> QED BY <1>1, <2>2, <2>3, <2>4, StoreOnly DEF def
<1>2. CASE o.type = "script"
  <2> DEFINE def == o.def
  <2>1. def = ScriptFields(def)
    BY <1>2, AcceptedScript
  <2> HIDE DEF def
  <2>2. LoadScript(SaveScript(def)) = def
    <3>1. LoadScript(SaveScript(def)) = ScriptFields(def)
      BY DEF LoadScript, SaveScript, ScriptFields
    <3> QED BY <2>1, <3>1
  <2>3. LoadObject(d, key, o) = StoreScript(WithBackend(d, "TORCH"), key, LoadScript(SaveScript(def)))
    BY <1>2 DEF LoadObject, def
  <2>4. Bare(h, WithBackend(d, "TORCH"))
    BY BareBackend
  <2> QED BY <1>2, <2>2, <2>3, <2>4, StoreOnly DEF def
<1>3. CASE o.type = "tensor"
  <2> DEFINE t == o.data
  <2>1. o = Tensor(t) /\ t = TensorNew(t.dtype, t.dims, t.data)
    BY <1>3 DEF Accepted, IsTensor
  <2> HIDE DEF t
  <2>2. LoadTensor(SaveTensor(t)) = TensorNew(t.dtype, t.dims, t.data)
    BY DEF LoadTensor, SaveTensor
  <2>3. LoadObject(d, key, o) = SetValue(d, key, Tensor(LoadTensor(SaveTensor(t))))
    BY <1>3 DEF LoadObject, t
  <2>4. LoadObject(d, key, o) = SetValue(d, key, o)
    BY <2>1, <2>2, <2>3
  <2> QED BY <2>4, SetOnly
<1>4. CASE o.type \in {"string", "hash", "list"}
  <2>1. LoadObject(d, key, o) = SetValue(d, key, o)
    BY <1>4 DEF LoadObject
  <2> QED BY <2>1, SetOnly
<1> QED BY <1>1, <1>2, <1>3, <1>4 DEF Types, Kinds

\* A script without entry points is not there again.
LEMMA RewrittenOnly ==
  ASSUME NEW h, NEW d, NEW key, NEW o, Bare(h, d), o.type \in Types, Accepted(h, o)
  PROVE  LET e == Replayed(d, Emitted(key, o))
         IN  /\ Equipped(h, e)
             /\ \/ Contents(e) = Single(key, Content(o))
                \/ DOMAIN Contents(e) = {} /\ o.type = "script" /\ o.def.entryPoints = << >>
<1> DEFINE cmd == Emitted(key, o)
           e == Replayed(d, cmd)
           K == Contents(d)
<1>1. DOMAIN K = {}
  BY DEF Bare
<1>2. \A type : Free(K, key, type)
  BY <1>1 DEF Free
<1>3. ASSUME cmd.op \in Writes PROVE Does(h, d, cmd, Perform(d, "loading", cmd))
  BY <1>3, WritesDo DEF Bare
<1>4. ASSUME cmd.op \in Writes, Allowed(h, K, cmd), Erased(K, cmd) = {},
             Written(K, cmd) = Single(key, Content(o))
      PROVE  Equipped(h, e) /\ Contents(e) = Single(key, Content(o))
  <2>1. Equipped(h, e) /\ Contents(e) = Afterwards(K, cmd)
    BY <1>3, <1>4 DEF Does, Replayed
  <2>2. Afterwards(K, cmd) = After(K, {}, Single(key, Content(o)))
    BY <1>4 DEF Afterwards
  <2> QED BY <2>1, <2>2, BareAfter
<1>5. CASE o.type = "tensor"
  <2> DEFINE t == o.data
  <2>1. o = Tensor(t) /\ t = TensorNew(t.dtype, t.dims, t.data) /\ ParseTensorSetArgs(t)
    BY <1>5 DEF Accepted, IsTensor
  <2>2. cmd = [op |-> "TENSORSET", key |-> key, arg |-> t]
    BY <1>5 DEF Emitted
  <2>3. Content(o) = o
    BY <1>5, ContentIs DEF Kinds
  <2> HIDE DEF t, cmd, K
  <2>4. cmd.op = "TENSORSET" /\ cmd.key = key /\ cmd.arg = t
    BY <2>2
  <2>5. Allowed(h, K, cmd)
    BY <1>2, <2>1, <2>4 DEF Allowed
  <2>6. Written(K, cmd) = Single(key, Content(o))
    BY <2>1, <2>3, <2>4 DEF Written
  <2>7. Erased(K, cmd) = {} /\ cmd.op \in Writes
    BY <2>4 DEF Erased, Writes
  <2> QED BY <1>4, <2>5, <2>6, <2>7 DEF cmd, K
<1>6. CASE o.type = "model"
  <2> DEFINE def == o.def
  <2>1. /\ def = ModelFields(def) /\ CanStore(h, def)
        /\ def.backend # "TF" => [def EXCEPT !.inputs = << >>, !.outputs = << >>] = def
    BY <1>6, AcceptedModel
  <2>2. cmd = [op |-> "MODELSTORE", key |-> key,
               arg |-> IF def.backend = "TF" THEN def ELSE [def EXCEPT !.inputs = << >>, !.outputs = << >>]]
    BY <1>6 DEF Emitted
  <2>3. Content(o) = [type |-> "model", def |-> def]
    BY <1>6, ContentIs DEF Kinds
  <2> HIDE DEF def, cmd, K
  <2>4. cmd.op = "MODELSTORE" /\ cmd.key = key /\ cmd.arg = def
    BY <2>1, <2>2
  <2>5. Allowed(h, K, cmd)
    BY <1>2, <2>1, <2>4 DEF Allowed
  <2>6. Written(K, cmd) = Single(key, Content(o))
    BY <2>1, <2>3, <2>4 DEF Written
  <2>7. Erased(K, cmd) = {} /\ cmd.op \in Writes
    BY <2>4 DEF Erased, Writes
  <2> QED BY <1>4, <2>5, <2>6, <2>7 DEF cmd, K
<1>7. CASE o.type = "script"
  <2> DEFINE def == o.def
  <2>1. def = ScriptFields(def) /\ CanScript(h, def)
    BY <1>7, AcceptedScript
  <2>2. cmd = [op |-> "SCRIPTSTORE", key |-> key, arg |-> def]
    BY <1>7 DEF Emitted
  <2>3. Content(o) = [type |-> "script", def |-> def]
    BY <1>7, ContentIs DEF Kinds
  <2> HIDE DEF def, cmd, K
  <2>4. cmd.op = "SCRIPTSTORE" /\ cmd.key = key /\ cmd.arg = def /\ cmd.op \in Writes
    BY <2>2 DEF Writes
  <2>5. Allowed(h, K, cmd) <=> def.entryPoints # << >>
    BY <1>2, <2>1, <2>4 DEF Allowed
  <2>6. Written(K, cmd) = Single(key, Content(o))
    BY <2>1, <2>3, <2>4 DEF Written
  <2>7. Erased(K, cmd) = {}
    BY <2>4 DEF Erased
  <2>8. CASE def.entryPoints # << >>
    BY <1>4, <2>4, <2>5, <2>6, <2>7, <2>8 DEF cmd, K
  <2>9. CASE def.entryPoints = << >>
    <3>1. Does(h, d, cmd, Perform(d, "loading", cmd))
      BY <1>3, <2>4 DEF cmd
    <3>2. Equipped(h, e) /\ Contents(e) = K
      BY <2>5, <2>9, <3>1 DEF Does, Replayed, K, cmd
    <3> QED BY <1>1, <1>7, <2>9, <3>2 DEF cmd, K, def
  <2> QED BY <2>8, <2>9
<1>8. CASE o.type = "string"
  <2> DEFINE data == o.data
  <2>1. o = Bytes(data) /\ Content(o) = o
    BY <1>8, ContentIs DEF Accepted, Kinds
  <2>2. cmd = [op |-> "SET", key |-> key, arg |-> data]
    BY <1>8 DEF Emitted
  <2> HIDE DEF data, cmd, K
  <2>3. cmd.op = "SET" /\ cmd.key = key /\ cmd.arg = data
    BY <2>2
  <2>4. Allowed(h, K, cmd) /\ Written(K, cmd) = Single(key, Content(o))
    BY <2>1, <2>3 DEF Allowed, Written
  <2>5. Erased(K, cmd) = {} /\ cmd.op \in Writes
    BY <2>3 DEF Erased, Writes
  <2> QED BY <1>4, <2>4, <2>5 DEF cmd, K
<1>9. CASE o.type = "hash"
  <2> DEFINE fields == o.fields
  <2>1. o = Hash([f \in DOMAIN fields |-> fields[f]]) /\ Content(o) = o
    BY <1>9, ContentIs DEF Accepted, Kinds
  <2>2. cmd = [op |-> "HSET", key |-> key, arg |-> fields]
    BY <1>9 DEF Emitted
  <2> HIDE DEF fields, cmd, K
  <2>3. cmd.op = "HSET" /\ cmd.key = key /\ cmd.arg = fields
    BY <2>2
  <2>4. Allowed(h, K, cmd)
    BY <1>2, <2>3 DEF Allowed
  <2>5. FieldsOf(K, key) = << >> /\ DOMAIN << >> = {}
    BY <1>1 DEF FieldsOf, K
  <2> DEFINE all == [f \in DOMAIN fields \cup DOMAIN FieldsOf(K, key) |->
                       IF f \in DOMAIN fields THEN fields[f] ELSE FieldsOf(K, key)[f]]
  <2>6. Written(K, cmd) = Single(key, Hash(all))
    BY <2>3 DEF Written
  <2>7. all = [f \in DOMAIN fields |-> fields[f]]
    BY <2>5
  <2> HIDE DEF all
  <2>8. Written(K, cmd) = Single(key, Content(o))
    BY <2>1, <2>6, <2>7
  <2>9. Erased(K, cmd) = {} /\ cmd.op \in Writes
    BY <2>3 DEF Erased, Writes
  <2> QED BY <1>4, <2>4, <2>8, <2>9 DEF cmd, K
<1>10. CASE o.type = "list"
  <2> DEFINE items == o.items
  <2>1. o = List(items) /\ Content(o) = o
    BY <1>10, ContentIs DEF Accepted, Kinds
  <2>2. cmd = [op |-> "RPUSH", key |-> key, arg |-> items]
    BY <1>10 DEF Emitted
  <2>3. key \notin DOMAIN K
    BY <1>1
  <2> HIDE DEF items, cmd, K
  <2>4. cmd.op = "RPUSH" /\ cmd.key = key /\ cmd.arg = items
    BY <2>2
  <2>5. Allowed(h, K, cmd)
    BY <1>2, <2>4 DEF Allowed
  <2>6. Written(K, cmd) = Single(key, Content(o))
    BY <2>1, <2>3, <2>4 DEF Written
  <2>7. Erased(K, cmd) = {} /\ cmd.op \in Writes
    BY <2>4 DEF Erased, Writes
  <2> QED BY <1>4, <2>5, <2>6, <2>7 DEF cmd, K
<1> QED BY <1>5, <1>6, <1>7, <1>8, <1>9, <1>10 DEF Types, Kinds

(* Put together, the parts have what each of them has in its key.                     *)
LEMMA CombinedContents ==
  ASSUME NEW h, NEW next, NEW parts, \A k \in DOMAIN parts : Equipped(h, parts[k])
  PROVE  LET e == Combined(h, next, parts)
             F == Contents(e)
         IN  /\ Equipped(h, e)
             /\ \A k : k \in DOMAIN F <=> k \in DOMAIN parts /\ k \in DOMAIN Contents(parts[k])
             /\ \A k \in DOMAIN F : F[k] = Contents(parts[k])[k]
<1> DEFINE e == Combined(h, next, parts)
<1>1. /\ e.keys = [k \in {j \in DOMAIN parts : j \in DOMAIN parts[j].keys} |-> parts[k].keys[k]]
      /\ e.host = h /\ e.loaded = UNION {parts[k].loaded : k \in DOMAIN parts}
      /\ {"host", "loaded"} \subseteq DOMAIN e
  BY DEF Combined, EmptyShard, Has
<1> HIDE DEF e
<1>2. Equipped(h, e)
  BY <1>1 DEF Equipped
<1>3. /\ \A k : k \in DOMAIN Contents(e) <=> k \in DOMAIN parts /\ k \in DOMAIN Contents(parts[k])
      /\ \A k \in DOMAIN Contents(e) : Contents(e)[k] = Contents(parts[k])[k]
  BY <1>1 DEF Contents
<1> QED BY <1>2, <1>3 DEF e

(* A snapshot has all that a shard has, and a file rewritten as commands all but the       *)
(* scripts without entry points.                                                     *)
LEMMA ImagesKeep ==
  ASSUME NEW h, NEW d, NEW preamble, Sound(h, d)
  PROVE  /\ Equipped(h, Snapshot(d)) /\ Recalls(FALSE, Contents(d), Contents(Snapshot(d)))
         /\ Equipped(h, Rewritten(d, preamble))
         /\ Recalls(~preamble, Contents(d), Contents(Rewritten(d, preamble)))
<1> DEFINE part(k) == Part(h, d.keys[k])
           read == [k \in DOMAIN d.keys |-> LoadObject(part(k), k, d.keys[k])]
           replayed == [k \in DOMAIN d.keys |-> Replayed(part(k), Emitted(k, d.keys[k]))]
           K == Contents(d)
<1>1. Good(d) /\ d.host = h /\ AllAccepted(h, K)
  BY DEF Sound, Equipped
<1>2. DOMAIN K = DOMAIN d.keys /\ \A k \in DOMAIN d.keys : K[k] = Content(d.keys[k])
  BY ContentsAre
<1> HIDE DEF K
<1>3. ASSUME NEW k \in DOMAIN d.keys
      PROVE  /\ Bare(h, part(k)) /\ d.keys[k].type \in Types /\ Accepted(h, d.keys[k])
  <2>1. K[k] = Content(d.keys[k]) /\ K[k].type \in Types /\ Accepted(h, K[k])
    BY <1>1, <1>2 DEF AllAccepted
  <2>2. d.keys[k].type \in Types /\ Accepted(h, d.keys[k])
    BY <2>1, AcceptedContent, ContentIs
  <2>3. d.keys[k].type \in Kinds => d.keys[k].id \in Nat
    <3> SUFFICES ASSUME d.keys[k].type \in Kinds PROVE d.keys[k].id \in Nat
      OBVIOUS
    <3>1. d.keys[k] \in Alive(d)
      BY AliveIs DEF ObjectKeys, Kinds
    <3> QED BY <1>1, <3>1 DEF Good, ShardOK
  <2> QED BY <2>2, <2>3, PartBare
<1> HIDE DEF part
<1>4. ASSUME NEW k \in DOMAIN d.keys
      PROVE  Equipped(h, read[k]) /\ Contents(read[k]) = Single(k, K[k])
  <2>1. Only(h, k, d.keys[k], LoadObject(part(k), k, d.keys[k]))
    BY <1>3, LoadedOnly
  <2> QED BY <1>2, <2>1 DEF Only
<1>5. ASSUME NEW k \in DOMAIN d.keys
      PROVE  /\ Equipped(h, replayed[k])
             /\ \/ Contents(replayed[k]) = Single(k, K[k])
                \/ /\ DOMAIN Contents(replayed[k]) = {}
                   /\ K[k].type = "script" /\ K[k].def.entryPoints = << >>
  <2> DEFINE e == Replayed(part(k), Emitted(k, d.keys[k]))
  <2>1. /\ Equipped(h, e)
        /\ \/ Contents(e) = Single(k, Content(d.keys[k]))
           \/ DOMAIN Contents(e) = {} /\ d.keys[k].type = "script" /\ d.keys[k].def.entryPoints = << >>
    BY <1>3, RewrittenOnly
  <2>2. replayed[k] = e
    OBVIOUS
  <2> HIDE DEF e, replayed
  <2>3. d.keys[k].type = "script" => K[k].type = "script" /\ K[k].def = d.keys[k].def
    BY <1>2, ContentIs DEF Kinds
  <2> QED BY <1>2, <2>1, <2>2, <2>3
<1>6. DOMAIN read = DOMAIN d.keys /\ DOMAIN replayed = DOMAIN d.keys
  OBVIOUS
<1>7. Snapshot(d) = Combined(h, d.next, read) /\ RewriteCommands(d) = Combined(h, d.next, replayed)
  BY <1>1 DEF Snapshot, RewriteCommands, part
<1> HIDE DEF read, replayed
<1>8. \A k, v : DOMAIN Single(k, v) = {k} /\ Single(k, v)[k] = v
  BY DEF Single
<1>9. Equipped(h, Snapshot(d)) /\ Recalls(FALSE, K, Contents(Snapshot(d)))
  <2> DEFINE e == Combined(h, d.next, read)
  <2>1. \A k \in DOMAIN read : Equipped(h, read[k])
    BY <1>4, <1>6
  <2>2. /\ Equipped(h, e)
        /\ \A k : k \in DOMAIN Contents(e) <=> k \in DOMAIN read /\ k \in DOMAIN Contents(read[k])
        /\ \A k \in DOMAIN Contents(e) : Contents(e)[k] = Contents(read[k])[k]
    BY <2>1, CombinedContents
  <2> HIDE DEF e
  <2>3. \A k \in DOMAIN read : k \in DOMAIN Contents(read[k]) /\ Contents(read[k])[k] = K[k]
    <3> SUFFICES ASSUME NEW k \in DOMAIN read
                 PROVE  k \in DOMAIN Contents(read[k]) /\ Contents(read[k])[k] = K[k]
      OBVIOUS
    <3>1. Contents(read[k]) = Single(k, K[k])
      BY <1>4, <1>6
    <3>2. DOMAIN Single(k, K[k]) = {k} /\ Single(k, K[k])[k] = K[k]
      BY <1>8
    <3> QED BY <3>1, <3>2
  <2>4. DOMAIN Contents(e) = DOMAIN K /\ \A k \in DOMAIN K : Contents(e)[k] = K[k]
    BY <1>2, <1>6, <2>2, <2>3
  <2> QED BY <1>7, <2>2, <2>4 DEF Recalls, e
<1>10. Equipped(h, RewriteCommands(d)) /\ Recalls(TRUE, K, Contents(RewriteCommands(d)))
  <2> DEFINE e == Combined(h, d.next, replayed)
  <2>1. \A k \in DOMAIN replayed : Equipped(h, replayed[k])
    BY <1>5, <1>6
  <2>2. /\ Equipped(h, e)
        /\ \A k : k \in DOMAIN Contents(e) <=> k \in DOMAIN replayed /\ k \in DOMAIN Contents(replayed[k])
        /\ \A k \in DOMAIN Contents(e) : Contents(e)[k] = Contents(replayed[k])[k]
    BY <2>1, CombinedContents
  <2> HIDE DEF e
  <2>3. \A k \in DOMAIN replayed :
          \/ k \in DOMAIN Contents(replayed[k]) /\ Contents(replayed[k])[k] = K[k]
          \/ /\ k \notin DOMAIN Contents(replayed[k])
             /\ K[k].type = "script" /\ K[k].def.entryPoints = << >>
    <3> SUFFICES ASSUME NEW k \in DOMAIN replayed
                 PROVE  \/ k \in DOMAIN Contents(replayed[k]) /\ Contents(replayed[k])[k] = K[k]
                        \/ /\ k \notin DOMAIN Contents(replayed[k])
                           /\ K[k].type = "script" /\ K[k].def.entryPoints = << >>
      OBVIOUS
    <3>1. \/ Contents(replayed[k]) = Single(k, K[k])
          \/ /\ DOMAIN Contents(replayed[k]) = {}
             /\ K[k].type = "script" /\ K[k].def.entryPoints = << >>
      BY <1>5, <1>6
    <3>2. DOMAIN Single(k, K[k]) = {k} /\ Single(k, K[k])[k] = K[k]
      BY <1>8
    <3> QED BY <3>1, <3>2
  <2>4. \A k \in DOMAIN Contents(e) : k \in DOMAIN K /\ Contents(e)[k] = K[k]
    BY <1>2, <1>6, <2>2, <2>3
  <2>5. \A k \in DOMAIN K \ DOMAIN Contents(e) : K[k].type = "script" /\ K[k].def.entryPoints = << >>
    BY <1>2, <1>6, <2>2, <2>3
  <2> QED BY <1>7, <2>2, <2>4, <2>5 DEF Recalls, e
<1>11. CASE preamble
  <2>1. Rewritten(d, preamble) = Snapshot(d)
    BY <1>11 DEF Rewritten
  <2> QED BY <1>9, <2>1, RecallsMore DEF K
<1>12. CASE ~preamble
  <2>1. Rewritten(d, preamble) = RewriteCommands(d)
    BY <1>12 DEF Rewritten
  <2>2. Recalls(~preamble, K, Contents(RewriteCommands(d)))
    BY <1>10, <1>12, RecallsMore
  <2> QED BY <1>9, <1>10, <2>1, <2>2 DEF K
<1> QED BY <1>11, <1>12

-----------------------------------------------------------------------------
(* What the decoders of the versions make of what these versions saved.               *)
LEMMA EarlierModelIs ==
  ASSUME NEW version \in 0 .. 3, NEW def, def = ModelFields(def)
  PROVE  DecodePreviousModel(version, EarlierModel(version, def))
           = IF version < 2 THEN [def EXCEPT !.minbatchtimeout = 0] ELSE def
<1> DEFINE old == [backend |-> def.backend, device |-> def.device, tag |-> def.tag,
                   batchsize |-> def.batchsize, minbatchsize |-> def.minbatchsize,
                   minbatchtimeout |-> 0, inputs |-> def.inputs, outputs |-> def.outputs,
                   size |-> def.size, blob |-> def.blob]
<1>1. [def EXCEPT !.minbatchtimeout = 0] = old
  <2>1. [ModelFields(def) EXCEPT !.minbatchtimeout = 0] = old
    BY DEF ModelFields
  <2> QED BY <2>1
<1> HIDE DEF old
<1>2. CASE version = 0
  <2>1. DecodePreviousModel(version, EarlierModel(version, def)) = old
    BY <1>2 DEF DecodePreviousModel, EarlierModel, LoadModel_v0, old
  <2> QED BY <1>1, <1>2, <2>1
<1>3. CASE version = 1
  <2>1. DecodePreviousModel(version, EarlierModel(version, def)) = old
    BY <1>3 DEF DecodePreviousModel, EarlierModel, LoadModel_v1, old
  <2> QED BY <1>1, <1>3, <2>1
<1>4. CASE version \in {2, 3}
  <2>1. EarlierModel(version, def) = SaveModel(def)
    BY <1>4 DEF EarlierModel
  <2>2. \A io : DecodePreviousModel(version, io) = LoadModel(io)
    BY <1>4 DEF DecodePreviousModel, LoadModel_v2
  <2>3. LoadModel(SaveModel(def)) = ModelFields(def)
    BY DEF LoadModel, SaveModel, ModelFields
  <2> QED BY <1>4, <2>1, <2>2, <2>3
<1> QED BY <1>2, <1>3, <1>4

LEMMA EarlierScriptIs ==
  ASSUME NEW version \in 0 .. 3, NEW def, def = ScriptFields(def)
  PROVE  DecodePreviousScript(version, EarlierScript(version, def))
           = IF version < 3 THEN [def EXCEPT !.entryPoints = << >>] ELSE def
<1> DEFINE old == [device |-> def.device, tag |-> def.tag, blob |-> def.blob, entryPoints |-> << >>]
<1>1. [def EXCEPT !.entryPoints = << >>] = old
  <2>1. [ScriptFields(def) EXCEPT !.entryPoints = << >>] = old
    BY DEF ScriptFields
  <2> QED BY <2>1
<1> HIDE DEF old
<1>2. CASE version < 3
  <2>1. EarlierScript(version, def) = << def.device, def.tag, def.blob >>
    BY <1>2 DEF EarlierScript
  <2>2. \A io : DecodePreviousScript(version, io) = LoadScript_v0(io)
    BY <1>2 DEF DecodePreviousScript, LoadScript_v1, LoadScript_v2
  <2>3. LoadScript_v0(<< def.device, def.tag, def.blob >>) = old
    BY DEF LoadScript_v0, old
  <2> QED BY <1>1, <1>2, <2>1, <2>2, <2>3
<1>3. CASE version = 3
  <2>1. EarlierScript(version, def) = SaveScript(def)
    BY <1>3 DEF EarlierScript
  <2>2. \A io : DecodePreviousScript(version, io) = LoadScript(io)
    BY <1>3 DEF DecodePreviousScript
  <2>3. LoadScript(SaveScript(def)) = ScriptFields(def)
    BY DEF LoadScript, SaveScript, ScriptFields
  <2> QED BY <1>3, <2>1, <2>2, <2>3
<1> QED BY <1>2, <1>3

\* What a version writes down of one object.
RecordedAs(version, o) ==
  LET object == Content(o) IN
  CASE object.type = "model" /\ version < 2 -> [object EXCEPT !.def.minbatchtimeout = 0]
    [] object.type = "script" /\ version < 3 -> [object EXCEPT !.def.entryPoints = << >>]
    [] OTHER -> object

LEMMA RecordedIs ==
  ASSUME NEW version \in 0 .. 3, NEW o
  PROVE  /\ o.type = "model" => RecordedAs(version, o) =
              [type |-> "model",
               def |-> IF version < 2 THEN [o.def EXCEPT !.minbatchtimeout = 0] ELSE o.def]
         /\ o.type = "script" => RecordedAs(version, o) =
              [type |-> "script",
               def |-> IF version < 3 THEN [o.def EXCEPT !.entryPoints = << >>] ELSE o.def]
         /\ o.type = "tensor" => RecordedAs(version, o) = o
<1> DEFINE def == o.def
<1>1. ASSUME o.type = "model"
      PROVE  RecordedAs(version, o) =
               [type |-> "model", def |-> IF version < 2 THEN [def EXCEPT !.minbatchtimeout = 0] ELSE def]
  <2>1. Content(o) = [type |-> "model", def |-> def]
    BY <1>1, ContentIs DEF Kinds
  <2> HIDE DEF def
  <2>2. RecordedAs(version, o) = IF version < 2 THEN [Content(o) EXCEPT !.def.minbatchtimeout = 0] ELSE Content(o)
    BY <1>1, ContentIs DEF RecordedAs
  <2>3. [[type |-> "model", def |-> def] EXCEPT !.def.minbatchtimeout = 0]
          = [type |-> "model", def |-> [def EXCEPT !.minbatchtimeout = 0]]
    OBVIOUS
  <2> QED BY <2>1, <2>2, <2>3
<1>2. ASSUME o.type = "script"
      PROVE  RecordedAs(version, o) =
               [type |-> "script", def |-> IF version < 3 THEN [def EXCEPT !.entryPoints = << >>] ELSE def]
  <2>1. Content(o) = [type |-> "script", def |-> def]
    BY <1>2, ContentIs DEF Kinds
  <2> HIDE DEF def
  <2>2. RecordedAs(version, o) = IF version < 3 THEN [Content(o) EXCEPT !.def.entryPoints = << >>] ELSE Content(o)
    BY <1>2, ContentIs DEF RecordedAs
  <2>3. [[type |-> "script", def |-> def] EXCEPT !.def.entryPoints = << >>]
          = [type |-> "script", def |-> [def EXCEPT !.entryPoints = << >>]]
    OBVIOUS
  <2> QED BY <2>1, <2>2, <2>3
<1>3. ASSUME o.type = "tensor" PROVE RecordedAs(version, o) = o
  BY <1>3, ContentIs DEF RecordedAs, Kinds
<1> QED BY <1>1, <1>2, <1>3

(* It is accepted as the object was.                                                *)
LEMMA RecordedAccepted ==
  ASSUME NEW h, NEW version \in 0 .. 3, NEW o, Accepted(h, o), o.type \in {"model", "script", "tensor"}
  PROVE  RecordedAs(version, o).type = o.type /\ Accepted(h, RecordedAs(version, o))
<1> DEFINE v == RecordedAs(version, o)
           def == o.def
<1>1. CASE o.type = "model"
  <2> DEFINE new == [def EXCEPT !.minbatchtimeout = 0]
  <2>1. v = [type |-> "model", def |-> IF version < 2 THEN new ELSE def]
    BY <1>1, RecordedIs
  <2>2. /\ def = ModelFields(def) /\ ModelArgsValid(def)
        /\ ModelCreate(h, LoadedFor(h, {}, def.backend), def)
    BY <1>1 DEF Accepted
  <2>3. DOMAIN def = {"backend", "device", "tag", "batchsize", "minbatchsize", "minbatchtimeout",
                      "inputs", "outputs", "size", "blob"}
    BY <2>2 DEF ModelFields
  <2> HIDE DEF v, def
  <2>4. /\ new.backend = def.backend /\ new.device = def.device /\ new.tag = def.tag
        /\ new.batchsize = def.batchsize /\ new.minbatchsize = def.minbatchsize
        /\ new.minbatchtimeout = 0 /\ new.inputs = def.inputs
        /\ new.outputs = def.outputs /\ new.size = def.size /\ new.blob = def.blob
    BY <2>3
  <2>5. new = ModelFields(new)
    <3>1. ModelFields(new) = [ModelFields(def) EXCEPT !.minbatchtimeout = 0]
      BY <2>4 DEF ModelFields
    <3> QED BY <2>2, <3>1
  <2> HIDE DEF new
  <2>6. ModelArgsValid(new)
    BY <2>2, <2>4 DEF ModelArgsValid
  <2>7. ModelCreate(h, LoadedFor(h, {}, new.backend), new)
    BY <2>2, <2>4 DEF ModelCreate, CreateTF, CreateTFLite, CreateTorch, CreateORT, CreateJAX,
                      TFLiteLoadModel, DeviceFound
  <2>8. v.type = "model" /\ (v.def = new \/ v.def = def)
    BY <2>1
  <2>9. Accepted(h, v)
    BY <2>2, <2>5, <2>6, <2>7, <2>8 DEF Accepted
  <2> QED BY <1>1, <2>8, <2>9 DEF v
<1>2. CASE o.type = "script"
  <2> DEFINE new == [def EXCEPT !.entryPoints = << >>]
  <2>1. v = [type |-> "script", def |-> IF version < 3 THEN new ELSE def]
    BY <1>2, RecordedIs
  <2>2. def = ScriptFields(def) /\ ScriptCreate(h, LoadedFor(h, {}, "TORCH"), def)
    BY <1>2 DEF Accepted
  <2>3. DOMAIN def = {"device", "tag", "blob", "entryPoints"}
    BY <2>2 DEF ScriptFields
  <2> HIDE DEF v, def
  <2>4. /\ new.device = def.device /\ new.tag = def.tag /\ new.blob = def.blob
        /\ new.entryPoints = << >>
    BY <2>3
  <2>5. new = ScriptFields(new)
    <3>1. ScriptFields(new) = [ScriptFields(def) EXCEPT !.entryPoints = << >>]
      BY <2>4 DEF ScriptFields
    <3> QED BY <2>2, <3>1
  <2> HIDE DEF new
  <2>6. ScriptCreate(h, LoadedFor(h, {}, "TORCH"), new)
    BY <2>2, <2>4 DEF ScriptCreate, DeviceFound
  <2>7. v.type = "script" /\ (v.def = new \/ v.def = def)
    BY <2>1
  <2>8. Accepted(h, v)
    BY <2>2, <2>5, <2>6, <2>7 DEF Accepted
  <2> QED BY <1>2, <2>7, <2>8 DEF v
<1>3. CASE o.type = "tensor"
  BY <1>3, RecordedIs
<1> QED BY <1>1, <1>2, <1>3

LEMMA EarlierOnly ==
  ASSUME NEW h, NEW d, NEW key, NEW version \in 0 .. 3, NEW o, Bare(h, d), Accepted(h, o),
         o.type \in {"model", "script", "tensor"}
  PROVE  LET e == LoadEarlier(d, key, version, o)
         IN  Equipped(h, e) /\ Contents(e) = Single(key, RecordedAs(version, o))
<1> DEFINE e == LoadEarlier(d, key, version, o)
           v == RecordedAs(version, o)
           def == o.def
<1>1. CASE o.type = "model"
  <2> DEFINE b == WithBackend(d, def.backend)
  <2>1. def = ModelFields(def) /\ v = [type |-> "model",
          def |-> IF version < 2 THEN [def EXCEPT !.minbatchtimeout = 0] ELSE def]
    BY <1>1, RecordedIs DEF Accepted
  <2>2. e = StoreModel(b, key, DecodePreviousModel(version, EarlierModel(version, def)))
    BY <1>1 DEF LoadEarlier
  <2> HIDE DEF def, v, e
  <2>3. DecodePreviousModel(version, EarlierModel(version, def)) = v.def
    BY <2>1, EarlierModelIs
  <2>4. Bare(h, b)
    BY BareBackend
  <2> HIDE DEF b
  <2>5. Only(h, key, v, StoreModel(b, key, v.def))
    BY <2>1, <2>4, StoreOnly
  <2>6. Content(v) = v
    BY <2>1 DEF Content
  <2> QED BY <2>2, <2>3, <2>5, <2>6 DEF Only, v, e
<1>2. CASE o.type = "script"
  <2> DEFINE b == WithBackend(d, "TORCH")
  <2>1. def = ScriptFields(def) /\ v = [type |-> "script",
          def |-> IF version < 3 THEN [def EXCEPT !.entryPoints = << >>] ELSE def]
    BY <1>2, RecordedIs DEF Accepted
  <2>2. e = StoreScript(b, key, DecodePreviousScript(version, EarlierScript(version, def)))
    BY <1>2 DEF LoadEarlier
  <2> HIDE DEF def, v, e
  <2>3. DecodePreviousScript(version, EarlierScript(version, def)) = v.def
    BY <2>1, EarlierScriptIs
  <2>4. Bare(h, b)
    BY BareBackend
  <2> HIDE DEF b
  <2>5. Only(h, key, v, StoreScript(b, key, v.def))
    BY <2>1, <2>4, StoreOnly
  <2>6. Content(v) = v
    BY <2>1 DEF Content
  <2> QED BY <2>2, <2>3, <2>5, <2>6 DEF Only, v, e
<1>3. CASE o.type = "tensor"
  <2> DEFINE t == o.data
  <2>1. o = Tensor(t) /\ t = TensorNew(t.dtype, t.dims, t.data) /\ v = o
    BY <1>3, RecordedIs DEF Accepted, IsTensor
  <2> HIDE DEF t
  <2>2. LoadTensor_v0(EarlierTensor(t)) = TensorNew(t.dtype, t.dims, t.data)
    BY DEF LoadTensor_v0, EarlierTensor
  <2>3. e = SetValue(d, key, Tensor(LoadTensor_v0(EarlierTensor(t))))
    BY <1>3 DEF LoadEarlier, t
  <2> HIDE DEF v, e
  <2>4. Only(h, key, o, e)
    BY <2>1, <2>2, <2>3, SetOnly
  <2>5. Content(o) = o
    BY <1>3, ContentIs DEF Kinds
  <2> QED BY <2>1, <2>4, <2>5 DEF Only, v, e
<1> QED BY <1>1, <1>2, <1>3

(* The first shard finds all that the earlier version has written down.                *)
LEMMA FoundKeeps ==
  ASSUME NEW s \in Scenarios
  PROVE  /\ Sound(s.host, Found(s))
         /\ Recalls(FALSE, Recorded(s.older), Contents(Found(s)))
<1> DEFINE h == s.host
           version == s.older.version
           objects == s.older.objects
           parts == [k \in DOMAIN objects |-> LoadEarlier(Part(h, objects[k]), k, version, objects[k])]
           R == Recorded(s.older)
           e == Found(s)
<1>1. /\ version \in 0 .. 3
      /\ \A k \in DOMAIN objects :
           /\ objects[k].type \in {"model", "script", "tensor"} /\ Accepted(h, objects[k])
           /\ objects[k].type \in Kinds => objects[k].id \in Nat
  BY ScenarioAssumption DEF Kinds
<1>2. e = Combined(h, s.older.next, parts)
  BY DEF Found, EarlierSnapshot
<1>3. DOMAIN R = DOMAIN objects /\ \A k \in DOMAIN objects : R[k] = RecordedAs(version, objects[k])
  BY DEF Recorded, RecordedAs
<1> HIDE DEF h, version, objects, R, e
<1>4. ASSUME NEW k \in DOMAIN objects
      PROVE  /\ Equipped(h, parts[k]) /\ Contents(parts[k]) = Single(k, R[k])
             /\ R[k].type \in Types /\ Accepted(h, R[k])
  <2>1. Bare(h, Part(h, objects[k]))
    BY <1>1, PartBare
  <2>2. LET f == LoadEarlier(Part(h, objects[k]), k, version, objects[k])
        IN  Equipped(h, f) /\ Contents(f) = Single(k, RecordedAs(version, objects[k]))
    BY <1>1, <2>1, EarlierOnly
  <2>3. RecordedAs(version, objects[k]).type = objects[k].type /\ Accepted(h, RecordedAs(version, objects[k]))
    BY <1>1, RecordedAccepted
  <2> QED BY <1>1, <1>3, <2>2, <2>3 DEF Types, Kinds
<1>5. DOMAIN parts = DOMAIN objects
  OBVIOUS
<1> HIDE DEF parts
<1>6. \A k \in DOMAIN parts : Equipped(h, parts[k])
  BY <1>4, <1>5
<1>7. /\ Equipped(h, e)
      /\ \A k : k \in DOMAIN Contents(e) <=> k \in DOMAIN parts /\ k \in DOMAIN Contents(parts[k])
      /\ \A k \in DOMAIN Contents(e) : Contents(e)[k] = Contents(parts[k])[k]
  BY <1>2, <1>6, CombinedContents
<1>8. ASSUME NEW k \in DOMAIN parts
      PROVE  k \in DOMAIN Contents(parts[k]) /\ Contents(parts[k])[k] = R[k]
  <2>1. Contents(parts[k]) = Single(k, R[k])
    BY <1>4, <1>5
  <2> QED BY <2>1 DEF Single
<1>9. DOMAIN Contents(e) = DOMAIN R /\ \A k \in DOMAIN R : Contents(e)[k] = R[k]
  BY <1>3, <1>5, <1>7, <1>8
<1>10. Recalls(FALSE, R, Contents(e))
  BY <1>9 DEF Recalls
<1>11. AllAccepted(h, Contents(e))
  BY <1>3, <1>4, <1>9 DEF AllAccepted
<1>12. Good(e)
  BY FoundGood DEF e
<1> QED BY <1>7, <1>10, <1>11, <1>12 DEF Sound, h, e, R

-----------------------------------------------------------------------------
(* An execution ends: its outputs go into keys that are free or hold tensors.             *)
LEMMA CountedLeaves ==
  ASSUME NEW h, NEW d, NEW o, Good(d), Equipped(h, d)
  PROVE  Leaves(d, Counted(d, o))
<1>1. Fixtures \cup {"host", "loaded"} \subseteq DOMAIN d
  BY DEF Good, ShardOK, Equipped
<1>2. CASE o.key \in DOMAIN d.stats /\ d.stats[o.key].id = o.id
  <2>1. Counted(d, o) = [d EXCEPT !.stats[o.key].calls = d.stats[o.key].calls + 1]
    BY <1>2 DEF Counted
  <2> QED BY <1>1, <2>1 DEF Leaves, Fixtures
<1>3. CASE ~(o.key \in DOMAIN d.stats /\ d.stats[o.key].id = o.id)
  BY <1>3 DEF Counted, Leaves
<1> QED BY <1>2, <1>3

LEMMA FinishEffect ==
  ASSUME NEW h, NEW d, NEW who \in DOMAIN d.running, NEW answer, Good(d), Equipped(h, d)
  PROVE  LET end == Finish(d, who, answer)
             e == end.reply.db
         IN  /\ Equipped(h, e) /\ DOMAIN e.keys = DOMAIN d.keys \cup end.stored
             /\ \A k \in DOMAIN d.keys \ end.stored : e.keys[k] = d.keys[k]
             /\ \A k \in end.stored : May(d, k, "tensor") /\ e.keys[k] = Tensor(e.keys[k].data)
<1> DEFINE run == d.running[who]
           o == run.object
           counted == Counted(d, o)
           outs == run.outs
           tensors == answer.outs
           store == StoreOutputs(counted, outs, tensors)
           out == IF answer.ok THEN store ELSE [db |-> counted, stored |-> {}, ok |-> FALSE]
           bare == [out.db EXCEPT !.running = Drop(@, {who})]
           end == Finish(d, who, answer)
           e == end.reply.db
<1>1. e = ModelFree(bare, {o}) /\ end.stored = out.stored
  BY DEF Finish, Ok, Error
<1> DEFINE fit == {i \in DOMAIN outs : \A j \in {i} \cup 1 .. i - 1 : May(counted, outs[j], "tensor")}
           stored == {outs[i] : i \in fit}
           last(k) == CHOOSE i \in fit : outs[i] = k /\ \A j \in fit : outs[j] = k => j <= i
           f == [k \in stored |-> Tensor(tensors[last(k)])]
<1>2. store.db = [counted EXCEPT !.keys = PutAll(@, f)] /\ store.stored = stored
  BY DEF StoreOutputs
<1>3. Leaves(d, counted) /\ Fixtures \cup {"host", "loaded"} \subseteq DOMAIN d
  BY CountedLeaves DEF Good, ShardOK, Equipped
<1>4. \A k \in stored : May(d, k, "tensor")
  BY <1>3 DEF Leaves, May, Has
<1> HIDE DEF last
<1>5. DOMAIN f = stored /\ \A k \in stored : f[k] = Tensor(f[k].data)
  BY DEF Tensor
<1> HIDE DEF end, e, counted, outs, tensors, store, stored, f, o, run
<1>6. /\ DOMAIN store.db = DOMAIN d /\ store.db.host = d.host /\ store.db.loaded = d.loaded
      /\ store.db.keys = PutAll(d.keys, f)
  BY <1>2, <1>3 DEF Leaves, Fixtures
<1>7. /\ DOMAIN store.db.keys = DOMAIN d.keys \cup stored
      /\ \A k \in DOMAIN d.keys \ stored : store.db.keys[k] = d.keys[k]
      /\ \A k \in stored : store.db.keys[k] = f[k]
  BY <1>5, <1>6 DEF PutAll
<1>8. /\ DOMAIN out.db = DOMAIN d /\ out.db.host = d.host /\ out.db.loaded = d.loaded
      /\ DOMAIN out.db.keys = DOMAIN d.keys \cup out.stored
      /\ \A k \in DOMAIN d.keys \ out.stored : out.db.keys[k] = d.keys[k]
      /\ \A k \in out.stored : May(d, k, "tensor") /\ out.db.keys[k] = Tensor(out.db.keys[k].data)
  <2>1. CASE answer.ok
    <3>1. out = store
      BY <2>1
    <3> QED BY <1>2, <1>4, <1>5, <1>6, <1>7, <3>1
  <2>2. CASE ~answer.ok
    <3>1. out.db = counted /\ out.stored = {}
      BY <2>2
    <3> QED BY <1>3, <3>1 DEF Leaves
  <2> QED BY <2>1, <2>2
<1> HIDE DEF out
<1>9. DOMAIN e = DOMAIN d /\ e.host = d.host /\ e.loaded = d.loaded /\ e.keys = out.db.keys
  BY <1>1, <1>3, <1>8 DEF ModelFree, Fixtures
<1>10. Equipped(h, e)
  BY <1>9, SameHost
<1> QED BY <1>1, <1>8, <1>9, <1>10 DEF end, e

\* The same of the contents.
LEMMA FinishStores ==
  ASSUME NEW h, NEW d, NEW who \in DOMAIN d.running, NEW answer, Good(d), Equipped(h, d)
  PROVE  LET end == Finish(d, who, answer)
             e == end.reply.db
             new == [k \in end.stored |-> e.keys[k]]
         IN  /\ Equipped(h, e) /\ Contents(e) = After(Contents(d), {}, new)
             /\ \A k \in end.stored : Free(Contents(d), k, "tensor") /\ e.keys[k] = Tensor(e.keys[k].data)
<1> DEFINE end == Finish(d, who, answer)
           e == end.reply.db
           stored == end.stored
           new == [k \in stored |-> e.keys[k]]
           K == Contents(d)
<1>1. /\ Equipped(h, e) /\ DOMAIN e.keys = DOMAIN d.keys \cup stored
      /\ \A k \in DOMAIN d.keys \ stored : e.keys[k] = d.keys[k]
      /\ \A k \in stored : May(d, k, "tensor") /\ e.keys[k] = Tensor(e.keys[k].data)
  BY FinishEffect
<1>2. /\ DOMAIN K = DOMAIN d.keys /\ \A k \in DOMAIN d.keys : K[k] = Content(d.keys[k])
      /\ \A k, type : May(d, k, type) <=> Free(K, k, type)
  BY ContentsAre
<1> HIDE DEF e, stored, K
<1>3. \A k \in stored : Content(e.keys[k]) = e.keys[k]
  <2>1. \A t : Content(Tensor(t)) = Tensor(t)
    BY DEF Content, Tensor
  <2> QED BY <1>1, <2>1
<1>4. Contents(e) = [k \in DOMAIN d.keys \cup stored |-> IF k \in stored THEN e.keys[k] ELSE K[k]]
  BY <1>1, <1>2, <1>3 DEF Contents
<1>5. After(K, {}, new) = [k \in DOMAIN d.keys \cup stored |-> IF k \in stored THEN e.keys[k] ELSE K[k]]
  BY <1>2 DEF After
<1> QED BY <1>1, <1>2, <1>4, <1>5 DEF e, stored, K

(* What the append-only file gets are the same tensors, if AI.TENSORSET accepts them.     *)
LEMMA OutputsFiled ==
  ASSUME NEW h, NEW d, NEW outs, NEW from, Good(d), Equipped(h, d),
         \A k \in outs : /\ Free(Contents(d), k, "tensor")
                         /\ from.keys[k] = Tensor(from.keys[k].data) /\ IsTensor(from.keys[k].data)
  PROVE  LET e == OutputsStored(d, outs, from)
             new == [k \in outs |-> from.keys[k]]
         IN  Equipped(h, e) /\ Contents(e) = After(Contents(d), {}, new)
<1> DEFINE set(k) == TensorSet(d, k, from.keys[k].data)
           f == [k \in {j \in outs : set(j).ok} |-> set(k).db.keys[k]]
           e == OutputsStored(d, outs, from)
           new == [k \in outs |-> from.keys[k]]
           K == Contents(d)
<1>1. e = [d EXCEPT !.keys = PutAll(@, f)]
  BY DEF OutputsStored
<1>2. ASSUME NEW k \in outs PROVE set(k).ok = TRUE /\ set(k).db.keys[k] = from.keys[k]
  <2> DEFINE t == from.keys[k].data
  <2>1. May(d, k, "tensor")
    BY ContentsAre
  <2>2. from.keys[k] = Tensor(t) /\ IsTensor(t)
    OBVIOUS
  <2> HIDE DEF t
  <2>3. ParseTensorSetArgs(t) /\ t = TensorNew(t.dtype, t.dims, t.data)
    BY <2>2 DEF IsTensor
  <2>4. TensorSet(d, k, t) = Ok(SetValue(d, k, Tensor(t)), Nothing)
    <3>1. TensorSet(d, k, t) = Ok(SetValue(d, k, Tensor(TensorNew(t.dtype, t.dims, t.data))), Nothing)
      BY <2>1, <2>3 DEF TensorSet
    <3> QED BY <2>3, <3>1
  <2> DEFINE bare == DeleteAll(d, {k})
  <2>5. Good(bare)
    BY DeleteKeeps
  <2>6. SetValue(d, k, Tensor(t)) = [bare EXCEPT !.keys = Put(bare.keys, k, Tensor(t))]
    BY DEF SetValue, DeleteKey
  <2> HIDE DEF bare
  <2>7. SetValue(d, k, Tensor(t)).keys[k] = Tensor(t)
    BY <2>5, <2>6 DEF Good, ShardOK, Fixtures, Put
  <2>8. set(k) = TensorSet(d, k, t)
    BY DEF t
  <2> HIDE DEF set
  <2> QED BY <2>2, <2>4, <2>7, <2>8 DEF Ok
<1> HIDE DEF set
<1>3. DOMAIN f = outs /\ \A k \in outs : f[k] = from.keys[k]
  BY <1>2
<1> HIDE DEF f, e
<1>4. DOMAIN e = DOMAIN d /\ e.host = d.host /\ e.loaded = d.loaded /\ e.keys = PutAll(d.keys, f)
  BY <1>1 DEF Equipped, Good, ShardOK, Fixtures
<1>5. Equipped(h, e)
  BY <1>4, SameHost
<1>6. DOMAIN K = DOMAIN d.keys /\ \A k \in DOMAIN d.keys : K[k] = Content(d.keys[k])
  BY ContentsAre
<1>7. \A k \in outs : Content(from.keys[k]) = from.keys[k]
  <2>1. \A t : Content(Tensor(t)) = Tensor(t)
    BY DEF Content, Tensor
  <2> QED BY <2>1
<1>8. /\ DOMAIN e.keys = DOMAIN d.keys \cup outs
      /\ \A k \in DOMAIN d.keys \ outs : e.keys[k] = d.keys[k]
      /\ \A k \in outs : e.keys[k] = from.keys[k]
  BY <1>3, <1>4 DEF PutAll
<1> HIDE DEF K
<1>9. Contents(e) = [k \in DOMAIN d.keys \cup outs |-> IF k \in outs THEN from.keys[k] ELSE K[k]]
  BY <1>6, <1>7, <1>8 DEF Contents
<1>10. After(K, {}, new) = [k \in DOMAIN d.keys \cup outs |-> IF k \in outs THEN from.keys[k] ELSE K[k]]
  BY <1>6 DEF After
<1> QED BY <1>5, <1>9, <1>10 DEF e, K

(* One shard: what is in it and on its disk is accepted by its host, and what it ought   *)
(* to find there is there.  With the append-only file, while it is up, it has what it     *)
(* ought to find, and the file has what it has.                                        *)
Keeping(h, aof, lossy, isUp, d, found, K) ==
  /\ Equipped(h, d) /\ AllAccepted(h, Contents(d))
  /\ Equipped(h, found) /\ AllAccepted(h, Contents(found))
  /\ Recalls(lossy, K, Contents(found))
  /\ aof /\ isUp => Recalls(lossy, K, Contents(d)) /\ Recalls(lossy, Contents(d), Contents(found))

LEMMA KeepingMore ==
  ASSUME NEW h, NEW aof, NEW lossy, NEW more, NEW isUp, NEW d, NEW found, NEW K,
         Keeping(h, aof, lossy, isUp, d, found, K), lossy => more
  PROVE  Keeping(h, aof, more, isUp, d, found, K)
<1>1. ASSUME NEW L, NEW F, Recalls(lossy, L, F) PROVE Recalls(more, L, F)
  BY <1>1, RecallsMore
<1> QED BY <1>1 DEF Keeping

\* The contents do not change.
LEMMA LeavesKeeping ==
  ASSUME NEW h, NEW aof, NEW lossy, NEW isUp, NEW d, NEW e, NEW found, NEW K,
         Keeping(h, aof, lossy, isUp, d, found, K), Leaves(d, e)
  PROVE  Keeping(h, aof, lossy, isUp, e, found, K)
<1>1. Contents(e) = Contents(d) /\ Equipped(h, e)
  BY LeavesContents DEF Keeping
<1> QED BY <1>1 DEF Keeping

(* A command, and what of it goes to disk.                                          *)
NoObjectRenamed(d, cmd) == cmd.op = "RENAME" => cmd.key \notin ObjectKeys(d)
WrittenAs(aof, d, who, cmd, found, K, new, keep) ==
  /\ new = IF aof /\ Perform(d, who, cmd).ok THEN Replayed(found, cmd) ELSE found
  /\ keep = IF aof THEN Contents(Perform(d, who, cmd).db) ELSE K

LEMMA WriteFiled ==
  ASSUME NEW h, NEW aof, NEW lossy, NEW isUp, NEW d, NEW found, NEW K, NEW who, NEW cmd,
         Good(d), Good(found), isUp, Keeping(h, aof, lossy, isUp, d, found, K), cmd.op \in Writes,
         NEW new, NEW keep, NoObjectRenamed(d, cmd), WrittenAs(aof, d, who, cmd, found, K, new, keep)
  PROVE  Keeping(h, aof, lossy, isUp, Perform(d, who, cmd).db, new, keep)
<1> DEFINE r == Perform(d, who, cmd)
           p == Replayed(found, cmd)
           N == Contents(d)
           F == Contents(found)
<1>1. /\ Equipped(h, d) /\ AllAccepted(h, N) /\ Equipped(h, found) /\ AllAccepted(h, F)
      /\ Recalls(lossy, K, F)
      /\ aof => Recalls(lossy, N, F)
  BY DEF Keeping
<1>2. Does(h, d, cmd, r)
  BY <1>1, WritesDo
<1>3. cmd.op = "RENAME" => ~In(N, cmd.key, "script")
  <2>1. Is(d, cmd.key, "script") <=> In(N, cmd.key, "script")
    BY ContentsAre
  <2> QED BY <2>1 DEF Is, Has, ObjectKeys, NoObjectRenamed
<1>4. Does(h, found, cmd, Perform(found, "loading", cmd)) /\ p = Perform(found, "loading", cmd).db
  BY <1>1, WritesDo DEF Replayed
<1>5. Equipped(h, p) /\ Contents(p) = IF Allowed(h, F, cmd) THEN Afterwards(F, cmd) ELSE F
  BY <1>4 DEF Does
<1>0. /\ new = IF aof /\ r.ok THEN p ELSE found
      /\ keep = IF aof THEN Contents(r.db) ELSE K
  BY DEF WrittenAs
<1> HIDE DEF r, p, N, F
<1>6. \A L : Recalls(lossy, L, L)
  BY RecallsItself
<1>7. CASE Allowed(h, N, cmd)
  <2>1. Equipped(h, r.db) /\ r.ok = TRUE /\ Contents(r.db) = Afterwards(N, cmd)
    BY <1>2, <1>7 DEF Does, N
  <2>2. AllAccepted(h, Afterwards(N, cmd))
    BY <1>1, <1>7, DoneAccepted
  <2>3. CASE aof
    <3>1. Recalls(lossy, Afterwards(N, cmd), IF Allowed(h, F, cmd) THEN Afterwards(F, cmd) ELSE F)
      BY <1>1, <1>3, <1>7, <2>3, ReplayRecalls
    <3>2. Recalls(lossy, Afterwards(N, cmd), Contents(p))
      BY <1>5, <3>1
    <3>3. AllAccepted(h, Contents(p))
      BY <2>2, <3>2, RecallsAccepted
    <3>4. Keeping(h, aof, lossy, isUp, r.db, p, Contents(r.db))
      BY <1>5, <1>6, <2>1, <2>2, <3>2, <3>3 DEF Keeping
    <3> QED BY <1>0, <2>1, <2>3, <3>4 DEF r, p
  <2>4. CASE ~aof
    <3>1. Keeping(h, aof, lossy, isUp, r.db, found, K)
      BY <1>1, <2>1, <2>2, <2>4 DEF Keeping, F
    <3> QED BY <1>0, <2>4, <3>1 DEF r
  <2> QED BY <2>3, <2>4
<1>8. CASE ~Allowed(h, N, cmd)
  <2>1. Equipped(h, r.db) /\ r.ok = FALSE /\ Contents(r.db) = N
    BY <1>2, <1>8 DEF Does, N
  <2>2. CASE aof
    <3>1. Keeping(h, aof, lossy, isUp, r.db, found, Contents(r.db))
      BY <1>1, <1>6, <2>1, <2>2 DEF Keeping, F
    <3> QED BY <1>0, <2>1, <2>2, <3>1 DEF r
  <2>3. CASE ~aof
    <3>1. Keeping(h, aof, lossy, isUp, r.db, found, K)
      BY <1>1, <2>1, <2>3 DEF Keeping, F
    <3> QED BY <1>0, <2>3, <3>1 DEF r
  <2> QED BY <2>2, <2>3
<1> QED BY <1>7, <1>8

LEMMA OtherFiled ==
  ASSUME NEW h, NEW aof, NEW lossy, NEW isUp, NEW d, NEW found, NEW K, NEW who, NEW cmd,
         Good(d), isUp, Keeping(h, aof, lossy, isUp, d, found, K), cmd.op \notin Writes
  PROVE  LET r == Perform(d, who, cmd)
         IN  Keeping(h, aof, lossy, isUp, r.db, IF ~aof /\ cmd.op = "SAVE" THEN Snapshot(d) ELSE found,
                     IF aof \/ cmd.op = "SAVE" THEN Contents(r.db) ELSE K)
<1> DEFINE r == Perform(d, who, cmd)
           e == r.db
           N == Contents(d)
           snap == Snapshot(d)
<1>1. Equipped(h, d) /\ AllAccepted(h, N) /\ (aof => Recalls(lossy, N, Contents(found)))
  BY DEF Keeping
<1>2. Leaves(d, e)
  BY <1>1, OthersLeave
<1>3. Contents(e) = N /\ Keeping(h, aof, lossy, isUp, e, found, K)
  BY <1>2, LeavesContents, LeavesKeeping
<1>4. Recalls(lossy, N, N)
  BY RecallsItself
<1>5. CASE aof
  <2> HIDE DEF e, N
  <2>1. Keeping(h, aof, lossy, isUp, e, found, N)
    BY <1>1, <1>3, <1>4, <1>5 DEF Keeping
  <2> QED BY <1>3, <1>5, <2>1 DEF e
<1>6. CASE ~aof /\ cmd.op = "SAVE"
  <2>1. Sound(h, d)
    BY <1>1 DEF Sound
  <2>2. Equipped(h, snap) /\ Recalls(FALSE, N, Contents(snap))
    BY <2>1, ImagesKeep
  <2> HIDE DEF e, N, snap
  <2>3. Recalls(lossy, N, Contents(snap)) /\ AllAccepted(h, Contents(snap))
    BY <1>1, <2>2, RecallsMore, RecallsAccepted
  <2>4. Keeping(h, aof, lossy, isUp, e, snap, N)
    BY <1>3, <1>6, <2>2, <2>3 DEF Keeping
  <2> QED BY <1>3, <1>6, <2>4 DEF e, snap
<1>7. CASE ~aof /\ cmd.op # "SAVE"
  BY <1>3, <1>7
<1> QED BY <1>5, <1>6, <1>7

(* An execution ends, and the file gets an AI.TENSORSET for each output.                *)
LEMMA OutputsKept ==
  ASSUME NEW h, NEW aof, NEW lossy, NEW isUp, NEW d, NEW found, NEW K, NEW who \in DOMAIN d.running,
         NEW answer, Good(d), Good(found), isUp, Keeping(h, aof, lossy, isUp, d, found, K),
         LET end == Finish(d, who, answer)
         IN  \A k \in end.stored : IsTensor(end.reply.db.keys[k].data)
  PROVE  LET end == Finish(d, who, answer)
             e == end.reply.db
         IN  Keeping(h, aof, lossy, isUp, e, IF aof THEN OutputsStored(found, end.stored, e) ELSE found,
                     IF aof THEN Contents(e) ELSE K)
<1> DEFINE end == Finish(d, who, answer)
           e == end.reply.db
           stored == end.stored
           new == [k \in stored |-> e.keys[k]]
           p == OutputsStored(found, stored, e)
           N == Contents(d)
           F == Contents(found)
<1>1. /\ Equipped(h, d) /\ AllAccepted(h, N) /\ Equipped(h, found) /\ AllAccepted(h, F)
      /\ Recalls(lossy, K, F)
      /\ aof => Recalls(lossy, N, F)
  BY DEF Keeping
<1>2. /\ Equipped(h, e) /\ Contents(e) = After(N, {}, new)
      /\ \A k \in stored : Free(N, k, "tensor") /\ e.keys[k] = Tensor(e.keys[k].data)
  BY <1>1, FinishStores
<1>3. \A k \in stored : IsTensor(e.keys[k].data)
  OBVIOUS
<1> HIDE DEF e, stored, N, F
<1>4. AllAccepted(h, new)
  <2>1. \A t : IsTensor(t) => Tensor(t).type \in Types /\ Accepted(h, Tensor(t))
    <3> SUFFICES ASSUME NEW t, IsTensor(t) PROVE Tensor(t).type \in Types /\ Accepted(h, Tensor(t))
      OBVIOUS
    <3>1. Tensor(t).type = "tensor" /\ Tensor(t).data = t
      BY DEF Tensor
    <3> QED BY <3>1 DEF Accepted, Types
  <2>2. \A k \in stored : e.keys[k].type \in Types /\ Accepted(h, e.keys[k])
    BY <1>2, <1>3, <2>1
  <2> QED BY <2>2 DEF AllAccepted
<1>5. AllAccepted(h, Contents(e))
  BY <1>1, <1>2, <1>4, AcceptedAfter
<1>6. CASE aof
  <2>1. Recalls(lossy, N, F)
    BY <1>1, <1>6
  <2>2. \A k \in stored : Free(F, k, "tensor")
    BY <1>2, <2>1 DEF Free, Recalls
  <2>3. Equipped(h, p) /\ Contents(p) = After(F, {}, new)
    BY <1>1, <1>2, <1>3, <2>2, OutputsFiled DEF F
  <2> HIDE DEF p, new
  <2>4. Recalls(lossy, Contents(e), Contents(p))
    BY <1>2, <2>1, <2>3, RecallsAfter
  <2>5. AllAccepted(h, Contents(p)) /\ Recalls(lossy, Contents(e), Contents(e))
    BY <1>5, <2>4, RecallsAccepted, RecallsItself
  <2>6. Keeping(h, aof, lossy, isUp, e, p, Contents(e))
    BY <1>2, <1>5, <2>3, <2>4, <2>5 DEF Keeping
  <2> QED BY <1>6, <2>6 DEF e, stored, p
<1>7. CASE ~aof
  <2>1. Keeping(h, aof, lossy, isUp, e, found, K)
    BY <1>1, <1>2, <1>5, <1>7 DEF Keeping, F
  <2> QED BY <1>7, <2>1 DEF e
<1> QED BY <1>6, <1>7

(* Two executions are answered together.                                             *)
LEMMA RunTwoLeaves ==
  ASSUME NEW h, NEW d, NEW a, NEW b, Good(d), Equipped(h, d)
  PROVE  Leaves(d, RunTwo(d, a, b))
<1>1. Fixtures \cup {"host", "loaded"} \subseteq DOMAIN d
  BY DEF Good, ShardOK, Equipped
<1> QED BY <1>1 DEF RunTwo, Leaves, Fixtures

(* A shard ends and starts, and its file is rewritten.                                 *)
LEMMA EndsKept ==
  ASSUME NEW h, NEW aof, NEW lossy, NEW isUp, NEW d, NEW found, NEW K,
         Keeping(h, aof, lossy, isUp, d, found, K)
  PROVE  /\ Keeping(h, aof, lossy, FALSE, EmptyShard(h), found, K)
         /\ Keeping(h, aof, lossy, TRUE, found, found, K)
<1>1. Equipped(h, EmptyShard(h)) /\ AllAccepted(h, Contents(EmptyShard(h)))
  BY EmptyBare DEF Bare, AllAccepted
<1>2. Recalls(lossy, Contents(found), Contents(found))
  BY RecallsItself
<1> QED BY <1>1, <1>2 DEF Keeping

LEMMA RewriteKept ==
  ASSUME NEW h, NEW aof, NEW lossy, NEW isUp, NEW d, NEW found, NEW K, NEW preamble,
         Good(d), isUp, aof, Keeping(h, aof, lossy, isUp, d, found, K), ~preamble => lossy
  PROVE  Keeping(h, aof, lossy, isUp, d, Rewritten(d, preamble), K)
<1> DEFINE N == Contents(d)
           new == Rewritten(d, preamble)
<1>1. Equipped(h, d) /\ AllAccepted(h, N) /\ Recalls(lossy, K, N)
  BY DEF Keeping
<1>2. Sound(h, d)
  BY <1>1 DEF Sound
<1>3. Equipped(h, new) /\ Recalls(~preamble, N, Contents(new))
  BY <1>2, ImagesKeep
<1> HIDE DEF N, new
<1>4. Recalls(lossy, N, Contents(new))
  BY <1>3, RecallsMore
<1>5. Recalls(lossy, K, Contents(new)) /\ AllAccepted(h, Contents(new))
  BY <1>1, <1>4, RecallsChain, RecallsAccepted
<1> QED BY <1>1, <1>3, <1>4, <1>5 DEF Keeping, N, new

-----------------------------------------------------------------------------
\* Scripts may be missing once a file was rewritten as commands.
Lossy(n, preamble) == n > 0 /\ ~preamble
KeptInv ==
  /\ rewrites \in Nat
  /\ DOMAIN db = ShardSet /\ DOMAIN image = ShardSet /\ DOMAIN up = ShardSet /\ DOMAIN kept = ShardSet
  /\ \A s \in ShardSet : Keeping(scenario.host, scenario.aof, Lossy(rewrites, scenario.preamble),
                                 up[s], db[s], image[s], kept[s])

LEMMA InitKept ==
  ASSUME Init
  PROVE  KeptInv
<1> DEFINE h == scenario.host
           first == Found(scenario)
           empty == EmptyShard(h)
           R == Recorded(scenario.older)
<1>1. /\ scenario \in Scenarios /\ db = image /\ rewrites = 0
      /\ image = [s \in ShardSet |-> IF s = Order[1] THEN first ELSE empty]
      /\ up = [s \in ShardSet |-> TRUE]
      /\ kept = [s \in ShardSet |-> IF s = Order[1] THEN R ELSE << >>]
  BY DEF Init
<1>2. Sound(h, first) /\ Recalls(FALSE, R, Contents(first))
  BY <1>1, FoundKeeps
<1>3. Bare(h, empty)
  BY EmptyBare
<1> DEFINE aof == scenario.aof
           lossy == Lossy(0, scenario.preamble)
<1> HIDE DEF h, first, empty, R, aof, lossy
<1>4. Keeping(h, aof, lossy, TRUE, first, first, R)
  <2>1. Recalls(lossy, R, Contents(first)) /\ Recalls(lossy, Contents(first), Contents(first))
    BY <1>2, RecallsMore, RecallsItself
  <2> QED BY <1>2, <2>1 DEF Keeping, Sound
<1>5. Keeping(h, aof, lossy, TRUE, empty, empty, << >>)
  <2>1. DOMAIN << >> = {}
    OBVIOUS
  <2>2. Recalls(lossy, << >>, Contents(empty)) /\ Recalls(lossy, Contents(empty), Contents(empty))
    BY <1>3, <2>1 DEF Bare, Recalls
  <2> QED BY <1>3, <2>2 DEF Keeping, Bare, AllAccepted
<1>6. \A s \in ShardSet : Keeping(h, aof, lossy, up[s], db[s], image[s], kept[s])
  BY <1>1, <1>4, <1>5
<1> QED BY <1>1, <1>6 DEF KeptInv, h, aof, lossy

(* One shard changes.                                                             *)
LEMMA OneKept ==
  ASSUME KeptInv, NEW s, scenario' = scenario, rewrites' \in Nat, rewrites' >= rewrites,
         DOMAIN db' = ShardSet, DOMAIN image' = ShardSet, DOMAIN up' = ShardSet, DOMAIN kept' = ShardSet,
         \A t \in ShardSet \ {s} : /\ db'[t] = db[t] /\ image'[t] = image[t]
                                   /\ up'[t] = up[t] /\ kept'[t] = kept[t],
         s \in ShardSet =>
           Keeping(scenario.host, scenario.aof, Lossy(rewrites', scenario.preamble),
                   up'[s], db'[s], image'[s], kept'[s])
  PROVE  KeptInv'
<1> DEFINE h == scenario.host
           aof == scenario.aof
           lossy == Lossy(rewrites, scenario.preamble)
           more == Lossy(rewrites', scenario.preamble)
<1>1. lossy => more
  BY DEF KeptInv, Lossy
<1>2. \A t \in ShardSet : Keeping(h, aof, lossy, up[t], db[t], image[t], kept[t])
  BY DEF KeptInv
<1> HIDE DEF lossy, more
<1>3. ASSUME NEW t \in ShardSet PROVE Keeping(h, aof, more, up'[t], db'[t], image'[t], kept'[t])
  <2>1. CASE t = s
    BY <2>1 DEF more
  <2>2. CASE t # s
    <3>1. Keeping(h, aof, more, up[t], db[t], image[t], kept[t])
      BY <1>1, <1>2, KeepingMore
    <3> QED BY <2>2, <3>1
  <2> QED BY <2>1, <2>2
<1> QED BY <1>3 DEF KeptInv, more

LEMMA SameKept ==
  ASSUME KeptInv, UNCHANGED <<scenario, db, up, image, rewrites, kept>>
  PROVE  KeptInv'
BY DEF KeptInv

(* A command is carried out, and its reply arrives or is lost.                          *)
LEMMA CarriedKept ==
  ASSUME KeptInv, ShardsInv, RenamesNoObject, NEW c \in Clients, NEW i \in Places(c),
         up[Commands(client[c])[i].at],
         LET cmd == Commands(client[c])[i]
         IN  Carried(cmd.at, cmd, Perform(db[cmd.at], c, cmd)),
         UNCHANGED <<scenario, up, rewrites>>
  PROVE  KeptInv'
<1> DEFINE cmd == Commands(client[c])[i]
           s == cmd.at
           r == Perform(db[s], c, cmd)
           stored == Stored(s, cmd, r)
           keeps == Keeps(s, cmd, r.db)
           h == scenario.host
           aof == scenario.aof
           lossy == Lossy(rewrites, scenario.preamble)
<1>1. /\ db' = [db EXCEPT ![s] = r.db] /\ image' = [image EXCEPT ![s] = stored]
      /\ kept' = [kept EXCEPT ![s] = keeps]
  BY DEF Carried
<1>2. ASSUME s \in ShardSet
      PROVE  Keeping(h, aof, lossy, up[s], r.db, stored, keeps)
  <2>1. Good(db[s]) /\ Good(image[s])
    BY <1>2 DEF ShardsInv
  <2>2. Keeping(h, aof, lossy, up[s], db[s], image[s], kept[s])
    BY <1>2 DEF KeptInv
  <2>3. cmd.op = "RENAME" => cmd.key \notin ObjectKeys(db[s])
    BY DEF RenamesNoObject
  <2>4. up[s]
    OBVIOUS
  <2>5. CASE cmd.op \in Writes
    <3>1. cmd.op # "SAVE"
      BY <2>5 DEF Writes
    <3>2. /\ stored = IF aof /\ r.ok THEN Replayed(image[s], cmd) ELSE image[s]
          /\ keeps = IF aof THEN Contents(r.db) ELSE kept[s]
      BY <2>5, <3>1 DEF Stored, Keeps
    <3>3. WrittenAs(aof, db[s], c, cmd, image[s], kept[s], stored, keeps)
      BY <3>2 DEF WrittenAs
    <3>4. NoObjectRenamed(db[s], cmd)
      BY <2>3 DEF NoObjectRenamed
    <3> HIDE DEF stored, keeps, cmd, lossy
    <3> QED BY <2>1, <2>2, <2>4, <2>5, <3>3, <3>4, WriteFiled
  <2>6. CASE cmd.op \notin Writes
    <3>1. /\ stored = IF ~aof /\ cmd.op = "SAVE" THEN Snapshot(db[s]) ELSE image[s]
          /\ keeps = IF aof \/ cmd.op = "SAVE" THEN Contents(r.db) ELSE kept[s]
      BY <2>6 DEF Stored, Keeps
    <3> HIDE DEF stored, keeps, cmd, lossy
    <3> QED BY <2>1, <2>2, <2>4, <2>6, <3>1, OtherFiled
  <2> QED BY <2>5, <2>6
<1>3. /\ DOMAIN db = ShardSet /\ DOMAIN image = ShardSet /\ DOMAIN up = ShardSet /\ DOMAIN kept = ShardSet
      /\ rewrites \in Nat
  BY DEF KeptInv
<1> DEFINE d == r.db
<1> HIDE DEF s, d, stored, keeps
<1>4. /\ DOMAIN db' = ShardSet /\ DOMAIN image' = ShardSet /\ DOMAIN up' = ShardSet /\ DOMAIN kept' = ShardSet
      /\ \A t \in ShardSet \ {s} : /\ db'[t] = db[t] /\ image'[t] = image[t]
                                   /\ up'[t] = up[t] /\ kept'[t] = kept[t]
      /\ s \in ShardSet => db'[s] = d /\ image'[s] = stored /\ up'[s] = up[s] /\ kept'[s] = keeps
  BY <1>1, <1>3 DEF d
<1>5. s \in ShardSet =>
        Keeping(h, aof, Lossy(rewrites', scenario.preamble), up'[s], db'[s], image'[s], kept'[s])
  BY <1>2, <1>4 DEF d
<1>6. rewrites' \in Nat /\ rewrites' >= rewrites
  BY <1>3
<1> QED BY <1>4, <1>5, <1>6, OneKept

(* A shard starts a run, or answers two together.                                       *)
LEMMA LeftKept ==
  ASSUME KeptInv, NEW s, NEW d, db' = [db EXCEPT ![s] = d], UNCHANGED <<scenario, up, image, rewrites, kept>>,
         s \in ShardSet => Leaves(db[s], d)
  PROVE  KeptInv'
<1> DEFINE h == scenario.host
           aof == scenario.aof
           lossy == Lossy(rewrites, scenario.preamble)
<1>1. /\ DOMAIN db = ShardSet /\ DOMAIN image = ShardSet /\ DOMAIN up = ShardSet /\ DOMAIN kept = ShardSet
      /\ rewrites \in Nat
      /\ \A t \in ShardSet : Keeping(h, aof, lossy, up[t], db[t], image[t], kept[t])
  BY DEF KeptInv
<1> HIDE DEF lossy
<1>2. s \in ShardSet => Keeping(h, aof, lossy, up[s], d, image[s], kept[s])
  BY <1>1, LeavesKeeping
<1>3. /\ DOMAIN db' = ShardSet /\ DOMAIN image' = ShardSet /\ DOMAIN up' = ShardSet /\ DOMAIN kept' = ShardSet
      /\ \A t \in ShardSet \ {s} : /\ db'[t] = db[t] /\ image'[t] = image[t]
                                   /\ up'[t] = up[t] /\ kept'[t] = kept[t]
      /\ s \in ShardSet => db'[s] = d /\ image'[s] = image[s] /\ up'[s] = up[s] /\ kept'[s] = kept[s]
  BY <1>1
<1>4. s \in ShardSet =>
        Keeping(h, aof, Lossy(rewrites', scenario.preamble), up'[s], db'[s], image'[s], kept'[s])
  BY <1>2, <1>3 DEF lossy
<1>5. rewrites' \in Nat /\ rewrites' >= rewrites
  BY <1>1
<1> QED BY <1>3, <1>4, <1>5, OneKept

LEMMA StartKept ==
  ASSUME KeptInv, ShardsInv, NEW c \in Clients, StartRun(c)
  PROVE  KeptInv'
<1>1. PICK i \in Places(c) :
        LET cmd == Commands(client[c])[i]
        IN  /\ IsRun(cmd)
            /\ db' = [db EXCEPT ![cmd.at] = Perform(db[cmd.at], c, cmd).db]
  BY DEF StartRun
<1> DEFINE cmd == Commands(client[c])[i]
           s == cmd.at
           d == Perform(db[s], c, cmd).db
<1>2. UNCHANGED <<scenario, up, image, rewrites, kept>>
  BY DEF StartRun, faults
<1>3. cmd.op \notin Writes
  BY <1>1 DEF IsRun, Writes
<1>4. ASSUME s \in ShardSet PROVE Leaves(db[s], d)
  <2>1. Good(db[s]) /\ Equipped(scenario.host, db[s])
    BY <1>4 DEF ShardsInv, KeptInv, Keeping
  <2> QED BY <1>3, <2>1, OthersLeave
<1>5. db' = [db EXCEPT ![s] = d]
  BY <1>1
<1> HIDE DEF s, d
<1> QED BY <1>2, <1>4, <1>5, LeftKept

LEMMA TogetherKept ==
  ASSUME KeptInv, ShardsInv, NEW s \in ShardSet, RunTogether(s)
  PROVE  KeptInv'
<1>1. PICK a, b \in {c \in DOMAIN db[s].running : ~Asked(jax[s], c)} : db' = [db EXCEPT ![s] = RunTwo(@, a, b)]
  BY DEF RunTogether
<1>2. UNCHANGED <<scenario, up, image, rewrites, kept>>
  BY DEF RunTogether, faults
<1>3. Leaves(db[s], RunTwo(db[s], a, b))
  <2>1. Good(db[s]) /\ Equipped(scenario.host, db[s])
    BY DEF ShardsInv, KeptInv, Keeping
  <2> QED BY <2>1, RunTwoLeaves
<1> QED BY <1>1, <1>2, <1>3, LeftKept

(* A run ends, and what it stored goes to the append-only file.                           *)
LEMMA FinishKept ==
  ASSUME KeptInv, ShardsInv, OutputsAreTensors, NEW c \in Clients, NEW s \in ShardSet, FinishRun(c, s)
  PROVE  KeptInv'
<1> DEFINE answer == Outcome(c, s)
           end == Finish(db[s], c, answer)
           e == end.reply.db
           found == IF scenario.aof THEN OutputsStored(image[s], end.stored, e) ELSE image[s]
           keeps == IF scenario.aof THEN Contents(e) ELSE kept[s]
           h == scenario.host
           aof == scenario.aof
           lossy == Lossy(rewrites, scenario.preamble)
<1>1. /\ db' = [db EXCEPT ![s] = e] /\ image' = [image EXCEPT ![s] = found]
      /\ kept' = [kept EXCEPT ![s] = keeps] /\ UNCHANGED <<scenario, up, rewrites>>
      /\ HasRun(c, s) /\ c \in DOMAIN db[s].running
  BY DEF FinishRun, HasRun, faults
<1>2. up[s]
  BY DEF FinishRun
<1>3. \A k \in end.stored : IsTensor(end.reply.db.keys[k].data)
  BY <1>1 DEF OutputsAreTensors
<1>4. Good(db[s]) /\ Good(image[s])
  BY DEF ShardsInv
<1>5. /\ DOMAIN db = ShardSet /\ DOMAIN image = ShardSet /\ DOMAIN up = ShardSet /\ DOMAIN kept = ShardSet
      /\ rewrites \in Nat
      /\ Keeping(h, aof, lossy, up[s], db[s], image[s], kept[s])
  BY DEF KeptInv
<1> HIDE DEF lossy, answer
<1>6. Keeping(h, aof, lossy, up[s], e, found, keeps)
  BY <1>1, <1>2, <1>3, <1>4, <1>5, OutputsKept
<1> HIDE DEF e, found, keeps
<1>7. /\ DOMAIN db' = ShardSet /\ DOMAIN image' = ShardSet /\ DOMAIN up' = ShardSet /\ DOMAIN kept' = ShardSet
      /\ \A t \in ShardSet \ {s} : /\ db'[t] = db[t] /\ image'[t] = image[t]
                                   /\ up'[t] = up[t] /\ kept'[t] = kept[t]
      /\ db'[s] = e /\ image'[s] = found /\ up'[s] = up[s] /\ kept'[s] = keeps
  BY <1>1, <1>5
<1>8. Keeping(h, aof, Lossy(rewrites', scenario.preamble), up'[s], db'[s], image'[s], kept'[s])
  BY <1>1, <1>6, <1>7 DEF lossy
<1>9. rewrites' \in Nat /\ rewrites' >= rewrites
  BY <1>1, <1>5
<1> QED BY <1>1, <1>7, <1>8, <1>9, OneKept

(* A shard ends and starts, and its file is rewritten.                                 *)
LEMMA StartsKept ==
  ASSUME KeptInv, NEW s, UNCHANGED <<scenario, image, rewrites, kept>>, Down(s) \/ Restart(s)
  PROVE  KeptInv'
<1> DEFINE h == scenario.host
           aof == scenario.aof
           lossy == Lossy(rewrites, scenario.preamble)
           empty == EmptyShard(h)
<1>1. /\ DOMAIN db = ShardSet /\ DOMAIN image = ShardSet /\ DOMAIN up = ShardSet /\ DOMAIN kept = ShardSet
      /\ rewrites \in Nat
      /\ \A t \in ShardSet : Keeping(h, aof, lossy, up[t], db[t], image[t], kept[t])
  BY DEF KeptInv
<1>2. \/ up' = [up EXCEPT ![s] = FALSE] /\ db' = [db EXCEPT ![s] = empty]
      \/ up' = [up EXCEPT ![s] = TRUE] /\ db' = [db EXCEPT ![s] = image[s]]
  BY DEF Down, Restart
<1> HIDE DEF lossy
<1>3. s \in ShardSet => /\ Keeping(h, aof, lossy, FALSE, empty, image[s], kept[s])
                        /\ Keeping(h, aof, lossy, TRUE, image[s], image[s], kept[s])
  BY <1>1, EndsKept
<1> HIDE DEF empty
<1>4. /\ DOMAIN db' = ShardSet /\ DOMAIN image' = ShardSet /\ DOMAIN up' = ShardSet /\ DOMAIN kept' = ShardSet
      /\ \A t \in ShardSet \ {s} : /\ db'[t] = db[t] /\ image'[t] = image[t]
                                   /\ up'[t] = up[t] /\ kept'[t] = kept[t]
      /\ s \in ShardSet => \/ up'[s] = FALSE /\ db'[s] = empty
                           \/ up'[s] = TRUE /\ db'[s] = image[s]
  BY <1>1, <1>2
<1>5. s \in ShardSet => Keeping(h, aof, lossy, up'[s], db'[s], image[s], kept[s])
  BY <1>3, <1>4
<1>6. s \in ShardSet =>
        Keeping(h, aof, Lossy(rewrites', scenario.preamble), up'[s], db'[s], image'[s], kept'[s])
  BY <1>5 DEF lossy
<1>7. rewrites' \in Nat /\ rewrites' >= rewrites
  BY <1>1
<1> QED BY <1>4, <1>6, <1>7, OneKept

LEMMA RewrittenKept ==
  ASSUME KeptInv, ShardsInv, NEW s \in ShardSet, Rewrite(s)
  PROVE  KeptInv'
<1> DEFINE h == scenario.host
           aof == scenario.aof
           lossy == Lossy(rewrites, scenario.preamble)
           more == Lossy(rewrites', scenario.preamble)
           new == Rewritten(db[s], scenario.preamble)
<1>1. /\ DOMAIN db = ShardSet /\ DOMAIN image = ShardSet /\ DOMAIN up = ShardSet /\ DOMAIN kept = ShardSet
      /\ rewrites \in Nat
      /\ Keeping(h, aof, lossy, up[s], db[s], image[s], kept[s])
  BY DEF KeptInv
<1>2. /\ UNCHANGED <<scenario, db, up, kept>> /\ image' = [image EXCEPT ![s] = new]
      /\ rewrites' = rewrites + 1
  BY DEF Rewrite
<1>3. up[s] /\ aof
  BY DEF Rewrite
<1>4. rewrites' \in Nat /\ rewrites' >= rewrites /\ rewrites' > 0
  BY <1>1, <1>2
<1>5. (lossy => more) /\ (~scenario.preamble => more)
  BY <1>1, <1>4 DEF Lossy
<1>6. Good(db[s])
  BY DEF ShardsInv
<1> HIDE DEF lossy, more
<1>7. Keeping(h, aof, more, up[s], db[s], image[s], kept[s])
  BY <1>1, <1>5, KeepingMore
<1>8. Keeping(h, aof, more, up[s], db[s], new, kept[s])
  BY <1>3, <1>5, <1>6, <1>7, RewriteKept
<1> HIDE DEF new
<1>9. /\ DOMAIN db' = ShardSet /\ DOMAIN image' = ShardSet /\ DOMAIN up' = ShardSet /\ DOMAIN kept' = ShardSet
      /\ \A t \in ShardSet \ {s} : /\ db'[t] = db[t] /\ image'[t] = image[t]
                                   /\ up'[t] = up[t] /\ kept'[t] = kept[t]
      /\ db'[s] = db[s] /\ image'[s] = new /\ up'[s] = up[s] /\ kept'[s] = kept[s]
  BY <1>1, <1>2
<1>10. Keeping(h, aof, more, up'[s], db'[s], image'[s], kept'[s])
  BY <1>8, <1>9
<1>11. scenario' = scenario
  BY <1>2
<1> QED BY <1>4, <1>9, <1>10, <1>11, OneKept DEF more

(* What only the client, its settings or the JAX worker see.                          *)
LEMMA OthersKept ==
  ASSUME KeptInv, NEW c,
         \/ Refuse(c) \/ Begin(c) \/ UsePrefix(c) \/ SetDataSource(c) \/ CallMethod(c) \/ Resume(c)
         \/ SetEnvironment(c) \/ Configure(c) \/ Construct(c) \/ GiveUp(c) \/ Reduce
         \/ \E s \in ShardSet : AskWorker(c, s) \/ WorkerServes(s)
  PROVE  KeptInv'
<1>1. UNCHANGED <<scenario, db, up, image, faults, kept>>
  <2>1. CASE Refuse(c) \/ Begin(c) \/ UsePrefix(c) \/ SetDataSource(c)
    BY <2>1 DEF Refuse, Begin, UsePrefix, SetDataSource
  <2>2. CASE CallMethod(c) \/ Resume(c) \/ SetEnvironment(c) \/ Configure(c)
    BY <2>2 DEF CallMethod, Resume, SetEnvironment, Configure
  <2>3. CASE Construct(c) \/ GiveUp(c) \/ Reduce
    BY <2>3 DEF Construct, GiveUp, Reduce
  <2>4. CASE \E s \in ShardSet : AskWorker(c, s) \/ WorkerServes(s)
    BY <2>4 DEF AskWorker, WorkerServes
  <2> QED BY <2>1, <2>2, <2>3, <2>4
<1> QED BY <1>1, SameKept DEF faults

LEMMA StepKept ==
  ASSUME KeptInv, ShardsInv, RenamesNoObject, OutputsAreTensors, [Next]_vars
  PROVE  KeptInv'
<1>1. CASE UNCHANGED vars
  BY <1>1, SameKept DEF vars, faults
<1>2. ASSUME NEW c \in Clients, Send(c) PROVE KeptInv'
  <2>1. PICK i \in Places(c) :
          /\ up[Commands(client[c])[i].at]
          /\ LET cmd == Commands(client[c])[i]
             IN  Carried(cmd.at, cmd, Perform(db[cmd.at], c, cmd))
    BY <1>2 DEF Send, Sends
  <2>2. UNCHANGED <<scenario, up, rewrites>>
    BY <1>2 DEF Send, faults
  <2> QED BY <2>1, <2>2, CarriedKept
<1>3. ASSUME NEW c \in Clients, LoseReply(c) PROVE KeptInv'
  <2>1. PICK i \in Places(c) :
          /\ up[Commands(client[c])[i].at]
          /\ LET cmd == Commands(client[c])[i]
             IN  Carried(cmd.at, cmd, Perform(db[cmd.at], c, cmd))
    BY <1>3 DEF LoseReply, Sends
  <2>2. UNCHANGED <<scenario, up, rewrites>>
    BY <1>3 DEF LoseReply
  <2> QED BY <2>1, <2>2, CarriedKept
<1>4. ASSUME NEW c \in Clients, StartRun(c) PROVE KeptInv'
  BY <1>4, StartKept
<1>5. ASSUME NEW c \in Clients, EndedByCommand(c) PROVE KeptInv'
  <2>1. PICK s : Down(s) /\ UNCHANGED <<scenario, image, rewrites, kept>>
    BY <1>5 DEF EndedByCommand, faults
  <2> QED BY <2>1, StartsKept
<1>6. ASSUME NEW c \in Clients,
             \/ Refuse(c) \/ Begin(c) \/ UsePrefix(c) \/ SetDataSource(c) \/ CallMethod(c) \/ Resume(c)
             \/ SetEnvironment(c) \/ Configure(c) \/ Construct(c) \/ GiveUp(c)
      PROVE  KeptInv'
  BY <1>6, OthersKept
<1>7. ASSUME Reduce PROVE KeptInv'
  BY <1>7, OthersKept
<1>8. ASSUME NEW c \in Clients, NEW s \in ShardSet, AskWorker(c, s) \/ FinishRun(c, s) PROVE KeptInv'
  <2>1. CASE AskWorker(c, s)
    BY <2>1, OthersKept
  <2>2. CASE FinishRun(c, s)
    BY <2>2, FinishKept
  <2> QED BY <1>8, <2>1, <2>2
<1>9. ASSUME NEW s \in ShardSet, RunTogether(s) PROVE KeptInv'
  BY <1>9, TogetherKept
<1>10. ASSUME NEW s \in ShardSet, WorkerServes(s) PROVE KeptInv'
  BY <1>10, OthersKept
<1>11. ASSUME NEW s \in ShardSet, Crash(s) \/ Restart(s) PROVE KeptInv'
  <2>1. Down(s) \/ Restart(s)
    BY <1>11 DEF Crash
  <2>2. UNCHANGED <<scenario, image, rewrites, kept>>
    BY <1>11 DEF Crash, Restart, faults
  <2> QED BY <2>1, <2>2, StartsKept
<1>12. ASSUME NEW s \in ShardSet, Rewrite(s) PROVE KeptInv'
  BY <1>12, RewrittenKept
<1> QED
  BY <1>1, <1>2, <1>3, <1>4, <1>5, <1>6, <1>7, <1>8, <1>9, <1>10, <1>11, <1>12 DEF Next

-----------------------------------------------------------------------------
(* What a shard finds on disk is all it had, after any commands of any clients, lost      *)
(* replies, executions that end late, crashes and rewrites of the append-only file: with   *)
(* that file after every command, with snapshots at the last SAVE, and in the shard that    *)
(* starts with the snapshot of an earlier version all this version wrote down.  Only scripts  *)
(* without entry points are missing once the file was rewritten as commands.  This is said   *)
(* while RENAME is not given the key of a model or script, since the file may have lost the   *)
(* script, and the key it was moved to is then left as it was, and while the frameworks       *)
(* return tensors that AI.TENSORSET would accept, for that is how the file has them.        *)
THEOREM DiskHasAll == Spec /\ []RenamesNoObject /\ []OutputsAreTensors => []KeptAcrossRestart
<1>1. Init => KeptInv
  BY InitKept
<1>2. KeptInv /\ ShardsInv /\ RenamesNoObject /\ OutputsAreTensors /\ [Next]_vars => KeptInv'
  BY StepKept
<1>3. ASSUME KeptInv PROVE KeptAcrossRestart
  <2> SUFFICES ASSUME NEW s \in ShardSet
               PROVE  LET found == Contents(image[s])
                          may == {k \in DOMAIN kept[s] :
                                    /\ kept[s][k].type = "script" /\ kept[s][k].def.entryPoints = << >>
                                    /\ rewrites > 0 /\ ~scenario.preamble}
                      IN /\ DOMAIN kept[s] \ may \subseteq DOMAIN found
                         /\ \A k \in DOMAIN found : k \in DOMAIN kept[s] /\ found[k] = kept[s][k]
    BY DEF KeptAcrossRestart
  <2>1. Recalls(Lossy(rewrites, scenario.preamble), kept[s], Contents(image[s]))
    BY <1>3 DEF KeptInv, Keeping
  <2> QED BY <2>1 DEF Recalls, Lossy
<1> QED BY <1>1, <1>2, <1>3, ShardStatsInvariant, PTL DEF Spec
=============================================================================
