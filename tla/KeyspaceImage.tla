---------------------------- MODULE KeyspaceImage ----------------------------
(***************************************************************************)
(* What a shard leaves on disk and what it finds there when it starts again. *)
(* An object is written as a snapshot (RDB) or, when the append-only file is *)
(* rewritten without the RDB preamble, as the command that stores it again.  *)
(* Reading either makes new objects with new statistics; nothing is running, *)
(* the configuration is that of the command line, and the backends of the     *)
(* models and scripts are loaded.                                            *)
(***************************************************************************)
EXTENDS Keyspace

(***************************************************************************)
(* Snapshots: the fields of a model or script are saved and read in order.   *)
(***************************************************************************)
(* Mutant of SaveModel: two of the batch options change places.                    *)
SaveModelSwapped(def) ==
  << def.backend, def.device, def.tag, def.minbatchsize, def.batchsize, def.minbatchtimeout,
     def.inputs, def.outputs, def.size, def.blob >>

SaveModel(def) ==
  << def.backend, def.device, def.tag, def.batchsize, def.minbatchsize, def.minbatchtimeout,
     def.inputs, def.outputs, def.size, def.blob >>
LoadModel(io) ==
  [backend |-> io[1], device |-> io[2], tag |-> io[3], batchsize |-> io[4],
   minbatchsize |-> io[5], minbatchtimeout |-> io[6], inputs |-> io[7], outputs |-> io[8],
   size |-> io[9], blob |-> io[10]]

SaveScript(def) == << def.device, def.tag, def.blob, def.entryPoints >>
LoadScript(io) == [device |-> io[1], tag |-> io[2], blob |-> io[3], entryPoints |-> io[4]]

SaveTensor(t) == << t.dtype, t.dims, t.data >>
LoadTensor(io) == TensorNew(io[1], io[2], io[3])

LoadObject(db, key, object) ==
  CASE object.type = "model" ->
         StoreModel(WithBackend(db, object.def.backend), key, LoadModel(SaveModel(object.def)))
    [] object.type = "script" ->
         StoreScript(WithBackend(db, "TORCH"), key, LoadScript(SaveScript(object.def)))
    [] object.type = "tensor" -> SetValue(db, key, Tensor(LoadTensor(SaveTensor(object.data))))
    [] OTHER -> SetValue(db, key, object)

(***************************************************************************)
(* A shard that starts reads object after object, each into a key of its own, so  *)
(* that none depends on those before it: the shard is put together from parts    *)
(* of one object each.  Models and scripts keep their numbers, which only tell     *)
(* them apart.                                                               *)
(***************************************************************************)
Part(host, object) ==
  [EmptyShard(host) EXCEPT !.next = IF object.type \in {"model", "script"} THEN object.id ELSE 0]
Combined(host, next, parts) ==
  [EmptyShard(host) EXCEPT
     !.keys = [k \in {j \in DOMAIN parts : Has(parts[j], j)} |-> parts[k].keys[k]],
     !.stats = [k \in {j \in DOMAIN parts : j \in DOMAIN parts[j].stats} |-> parts[k].stats[k]],
     !.next = next,
     !.loaded = UNION {parts[k].loaded : k \in DOMAIN parts}]

Snapshot(db) ==
  Combined(db.host, db.next,
           [k \in DOMAIN db.keys |-> LoadObject(Part(db.host, db.keys[k]), k, db.keys[k])])

(***************************************************************************)
(* The commands that a rewrite emits.  The names of the inputs and outputs    *)
(* are those of TensorFlow models only; every script is emitted as           *)
(* AI.SCRIPTSTORE, which refuses one without entry points.                    *)
(***************************************************************************)
(* Mutant of Emitted: no model has the names of its inputs and outputs.            *)
EmittedUnnamed(key, object) ==
  CASE object.type = "tensor" -> [op |-> "TENSORSET", key |-> key, arg |-> object.data]
    [] object.type = "model" ->
         [op |-> "MODELSTORE", key |-> key,
          arg |-> [object.def EXCEPT !.inputs = << >>, !.outputs = << >>]]
    [] object.type = "script" -> [op |-> "SCRIPTSTORE", key |-> key, arg |-> object.def]
    [] object.type = "string" -> [op |-> "SET", key |-> key, arg |-> object.data]
    [] object.type = "hash" -> [op |-> "HSET", key |-> key, arg |-> object.fields]
    [] object.type = "list" -> [op |-> "RPUSH", key |-> key, arg |-> object.items]

Emitted(key, object) ==
  CASE object.type = "tensor" -> [op |-> "TENSORSET", key |-> key, arg |-> object.data]
    [] object.type = "model" ->
         [op |-> "MODELSTORE", key |-> key,
          arg |-> IF object.def.backend = "TF" THEN object.def
                  ELSE [object.def EXCEPT !.inputs = << >>, !.outputs = << >>]]
    [] object.type = "script" -> [op |-> "SCRIPTSTORE", key |-> key, arg |-> object.def]
    [] object.type = "string" -> [op |-> "SET", key |-> key, arg |-> object.data]
    [] object.type = "hash" -> [op |-> "HSET", key |-> key, arg |-> object.fields]
    [] object.type = "list" -> [op |-> "RPUSH", key |-> key, arg |-> object.items]
Replayed(db, cmd) == Perform(db, "loading", cmd).db
RewriteCommands(db) ==
  Combined(db.host, db.next,
           [k \in DOMAIN db.keys |-> Replayed(Part(db.host, db.keys[k]), Emitted(k, db.keys[k]))])

\* aof-use-rdb-preamble chooses which of the two a rewrite writes.
Rewritten(db, preamble) == IF preamble THEN Snapshot(db) ELSE RewriteCommands(db)

(***************************************************************************)
(* What the objects of a shard say, without the numbers they were given.      *)
(***************************************************************************)
Content(object) ==
  IF object.type \in {"model", "script"} THEN [type |-> object.type, def |-> object.def] ELSE object
Contents(db) == [k \in DOMAIN db.keys |-> Content(db.keys[k])]
=============================================================================
