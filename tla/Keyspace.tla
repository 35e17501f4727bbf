------------------------------ MODULE Keyspace -------------------------------
(***************************************************************************)
(* The keyspace of one Redis shard with the RedisAI module, and the commands  *)
(* SmartRedis sends to it, as operators that return the shard after the     *)
(* command and the reply.  A command is handled in one step of the Redis     *)
(* main thread, except the two that run a model or a script: they only start *)
(* here, a worker runs them (DagRun), and the outputs are stored later.      *)
(*                                                                         *)
(* A shard is                                                              *)
(*   keys     the objects by key                                           *)
(*   stats    RunStats: the statistics entry of each model and script by key; *)
(*            an entry is known by the object it was created for             *)
(*   running  the executions by the client that waits for them; answer is       *)
(*            what a batch has given an execution already                      *)
(*   chunk    MODEL_CHUNK_SIZE                                              *)
(*   config   the parameters of Redis that clients read and set               *)
(*   next     the number of the next object                                 *)
(*   host     where it runs                                                *)
(*   loaded   the backends whose libraries it has loaded                     *)
(***************************************************************************)
EXTENDS Backends

CONSTANTS ValidDevices,    \* the device strings AI.MODELSTORE accepts
          DefaultChunk     \* MODEL_CHUNK_SIZE of a server that has just started

ASSUME ChunkAssumption == DefaultChunk \in Nat \ {0}

ServerConfig == [maxmemory |-> "0", appendfsync |-> "everysec"]
EmptyShard(host) ==
  [keys |-> << >>, stats |-> << >>, running |-> << >>, chunk |-> DefaultChunk, next |-> 1,
   config |-> ServerConfig,
   host |-> host, loaded |-> {}]

(***************************************************************************)
(* Objects and replies.                                                    *)
(***************************************************************************)
Tensor(data) == [type |-> "tensor", data |-> data]
Bytes(data) == [type |-> "string", data |-> data]
Hash(fields) == [type |-> "hash", fields |-> fields]
List(items) == [type |-> "list", items |-> items]
Model(key, id, def) == [type |-> "model", key |-> key, id |-> id, def |-> def]
Script(key, id, def) == [type |-> "script", key |-> key, id |-> id, def |-> def]

Nothing == << >>
Ok(db, value) == [db |-> db, ok |-> TRUE, value |-> value, died |-> FALSE]
Error(db) == [db |-> db, ok |-> FALSE, value |-> Nothing, died |-> FALSE]
Died(db) == [db |-> db, ok |-> FALSE, value |-> Nothing, died |-> TRUE]

Has(db, key) == key \in DOMAIN db.keys
Is(db, key, type) == Has(db, key) /\ db.keys[key].type = type
May(db, key, type) == Has(db, key) => db.keys[key].type = type
Put(f, key, value) == [k \in DOMAIN f \cup {key} |-> IF k = key THEN value ELSE f[k]]
PutAll(f, g) == [k \in DOMAIN f \cup DOMAIN g |-> IF k \in DOMAIN g THEN g[k] ELSE f[k]]
Drop(f, keys) == Restrict(f, DOMAIN f \ keys)

(***************************************************************************)
(* The references to a model or script are the key that holds it and the    *)
(* executions that run it.  RAI_ModelFree and RAI_ScriptFree drop one; the    *)
(* last one removes the statistics entry of the key the object was created    *)
(* under, if it is still the entry of this object.                            *)
(***************************************************************************)
Referenced(db, id) ==
  \/ \E k \in DOMAIN db.keys :
       db.keys[k].type \in {"model", "script"} /\ db.keys[k].id = id
  \/ \E c \in DOMAIN db.running : db.running[c].object.id = id
(* Mutant of ModelFree: whatever entry the key has is removed.                    *)
ModelFreeByKey(db, objects) ==
  [db EXCEPT !.stats = Drop(@, {o.key : o \in {p \in objects : ~Referenced(db, p.id)}})]

ModelFree(db, objects) ==
  LET last == {o \in objects : ~Referenced(db, o.id)}
  IN [db EXCEPT !.stats = Drop(@,
        {k \in DOMAIN db.stats : \E o \in last : o.key = k /\ o.id = db.stats[k].id})]

\* When keys go, the models and scripts they hold are freed.
DeleteAll(db, keys) ==
  LET gone == {db.keys[k] : k \in keys \cap DOMAIN db.keys}
  IN ModelFree([db EXCEPT !.keys = Drop(@, keys)], {o \in gone : o.type \in {"model", "script"}})
DeleteKey(db, key) == DeleteAll(db, {key})
SetValue(db, key, object) ==
  LET bare == DeleteKey(db, key)
  IN [bare EXCEPT !.keys = Put(@, key, object)]

(***************************************************************************)
(* Tensors.                                                                *)
(***************************************************************************)
TensorSet(db, key, arg) ==
  IF ParseTensorSetArgs(arg) /\ May(db, key, "tensor")
  THEN Ok(SetValue(db, key, Tensor(TensorNew(arg.dtype, arg.dims, arg.data))), Nothing)
  ELSE Error(db)

TensorGet(db, key) ==
  IF Is(db, key, "tensor") THEN Ok(db, Reply(db.keys[key].data)) ELSE Error(db)

(***************************************************************************)
(* Models and scripts.  The entry of the statistics is stored after the     *)
(* object, so that it replaces the one of the object that had the key.       *)
(***************************************************************************)
StoreStats(db, key, type, id) ==
  [db EXCEPT !.stats = Put(@, key, [type |-> type, id |-> id, calls |-> 0]), !.next = id + 1]

StoreModel(db, key, def) ==
  StoreStats(SetValue(db, key, Model(key, db.next, def)), key, "model", db.next)
StoreScript(db, key, def) ==
  StoreStats(SetValue(db, key, Script(key, db.next, def)), key, "script", db.next)

\* The name of a backend, which may be written in any case, is in capitals here.
ModelArgsValid(def) ==
  /\ def.backend \in DOMAIN Needed
  /\ def.device \in ValidDevices
  /\ def.minbatchsize > 0 => def.batchsize > 0
  /\ def.minbatchtimeout > 0 => def.minbatchsize > 0
  /\ (def.backend = "TF") <=> (def.inputs # << >>)
  /\ (def.backend = "TF") <=> (def.outputs # << >>)
  /\ def.size > 0

\* What the object of a model or script keeps of the command that stores it.
ModelFields(arg) ==
  [backend |-> arg.backend, device |-> arg.device, tag |-> arg.tag, batchsize |-> arg.batchsize,
   minbatchsize |-> arg.minbatchsize, minbatchtimeout |-> arg.minbatchtimeout,
   inputs |-> arg.inputs, outputs |-> arg.outputs, size |-> arg.size, blob |-> arg.blob]
ScriptFields(arg) ==
  [device |-> arg.device, tag |-> arg.tag, blob |-> arg.blob, entryPoints |-> arg.entryPoints]

WithBackend(db, backend) == [db EXCEPT !.loaded = LoadedFor(db.host, @, backend)]

\* A key that holds another type makes RAI_ModelFree follow the statistics of a
\* model that has none yet, which ends the server.
ModelStore(db, key, def) ==
  LET ready == WithBackend(db, def.backend) IN
  IF ~ModelArgsValid(def) THEN Error(db)
  ELSE IF ~ModelCreate(db.host, ready.loaded, def) THEN Error(ready)
  ELSE IF May(db, key, "model") THEN Ok(StoreModel(ready, key, ModelFields(def)), Nothing)
  ELSE Died(db)

ScriptSet(db, key, def) ==
  LET ready == WithBackend(db, "TORCH") IN
  IF ScriptCreate(db.host, ready.loaded, def) /\ May(db, key, "script")
  THEN Ok(StoreScript(ready, key, ScriptFields(def)), Nothing)
  ELSE Error(ready)

ScriptStore(db, key, def) ==
  IF def.entryPoints = << >> THEN Error(db) ELSE ScriptSet(db, key, def)

\* What these commands, and those of Redis below, leave in a key of a shard of this host.
Accepted(host, object) ==
  CASE object.type = "tensor" -> object = Tensor(object.data) /\ IsTensor(object.data)
    [] object.type = "model" ->
         /\ object.def = ModelFields(object.def) /\ ModelArgsValid(object.def)
         /\ ModelCreate(host, LoadedFor(host, {}, object.def.backend), object.def)
    [] object.type = "script" ->
         /\ object.def = ScriptFields(object.def)
         /\ ScriptCreate(host, LoadedFor(host, {}, "TORCH"), object.def)
    [] object.type = "string" -> object = Bytes(object.data)
    [] object.type = "hash" -> object = Hash([f \in DOMAIN object.fields |-> object.fields[f]])
    [] object.type = "list" -> object = List(object.items)

ModelDel(db, key) ==
  IF Is(db, key, "model") THEN Ok(DeleteKey(db, key), Nothing) ELSE Error(db)
ScriptDel(db, key) ==
  IF Is(db, key, "script") THEN Ok(DeleteKey(db, key), Nothing) ELSE Error(db)

\* The blob in pieces of MODEL_CHUNK_SIZE; the last one may be empty.
ModelGet(db, key) ==
  IF Is(db, key, "model")
  THEN LET def == db.keys[key].def
       IN Ok(db, [blob |-> def.blob, pieces |-> (def.size \div db.chunk) + 1])
  ELSE Error(db)
ScriptGet(db, key) ==
  IF Is(db, key, "script") THEN Ok(db, db.keys[key].def.blob) ELSE Error(db)

ModelScan(db) == {k \in DOMAIN db.stats : db.stats[k].type = "model"}
ScriptScan(db) == {k \in DOMAIN db.stats : db.stats[k].type = "script"}

Info(db, key) ==
  IF key \in DOMAIN db.stats THEN Ok(db, db.stats[key].calls) ELSE Error(db)
ResetStat(db, key) ==
  IF key \in DOMAIN db.stats THEN Ok([db EXCEPT !.stats[key].calls = 0], Nothing) ELSE Error(db)

ConfigSetChunk(db, size) ==
  IF size > 0 THEN Ok([db EXCEPT !.chunk = size], Nothing) ELSE Error(db)
ConfigGetChunk(db) == Ok(db, db.chunk)

(***************************************************************************)
(* An execution holds the object and the tensors it found when the command  *)
(* was parsed; the outputs are stored when it has ended.  Only the inputs and   *)
(* outputs of models are counted.                                            *)
(***************************************************************************)
CountsMatch(object, arg) ==
  object.type = "model" =>
    Len(arg.ins) = NumInputs(object.def) /\ Len(arg.outs) = NumOutputs(object.def)
Execute(db, client, type, key, arg) ==
  IF /\ Is(db, key, type) /\ CountsMatch(db.keys[key], arg)
     /\ \A i \in DOMAIN arg.ins : Is(db, arg.ins[i], "tensor")
  THEN Ok([db EXCEPT !.running = Put(@, client,
             [object |-> db.keys[key], fn |-> arg.fn, outs |-> arg.outs, answer |-> << >>,
              ins |-> [i \in DOMAIN arg.ins |-> db.keys[arg.ins[i]].data]])],
          Nothing)
  ELSE Error(db)

\* The outputs are stored one after the other until one of them cannot be; of those with
\* one key the last one stays.
StoreOutputs(db, outs, tensors) ==
  LET fit == {i \in DOMAIN outs : \A j \in {i} \cup 1 .. i - 1 : May(db, outs[j], "tensor")}
      stored == {outs[i] : i \in fit}
      last(k) == CHOOSE i \in fit : outs[i] = k /\ \A j \in fit : outs[j] = k => j <= i
  IN [db |-> [db EXCEPT !.keys = PutAll(@, [k \in stored |-> Tensor(tensors[last(k)])])],
      stored |-> stored, ok |-> fit = DOMAIN outs]

Counted(db, object) ==
  IF object.key \in DOMAIN db.stats /\ db.stats[object.key].id = object.id
  THEN [db EXCEPT !.stats[object.key].calls = @ + 1] ELSE db

RunAlone(run) ==
  LET def == run.object.def IN
  IF run.object.type = "script" THEN ScriptRun(def, run.fn, run.ins, Len(run.outs))
  ELSE RunBatch(def, <<run.ins>>, Len(run.outs))[1]
\* Two executions of one model are taken from the queue together.
CanRunTogether(a, b) ==
  /\ a.object.type = "model" /\ a.object.id = b.object.id
  /\ a.answer = << >> /\ b.answer = << >> /\ MayJoin(a.object.def, a.ins, b.ins)
RunTwo(db, a, b) ==
  LET first == db.running[a]
      answers == RunBatch(first.object.def, <<first.ins, db.running[b].ins>>, Len(first.outs))
  IN [db EXCEPT !.running[a].answer = <<answers[1]>>, !.running[b].answer = <<answers[2]>>]
\* The reply is made before the outputs are stored: when one cannot be, an error
\* is sent after it.
Finish(db, client, result) ==
  LET run == db.running[client]
      counted == Counted(db, run.object)
      out == IF result.ok THEN StoreOutputs(counted, run.outs, result.outs)
             ELSE [db |-> counted, stored |-> {}, ok |-> FALSE]
      end == ModelFree([out.db EXCEPT !.running = Drop(@, {client})], {run.object})
      reply == IF result.ok THEN Ok(end, Nothing) ELSE Error(end)
  IN [reply |-> reply, stored |-> out.stored,
      extra |-> IF result.ok /\ ~out.ok THEN <<Error(end)>> ELSE << >>]

(***************************************************************************)
(* The commands of Redis itself.                                            *)
(***************************************************************************)
Del(db, keys) ==
  Ok(DeleteAll(db, keys), Cardinality(keys \cap DOMAIN db.keys))
Truth(b) == IF b THEN 1 ELSE 0
Exists(db, key) == Ok(db, Truth(Has(db, key)))
Rename(db, from, to) ==
  IF ~Has(db, from) THEN Error(db)
  ELSE IF from = to THEN Ok(db, Nothing)
  ELSE Ok([DeleteKey(db, to) EXCEPT !.keys = Put(Drop(@, {from}), to, db.keys[from])], Nothing)
StringSet(db, key, data) == Ok(SetValue(db, key, Bytes(data)), Nothing)
StringGet(db, key) ==
  IF ~Has(db, key) THEN Ok(db, Nothing)
  ELSE IF Is(db, key, "string") THEN Ok(db, db.keys[key].data) ELSE Error(db)
Fields(db, key) == IF Has(db, key) THEN db.keys[key].fields ELSE << >>
HashSet(db, key, fields) ==
  IF May(db, key, "hash")
  THEN Ok([db EXCEPT !.keys = Put(@, key, Hash([f \in DOMAIN fields \cup DOMAIN Fields(db, key) |->
             IF f \in DOMAIN fields THEN fields[f] ELSE Fields(db, key)[f]]))],
          Cardinality(DOMAIN fields \ DOMAIN Fields(db, key)))
  ELSE Error(db)
HashGetAll(db, key) == IF May(db, key, "hash") THEN Ok(db, Fields(db, key)) ELSE Error(db)
HashExists(db, key, field) ==
  IF May(db, key, "hash") THEN Ok(db, Truth(field \in DOMAIN Fields(db, key))) ELSE Error(db)
Items(db, key) == IF Has(db, key) THEN db.keys[key].items ELSE << >>
Pushed(db, key, items) == IF Has(db, key) THEN Items(db, key) \o items ELSE items
PushRight(db, key, items) ==
  IF May(db, key, "list")
  THEN Ok([db EXCEPT !.keys = Put(@, key, List(Pushed(db, key, items)))], Len(Pushed(db, key, items)))
  ELSE Error(db)
\* The places of a range begin with 0; -1 is the last one.
ListRange(db, key, range) ==
  LET items == Items(db, key)  last == IF range[2] < 0 THEN Len(items) + range[2] ELSE range[2] IN
  IF ~May(db, key, "list") THEN Error(db)
  ELSE Ok(db, SubSeq(items, range[1] + 1, IF last < Len(items) THEN last + 1 ELSE Len(items)))
ListLength(db, key) == IF May(db, key, "list") THEN Ok(db, Len(Items(db, key))) ELSE Error(db)
Flush(db) == Del(db, DOMAIN db.keys)
ConfigSet(db, arg) ==
  IF arg[1] \in DOMAIN db.config THEN Ok([db EXCEPT !.config[arg[1]] = arg[2]], Nothing) ELSE Error(db)
ConfigGet(db, arg) ==
  Ok(db, IF arg = "*" THEN db.config ELSE Restrict(db.config, {arg} \cap DOMAIN db.config))

(***************************************************************************)
(* A command, with the key it names first and what else it says.             *)
(***************************************************************************)
Perform(db, client, cmd) ==
  LET key == cmd.key  arg == cmd.arg IN
  CASE cmd.op = "TENSORSET" -> TensorSet(db, key, arg)
    [] cmd.op = "TENSORGET" -> TensorGet(db, key)
    [] cmd.op = "MODELSTORE" -> ModelStore(db, key, arg)
    [] cmd.op = "MODELGET" -> ModelGet(db, key)
    [] cmd.op = "MODELDEL" -> ModelDel(db, key)
    [] cmd.op = "MODELEXECUTE" -> Execute(db, client, "model", key, arg)
    [] cmd.op = "SCRIPTSET" -> ScriptSet(db, key, arg)
    [] cmd.op = "SCRIPTSTORE" -> ScriptStore(db, key, arg)
    [] cmd.op = "SCRIPTGET" -> ScriptGet(db, key)
    [] cmd.op = "SCRIPTDEL" -> ScriptDel(db, key)
    [] cmd.op = "SCRIPTRUN" -> Execute(db, client, "script", key, arg)
    [] cmd.op = "AI.INFO" -> Info(db, key)
    [] cmd.op = "AI.INFO RESETSTAT" -> ResetStat(db, key)
    [] cmd.op = "AI.CONFIG" -> ConfigSetChunk(db, arg)
    [] cmd.op = "AI.CONFIG GET" -> ConfigGetChunk(db)
    [] cmd.op = "CONFIG SET" -> ConfigSet(db, arg)
    [] cmd.op = "CONFIG GET" -> ConfigGet(db, arg)
    [] cmd.op = "DEL" -> Del(db, {key} \cup arg)
    [] cmd.op = "EXISTS" -> Exists(db, key)
    [] cmd.op = "RENAME" -> Rename(db, key, arg)
    [] cmd.op = "SET" -> StringSet(db, key, arg)
    [] cmd.op = "GET" -> StringGet(db, key)
    [] cmd.op = "HSET" -> HashSet(db, key, arg)
    [] cmd.op = "HGETALL" -> HashGetAll(db, key)
    [] cmd.op = "HEXISTS" -> HashExists(db, key, arg)
    [] cmd.op = "RPUSH" -> PushRight(db, key, arg)
    [] cmd.op = "LRANGE" -> ListRange(db, key, arg)
    [] cmd.op = "LLEN" -> ListLength(db, key)
    [] cmd.op = "FLUSHDB" -> Flush(db)
    [] cmd.op \in {"SAVE", "PING", "CLUSTER SLOTS", "CLUSTER INFO", "INFO EVERYTHING"} -> Ok(db, Nothing)
    [] OTHER -> Error(db)   \* Redis knows no other

\* The commands that are replicated, and so written to the append-only file.
Writes == {"TENSORSET", "MODELSTORE", "MODELDEL", "SCRIPTSET", "SCRIPTSTORE", "SCRIPTDEL",
           "DEL", "RENAME", "SET", "HSET", "RPUSH", "FLUSHDB"}
=============================================================================
