----------------------------- MODULE RedisServer ------------------------------
(***************************************************************************)
(* What a SmartRedis client asks of its server: the methods of RedisServer as  *)
(* programs (Programs).  A client has one of two servers, a Redis or a         *)
(* RedisCluster; where their methods differ, cl.cluster tells which it is.      *)
(* A cluster has a copy of each model and script on every shard.              *)
(***************************************************************************)
EXTENDS Programs

(***************************************************************************)
(* Commands without a key: at the address they name, wherever the last command *)
(* was answered, or on every shard in turn, under the name it has there.        *)
(***************************************************************************)
IsAddressable(cl, s) == s \in (IF cl.cluster THEN ToSet(Reported) ELSE {Order[1]})
AddressAt(cl, s, op, arg) == Each(<<CmdAt(Addressed(cl, s), op, NoKey, arg)>>)
AddressAny(cl, op, arg) == Each(<<CmdAt(cl.last, op, NoKey, arg)>>)
AddressAll(op, key, arg) ==
  Each([i \in DOMAIN Order |-> CmdAt(Order[i], op, OnNode(Order[i], key), arg)])

KeyExists(cl, key) == One(cl, "EXISTS", key, {})
HashFieldExists(cl, key, field) == One(cl, "HEXISTS", key, field)
ModelKeyExists(cl, key) == KeyExists(cl, IF cl.cluster THEN OnNode(Order[1], key) ELSE key)

(***************************************************************************)
(* Tensors and strings.  A copy goes through the client.                      *)
(***************************************************************************)
PutTensor(cl, key, tensor) == One(cl, "TENSORSET", key, tensor)
GetTensor(cl, key) == One(cl, "TENSORGET", key, {})
\* In a cluster they are all asked of the shard of the first.
GetTensors(cl, keys) == Pipeline([i \in DOMAIN keys |-> Cmd(cl, "TENSORGET", keys[i], {})])
DeleteTensor(cl, key) == One(cl, "DEL", key, {})
PutBytes(cl, key, bytes) == One(cl, "SET", key, bytes)
GetBytes(cl, key) == One(cl, "GET", key, {})
DeleteBytes(cl, key) == One(cl, "DEL", key, {})

CopyTensor(cl, from, to) == GetTensor(cl, from) \o Then("store", to)
StoreFetched(cl, to, got) == GoOn(PutTensor(cl, to, got[1].value))
CopyTensors(cl, from, to) == FlattenSeq([i \in DOMAIN from |-> CopyTensor(cl, from[i], to[i])])

RenameOnShard(cl, from, to) == One(cl, "RENAME", from, to)
RenameTensor(cl, from, to) ==
  IF ~cl.cluster \/ from.tag = to.tag
  THEN RenameOnShard(cl, from, to)
  ELSE CopyTensor(cl, from, to) \o DeleteTensor(cl, from)

(***************************************************************************)
(* Models and scripts.                                                       *)
(***************************************************************************)
SetModelOnAll(key, def) == AddressAll("MODELSTORE", key, def)
SetModel(cl, key, def) ==
  IF cl.cluster THEN SetModelOnAll(key, def) ELSE One(cl, "MODELSTORE", key, def)
SetScript(cl, key, def) ==
  IF cl.cluster THEN AddressAll("SCRIPTSET", key, def) ELSE One(cl, "SCRIPTSET", key, def)
DeleteModel(cl, key) ==
  IF cl.cluster THEN AddressAll("MODELDEL", key, {}) ELSE One(cl, "MODELDEL", key, {})
DeleteScript(cl, key) ==
  IF cl.cluster THEN AddressAll("SCRIPTDEL", key, {}) ELSE One(cl, "SCRIPTDEL", key, {})
OnFirstShard(cl, op, key) == One(cl, op, IF cl.cluster THEN OnNode(Order[1], key) ELSE key, {})
GetModel(cl, key) == OnFirstShard(cl, "MODELGET", key)
GetScript(cl, key) == OnFirstShard(cl, "SCRIPTGET", key)

GpuName == <<"GPU:0", "GPU:1", "GPU:2">>
\* Where the copies are, from first_gpu to num_gpus - 1, and the one that get_model finds.
OnGpus(key, first, gpus) ==
  [i \in 1 .. gpus - first |-> <<OnGpu(key, GpuName[first + i]), GpuName[first + i]>>] \o << <<key, "GPU">> >>
SetModelMultigpu(cl, key, def, first, gpus) ==
  FlattenSeq([i \in DOMAIN OnGpus(key, first, gpus) |->
    LET at == OnGpus(key, first, gpus)[i] IN SetModel(cl, at[1], [def EXCEPT !.device = at[2]])])
SetScriptMultigpu(cl, key, def, first, gpus) ==
  FlattenSeq([i \in DOMAIN OnGpus(key, first, gpus) |->
    LET at == OnGpus(key, first, gpus)[i] IN SetScript(cl, at[1], [def EXCEPT !.device = at[2]])])
DeleteModelMultigpu(cl, key, first, gpus) ==
  FlattenSeq([i \in DOMAIN OnGpus(key, first, gpus) |-> DeleteModel(cl, OnGpus(key, first, gpus)[i][1])])
DeleteScriptMultigpu(cl, key, first, gpus) ==
  FlattenSeq([i \in DOMAIN OnGpus(key, first, gpus) |-> DeleteScript(cl, OnGpus(key, first, gpus)[i][1])])

\* The size of the chunks is asked of the server unless this client has set it.
GetModelChunkSize(cl) ==
  IF cl.chunk = 0 THEN AddressAny(cl, "AI.CONFIG GET", {}) \o Then("chunk", {}) ELSE << >>
TakeChunkSize(got) == IF got[1].value < 0 THEN Throw("Runtime") ELSE GoOn(<< >>)
GetModelScriptAiInfo(cl, s, key, reset) ==
  LET at == Addressed(cl, s) IN
  Each(<<CmdAt(at, IF reset THEN "AI.INFO RESETSTAT" ELSE "AI.INFO",
               IF cl.cluster THEN OnNode(at, key) ELSE key, {})>>)

(***************************************************************************)
(* Running a model or a script.  In a cluster the inputs are copied to the     *)
(* shard of the first of them, under temporary names, and the outputs back.   *)
(***************************************************************************)
Execution(cl, op, key, fn, ins, outs) == One(cl, op, key, [fn |-> fn, ins |-> ins, outs |-> outs])
TmpNames(s, keys) == [i \in DOMAIN keys |-> Temporary(s, keys[i])]
DeleteKeys(cl, keys) == One(cl, "DEL", keys[1], ToSet(keys))
RunOnShard(cl, op, key, fn, ins, outs) ==
  LET s == Shard(cl, ins[1])  tmpIns == TmpNames(s, ins)  tmpOuts == TmpNames(s, outs) IN
  CopyTensors(cl, ins, tmpIns)
  \o Execution(cl, op, OnNode(s, key), fn, tmpIns, tmpOuts)
  \o CopyTensors(cl, tmpOuts, outs)
  \o DeleteKeys(cl, tmpOuts \o tmpIns)
RunModel(cl, key, ins, outs) ==
  IF cl.cluster THEN RunOnShard(cl, "MODELEXECUTE", key, "", ins, outs)
  ELSE Execution(cl, "MODELEXECUTE", key, "", ins, outs)
RunScript(cl, key, fn, ins, outs) ==
  IF cl.cluster THEN RunOnShard(cl, "SCRIPTRUN", key, fn, ins, outs)
  ELSE Execution(cl, "SCRIPTRUN", key, fn, ins, outs)
GpuOf(offset, first, gpus) == GpuName[first + (offset % gpus) + 1]
RunModelMultigpu(cl, key, ins, outs, offset, first, gpus) ==
  RunModel(cl, OnGpu(key, GpuOf(offset, first, gpus)), ins, outs)
RunScriptMultigpu(cl, key, fn, ins, outs, offset, first, gpus) ==
  RunScript(cl, OnGpu(key, GpuOf(offset, first, gpus)), fn, ins, outs)
=============================================================================
