---------------------------- MODULE EarlierImages ----------------------------
(***************************************************************************)
(* Snapshots that earlier versions of RedisAI have saved, and what this one     *)
(* makes of them when a shard starts: the decoders of the versions 0 to 3 of    *)
(* the encoding.  A shard that finds one has the libraries for all its models    *)
(* and scripts; without them it does not start.                              *)
(***************************************************************************)
EXTENDS KeyspaceImage

(***************************************************************************)
(* What the versions saved, in order.  The timeout of batches came with version  *)
(* 2, the entry points of scripts with version 3; since version 1 the blob of    *)
(* a model follows its size, in chunks.  Tensors say where they are.            *)
(***************************************************************************)
EarlierModel(version, def) ==
  CASE version = 0 ->
         << def.backend, def.device, def.tag, def.batchsize, def.minbatchsize,
            def.inputs, def.outputs, [size |-> def.size, blob |-> def.blob] >>
    [] version = 1 ->
         << def.backend, def.device, def.tag, def.batchsize, def.minbatchsize,
            def.inputs, def.outputs, def.size, def.blob >>
    [] OTHER -> SaveModel(def)
EarlierScript(version, def) ==
  IF version = 3 THEN SaveScript(def) ELSE << def.device, def.tag, def.blob >>
EarlierTensor(t) == << "CPU", t.dtype, t.dims, t.data >>

(***************************************************************************)
(* The decoders.  What a version did not save is 0 or empty.                  *)
(***************************************************************************)
LoadTensor_v0(io) == TensorNew(io[2], io[3], io[4])

LoadModel_v0(io) ==
  [backend |-> io[1], device |-> io[2], tag |-> io[3], batchsize |-> io[4],
   minbatchsize |-> io[5], minbatchtimeout |-> 0, inputs |-> io[6], outputs |-> io[7],
   size |-> io[8].size, blob |-> io[8].blob]
(* Mutant of LoadModel_v1: the fields are read as those of version 2.              *)
LoadModel_v1AsLater(io) ==
  [backend |-> io[1], device |-> io[2], tag |-> io[3], batchsize |-> io[4],
   minbatchsize |-> io[5], minbatchtimeout |-> io[5], inputs |-> io[6], outputs |-> io[7],
   size |-> io[8], blob |-> io[9]]

LoadModel_v1(io) ==
  [backend |-> io[1], device |-> io[2], tag |-> io[3], batchsize |-> io[4],
   minbatchsize |-> io[5], minbatchtimeout |-> 0, inputs |-> io[6], outputs |-> io[7],
   size |-> io[8], blob |-> io[9]]
LoadModel_v2(io) == LoadModel(io)

LoadScript_v0(io) == [device |-> io[1], tag |-> io[2], blob |-> io[3], entryPoints |-> << >>]
LoadScript_v1(io) == LoadScript_v0(io)
LoadScript_v2(io) == LoadScript_v0(io)

DecodePreviousModel(version, io) ==
  CASE version = 0 -> LoadModel_v0(io)
    [] version = 1 -> LoadModel_v1(io)
    [] version = 2 -> LoadModel_v2(io)
    [] version = 3 -> LoadModel(io)
DecodePreviousScript(version, io) ==
  CASE version = 0 -> LoadScript_v0(io)
    [] version = 1 -> LoadScript_v1(io)
    [] version = 2 -> LoadScript_v2(io)
    [] version = 3 -> LoadScript(io)

LoadEarlier(db, key, version, object) ==
  CASE object.type = "model" ->
         StoreModel(WithBackend(db, object.def.backend), key,
                    DecodePreviousModel(version, EarlierModel(version, object.def)))
    [] object.type = "script" ->
         StoreScript(WithBackend(db, "TORCH"), key,
                     DecodePreviousScript(version, EarlierScript(version, object.def)))
    [] object.type = "tensor" -> SetValue(db, key, Tensor(LoadTensor_v0(EarlierTensor(object.data))))
EarlierSnapshot(host, version, next, objects) ==
  Combined(host, next,
           [k \in DOMAIN objects |-> LoadEarlier(Part(host, objects[k]), k, version, objects[k])])
=============================================================================
