----------------------------- MODULE ClientCalls -----------------------------
(***************************************************************************)
(* The calls of the SmartRedis client: what it asks of its server              *)
(* (RedisServer), under which keys, and what it makes of the replies.          *)
(***************************************************************************)
EXTENDS Programs, Datasets

redis_server == INSTANCE RedisServer

(***************************************************************************)
(* The types that can be read, by what is done with the replies.              *)
(***************************************************************************)
Reads ==
  [store |-> GetTensorCommand, view |-> GetTensorCommand, unpack |-> GetTensorCommand,
   tensors |-> GetTensorCommand, member_datasets |-> GetTensorCommand,
   bytes |-> Str, script |-> Str, text |-> Str, blob |-> Str \cup {"pieces"},
   dataset |-> Elements("fields"), copy_dataset |-> Elements("fields"),
   delete_dataset |-> Elements("fields"), member_tensors |-> Elements("fields"),
   members |-> Elements("items"), copy_list |-> Elements("items"),
   info |-> Elements("info"), config |-> Elements("config"),
   there |-> Integer, number |-> Integer, poll |-> Integer, chunk |-> Integer]

(***************************************************************************)
(* Tensors and strings.                                                      *)
(***************************************************************************)
Layout(call) == IF "layout" \in DOMAIN call THEN call.layout ELSE "contiguous"
StoreTensor(cl, call) ==
  redis_server!PutTensor(cl, KeyOut(cl, "tensor", call.name), NewTensor(call.data, Layout(call)))
GetTensorAs(cl, call) ==
  redis_server!GetTensor(cl, KeyIn(cl, "tensor", call.name)) \o Then("view", Layout(call))
Viewed(layout, got) == Return(View(got[1].value, layout))

\* The number of elements is compared before the types are.
UnpackTensorInto(cl, call) ==
  redis_server!GetTensor(cl, KeyIn(cl, "tensor", call.name)) \o Then("unpack", call)
FitsMemory(tensor, dims, layout) ==
  /\ layout = "contiguous" => Len(dims) = 1 /\ Length(tensor) = dims[1]
  /\ layout = "nested" => dims = tensor.dims
Unpack(call, got) ==
  LET tensor == got[1].value  want == call.data IN
  IF /\ FitsMemory(tensor, want.dims, call.layout) /\ tensor.dtype = want.dtype
     /\ CanFill(tensor, want.dims)
  THEN Return([want EXCEPT !.data = FillMemSpace(tensor, want.dims, call.layout)])
  ELSE Throw("Runtime")

GetBytesOf(cl, call) ==
  redis_server!GetBytes(cl, KeyIn(cl, "bytes", call.name)) \o Then("bytes", call)
TakeBytes(call, got) ==
  LET found == got[1].value IN
  IF "room" \in DOMAIN call /\ call.room < Len(found) THEN Throw("Runtime") ELSE Return(found)

(***************************************************************************)
(* Datasets: a hash with the names of the tensors, the tensors, and a field   *)
(* of the hash that says that all of it has been stored.                      *)
(***************************************************************************)
(* Mutant of MetaCommands: the hash of the earlier dataset is not deleted.        *)
MetaCommandsOver(cl, key, fields) == << Cmd(cl, "HSET", Meta(key), fields) >>

MetaCommands(cl, key, fields) ==
  << Cmd(cl, "DEL", Meta(key), {}), Cmd(cl, "HSET", Meta(key), fields) >>
AckField == ".COMPLETE"
AckCommand(cl, key) == Cmd(cl, "HSET", Meta(key), AckField :> <<"1">>)
TensorCommands(cl, key, tensors) ==
  [i \in DOMAIN tensors |-> Cmd(cl, "TENSORSET", Under(key, tensors[i].name), tensors[i].data)]

(* Mutant of PutDataset: the field that says that all is there is set first.     *)
PutDatasetAckFirst(cl, dataset) ==
  LET key == DatasetOut(cl, dataset.name) IN
  Pipeline(MetaCommands(cl, key, SerializationMap(dataset)) \o <<AckCommand(cl, key)>>
           \o TensorCommands(cl, key, dataset.tensors))

PutDataset(cl, dataset) ==
  LET key == DatasetOut(cl, dataset.name) IN
  Pipeline(MetaCommands(cl, key, SerializationMap(dataset)) \o TensorCommands(cl, key, dataset.tensors)
           \o <<AckCommand(cl, key)>>)

\* _unpack_dataset_metadata; an absent hash has no fields, and no names.
Unpacked(name, fields) ==
  FoldSet(LAMBDA f, d : AddSerializedField(d, f, fields[f]), DataSet(name), DOMAIN fields \ {AckField})
NamesOf(dataset) == GetTensorNames(dataset).value
NamesAreStrings(dataset) == GetTensorNames(dataset).ok
\* _add_dataset_tensor, for each name in turn
WithTensors(dataset, data) ==
  LET names == NamesOf(dataset) IN
  FoldLeft(LAMBDA d, i : AddToTensorpack(d, names[i], data[i]), dataset, [i \in DOMAIN names |-> i])
GetMeta(cl, key) == One(cl, "HGETALL", Meta(key), {})

GetDataset(cl, name) ==
  GetMeta(cl, DatasetIn(cl, name)) \o Then("dataset", [name |-> name, key |-> DatasetIn(cl, name)])
FetchTensors(cl, with, got) ==
  LET dataset == Unpacked(with.name, got[1].value)  names == NamesOf(dataset) IN
  IF got[1].value = << >> THEN Throw("Key")
  ELSE IF ~NamesAreStrings(dataset) THEN Throw("Runtime")
  ELSE IF names = << >> THEN Return(dataset)
  ELSE GoOn(redis_server!GetTensors(cl, Parts(with.key, names)) \o Then("tensors", dataset))
AddTensors(dataset, got) ==
  IF IsInjective(NamesOf(dataset))
  THEN Return(WithTensors(dataset, [i \in DOMAIN got |-> got[i].value])) ELSE Throw("Runtime")

CopyDataset(cl, name, to) ==
  GetMeta(cl, DatasetIn(cl, name))
  \o Then("copy_dataset", [name |-> name, from |-> DatasetIn(cl, name), to |-> DatasetOut(cl, to)])
CopyTensors(cl, with, got) ==
  LET dataset == Unpacked(with.name, got[1].value)  names == NamesOf(dataset) IN
  IF got[1].value = << >> THEN Throw("Key")
  ELSE IF ~NamesAreStrings(dataset) THEN Throw("Runtime")
  ELSE GoOn(redis_server!CopyTensors(cl, Parts(with.from, names), Parts(with.to, names))
            \o Pipeline(MetaCommands(cl, with.to, SerializationMap(dataset))
                        \o <<AckCommand(cl, with.to)>>))

DeleteDataset(cl, name) ==
  GetMeta(cl, DatasetIn(cl, name))
  \o Then("delete_dataset", [name |-> name, key |-> DatasetIn(cl, name)])
DeleteParts(cl, with, got) ==
  LET dataset == Unpacked(with.name, got[1].value) IN
  IF got[1].value = << >> \/ ~NamesAreStrings(dataset) THEN Throw("Runtime")
  ELSE GoOn(One(cl, "DEL", Meta(with.key), ToSet(Parts(with.key, NamesOf(dataset)))))

(* Mutant of RenameDataset: the dataset is deleted before it is copied.           *)
RenameDatasetDeleted(cl, name, to) == DeleteDataset(cl, name) \o CopyDataset(cl, name, to)

RenameDataset(cl, name, to) == CopyDataset(cl, name, to) \o DeleteDataset(cl, name)

(***************************************************************************)
(* Aggregation lists hold the keys of datasets.                              *)
(***************************************************************************)
AllOfList == <<0, -1>>
CopyList(cl, name, to) ==
  IF name = to THEN << >>
  ELSE One(cl, "LRANGE", KeyIn(cl, "list", name), AllOfList)
       \o Then("copy_list", [old |-> KeyIn(cl, "list", to), to |-> KeyOut(cl, "list", to)])
PushCopies(cl, with, got) ==
  IF got[1].value = << >> THEN Throw("Runtime")
  ELSE GoOn(One(cl, "DEL", with.old, {}) \o One(cl, "RPUSH", with.to, got[1].value))
DeleteList(cl, name) == One(cl, "DEL", KeyIn(cl, "list", name), {})
RenameList(cl, name, to) ==
  IF name = to THEN << >> ELSE CopyList(cl, name, to) \o DeleteList(cl, name)

AppendToList(cl, call) == One(cl, "RPUSH", KeyOut(cl, "list", call.name), <<DatasetOut(cl, call.dataset)>>)
GetList(cl, name, range) ==
  One(cl, "LRANGE", KeyIn(cl, "list", name), range) \o Then("members", {})
GetDatasetListRange(cl, call) == GetList(cl, call.name, call.range)
FetchMembers(cl, got) ==
  LET items == got[1].value IN
  IF items = << >> THEN Return(<< >>)
  ELSE GoOn(Together(cl, [i \in DOMAIN items |-> Cmd(cl, "HGETALL", Meta(items[i]), {})])
            \o Then("member_tensors", items))
\* The name of a dataset is what stands in the braces of its key.
NameFromListEntry(key) == key.tag[1]
FetchMemberTensors(cl, items, got) ==
  LET datasets == [i \in DOMAIN got |-> Unpacked(NameFromListEntry(items[i]), got[i].value)]
      cmds == FlattenSeq([i \in DOMAIN got |->
                LET names == NamesOf(datasets[i]) IN
                [j \in DOMAIN names |-> Cmd(cl, "TENSORGET", Under(items[i], names[j]), {})]])
  IN IF \E i \in DOMAIN datasets : ~NamesAreStrings(datasets[i]) THEN Throw("Runtime")
     ELSE IF cmds = << >> THEN Return(datasets)
     ELSE GoOn(Together(cl, cmds) \o Then("member_datasets", datasets))
(* Mutant of AddMemberTensors: the index of the replies starts anew with each      *)
(* dataset.                                                                    *)
AddMemberTensorsAnew(datasets, got) ==
  Return([i \in DOMAIN datasets |->
    WithTensors(datasets[i], [j \in DOMAIN NamesOf(datasets[i]) |-> got[j].value])])

\* tensor_reply_index runs through the replies of all the datasets.
AddMemberTensors(datasets, got) ==
  LET before(i) == FoldLeft(LAMBDA n, d : n + Len(NamesOf(d)), 0, SubSeq(datasets, 1, i - 1))
  IN IF \E i \in DOMAIN datasets : ~IsInjective(NamesOf(datasets[i])) THEN Throw("Runtime")
     ELSE Return([i \in DOMAIN datasets |->
            WithTensors(datasets[i], [j \in DOMAIN NamesOf(datasets[i]) |-> got[before(i) + j].value])])

(***************************************************************************)
(* Models and scripts.                                                       *)
(***************************************************************************)
SetModel(cl, call) ==
  redis_server!GetModelChunkSize(cl)
  \o redis_server!SetModel(cl, KeyOut(cl, "model", call.name), call.def)
SetModelMultigpu(cl, call) ==
  redis_server!GetModelChunkSize(cl)
  \o redis_server!SetModelMultigpu(cl, KeyOut(cl, "model", call.name), call.def, call.first, call.gpus)
\* The pieces of a model are all copied to the start of the buffer.
GetModel(cl, name) == redis_server!GetModel(cl, KeyIn(cl, "model", name)) \o Then("blob", {})
JoinPieces(got) ==
  CASE got[1].type = "pieces" -> Return("garbled")
    [] got[1].type = "string" ->
         Return(IF "pieces" \in DOMAIN got[1].value THEN got[1].value.blob ELSE got[1].value)

GetScript(cl, name) == redis_server!GetScript(cl, KeyIn(cl, "model", name)) \o Then("script", {})

ModelOps == {"set_model", "set_model_multigpu", "get_model", "delete_model",
             "delete_model_multigpu", "run_model", "run_model_multigpu"}
ScriptOps == {"set_script", "set_script_multigpu", "get_script", "delete_script",
              "delete_script_multigpu", "run_script", "run_script_multigpu"}
Inputs(cl, call) == [i \in DOMAIN call.ins |-> KeyIn(cl, "tensor", call.ins[i])]
Outputs(cl, call) == [i \in DOMAIN call.outs |-> KeyOut(cl, "tensor", call.outs[i])]
RunModelMultigpu(cl, call) ==
  redis_server!RunModelMultigpu(cl, KeyIn(cl, "model", call.name), Inputs(cl, call), Outputs(cl, call),
                                call.offset, call.first, call.gpus)
RunScriptMultigpu(cl, call) ==
  redis_server!RunScriptMultigpu(cl, KeyIn(cl, "model", call.name), call.fn, Inputs(cl, call),
                                 Outputs(cl, call), call.offset, call.first, call.gpus)
ModelCalls(cl, call) ==
  LET in == KeyIn(cl, "model", call.name) IN
  CASE call.op = "set_model" -> SetModel(cl, call)
    [] call.op = "set_model_multigpu" -> SetModelMultigpu(cl, call)
    [] call.op = "get_model" -> GetModel(cl, call.name)
    [] call.op = "delete_model" -> redis_server!DeleteModel(cl, in)
    [] call.op = "delete_model_multigpu" ->
         redis_server!DeleteModelMultigpu(cl, in, call.first, call.gpus)
    [] call.op = "run_model" -> redis_server!RunModel(cl, in, Inputs(cl, call), Outputs(cl, call))
    [] call.op = "run_model_multigpu" -> RunModelMultigpu(cl, call)
ScriptCalls(cl, call) ==
  LET in == KeyIn(cl, "model", call.name)  out == KeyOut(cl, "model", call.name) IN
  CASE call.op = "set_script" -> redis_server!SetScript(cl, out, call.def)
    [] call.op = "set_script_multigpu" ->
         redis_server!SetScriptMultigpu(cl, out, call.def, call.first, call.gpus)
    [] call.op = "get_script" -> GetScript(cl, call.name)
    [] call.op = "delete_script" -> redis_server!DeleteScript(cl, in)
    [] call.op = "delete_script_multigpu" ->
         redis_server!DeleteScriptMultigpu(cl, in, call.first, call.gpus)
    [] call.op = "run_script" ->
         redis_server!RunScript(cl, in, call.fn, Inputs(cl, call), Outputs(cl, call))
    [] call.op = "run_script_multigpu" -> RunScriptMultigpu(cl, call)

(***************************************************************************)
(* Polls ask a number of times at most.                                      *)
(***************************************************************************)
Poll(question, tries, holds) ==
  question \o Then("poll", [question |-> question, tries |-> tries, holds |-> holds])
Holds(value, holds) ==
  CASE holds.is = "there" -> value # 0
    [] holds.is = "equal" -> value = holds.than
    [] holds.is = "gte" -> value >= holds.than
    [] holds.is = "lte" -> value <= holds.than
AskAgain(with, got) ==
  IF Holds(got[1].value, with.holds) THEN Return(TRUE)
  ELSE IF with.tries = 1 THEN Return(FALSE)
  ELSE GoOn(Poll(with.question, with.tries - 1, with.holds))
There == [is |-> "there"]

GetListLength(cl, name) == One(cl, "LLEN", KeyIn(cl, "list", name), {})
(* Mutant of Probe: datasets are looked for by a field that they do not have.      *)
ProbeMisnamed(cl, what, name) ==
  CASE what = "key" -> redis_server!KeyExists(cl, Plain(<< >>, name))
    [] what \in {"tensor", "bytes"} -> redis_server!KeyExists(cl, KeyIn(cl, what, name))
    [] what = "model" -> redis_server!ModelKeyExists(cl, KeyIn(cl, "model", name))
    [] what = "dataset" -> redis_server!HashFieldExists(cl, Meta(DatasetIn(cl, name)), "ack")
    [] what = "list" -> GetListLength(cl, name)

Probe(cl, what, name) ==
  CASE what = "key" -> redis_server!KeyExists(cl, Plain(<< >>, name))
    [] what \in {"tensor", "bytes"} -> redis_server!KeyExists(cl, KeyIn(cl, what, name))
    [] what = "model" -> redis_server!ModelKeyExists(cl, KeyIn(cl, "model", name))
    [] what = "dataset" -> redis_server!HashFieldExists(cl, Meta(DatasetIn(cl, name)), AckField)
    [] what = "list" -> GetListLength(cl, name)

SetChunk(cl, size) == redis_server!AddressAny(cl, "AI.CONFIG", size)

(***************************************************************************)
(* Calls to the shard at an address.  The answer to a reset of statistics is    *)
(* no array, and cannot be read.  A Python program names several addresses,     *)
(* which are asked one after the other.                                       *)
(***************************************************************************)
AddressOps == {"get_db_node_info", "get_db_cluster_info", "get_ai_info", "flush_db", "config_get",
               "config_set", "save"}
AskAt(cl, s, call) ==
  CASE call.op = "get_db_node_info" -> redis_server!AddressAt(cl, s, "INFO EVERYTHING", {})
    [] call.op = "get_db_cluster_info" -> redis_server!AddressAt(cl, s, "CLUSTER INFO", {})
    [] call.op = "get_ai_info" ->
         redis_server!GetModelScriptAiInfo(cl, s, Plain(<< >>, call.name), call.reset)
    [] call.op = "flush_db" -> redis_server!AddressAt(cl, s, "FLUSHDB", {})
    [] call.op = "config_get" -> redis_server!AddressAt(cl, s, "CONFIG GET", call.param)
    [] call.op = "config_set" -> redis_server!AddressAt(cl, s, "CONFIG SET", <<call.param, call.value>>)
    [] call.op = "save" -> redis_server!AddressAt(cl, s, "SAVE", {})
ReadAs == [get_db_node_info |-> "text", get_db_cluster_info |-> "text", get_ai_info |-> "info",
           config_get |-> "config"]
AddressRefusal(cl, call) ==
  IF \/ ~redis_server!IsAddressable(cl, call.at)
     \/ call.op = "get_db_cluster_info" /\ ~cl.cluster
  THEN "Runtime" ELSE "none"
AtAddress(cl, call) ==
  AskAt(cl, call.at, call)
  \o (IF call.op \in DOMAIN ReadAs THEN Then(ReadAs[call.op], {}) ELSE << >>)
AtEachAddress(cl, call, found) ==
  AskAt(cl, call.addresses[Len(found) + 1], call) \o Then("answers", [call |-> call, found |-> found])
TakeAnswer(cl, with, got) ==
  LET call == with.call  found == Append(with.found, got[1].value)  n == Len(found) IN
  IF call.op \in DOMAIN ReadAs /\ ~Readable(got, Reads[ReadAs[call.op]]) THEN Throw("Runtime")
  ELSE IF n = Len(call.addresses) THEN Return(IF call.op \in DOMAIN ReadAs THEN found ELSE Nothing)
  ELSE IF AddressRefusal(cl, [call EXCEPT !.at = call.addresses[n + 1]]) # "none" THEN Throw("Runtime")
  ELSE GoOn(AtEachAddress(cl, call, found))

(***************************************************************************)
(* Models and scripts from files.  A file that cannot be read is an empty one;  *)
(* only the name of a model's file must not be empty.                         *)
(***************************************************************************)
FromFile == [set_model_from_file |-> "set_model", set_script_from_file |-> "set_script",
             set_model_from_file_multigpu |-> "set_model_multigpu",
             set_script_from_file_multigpu |-> "set_script_multigpu"]
NoBlob == [name |-> "", of |-> << >>]
IsModelFile(call) == call.op \in {"set_model_from_file", "set_model_from_file_multigpu"}
ReadFile(call) ==
  IF call.file = "there" THEN call.def
  ELSE IF IsModelFile(call) THEN [call.def EXCEPT !.blob = NoBlob, !.size = 0]
  ELSE [call.def EXCEPT !.blob = NoBlob]
SetFromFile(call) ==
  IF IsModelFile(call) /\ call.file = "" THEN call
  ELSE [call EXCEPT !.op = FromFile[call.op], !.def = ReadFile(call)]

(***************************************************************************)
(* The exception with which a call refuses its arguments before it sends       *)
(* anything, if any.                                                         *)
(***************************************************************************)
BatchSettingsValid(def) ==
  /\ def.batchsize = 0 => def.minbatchsize = 0 /\ def.minbatchtimeout = 0
  /\ def.minbatchtimeout > 0 => def.minbatchsize > 0
DeviceValid(device) == device \in {"CPU", "GPU"} \cup ToSet(redis_server!GpuName)
GpusValid(call) == call.first >= 0 /\ call.gpus >= 1
ModelNamed(call) ==
  /\ call.name # "" /\ call.def.backend \in {"TF", "TFLITE", "TORCH", "ONNX", "JAX"}
  /\ call.def.backend # "TF" => call.def.inputs = << >> /\ call.def.outputs = << >>
ModelRefusal(call) ==
  IF ~ModelNamed(call) \/ call.def.device = "" THEN "Parameter"
  ELSE IF ~DeviceValid(call.def.device) \/ ~BatchSettingsValid(call.def) THEN "Runtime" ELSE "none"
ModelMultigpuRefusal(call) ==
  IF ~ModelNamed(call) \/ ~GpusValid(call) THEN "Parameter"
  ELSE IF ~BatchSettingsValid(call.def) THEN "Runtime" ELSE "none"
ScriptRefusal(call) ==
  IF call.def.device = "" THEN "Parameter"
  ELSE IF ~DeviceValid(call.def.device) THEN "Runtime" ELSE "none"
GpusRefusal(call) == IF GpusValid(call) THEN "none" ELSE "Parameter"
ListRefusal(call) ==
  IF call.name = "" \/ ("to" \in DOMAIN call /\ call.to = "") THEN "Parameter" ELSE "none"
PollRefusal(call) ==
  IF call.what = "list" /\ call.holds.than < 0 THEN "Parameter" ELSE "none"
Refusal(cl, call) ==
  CASE call.op = "set_model" -> ModelRefusal(call)
    [] call.op = "set_model_multigpu" -> ModelMultigpuRefusal(call)
    [] call.op = "set_script" -> ScriptRefusal(call)
    [] call.op \in {"set_script_multigpu", "run_model_multigpu", "run_script_multigpu",
                    "delete_model_multigpu", "delete_script_multigpu"} -> GpusRefusal(call)
    [] call.op \in {"copy_list", "rename_list", "get_datasets_from_list",
                    "get_dataset_list_range"} -> ListRefusal(call)
    [] call.op = "poll" -> PollRefusal(call)
    [] call.op = "put_tensor" ->
         IF CheckInputs(call.name, call.data.dims) THEN "none" ELSE "Runtime"
    [] call.op = "unpack_tensor" ->
         IF call.layout = "contiguous" /\ Len(call.data.dims) > 1 THEN "Runtime" ELSE "none"
    [] call.op = "put_dataset" -> IF call.dataset.meta = << >> THEN "Runtime" ELSE "none"
    [] call.op = "set_data_source" ->
         IF call.source \in ToSet(cl.sources) THEN "none" ELSE "Runtime"
    [] call.op \in DOMAIN FromFile -> "Parameter"
    [] call.op \in AddressOps -> AddressRefusal(cl, call)
    [] OTHER -> "none"

(***************************************************************************)
(* The program of each call, and what follows the replies.                   *)
(***************************************************************************)
Program(cl, call) ==
  CASE call.op = "put_tensor" -> StoreTensor(cl, call)
    [] call.op = "get_tensor" -> GetTensorAs(cl, call)
    [] call.op = "unpack_tensor" -> UnpackTensorInto(cl, call)
    [] call.op = "delete_tensor" -> redis_server!DeleteTensor(cl, KeyIn(cl, "tensor", call.name))
    [] call.op = "copy_tensor" ->
         redis_server!CopyTensor(cl, KeyIn(cl, "tensor", call.name), KeyOut(cl, "tensor", call.to))
    [] call.op = "rename_tensor" ->
         redis_server!RenameTensor(cl, KeyIn(cl, "tensor", call.name), KeyOut(cl, "tensor", call.to))
    [] call.op = "put_bytes" -> redis_server!PutBytes(cl, KeyOut(cl, "bytes", call.name), call.data)
    [] call.op = "get_bytes" -> GetBytesOf(cl, call)
    [] call.op = "delete_bytes" -> redis_server!DeleteBytes(cl, KeyIn(cl, "bytes", call.name))
    [] call.op = "put_dataset" -> PutDataset(cl, call.dataset)
    [] call.op = "get_dataset" -> GetDataset(cl, call.name)
    [] call.op = "copy_dataset" -> CopyDataset(cl, call.name, call.to)
    [] call.op = "rename_dataset" -> RenameDataset(cl, call.name, call.to)
    [] call.op = "delete_dataset" -> DeleteDataset(cl, call.name)
    [] call.op = "append_to_list" -> AppendToList(cl, call)
    [] call.op = "copy_list" -> CopyList(cl, call.name, call.to)
    [] call.op = "rename_list" -> RenameList(cl, call.name, call.to)
    [] call.op = "delete_list" -> DeleteList(cl, call.name)
    [] call.op = "get_list_length" -> GetListLength(cl, call.name) \o Then("number", {})
    [] call.op = "get_datasets_from_list" -> GetList(cl, call.name, AllOfList)
    [] call.op = "get_dataset_list_range" -> GetDatasetListRange(cl, call)
    [] call.op \in ModelOps -> ModelCalls(cl, call)
    [] call.op \in ScriptOps -> ScriptCalls(cl, call)
    [] call.op = "exists" -> Probe(cl, call.what, call.name) \o Then("there", {})
    [] call.op = "poll" -> Poll(Probe(cl, call.what, call.name), call.tries, call.holds)
    [] call.op \in AddressOps -> AtAddress(cl, call)
    [] call.op = "set_model_chunk_size" -> SetChunk(cl, call.size)

Follow(cl, instruction, got) ==
  LET what == instruction.what  with == instruction.with IN
  IF what \in DOMAIN Reads /\ ~Readable(got, Reads[what]) THEN Throw("Runtime") ELSE
  CASE what = "store" -> redis_server!StoreFetched(cl, with, got)
    [] what = "view" -> Viewed(with, got)
    [] what = "unpack" -> Unpack(with, got)
    [] what = "bytes" -> TakeBytes(with, got)
    [] what = "dataset" -> FetchTensors(cl, with, got)
    [] what = "tensors" -> AddTensors(with, got)
    [] what = "copy_dataset" -> CopyTensors(cl, with, got)
    [] what = "delete_dataset" -> DeleteParts(cl, with, got)
    [] what = "copy_list" -> PushCopies(cl, with, got)
    [] what = "members" -> FetchMembers(cl, got)
    [] what = "member_tensors" -> FetchMemberTensors(cl, with, got)
    [] what = "member_datasets" -> AddMemberTensors(with, got)
    [] what = "blob" -> JoinPieces(got)
    [] what = "poll" -> AskAgain(with, got)
    [] what = "connected" -> Return(with)
    [] what = "there" -> Return(got[1].value # 0)
    [] what = "chunk" -> redis_server!TakeChunkSize(got)
    [] what = "answers" -> TakeAnswer(cl, with, got)
    [] what \in {"number", "script", "text", "info", "config"} -> Return(got[1].value)
=============================================================================
