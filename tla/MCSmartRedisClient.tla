------------------------- MODULE MCSmartRedisClient --------------------------
(***************************************************************************)
(* Small instances of SmartRedisClient: three clients at most, one shard   *)
(* or two.                                                                   *)
(***************************************************************************)
EXTENDS SmartRedisClient, TLC

CONSTANTS c1, c2, c3

\* The shard of a hash tag: that of a shard's own prefix is the shard itself.
FirstTags == {<<"s1">>, <<"d">>, <<"x">>, <<"in">>, <<"y">>, <<"L">>}
HomeOf(tag) == IF tag \in FirstTags THEN "s1" ELSE "s2"
OrderOfSlots == <<"s1", "s2">>
AsReported == <<"s2", "s1">>

(***************************************************************************)
(* Hosts: one with all the libraries and CUDA, one without CUDA whose library of *)
(* ONNX has no function for timeouts.                                         *)
(***************************************************************************)
ExportsOf(host, backend) ==
  IF host = "all" \/ backend # "ONNX" THEN Needed[backend]
  ELSE Needed[backend] \ {"RAI_EnforceTimeoutORT"}
CudaOf(host) == host = "all"

(***************************************************************************)
(* Artifacts: most take one tensor of floats and make one; "two" takes and makes *)
(* two, "sum" makes one row of all; a script defines f.                        *)
(***************************************************************************)
Usual == [valid |-> TRUE, ins |-> 1, outs |-> 1, placeholders |-> {"i", "j"}, nodes |-> {"o", "p"},
          dtype |-> "FLOAT", rows |-> "each",
          functions |-> [f |-> [args |-> <<"tensor">>, returns |-> 1],
                         entry |-> [args |-> EntryPointArgs, returns |-> 1]]]
ArtifactOf(blob) ==
  CASE blob.name = "two" -> [Usual EXCEPT !.ins = 2, !.outs = 2]
    [] blob.name = "sum" -> [Usual EXCEPT !.rows = "one"]
    [] blob.name = "none" -> [Usual EXCEPT !.valid = FALSE]
    [] blob = NoBlob -> [Usual EXCEPT !.functions = << >>]
    [] OTHER -> Usual

(***************************************************************************)
(* Data and calls.                                                          *)
(***************************************************************************)
TwoTensors(v) == << [name |-> "t", data |-> Floats(<<v, "t">>)], [name |-> "u", data |-> Floats(<<v, "u">>)] >>
Whole(name, v) == DataSetOf(name, "note", <<v>>, TwoTensors(v))
Blob(name) == [name |-> name, of |-> << >>]
Def(b) == [backend |-> "TORCH", device |-> "CPU", tag |-> "v", batchsize |-> 2, minbatchsize |-> 1,
           minbatchtimeout |-> 1, inputs |-> << >>, outputs |-> << >>, blob |-> Blob(b), size |-> 3]
TFDef(b) == [Def(b) EXCEPT !.backend = "TF", !.inputs = <<"i">>, !.outputs = <<"o">>]
ScriptDef(b) == [device |-> "CPU", tag |-> "", blob |-> Blob(b), entryPoints |-> << >>]

On(op, name) == [op |-> op, name |-> name]
Move(op, name, to) == [op |-> op, name |-> name, to |-> to]
SetTo(op, name, data) == [op |-> op, name |-> name, data |-> Floats(<< <<data>> >>)]
SetBytes(name, v) == [op |-> "put_bytes", name |-> name, data |-> <<v>>]
PutD(name, v) == [op |-> "put_dataset", dataset |-> Whole(name, v)]
Add(list, dataset) == [op |-> "append_to_list", name |-> list, dataset |-> dataset]
Set(op, name, def) == [op |-> op, name |-> name, def |-> def]
RunOf(op, name, ins, outs) == [op |-> op, name |-> name, fn |-> "f", ins |-> ins, outs |-> outs]
RunOp(op, ins, outs) == RunOf(op, "m", ins, outs)
Ask(what, name) == [op |-> "exists", what |-> what, name |-> name]
Await(what, name) ==
  [op |-> "poll", what |-> what, name |-> name, tries |-> 2, holds |-> [is |-> "there"]]
AwaitLength(is, n) ==
  [op |-> "poll", what |-> "list", name |-> "L", tries |-> 2, holds |-> [is |-> is, than |-> n]]
AtShard(op, s) == [op |-> op, at |-> s]
Prefix(kind, on) == [op |-> "use_ensemble_prefix", kind |-> kind, on |-> on]
Source(p) == [op |-> "set_data_source", source |-> <<p>>]
Multi(op, first, gpus) == [op |-> op, name |-> "m", first |-> first, gpus |-> gpus]
Chunk(size) == [op |-> "set_model_chunk_size", size |-> size]
InfoOf(s, name, reset) == [op |-> "get_ai_info", at |-> s, name |-> name, reset |-> reset]

Third(a, b, c) == (c1 :> a) @@ (c2 :> b) @@ (c3 :> c)
Calls(a, b) == Third(a, b, << >>)
None == Calls(<< >>, << >>)
Of(a, b) == [calls |-> Calls(a, b), lang |-> Third("c++", "c++", "c++"), env |-> None, ranks |-> {},
             put |-> None, sources |-> None, cluster |-> FALSE, host |-> "all",
             aof |-> FALSE, preamble |-> FALSE, losses |-> 0, crashes |-> 0, rewrites |-> 0,
             older |-> [version |-> 3, next |-> 1, objects |-> << >>]]
InCluster(s) == [s EXCEPT !.cluster = TRUE]
Losing(s) == [s EXCEPT !.losses = 1]
Crashing(s) == [s EXCEPT !.aof = TRUE, !.crashes = 1, !.rewrites = 1]
Preamble(s) == [s EXCEPT !.preamble = TRUE]

(***************************************************************************)
(* The scenarios.                                                           *)
(***************************************************************************)
\* A dataset is read by its old and its new name while it is renamed.
RenameD == Of(<<PutD("d", "1"), Move("rename_dataset", "d", "e")>>,
              <<Await("dataset", "d"), On("get_dataset", "d"), On("get_dataset", "e")>>)
\* A copy is deleted by another client, and the original put again, maybe while it is copied.
AgainD == Of(<<PutD("d", "1"), Move("copy_dataset", "d", "e"), PutD("d", "2")>>,
             <<Await("dataset", "d"), Await("dataset", "e"), On("delete_dataset", "e")>>)
\* The reply to the copy is lost: the copy is made twice while it is read.
TwiceD == Of(<<PutD("d", "1"), Move("copy_dataset", "d", "e"), PutD("d", "2")>>,
             <<Await("dataset", "e"), On("get_dataset", "e")>>)
\* A list is read by its old and its new name, and a member is deleted.
Lists == Of(<<PutD("d", "1"), Add("L", "d"), Move("rename_list", "L", "K"), On("delete_dataset", "d")>>,
            <<AwaitLength("gte", 1), On("get_datasets_from_list", "L"), On("get_datasets_from_list", "K")>>)
\* Two members on different shards; the list is copied and deleted meanwhile.
TwoMembers == Of(<<PutD("d", "1"), PutD("e", "2"), Add("L", "d"), Add("L", "e"),
                   Move("copy_list", "L", "K"), On("delete_list", "L"), On("get_list_length", "K")>>,
                 <<AwaitLength("equal", 2), On("get_datasets_from_list", "L"), AwaitLength("lte", 0)>>)
\* An ensemble: what one member puts with its prefix the other reads with it.
Ensemble == [Of(<<PutD("d", "1"), Add("L", "d"), SetTo("put_tensor", "x", "1"), SetBytes("b", "1"),
                  Move("copy_dataset", "d", "e")>>,
                <<Source("p"), Await("dataset", "d"), On("get_dataset", "d"), On("get_datasets_from_list", "L"),
                  Await("tensor", "x"), Move("copy_tensor", "x", "y"), Prefix("tensor", FALSE),
                  Soft(Move("copy_tensor", "x", "z")), Source("q")>>)
             EXCEPT !.put = Calls(<<"p">>, << >>), !.sources = Calls(<<<<"p">>>>, <<<<"o">>, <<"p">>>>)]
DatasetScenarios == { RenameD, Losing(InCluster(RenameD)), AgainD, Losing(TwiceD), Lists,
                      Losing(InCluster(Lists)), InCluster(TwoMembers), Ensemble }

\* The tensor is on the other shard after it was renamed.
Room(name, n) == [op |-> "get_bytes", name |-> name, room |-> n]
RenameT == Of(<<SetTo("put_tensor", "x", "1"), Move("rename_tensor", "x", "z"), On("get_tensor", "z"),
                Move("rename_tensor", "z", "z")>>,
              <<Await("tensor", "z"), Move("copy_tensor", "z", "y"), On("delete_tensor", "y"), Ask("key", "y")>>)
BytesToo == Of(<<SetBytes("b", "1"), On("get_bytes", "b"), On("delete_bytes", "b"), Soft(On("get_bytes", "b"))>>,
               <<Await("bytes", "b"), SetBytes("b", "2"), Ask("bytes", "b"), Soft(Room("b", 0)), Room("b", 1)>>)
(***************************************************************************)
(* Arrays of two rows of three, in each layout, as tensors and in a dataset.    *)
(***************************************************************************)
Dims == <<2, 3>>
ByRows == << <<1, 2, 3>>, <<4, 5, 6>> >>
Memory(layout) ==
  TensorNew("INT32", Dims,
            CASE layout = "nested" -> ByRows
              [] layout = "contiguous" -> ByRows[1] \o ByRows[2]
              [] layout = "fortran" -> <<1, 4, 2, 5, 3, 6>>)
Into(layout, dims) == [op |-> "unpack_tensor", name |-> "x", layout |-> layout,
                       data |-> TensorNew("INT32", dims, << >>)]
Array2(op, name, layout) == [op |-> op, name |-> name, layout |-> layout]
PutArray(layout) == [op |-> "put_tensor", name |-> "x", layout |-> layout, data |-> Memory(layout)]
Arrays(layout) ==
  Of(<<PutArray(layout), Array2("get_tensor", "x", "nested"), Array2("get_tensor", "x", "fortran"),
       Array2("get_tensor", "x", "contiguous")>>,
     <<Await("tensor", "x"), Into("nested", Dims), Soft(Into("nested", <<3, 2>>)), Into("fortran", Dims),
       Soft(Into("contiguous", Dims)), Soft(Into("contiguous", <<5>>)), Soft(Into("fortran", <<5>>)),
       Soft([Into("contiguous", <<6>>) EXCEPT !.data.dtype = "INT8"]), Into("contiguous", <<6>>)>>)
Do(object, method, name) == [op |-> "method", on |-> object, do |-> method, name |-> name]
AddArray(object, name, layout) ==
  Do(object, "add_tensor", name) @@ [layout |-> layout, data |-> Memory(layout)]
GetArray(object, name, layout) == Do(object, "get_tensor", name) @@ [layout |-> layout]
FillArray(object, name, layout, dtype, dims) ==
  Do(object, "unpack_tensor", name) @@ [layout |-> layout, data |-> TensorNew(dtype, dims, << >>)]
AddScalar(object, name, value, type) ==
  Do(object, "add_meta_scalar", name) @@ [value |-> value, type |-> type]
AddString(object, name, value) == Do(object, "add_meta_string", name) @@ [value |-> value]
PutObject(object) == [op |-> "put_dataset", on |-> object]
\* A dataset is built by its methods, put, changed and put again while another reads it.
Objects ==
  Of(<<Soft(PutObject("d")), AddArray("d", "t", "nested"), AddArray("d", "u", "fortran"),
       Soft(AddArray("d", "t", "contiguous")), Soft(AddArray("d", ".meta", "contiguous")),
       AddScalar("d", "n", 1, "int32"), AddScalar("d", "n", 2, "int32"), Soft(AddScalar("d", "n", 3, "float")),
       AddString("d", "s", "a"), Soft(AddString("d", "n", "b")), Soft(AddScalar("d", "e", "a", "string")),
       PutObject("d"), Do("d", "clear_field", "s"), Do("d", "copy", ""), PutObject("d")>>,
     <<Await("dataset", "d"), Keep(On("get_dataset", "d"), "g"),
       GetArray("g", "t", "fortran"), GetArray("g", "t", "contiguous"), Soft(GetArray("g", "v", "nested")),
       FillArray("g", "u", "nested", "INT32", Dims), Soft(FillArray("g", "u", "nested", "FLOAT", Dims)),
       Soft(FillArray("g", "u", "fortran", "INT32", <<2, 2>>)), FillArray("g", "u", "fortran", "INT32", Dims),
       Do("g", "get_meta_scalars", "n"), Soft(Do("g", "get_meta_scalars", "s")),
       Soft(Do("g", "get_meta_strings", "s")), Do("g", "has_field", "s"), Do("g", "get_tensor_names", ""),
       Do("g", "get_tensor_type", "t"), Soft(Do("g", "get_tensor_dims", "v")),
       Do("g", "get_metadata_field_names", ""), Soft(Do("g", "get_metadata_field_type", "z"))>>)
ArrayScenarios == { Arrays("nested"), Arrays("fortran"), Objects, Losing(InCluster(Objects)) }

TensorScenarios == { Losing(RenameT), Losing(InCluster(RenameT)), Losing(InCluster(BytesToo)) }

(***************************************************************************)
(* Models and scripts, that others replace and delete while they run.         *)
(***************************************************************************)
RunReplaced == Of(<<SetTo("put_tensor", "in", "1"), Set("set_model", "m", Def("A")),
                    RunOp("run_model", <<"in">>, <<"x">>), RunOp("run_model", <<"x">>, <<"x">>)>>,
                  <<Await("model", "m"), Set("set_model", "m", TFDef("B")), On("get_model", "m"),
                    On("delete_model", "m"), Set("set_script", "m", ScriptDef("C"))>>)
\* Two clients run the same script on the same inputs.
RunBoth == Of(<<SetTo("put_tensor", "in", "1"), Set("set_script", "m", ScriptDef("C")),
                RunOp("run_script", <<"in">>, <<"x">>)>>,
              <<Await("model", "m"), RunOp("run_script", <<"in">>, <<"z">>), On("get_script", "m"),
                InfoOf("s1", "m", FALSE), Soft(InfoOf("s1", "m", TRUE)), On("delete_script", "m")>>)
WithDef(call, def) == [op |-> call.op, name |-> call.name, first |-> call.first, gpus |-> call.gpus, def |-> def]
WithRun(call, offset, ins, outs) ==
  [op |-> call.op, name |-> call.name, first |-> call.first, gpus |-> call.gpus,
   offset |-> offset, fn |-> "f", ins |-> ins, outs |-> outs]
Gpu(set, run, del, def) ==
  Of(<<SetTo("put_tensor", "in", "1"), WithDef(Multi(set, 0, 2), def),
       WithRun(Multi(run, 0, 2), 3, <<"in">>, <<"x">>), Multi(del, 0, 2)>>,
     <<Await("model", "m"), WithRun(Multi(run, 0, 2), 0, <<"in">>, <<"z">>)>>)
GpuModel == Gpu("set_model_multigpu", "run_model_multigpu", "delete_model_multigpu", Def("A"))
GpuScript == Gpu("set_script_multigpu", "run_script_multigpu", "delete_script_multigpu", ScriptDef("C"))
\* Refused calls, chunks that change, a key of another type, a flush.
Refusals == Of(<<Set("set_model", "m", [Def("A") EXCEPT !.batchsize = 0])>>,
               <<WithDef(Multi("set_model_multigpu", 0, 0), Def("A"))>>)
Chunks == Of(<<Chunk(2), Set("set_model", "m", Def("A")), On("get_model", "m"), AtShard("flush_db", "s1")>>,
             <<Chunk(4), Await("model", "m"), On("get_model", "m"), SetTo("put_tensor", "m", "1")>>)
WrongType == Of(<<SetTo("put_tensor", "m", "1"), Set("set_model", "m", Def("A"))>>, <<Await("tensor", "m")>>)
\* An output key holds another type: each later reply is that to the command before.
Shifted == Of(<<SetTo("put_tensor", "in", "1"), SetBytes("x", "1"), Set("set_model", "m", Def("A")),
                RunOp("run_model", <<"in">>, <<"x">>), Soft(SetTo("put_tensor", "y", "2")), On("get_bytes", "x"),
                On("delete_tensor", "in")>>,
              <<Await("tensor", "in"), On("get_tensor", "in")>>)
\* Replies of every type are read for others.
ShiftedTypes ==
  Of(<<SetTo("put_tensor", "in", "1"), SetBytes("x", "1"), PutD("d", "1"), Add("L", "d"),
       Set("set_model", "m", Def("A")), Set("set_script", "n", ScriptDef("C")),
       RunOp("run_model", <<"in">>, <<"x">>)>>
     \o [i \in 1 .. 20 |-> Soft(<<Ask("tensor", "in"), On("get_tensor", "in"), On("get_dataset", "d"),
       On("get_list_length", "L"), On("get_datasets_from_list", "L"), On("get_bytes", "x"), On("get_script", "n"),
       Set("set_model", "p", Def("A")), On("get_model", "m"), Move("copy_tensor", "in", "y"), On("get_bytes", "x"),
       Move("copy_list", "L", "K"), On("get_list_length", "L"), InfoOf("s1", "m", FALSE), On("get_model", "m"),
       PutD("e", "2"), Await("key", "L"), Move("copy_dataset", "d", "g"), On("get_bytes", "none"),
       On("get_bytes", "none")>>[i])],
     << >>)
\* Two clients give a model inputs of one and of two rows, which may become one batch.
Rows1 == TensorNew("FLOAT", <<1, 1>>, << <<"1">> >>)
Rows2(dtype) == TensorNew(dtype, <<2, 1>>, << <<"2">>, <<"3">> >>)
RunWith(def, in, out) ==
  IF ArtifactOf(def.blob).ins = 2 THEN RunOp("run_model", <<in, in>>, <<out, out \o "2">>)
  ELSE RunOp("run_model", <<in>>, <<out>>)
Batch(def, dtype) ==
  Of(<<[op |-> "put_tensor", name |-> "in", data |-> Rows1], Set("set_model", "m", def),
       RunWith(def, "in", "x")>>,
     <<Await("model", "m"), [op |-> "put_tensor", name |-> "y", data |-> Rows2(dtype)],
       RunWith(def, "y", "z")>>)
BatchDef(backend, b) == [Def(b) EXCEPT !.backend = backend, !.batchsize = 4]
BatchOf(backend) == Batch(BatchDef(backend, "A"), "FLOAT")
BatchScenarios == { Batch([TFDef("A") EXCEPT !.batchsize = 4], "FLOAT"),
                    BatchOf("TFLITE"), BatchOf("TORCH"),
                    Batch(BatchDef("ONNX", "two"), "FLOAT"),
                    Batch(BatchDef("TORCH", "sum"), "FLOAT"),
                    Batch(BatchDef("ONNX", "A"), "INT32") }
\* What a host and a framework refuse.
OnHost(host) ==
  [Of(<<Soft(Set("set_model", "m", [Def("none") EXCEPT !.backend = "TFLITE"])),
        Soft(Set("set_model", "m", [Def("A") EXCEPT !.backend = "ONNX"])),
        Soft(Set("set_model", "m", [TFDef("A") EXCEPT !.inputs = <<"x">>])),
        Soft(Set("set_script", "m", [ScriptDef("C") EXCEPT !.device = "GPU"])),
        Set("set_model", "m", [Def("A") EXCEPT !.backend = "TFLITE", !.device = "GPU"]),
        SetTo("put_tensor", "in", "1"), RunOp("run_model", <<"in">>, <<"x">>)>>,
      <<[op |-> "put_tensor", name |-> "in", data |-> TensorNew("FLOAT", <<0>>, << >>)]>>)
   EXCEPT !.host = host, !.aof = TRUE, !.crashes = 1]
ModelScenarios == BatchScenarios \cup { OnHost("all"), OnHost("small"), RunReplaced, InCluster(RunReplaced),
                     RunBoth, InCluster(RunBoth), GpuModel,
                    GpuScript, InCluster(GpuModel), Losing(InCluster(RunBoth)),
                    Losing(RunReplaced), Shifted, ShiftedTypes, Refusals, Chunks, InCluster(Chunks), WrongType }

(***************************************************************************)
(* Shards that end and start again.                                          *)
(***************************************************************************)
KeepAll == Of(<<SetTo("put_tensor", "in", "1"), Set("set_model", "m", TFDef("A")),
                Set("set_script", "n", ScriptDef("C")), RunOp("run_model", <<"in">>, <<"x">>)>>,
              <<PutD("d", "1"), Move("rename_dataset", "d", "e")>>)
\* A shard that was saved once ends: what came after is gone.
Saved == [Of(<<PutD("d", "1"), Set("set_model", "m", Def("A")), Set("set_script", "n", ScriptDef("C")),
               AtShard("save", "s1")>>,
             <<Await("dataset", "d"), On("get_dataset", "d"), Add("L", "d")>>) EXCEPT !.crashes = 1]
\* A server that has been upgraded.
LeftBehind == (Plain(<< >>, "m") :> Model(Plain(<< >>, "m"), 1, TFDef("A")))
              @@ (Plain(<< >>, "n") :> Script(Plain(<< >>, "n"), 2, [ScriptDef("C") EXCEPT !.entryPoints = <<"entry">>]))
              @@ (Plain(<< >>, "in") :> Tensor(Floats(<< <<"0">> >>)))
Upgraded(version) ==
  [Of(<<RunOp("run_model", <<"in">>, <<"x">>), Soft(RunOf("run_script", "n", <<"in">>, <<"y">>)), On("get_script", "n")>>,
      <<Soft(RunOp("run_model", <<"in">>, <<"z">>)), Set("set_model", "m", Def("B")), InfoOf("s1", "n", FALSE)>>)
   EXCEPT !.older = [version |-> version, next |-> 3, objects |-> LeftBehind], !.aof = TRUE, !.crashes = 1, !.rewrites = 1,
          !.preamble = version % 2 = 0]
UpgradeScenarios == { Upgraded(v) : v \in 0 .. 3 }

CrashScenarios == { Crashing(KeepAll), Preamble(Crashing(KeepAll)), Crashing(InCluster(RenameT)),
                    Crashing(InCluster(RunBoth)), Crashing(Lists), Saved }

(***************************************************************************)
(* Models of JAX: two different ones, one that many run, one that is broken and *)
(* one whose replies are too long; the worker may end.                         *)
(***************************************************************************)
Broken == {Blob("broken")}
Wide == {Blob("wide")}
JaxDef(b) == [Def(b) EXCEPT !.backend = "JAX"]
TwoJax == Of(<<SetTo("put_tensor", "in", "1"), Set("set_model", "m", JaxDef("A")),
               RunOp("run_model", <<"in">>, <<"x">>), RunOp("run_model", <<"in">>, <<"x", "y">>)>>,
             <<Await("model", "m"), Set("set_model", "n", JaxDef("B")),
               RunOf("run_model", "n", <<"in">>, <<"z">>), RunOp("run_model", <<"in">>, <<"z">>)>>)
JaxFails(b) == Of(<<SetTo("put_tensor", "in", "1"), Set("set_model", "m", JaxDef("A")),
                    Set("set_model", "n", JaxDef(b)), RunOf("run_model", "n", <<"in">>, <<"x">>)>>,
                  <<Await("model", "n"), RunOp("run_model", <<"in">>, <<"z">>),
                    RunOp("run_model", <<"in">>, <<"z">>)>>)
JaxScenarios == { TwoJax, InCluster(TwoJax), JaxFails("broken"), JaxFails("wide"),
                  [TwoJax EXCEPT !.aof = TRUE, !.crashes = 1] }

(***************************************************************************)
(* OpenFOAM: a motion solver of two ranks and the script that trains its model, *)
(* and a function object with a program that reads the fields.                 *)
(***************************************************************************)
Steps(rank) == Solve(rank, 1, FALSE) \o Solve(rank, 2, TRUE)
Motion == [Of(<< >>, << >>) EXCEPT !.ranks = {c1, c2}, !.calls = Third(Steps(0), Steps(1), Training(2))]
Object(rank) == PostMetadata("f", rank) \o SendGeometricFields("f", rank, 1) \o End("f", 1)
Reader == GetMetadata("f") \o GetGeometricFields("f", 1, 1)
FieldsSent == Of(Object(0), Reader)
FieldsOfTwo == [Of(<< >>, << >>) EXCEPT !.calls = Third(Object(0), Object(1) , Reader)]
FieldsAdded == Of(Object(0) \o AddToMetadata("f", 0, "late"), GetGeometricFields("f", 0, 1))
FoamScenarios == { Motion, FieldsSent, FieldsOfTwo, FieldsAdded }

(***************************************************************************)
(* Training data: uploaders put batches while downloaders ask for them.        *)
(***************************************************************************)
Update == Continue("update", {})
Batches(rank, n) == FlattenSeq([i \in 1 .. n |-> PutBatch("L", "s", rank, i - 1, <<rank, i>>)])
OneReplica == Of(PublishInfo("L", "s") \o Batches(0, 3),
                 NewDownloader("L", << << >> >>, 0, 1, 2) \o <<Update>>)
\* Two ranks append to one list, each of two replicas takes every other batch.
TwoRanks(replica) ==
  [Of(<< >>, << >>) EXCEPT !.calls =
     Third(PublishInfo("L", "s") \o Batches(0, 2), <<Await("dataset", "L_info")>> \o Batches(1, 1),
           NewDownloader("L", << << >> >>, replica, 2, 2) \o <<Update>>)]
\* Two members of an ensemble have a list each.
TwoMembersUpload ==
  [TwoRanks(0) EXCEPT
     !.calls = Third(PublishInfo("L", "s") \o Batches(0, 1), Batches(1, 2),
                     NewDownloader("L", << <<"p">>, <<"q">> >>, 0, 1, 1) \o <<Update>>),
     !.put = Third(<<"p">>, <<"q">>, << >>), !.sources = Third(<< >>, << >>, << <<"p">>, <<"q">> >>)]
UploadScenarios == { OneReplica, TwoRanks(0), TwoRanks(1), TwoMembersUpload }

(***************************************************************************)
(* Programs in C and in Python: arrays that one puts and the other reads, NULL   *)
(* pointers, lists with and without a number, files, and the addresses of shards. *)
(***************************************************************************)
InLang(a, b, s) == [s EXCEPT !.lang = Third(a, b, "c++")]
WithNull(call, params) == Soft(call @@ [null |-> params])
RangeOf(call, range) == call @@ [range |-> range]
ListRangeC(asked) == RangeOf(On("get_dataset_list_range", "L"), <<0, 1>>) @@ [asked |-> asked]
ListHere == Soft(RangeOf(On("get_dataset_list_range", "L"), <<0, 1>>) @@ [allocated |-> TRUE])
Dims2(room) == Soft(Do("d", "get_tensor_dims", "t") @@ [room |-> room])
CObjects ==
  <<AddArray("d", "t", "fortran"), WithNull(AddArray("d", "u", "nested"), {"dims"}),
    WithNull(AddArray("d", "u", "nested"), {"data"}), WithNull(Do("d", "get_tensor_type", "t"), {"name"}),
    Soft(Do("d", "get_tensor_type", "v")), Dims2(1), Dims2(2), WithNull(PutObject("d"), {"dataset"}), PutObject("d")>>
InC == InLang("c", "python",
  Of(CObjects \o <<PutArray("fortran"), WithNull(Array2("get_tensor", "x", "nested"), {"type"})>>,
     <<Await("tensor", "x"), Array2("get_tensor", "x", "fortran"), Soft(Into("nested", Dims)),
       Keep(On("get_dataset", "d"), "g"), GetArray("g", "t", "nested"), Do("g", "get_tensor_type", "t"),
       Soft(Do("g", "get_tensor_dims", "v")), Soft(On("get_dataset", "e")),
       Soft(SetTo("put_tensor", "y", "1") @@ [layout |-> "nested"]),
       Soft([SetTo("put_tensor", "y", "1") @@ [layout |-> "nested"] EXCEPT !.data.dtype = "BOOL"])>>))
ListsInC == InLang("c", "c",
  Of(<<PutD("d", "1"), Add("L", "d"), PutD("e", "1"), Add("L", "e"), WithNull(On("get_list_length", "L"), {"result_length"})>>,
     <<AwaitLength("gte", 1), On("get_datasets_from_list", "L"), ListRangeC(0), ListRangeC(5), ListHere,
       Soft([AwaitLength("gte", 1) EXCEPT !.holds.than = -1]), Soft(Move("copy_list", "L", ""))>>))
FromFileOf(op, file, def) ==
  Soft(Set(op, IF op = "set_model_from_file" THEN "m" ELSE "n", def) @@ [file |-> file])
Files(lang) == InLang(lang, "c++",
  Of(<<FromFileOf("set_model_from_file", "", Def("A")), FromFileOf("set_model_from_file", "missing", Def("A")),
       FromFileOf("set_script_from_file", "missing", ScriptDef("C")), FromFileOf("set_model_from_file", "there", Def("A")),
       Soft(Set("set_model", "m", [TFDef("A") EXCEPT !.inputs = <<"i", "">>])),
       Soft(Set("set_model", "m", [Def("A") EXCEPT !.inputs = <<"i">>])),
       Soft(RunOp("run_model", <<"">>, <<"x">>))>>, <<Await("model", "m"), On("get_model", "m")>>))
AtAll(op) == Soft(AtShard(op, "s1") @@ [addresses |-> OrderOfSlots])
Addresses == InLang("python", "python",
  InCluster(Of(<<SetTo("put_tensor", "x", "1"), AtAll("save"), AtAll("flush_db")>>,
               <<AtAll("save"), Soft(InfoOf("s1", "m", FALSE) @@ [addresses |-> OrderOfSlots]), Source("p")>>)))
\* What is asked of one shard, and of each of several.
ParamOf(op, s, param) == Soft(AtShard(op, s) @@ [param |-> param])
SetParam(s, param, value) == Soft(ParamOf("config_set", s, param) @@ [value |-> value])
AtShards(call, shards) == call @@ [addresses |-> shards]
Servers(lang) == InLang(lang, "c++",
  Of(<<SetTo("put_tensor", "in", "1"), Set("set_model", "m", Def("A")), RunOp("run_model", <<"in">>, <<"x">>),
       SetParam("s1", "maxmemory", "1"), ParamOf("config_get", "s1", "*"), SetParam("s1", "none", "1"),
       ParamOf("config_get", "s2", "none"), Soft(AtShard("save", "nowhere")),
       Soft(AtShards(AtShard("get_db_node_info", "s1"), OrderOfSlots)),
       Soft(AtShards(AtShard("get_db_cluster_info", "s1"), OrderOfSlots)),
       Soft(AtShards(AtShard("save", "s1"), <<"s1", "nowhere">>)),
       Soft(AtShards(InfoOf("s1", "m", FALSE), OrderOfSlots)), Soft(AtShards(InfoOf("s1", "m", TRUE), OrderOfSlots))>>,
     <<Await("model", "m"), ParamOf("config_get", "s1", "maxmemory"), Soft(AtShard("get_db_node_info", "s1")),
       Soft(AtShard("get_db_cluster_info", "s1")), Soft(InfoOf("s1", "m", TRUE))>>))
LanguageScenarios == { Servers("python"), InCluster(Servers("python")), InC, Losing(ListsInC),
                       Losing(InCluster(ListsInC)), [InCluster(ListsInC) EXCEPT !.aof = TRUE, !.crashes = 1],
                       Files("c"), Files("python"), Files("c++"), Losing(Addresses) }

(***************************************************************************)
(* Clients that are constructed: from the environment, from objects with a suffix  *)
(* and with options that were overridden, with what is refused, and when the       *)
(* shards are not there.                                                      *)
(***************************************************************************)
At(shard) == [Blank EXCEPT !.form = "host:port", !.shard = shard, !.listed = TRUE]
Socket == [At("s1") EXCEPT !.protocol = "unix", !.form = "file"]
Env(pairs) == FoldLeft(LAMBDA e, p : e @@ (<<p[1], p[2]>> :> p[3]), << >>, pairs)
InEnv(a, b, s) == [s EXCEPT !.env = Calls(Env(a), Env(b))]
SetEnv(name, value) == [op |-> "setenv", name |-> name, suffix |-> "", value |-> value]
Options(do, name) == Soft([op |-> "options", on |-> "o", do |-> do, name |-> name])
Override(name, value) == Options("override_integer_option", name) @@ [value |-> value]
OverrideText(name, words) == Options("override_string_option", name) @@ [value |-> words]
NewOptions(suffix) == Options("create", "") @@ [suffix |-> suffix]
New == [op |-> "construct"]
NewFrom(o) == New @@ [on |-> o]
Fails(name, value) == <<SetEnv(name, value), Soft(New), SetEnv(name, Text(<< >>))>>
Standalone == <<"SR_DB_TYPE", "", Text(<<"Standalone">>)>>
Ssdb(words) == <<"SSDB", "", Text(words)>>
WithOptions(lang) == InLang(lang, "python", InEnv(
  <<Standalone, Ssdb(<<At("s1")>>), <<"SSDB", "T", Text(<<Socket, Blank>>)>>, <<"SR_CMD_TIMEOUT", "", Number(7)>>,
    <<"SR_CONN_TIMEOUT", "T", Number(5)>>, <<"SR_CMD_INTERVAL", "T", Text(<< >>)>>,
    <<"SR_CONN_INTERVAL", "T", Number(3000)>>, <<"SSKEYOUT", "T", Text(<<"p">>)>>>>,
  <<Standalone, Ssdb(<<At("s1"), At("nobody")>>), <<"SSKEYIN", "", Text(<<"", "p", "q">>)>>>>,
  Of(<<NewOptions("T"), Options("get_integer_option", "SR_CMD_TIMEOUT"), Options("is_configured", "SR_CMD_TIMEOUT"),
       Override("SR_CMD_TIMEOUT", 0), OverrideText("SR_DB_TYPE", <<"Colocated">>), Soft(NewFrom("o")),
       Override("SR_CMD_TIMEOUT", 2), Options("get_string_option", "SSKEYOUT"), SetEnv("SR_CMD_TIMEOUT", Number(-1)),
       Options("is_configured", ""), Options("get_string_option", ""), NewFrom("o"),
       SetTo("put_tensor", "x", "1"), Options("get_integer_option", "SR_CMD_INTERVAL"), Soft(NewFrom("o"))>>,
     <<New, Source("q"), Source("p"), Await("tensor", "x"), Soft(NewFrom("o")), On("get_tensor", "x")>>)))
RefusedAll(lang) == InLang(lang, lang, InEnv(
  <<Standalone, Ssdb(<<At("s1")>>)>>, << >>,
  Of(Fails("SR_CMD_TIMEOUT", Number(-1)) \o Fails("SR_CONN_TIMEOUT", Number(LargestTimeout + 1))
     \o Fails("SR_CONN_INTERVAL", Number(0)) \o Fails("SR_SOCKET_TIMEOUT", Text(<<"10s">>))
     \o Fails("SSDB", Text(<<[At("s1") EXCEPT !.form = "host"]>>))
     \o Fails("SSDB", Text(<<Blank, At("s1")>>)) \o Fails("SSDB", Text(<<[At("s1") EXCEPT !.odd = TRUE]>>))
     \o <<Soft(New), SetEnv("SSDB", Text(<<At("s1")>>)), SetEnv("SR_THREAD_COUNT", Number(0)), New>>
     \o Fails("SR_THREAD_COUNT", Number(-1)) \o <<On("get_tensor", "x")>>,
     <<WithNull(NewOptions(""), {"db_suffix"}), WithNull(New, {"logger_name"}), Options("get_integer_option", ""),
       Options("is_configured", "SSDB"), Options("override_integer_option", "SSDB") @@ [value |-> 1], Soft(New),
       NewFrom("none")>>)))
AsCluster == InCluster(InEnv(
  <<Ssdb(<<At("s2"), At("nobody"), Socket, [At("s1") EXCEPT !.listed = FALSE]>>)>>,
  <<Ssdb(<<At("s1")>>), <<"SR_DB_TYPE", "", Text(<<"CLUSTERED">>)>>>>,
  Of(<<Soft(New), Soft(New), SetTo("put_tensor", "x", "1"), Chunk(1), Set("set_model", "m", Def("A"))>>,
     <<[New EXCEPT !.op = "construct"] @@ [cluster |-> TRUE], Await("tensor", "x"), On("get_tensor", "x")>>)))
NoCluster == InEnv(<<Ssdb(<<At("s1")>>)>>, <<Ssdb(<<At("s1")>>)>>,
  Of(<<Soft(New), New @@ [cluster |-> FALSE], SetTo("put_tensor", "x", "1")>>, <<New @@ [cluster |-> TRUE], Ask("tensor", "x")>>))
NewScenarios == { WithOptions("c++"), WithOptions("c"), RefusedAll("c"), RefusedAll("c++"), RefusedAll("python"),
                  NoCluster, Losing(NoCluster), AsCluster, [AsCluster EXCEPT !.aof = TRUE, !.crashes = 1] }

MCScenarios == NewScenarios \cup LanguageScenarios \cup ArrayScenarios \cup DatasetScenarios \cup TensorScenarios
               \cup ModelScenarios \cup CrashScenarios
               \cup UpgradeScenarios \cup JaxScenarios \cup FoamScenarios \cup UploadScenarios
=============================================================================
