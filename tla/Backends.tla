------------------------------- MODULE Backends -------------------------------
(***************************************************************************)
(* The backends of RedisAI: how their libraries are loaded, which models and   *)
(* scripts they accept, and how they run the requests of several clients for   *)
(* one model together.  JAX models run in a process of their own (JaxWorker).  *)
(*                                                                         *)
(* Of a host, Exports gives the functions the library of a backend has (none   *)
(* when there is no library), HasCuda whether the frameworks find CUDA.        *)
(* An artifact, what a framework finds in a blob, is                          *)
(*   valid          whether it can be read                                    *)
(*   ins, outs      the numbers of inputs and outputs of a model                *)
(*   placeholders, nodes   the names in a TensorFlow graph                      *)
(*   dtype          the type of the inputs                                    *)
(*   rows           "each" when the model makes a row of each row, "one" when it *)
(*                  makes one of all                                           *)
(*   functions      what a script defines: [args, returns] by name              *)
(***************************************************************************)
EXTENDS Tensors

CONSTANTS Artifact(_), Exports(_,_), HasCuda(_)

(***************************************************************************)
(* A library is taken when it exports all that its backend needs.             *)
(***************************************************************************)
NeededTF == {"RAI_InitBackendTF", "RAI_ModelCreateTF", "RAI_ModelFreeTF", "RAI_ModelRunTF",
             "RAI_ModelSerializeTF", "RAI_GetBackendVersionTF"}
NeededTFLite == {"RAI_InitBackendTFLite", "RAI_ModelCreateTFLite", "RAI_ModelFreeTFLite",
                 "RAI_ModelRunTFLite", "RAI_ModelSerializeTFLite", "RAI_GetBackendVersionTFLite"}
NeededTorch == {"RAI_InitBackendTorch", "RAI_ModelCreateTorch", "RAI_ModelFreeTorch",
                "RAI_ModelRunTorch", "RAI_ModelSerializeTorch", "RAI_ScriptCreateTorch",
                "RAI_ScriptFreeTorch", "RAI_ScriptRunTorch", "RAI_GetBackendVersionTorch"}
NeededORT == {"RAI_InitBackendORT", "RAI_ModelCreateORT", "RAI_ModelFreeORT", "RAI_ModelRunORT",
              "RAI_ModelSerializeORT", "RAI_GetBackendVersionORT", "RAI_GetMemoryInfoORT",
              "RAI_GetMemoryAccessORT", "RAI_EnforceTimeoutORT", "RAI_AddNewDeviceORT",
              "RAI_GetGlobalRunSessionsLenORT"}
NeededJAX == {"RAI_InitBackendJAX", "RAI_ModelCreateJAX", "RAI_ModelFreeJAX", "RAI_ModelRunJAX",
              "RAI_ModelSerializeJAX", "RAI_GetBackendVersionJAX"}
Needed == [TF |-> NeededTF, TFLITE |-> NeededTFLite, TORCH |-> NeededTorch, ONNX |-> NeededORT,
           JAX |-> NeededJAX]

LoadBackend(host, loaded, backend) ==
  IF backend \notin loaded /\ Needed[backend] \subseteq Exports(host, backend)
  THEN loaded \cup {backend} ELSE loaded
\* A model or script whose backend is not loaded makes the server load it, once.
LoadedFor(host, loaded, backend) ==
  IF backend \in loaded THEN loaded ELSE LoadBackend(host, loaded, backend)

(***************************************************************************)
(* Which models and scripts the backends accept.                             *)
(***************************************************************************)
DeviceFound(host, def) == def.device # "CPU" => HasCuda(host)

CreateTF(host, def) ==
  /\ Artifact(def.blob).valid
  /\ ToSet(def.inputs) \subseteq Artifact(def.blob).placeholders
  /\ ToSet(def.outputs) \subseteq Artifact(def.blob).nodes
  /\ DeviceFound(host, def)
CreateTorch(host, def) == Artifact(def.blob).valid /\ DeviceFound(host, def)
CreateORT(host, def) == DeviceFound(host, def) /\ Artifact(def.blob).valid
\* Without CUDA a TFLite model for a GPU runs on the CPU.
TFLiteLoadModel(def) == Artifact(def.blob).valid
CreateTFLite(host, def) == TFLiteLoadModel(def)
\* The worker looks into the artifact when it is run.
CreateJAX(host, def) == TRUE

ModelCreate(host, loaded, def) ==
  /\ def.backend \in loaded
  /\ CASE def.backend = "TF" -> CreateTF(host, def)
       [] def.backend = "TFLITE" -> CreateTFLite(host, def)
       [] def.backend = "TORCH" -> CreateTorch(host, def)
       [] def.backend = "ONNX" -> CreateORT(host, def)
       [] def.backend = "JAX" -> CreateJAX(host, def)

NumInputs(def) ==
  CASE def.backend = "TF" -> Len(def.inputs)
    [] def.backend = "JAX" -> 1
    [] OTHER -> Artifact(def.blob).ins
NumOutputs(def) ==
  CASE def.backend = "TF" -> Len(def.outputs)
    [] def.backend = "JAX" -> 1
    [] OTHER -> Artifact(def.blob).outs

EntryPointArgs == <<"tensors", "strings", "strings">>
ScriptCreate(host, loaded, def) ==
  /\ "TORCH" \in loaded
  /\ Artifact(def.blob).valid /\ DeviceFound(host, def)
  /\ \A i \in DOMAIN def.entryPoints :
       LET functions == Artifact(def.blob).functions  name == def.entryPoints[i] IN
       name \in DOMAIN functions /\ functions[name].args = EntryPointArgs

(***************************************************************************)
(* What a framework makes of the inputs: n outputs, each a row of floats for   *)
(* each row of the inputs, or one for all.                                    *)
(***************************************************************************)
Apply(blob, ins, n) ==
  LET each == ins # << >> /\ Artifact(blob).rows = "each"
      rows == IF each THEN Rows(ins[1]) ELSE 1
      from(t, i) == IF each THEN (IF i <= Rows(t) THEN Row(t, i) ELSE << >>) ELSE t.data
  IN [j \in 1 .. n |->
        TensorNew("FLOAT", <<rows, 1>>,
                  [i \in 1 .. rows |->
                     <<blob, j>> \o FlattenSeq([k \in DOMAIN ins |-> from(ins[k], i)])])]

(***************************************************************************)
(* A batch is a sequence of requests, each the sequence of its inputs.  The    *)
(* sizes are those of the first input of each request.                        *)
(***************************************************************************)
Sizes(batch) == [b \in DOMAIN batch |-> IF batch[b] = << >> THEN 0 ELSE Rows(batch[b][1])]
(* Mutant of Offset: the place is not moved on from one request to the next.       *)
OffsetNotMoved(sizes, b) == 0

Offset(sizes, b) == Total(SubSeq(sizes, 1, b - 1))
BatchInputs(batch) ==
  IF Len(batch) = 1 THEN batch[1]
  ELSE [i \in DOMAIN batch[1] |-> Concatenated([b \in DOMAIN batch |-> batch[b][i]])]

Failed(batch) == [b \in DOMAIN batch |-> [ok |-> FALSE, outs |-> << >>]]
ExpectedSize(batch, made) == \A j \in DOMAIN made : Rows(made[j]) = Total(Sizes(batch))
Parted(batch, made) ==
  IF Len(batch) = 1 THEN << [ok |-> TRUE, outs |-> made] >>
  ELSE [b \in DOMAIN batch |->
          [ok |-> TRUE,
           outs |-> [j \in DOMAIN made |->
                       Sliced(made[j], Offset(Sizes(batch), b), Sizes(batch)[b])]]]
Answers(batch, made) ==
  IF Len(batch) > 1 /\ ~ExpectedSize(batch, made) THEN Failed(batch) ELSE Parted(batch, made)

TypesAre(ins, dtype) == \A i \in DOMAIN ins : ins[i].dtype = dtype

RunTF(def, batch, n) ==
  LET ins == BatchInputs(batch) IN
  IF ~TypesAre(ins, Artifact(def.blob).dtype) THEN Failed(batch)
  ELSE Answers(batch, Apply(def.blob, ins, n))

\* ATen has no unsigned integers of 16 bits.
ToScalarType(dtype) == dtype # "UINT16"
TorchRunModel(def, ins) == \A i \in DOMAIN ins : ToScalarType(ins[i].dtype)
RunTorch(def, batch, n) ==
  LET ins == BatchInputs(batch) IN
  IF ~TorchRunModel(def, ins) THEN Failed(batch)
  ELSE Answers(batch, Apply(def.blob, ins, n))

RunORT(def, batch, n) ==
  LET ins == BatchInputs(batch) IN
  IF \/ Len(ins) # Artifact(def.blob).ins \/ n # Artifact(def.blob).outs
     \/ ~TypesAre(ins, Artifact(def.blob).dtype)
  THEN Failed(batch)
  ELSE Answers(batch, Apply(def.blob, ins, n))

\* The case of Booleans has no break and goes on into the one that throws.
CopyToTfLiteTensor(expected, t) ==
  t.dtype = expected /\ expected \in {"UINT8", "INT64", "INT32", "INT16", "INT8", "FLOAT"}
TFLiteRunModel(def, ins, n) ==
  /\ Len(ins) = Artifact(def.blob).ins /\ n = Artifact(def.blob).outs
  /\ \A i \in DOMAIN ins : CopyToTfLiteTensor(Artifact(def.blob).dtype, ins[i])
RunTFLite(def, batch, n) ==
  LET ins == BatchInputs(batch) IN
  IF ~TFLiteRunModel(def, ins, n) THEN Failed(batch)
  ELSE Answers(batch, Apply(def.blob, ins, n))

\* The JAX backend takes no batches.
RunBatch(def, batch, n) ==
  CASE def.backend = "TF" -> RunTF(def, batch, n)
    [] def.backend = "TFLITE" -> RunTFLite(def, batch, n)
    [] def.backend = "TORCH" -> RunTorch(def, batch, n)
    [] def.backend = "ONNX" -> RunORT(def, batch, n)
    [] def.backend = "JAX" -> Failed(batch)

(***************************************************************************)
(* Requests for one model may be run together when all dimensions but the first *)
(* are the same; their types are not looked at.                               *)
(***************************************************************************)
DagOpBatchable(a, b) ==
  /\ Len(a) = Len(b)
  /\ \A i \in DOMAIN a : Tail(a[i].dims) = Tail(b[i].dims)
\* Others join the first request until the batch is as long as it should be.
MayJoin(def, a, b) ==
  /\ def.batchsize > 0 /\ Sizes(<<a>>)[1] \in 1 .. def.batchsize - 1
  /\ DagOpBatchable(a, b)

(***************************************************************************)
(* Scripts run alone.  A function that is no entry point gets one tensor per    *)
(* argument, and all that are left as its first list.                         *)
(***************************************************************************)
ArgumentsFit(args, given) ==
  LET lists == {i \in DOMAIN args : args[i] # "tensor"}
      upTo == IF lists = {} THEN Len(args) ELSE CHOOSE i \in lists : \A j \in lists : i <= j
  IN /\ Len(args) <= given
     /\ \A i \in 1 .. upTo : args[i] \in {"tensor", "tensors"}
\* What it returns must be as many tensors as the caller named, or is not looked at.
ReturnsFit(returns, n) == n = 0 \/ returns = n
ScriptRun(def, fn, ins, n) ==
  LET functions == Artifact(def.blob).functions IN
  IF /\ fn \in DOMAIN functions
     /\ fn \in ToSet(def.entryPoints) \/ ArgumentsFit(functions[fn].args, Len(ins))
     /\ \A i \in DOMAIN ins : ToScalarType(ins[i].dtype)
     /\ ReturnsFit(functions[fn].returns, n)
  THEN [ok |-> TRUE, outs |-> Apply(def.blob, ins, n)]
  ELSE [ok |-> FALSE, outs |-> << >>]
=============================================================================
