------------------------------- MODULE Bindings -------------------------------
(***************************************************************************)
(* The calls of clients, DataSet and ConfigOptions objects as programs in C and Python *)
(* make them: what the binding refuses itself, what it passes on, what it gives *)
(* back, and what it tells of an exception.  A call may have                  *)
(*   null       the parameters of the C function that are NULL               *)
(*   asked      what the caller of get_dataset_list_range has in num_datasets *)
(*   allocated  the caller of it has the place for the datasets               *)
(*   room       the dimensions that the caller of get_tensor_dims has place for *)
(*   addresses  the shards a Python program names                            *)
(***************************************************************************)
EXTENDS Configuration

(***************************************************************************)
(* What is told of an exception.  Both bindings make an internal error of what *)
(* is not an exception of SmartRedis.                                         *)
(***************************************************************************)
ErrorCode ==
  [none |-> "SRNoError", BadAlloc |-> "SRBadAllocError", Database |-> "SRDatabaseError",
   Internal |-> "SRInternalError", Runtime |-> "SRRuntimeError", Parameter |-> "SRParameterError",
   Timeout |-> "SRTimeoutError", Key |-> "SRKeyError", Exception |-> "SRInvalidError",
   Type |-> "SRTypeError"]
(* Mutant of CError: what is not an exception of SmartRedis is not caught.        *)
CErrorPassed(error) == IF error \in DOMAIN ErrorCode THEN ErrorCode[error] ELSE ErrorCode["none"]

CError(error) == ErrorCode[IF error \in DOMAIN ErrorCode THEN error ELSE "Internal"]
PythonErrors ==
  [none |-> "None", BadAlloc |-> "RedisBadAllocError", Database |-> "RedisDatabaseError",
   Internal |-> "RedisInternalError", Runtime |-> "RedisRuntimeError", Parameter |-> "ValueError",
   Timeout |-> "RedisTimeoutError", Key |-> "RedisKeyError", Exception |-> "RedisReplyError",
   Type |-> "TypeError", Attribute |-> "AttributeError"]
PythonError(error) == PythonErrors[IF error \in DOMAIN PythonErrors THEN error ELSE "Internal"]
ErrorTold(lang, error) ==
  CASE lang = "c++" -> error [] lang = "c" -> CError(error) [] lang = "python" -> PythonError(error)

(***************************************************************************)
(* The pointers that each C function checks, besides that of the client or     *)
(* dataset.                                                                  *)
(***************************************************************************)
DatasetPointers ==
  [put_dataset |-> {"dataset"}, get_dataset |-> {"name", "dataset"},
   rename_dataset |-> {"old_name", "new_name"}, copy_dataset |-> {"src_name", "dest_name"},
   delete_dataset |-> {"name"}]
TensorPointers ==
  [put_tensor |-> {"name", "data", "dims"}, get_tensor |-> {"name", "result", "dims", "n_dims"},
   unpack_tensor |-> {"name", "result", "dims"}, rename_tensor |-> {"old_name", "new_name"},
   delete_tensor |-> {"name"}, copy_tensor |-> {"src_name", "dest_name"}]
ModelFilePointers ==
  [set_model_from_file |-> {"name", "backend", "model_file", "device"},
   set_model_from_file_multigpu |-> {"name", "backend", "model_file"}]
ModelPointers ==
  [set_model |-> {"name", "backend", "model", "device"},
   set_model_multigpu |-> {"name", "backend", "model"},
   get_model |-> {"name", "model_length", "model"}]
ScriptPointers ==
  [set_script_from_file |-> {"name", "device", "script_file"},
   set_script_from_file_multigpu |-> {"name", "script_file"},
   set_script |-> {"name", "device", "script"}, set_script_multigpu |-> {"name", "script"},
   get_script |-> {"name", "script", "script_length"}]
RunArrays == {"inputs", "input_lengths", "outputs", "output_lengths"}
RunScriptPointers ==
  [run_script |-> {"name", "function"} \cup RunArrays,
   run_script_multigpu |-> {"name", "function"} \cup RunArrays]
RunModelPointers ==
  [run_model |-> {"name"} \cup RunArrays, run_model_multigpu |-> {"name"} \cup RunArrays]
DeletePointers ==
  [delete_model |-> {"name"}, delete_model_multigpu |-> {"name"},
   delete_script |-> {"name"}, delete_script_multigpu |-> {"name"}]
ExistsPointers == [exists |-> {"name", "exists"}]
PollPointers == [poll |-> {"name", "exists"}]
SettingPointers == [set_data_source |-> {"source_id"}, use_ensemble_prefix |-> {}]
ListPointers ==
  [append_to_list |-> {"list_name", "dataset"}, delete_list |-> {"list_name"},
   copy_list |-> {"src_name", "dest_name"}, rename_list |-> {"src_name", "dest_name"},
   get_list_length |-> {"list_name"}]
MemberPointers ==
  [get_datasets_from_list |-> {"list_name", "datasets", "num_datasets"},
   get_dataset_list_range |-> {"list_name", "datasets", "num_datasets"}]
CPointers ==
  DatasetPointers @@ TensorPointers @@ ModelFilePointers @@ ModelPointers @@ ScriptPointers
  @@ RunScriptPointers @@ RunModelPointers @@ DeletePointers @@ ExistsPointers @@ PollPointers
  @@ SettingPointers @@ ListPointers @@ MemberPointers
TensorMethodPointers ==
  [new |-> {"name", "new_dataset"}, add_tensor |-> {"dims"},
   get_tensor |-> {"name", "data", "dims", "n_dims", "type"}, unpack_tensor |-> {"name", "dims"},
   get_tensor_names |-> {"data", "n_strings", "lengths"}, get_tensor_type |-> {"ttype"},
   get_tensor_dims |-> {"dims", "ndims"}]
MetaMethodPointers ==
  [add_meta_scalar |-> {"name", "data"}, add_meta_string |-> {"name", "data"},
   get_meta_scalars |-> {"name", "length", "type", "scalar_data"},
   get_meta_strings |-> {"name", "data", "n_strings", "lengths"},
   get_metadata_field_names |-> {"data", "n_strings", "lengths"},
   get_metadata_field_type |-> {"mdtype"}]
OptionsPointers ==
  [create |-> {"db_suffix", "new_configoptions"},
   get_integer_option |-> {"c_cfgopts", "option_name", "option_result"},
   get_string_option |-> {"c_cfgopts", "option_name", "option_result", "option_result_len"},
   is_configured |-> {"c_cfgopts", "option_name", "cfg_result"},
   override_integer_option |-> {"c_cfgopts", "option_name"},
   override_string_option |-> {"c_cfgopts", "option_name", "value"}]
ConstructorPointers(call) ==
  {"new_client", "logger_name"} \cup (IF "on" \in DOMAIN call THEN {"config_options"} ELSE {})
CheckedPointers(call) ==
  CASE call.op = "method" -> {"dataset"} \cup (TensorMethodPointers @@ MetaMethodPointers)[call.do]
    [] call.op = "options" -> OptionsPointers[call.do]
    [] call.op = "construct" -> ConstructorPointers(call)
    [] call.op = "setenv" -> {}
    [] OTHER -> {"c_client"} \cup CPointers[call.op]
Null(call) == IF "null" \in DOMAIN call THEN call.null ELSE {}

(***************************************************************************)
(* The names of inputs and outputs: those of a model matter with TF and TFLITE   *)
(* only, written in any case, and one empty name stands for none.              *)
(***************************************************************************)
IsTensorFlow(backend) == backend \in {"TF", "tf", "TFLITE", "tflite"}
SetNamesRefused(names) == Len(names) > 1 /\ names[1] # "" /\ "" \in ToSet(names)
SetModelRefused(call) ==
  /\ IsTensorFlow(call.def.backend)
  /\ Null(call) \cap RunArrays # {} \/ SetNamesRefused(call.def.inputs) \/ SetNamesRefused(call.def.outputs)
PassedNames(backend, names) == IF ~IsTensorFlow(backend) \/ names = <<"">> THEN << >> ELSE names
RunScriptRefused(call) == "" \in ToSet(call.ins \o call.outs)
RunModelRefused(call) == "" \in ToSet(call.ins \o call.outs)

SetsModel(call) ==
  call.op \in {"set_model", "set_model_multigpu", "set_model_from_file", "set_model_from_file_multigpu"}
CRefusal(call) ==
  CASE Null(call) \cap CheckedPointers(call) # {} -> "Parameter"
    [] SetsModel(call) /\ SetModelRefused(call) -> "Parameter"
    [] call.op \in DOMAIN RunModelPointers /\ RunModelRefused(call) -> "Parameter"
    [] call.op \in DOMAIN RunScriptPointers /\ RunScriptRefused(call) -> "Parameter"
    [] call.op = "options" /\ call.do \notin {"create", "is_configured"} /\ call.name = "" -> "Parameter"
    [] call.op = "method" /\ "name" \in Null(call) -> "logic_error"
    [] call.op = "method" /\ call.do = "add_tensor" /\ "data" \in Null(call) -> "Runtime"
    [] OTHER -> "none"
CPassed(call) ==
  IF ~SetsModel(call) THEN call
  ELSE [call EXCEPT !.def.inputs = PassedNames(call.def.backend, @),
                    !.def.outputs = PassedNames(call.def.backend, @)]

(***************************************************************************)
(* What a C function gives.  The function that allocates a list does so when    *)
(* its caller had another number than 0 in num_datasets.                       *)
(***************************************************************************)
Refused(outcome, error) == [outcome EXCEPT !.ok = FALSE, !.error = error, !.value = Nothing]
DatasetArray(given, count) == [given |-> given, count |-> count]
(* Mutant of MembersInRange: the list that is given has as many datasets as asked for.  *)
MembersAsked(call, outcome) ==
  [outcome EXCEPT !.value = DatasetArray(@, IF call.asked > 0 THEN call.asked ELSE Len(@))]

MembersInRange(call, outcome) ==
  [outcome EXCEPT !.value = DatasetArray(IF call.asked > 0 THEN @ ELSE << >>, Len(@))]
MembersAllocated(call, outcome) ==
  IF Len(outcome.value) = call.range[2] - call.range[1] + 1
  THEN [outcome EXCEPT !.value = DatasetArray(@, Len(@))] ELSE Refused(outcome, "Internal")
AllMembers(outcome) == [outcome EXCEPT !.value = DatasetArray(@, Len(@))]
TensorDims(call, outcome) ==
  IF call.room < Len(outcome.value) THEN Refused(outcome, "BadAlloc") ELSE outcome
CGives(call, outcome) ==
  CASE ~outcome.ok -> outcome
    [] call.op = "get_datasets_from_list" -> AllMembers(outcome)
    [] call.op = "get_dataset_list_range" /\ "allocated" \in DOMAIN call -> MembersAllocated(call, outcome)
    [] call.op = "get_dataset_list_range" /\ "asked" \in DOMAIN call -> MembersInRange(call, outcome)
    [] call.op = "method" /\ call.do = "get_tensor_dims" -> TensorDims(call, outcome)
    [] OTHER -> outcome

\* A result that goes to a NULL pointer nobody checked ends the program, as do threads
\* that cannot be started.
Unchecked(call) ==
  CASE call.op = "get_tensor" -> {"type"}
    [] call.op = "get_list_length" -> {"result_length"}
    [] call.op = "method" /\ call.do = "unpack_tensor" -> {"data"}
    [] OTHER -> {}
Killed(lang, call, outcome) ==
  \/ outcome.error = "terminate"
  \/ lang = "c" /\ outcome.ok /\ Null(call) \cap Unchecked(call) # {}

(***************************************************************************)
(* The methods of the Python classes.  Arrays are in row order; the shards that *)
(* are named are asked one after the other.                                   *)
(***************************************************************************)
PyTensorMethods == (DOMAIN TensorPointers \ {"unpack_tensor"}) \cup {"put_bytes", "get_bytes", "delete_bytes"}
PyDatasetCalls == DOMAIN DatasetPointers
PyScriptMethods == DOMAIN ScriptPointers \cup DOMAIN RunScriptPointers \cup {"delete_script", "delete_script_multigpu"}
PyModelMethods ==
  DOMAIN ModelPointers \cup DOMAIN ModelFilePointers \cup DOMAIN RunModelPointers
  \cup {"delete_model", "delete_model_multigpu"}
PyKeyMethods == {"set_data_source", "exists", "poll", "use_ensemble_prefix"}
PyListMethods == DOMAIN ListPointers \cup DOMAIN MemberPointers \cup {"set_model_chunk_size"}
PyMethods ==
  PyTensorMethods \cup PyDatasetCalls \cup PyScriptMethods \cup PyModelMethods \cup PyKeyMethods
  \cup PyListMethods \cup AddressOps \cup {"construct", "options", "setenv"}
PyTensorAccess == DOMAIN TensorMethodPointers \ {"unpack_tensor"}
PyMetadataAccess == DOMAIN MetaMethodPointers
PyDatasetMethods == PyTensorAccess \cup PyMetadataAccess
TensorTypes == {"DOUBLE", "FLOAT", "INT64", "INT32", "INT16", "INT8", "UINT16", "UINT8"}
TypeKnown(call) == "data" \in DOMAIN call /\ "dtype" \in DOMAIN call.data => call.data.dtype \in TensorTypes
PyRefusal(call) ==
  IF ~(IF call.op = "method" THEN call.do \in PyDatasetMethods ELSE call.op \in PyMethods)
  THEN "Attribute" ELSE IF ~TypeKnown(call) THEN "out_of_range" ELSE "none"
PyPassed(call) ==
  IF "layout" \in DOMAIN call
  THEN [call EXCEPT !.layout = "contiguous"] ELSE call
PyTensorType(type) == IF type = "UINT16" THEN "UINT6" ELSE type
PyGives(call, outcome) ==
  IF call.op = "method" /\ call.do = "get_tensor_type" /\ outcome.ok
  THEN [outcome EXCEPT !.value = PyTensorType(@)] ELSE outcome

(***************************************************************************)
(* A call in the language of a program.                                      *)
(***************************************************************************)
BindingRefusal(lang, call) ==
  CASE lang = "c++" -> "none" [] lang = "c" -> CRefusal(call) [] lang = "python" -> PyRefusal(call)
InLanguage(lang, call) ==
  CASE lang = "c++" -> call [] lang = "c" -> CPassed(call) [] lang = "python" -> PyPassed(call)
Gives(lang, call, outcome) ==
  CASE lang = "c++" -> outcome
    [] lang = "c" -> CGives(call, outcome)
    [] lang = "python" -> PyGives(call, outcome)
ProgramIn(cl, call) ==
  IF "addresses" \in DOMAIN call THEN AtEachAddress(cl, call, << >>) ELSE Program(cl, call)
=============================================================================
