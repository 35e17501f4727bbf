------------------------------ MODULE Datasets -------------------------------
(***************************************************************************)
(* The DataSet objects of a program: [name, meta, tensors], where meta has     *)
(* the fields, each [type, values], and tensors is the TensorPack in its order,  *)
(* the tensor added last at its front.  Each method gives                      *)
(* [ok, error, dataset, value]: a method that throws may have changed the object, *)
(* and error is the class of the exception (out_of_range is one of the standard     *)
(* library).                                                                *)
(*                                                                         *)
(* The arrays of a program lie in its memory in one of three layouts: in one     *)
(* piece by rows ("contiguous"), in one piece by columns ("fortran"), or as       *)
(* pointers to rows ("nested"), which are sequences of sequences here.           *)
(***************************************************************************)
EXTENDS Tensors

NamesField == ".tensor_names"
Scalars == {"double", "float", "int64", "uint64", "int32", "uint32"}

(***************************************************************************)
(* Layouts.  A position counts from 0 in each dimension.                     *)
(***************************************************************************)
Positions(dims) == {p \in [DOMAIN dims -> 0 .. Product(dims)] : \A k \in DOMAIN dims : p[k] < dims[k]}
CIndex(dims, p) ==
  Total([k \in DOMAIN dims |-> p[k] * Product(SubSeq(dims, k + 1, Len(dims)))])
FIndex(dims, p) == Total([k \in DOMAIN dims |-> p[k] * Product(SubSeq(dims, 1, k - 1))])
(* Mutant of FToC: the data are taken in the order they have.                    *)
FToCAsTheyAre(dims, data) == data

FToC(dims, data) ==
  [i \in DOMAIN data |->
     data[FIndex(dims, CHOOSE p \in Positions(dims) : CIndex(dims, p) = i - 1) + 1]]
CToF(dims, data) ==
  [i \in DOMAIN data |->
     data[CIndex(dims, CHOOSE p \in Positions(dims) : FIndex(dims, p) = i - 1) + 1]]
InRows(data, n) == [i \in 1 .. Len(data) \div n |-> SubSeq(data, (i - 1) * n + 1, i * n)]
Nested(dims, data) == FoldRight(LAMBDA n, rows : InRows(rows, n), dims, data)[1]
Flat(dims, nested) == FoldLeft(LAMBDA rows, n : FlattenSeq(rows), nested, Tail(dims))

SetTensorData(dims, data, layout) ==
  CASE layout = "contiguous" -> data
    [] layout = "fortran" -> FToC(dims, data)
    [] layout = "nested" -> Flat(dims, data)
DataView(tensor, layout) ==
  CASE layout = "contiguous" -> tensor.data
    [] layout = "fortran" -> CToF(tensor.dims, tensor.data)
    [] layout = "nested" -> Nested(tensor.dims, tensor.data)

\* The memory of the caller is filled: nested memory is as large as the caller says,
\* and column order follows the dimensions of the tensor whatever those of the caller.
CanFill(tensor, dims) ==
  dims # << >> /\ (\A k \in DOMAIN dims : dims[k] > 0) /\ Product(dims) = Length(tensor)
FillMemSpace(tensor, dims, layout) ==
  IF layout = "nested" THEN Nested(dims, tensor.data) ELSE DataView(tensor, layout)

\* The constructor of a tensor.
CheckInputs(name, dims) ==
  /\ name \notin {"", ".meta"}
  /\ dims # << >> /\ \A k \in DOMAIN dims : dims[k] > 0
NewTensor(memory, layout) ==
  TensorNew(memory.dtype, memory.dims, SetTensorData(memory.dims, memory.data, layout))

(***************************************************************************)
(* The fields of the metadata.                                              *)
(***************************************************************************)
Done(dataset, value) == [ok |-> TRUE, error |-> "none", dataset |-> dataset, value |-> value]
Thrown(dataset, error) == [ok |-> FALSE, error |-> error, dataset |-> dataset, value |-> << >>]

HasField(dataset, field) == field \in DOMAIN dataset.meta
CreateField(dataset, field, type) ==
  IF HasField(dataset, field) THEN dataset
  ELSE [dataset EXCEPT !.meta = [f \in DOMAIN @ \cup {field} |->
          IF f = field THEN [type |-> type, values |-> << >>] ELSE @[f]]]
AppendValue(dataset, field, value) == [dataset EXCEPT !.meta[field].values = Append(@, value)]

\* The field is created before the type is found not to be one of a scalar.
AddMetaScalar(dataset, field, value, type) ==
  LET d == CreateField(dataset, field, type) IN
  IF d.meta[field].type = type /\ type \in Scalars
  THEN Done(AppendValue(d, field, value), << >>) ELSE Thrown(d, "Runtime")
AddMetaString(dataset, field, value) ==
  LET d == CreateField(dataset, field, "string") IN
  IF d.meta[field].type = "string" THEN Done(AppendValue(d, field, value), << >>)
  ELSE Thrown(d, "Runtime")
NumericValues(dataset, field) == dataset.meta[field].values
GetMetaScalars(dataset, field) ==
  IF HasField(dataset, field) /\ dataset.meta[field].type \in Scalars
  THEN Done(dataset, [type |-> dataset.meta[field].type, values |-> NumericValues(dataset, field)])
  ELSE Thrown(dataset, "Runtime")
GetMetaStrings(dataset, field) ==
  IF HasField(dataset, field) /\ dataset.meta[field].type = "string"
  THEN Done(dataset, dataset.meta[field].values) ELSE Thrown(dataset, "Runtime")
GetMetadataFieldType(dataset, field) ==
  IF HasField(dataset, field) THEN Done(dataset, dataset.meta[field].type)
  ELSE Thrown(dataset, "Key")
GetMetadataFieldNames(dataset) == Done(dataset, DOMAIN dataset.meta \ {NamesField})
ClearField(dataset, field) ==
  Done([dataset EXCEPT !.meta = Restrict(@, DOMAIN @ \ {field})], << >>)

(***************************************************************************)
(* The tensors.  Their names are the strings of a field of their own.         *)
(***************************************************************************)
DataSet(name) == [name |-> name, meta |-> << >>, tensors |-> << >>]
TensorExists(dataset, name) == \E i \in DOMAIN dataset.tensors : dataset.tensors[i].name = name
TensorAt(dataset, name) ==
  dataset.tensors[CHOOSE i \in DOMAIN dataset.tensors : dataset.tensors[i].name = name].data
AddToTensorpack(dataset, name, tensor) ==
  [dataset EXCEPT !.tensors = <<[name |-> name, data |-> tensor]>> \o @]
AddTensor(dataset, name, memory, layout) ==
  IF TensorExists(dataset, name) \/ ~CheckInputs(name, memory.dims) THEN Thrown(dataset, "Runtime")
  ELSE AddMetaString(AddToTensorpack(dataset, name, NewTensor(memory, layout)), NamesField, name)

GetTensorNames(dataset) ==
  IF HasField(dataset, NamesField) THEN GetMetaStrings(dataset, NamesField)
  ELSE Done(dataset, << >>)
View(tensor, layout) == [dtype |-> tensor.dtype, dims |-> tensor.dims, data |-> DataView(tensor, layout)]
GetTensor(dataset, name, layout) ==
  IF TensorExists(dataset, name) THEN Done(dataset, View(TensorAt(dataset, name), layout))
  ELSE Thrown(dataset, "Key")
\* The type is enforced of a tensor that exists.
TensorTypeError(dataset, name, dtype) ==
  CASE ~TensorExists(dataset, name) -> "Key"
    [] TensorExists(dataset, name) -> IF TensorAt(dataset, name).dtype = dtype THEN "none" ELSE "Runtime"
UnpackTensor(dataset, name, want, layout) ==
  LET error == TensorTypeError(dataset, name, want.dtype) IN
  IF error # "none" THEN Thrown(dataset, error)
  ELSE IF CanFill(TensorAt(dataset, name), want.dims)
  THEN Done(dataset, [want EXCEPT !.data = FillMemSpace(TensorAt(dataset, name), want.dims, layout)])
  ELSE Thrown(dataset, "Runtime")
\* The lookup throws before an absent tensor is found to be NULL.
GetTensorType(dataset, name) ==
  IF TensorExists(dataset, name) THEN Done(dataset, TensorAt(dataset, name).dtype)
  ELSE Thrown(dataset, "out_of_range")
GetTensorDims(dataset, name) ==
  IF TensorExists(dataset, name) THEN Done(dataset, TensorAt(dataset, name).dims)
  ELSE Thrown(dataset, "out_of_range")

\* A copy has its tensors in the opposite order.
CopyOf(dataset) == [dataset EXCEPT !.tensors = Reverse(@)]

(***************************************************************************)
(* A field in the hash of a dataset: its type, then its values.  A value is     *)
(* one cell here, whose width or length the code stores.                       *)
(***************************************************************************)
Serialize(field) == <<field.type>> \o field.values
Unserialize(buffer) == [type |-> buffer[1], values |-> Tail(buffer)]
SerializationMap(dataset) == [f \in DOMAIN dataset.meta |-> Serialize(dataset.meta[f])]
AddSerializedField(dataset, field, buffer) ==
  [dataset EXCEPT !.meta = [f \in DOMAIN @ \cup {field} |->
     IF f = field THEN Unserialize(buffer) ELSE @[f]]]

\* What a dataset holds, without its name and the order of its tensors.
Held(dataset) ==
  [meta |-> dataset.meta,
   tensors |-> [n \in {t.name : t \in ToSet(dataset.tensors)} |-> TensorAt(dataset, n)]]

\* A dataset that a program makes with one field of strings and some tensors.
DataSetOf(name, field, strings, tensors) ==
  LET withStrings == FoldLeft(LAMBDA d, s : AddMetaString(d, field, s).dataset, DataSet(name), strings)
  IN FoldLeft(LAMBDA d, t : AddTensor(d, t.name, t.data, "contiguous").dataset, withStrings, tensors)

(***************************************************************************)
(* A method of the object a program keeps under a name.                      *)
(***************************************************************************)
Method(d, call) ==
  CASE call.do = "new" -> Done(DataSet(call.on), << >>)
    [] call.do = "copy" -> Done(d, CopyOf(d))
    [] call.do = "add_tensor" -> AddTensor(d, call.name, call.data, call.layout)
    [] call.do = "add_meta_scalar" -> AddMetaScalar(d, call.name, call.value, call.type)
    [] call.do = "add_meta_string" -> AddMetaString(d, call.name, call.value)
    [] call.do = "get_tensor" -> GetTensor(d, call.name, call.layout)
    [] call.do = "unpack_tensor" -> UnpackTensor(d, call.name, call.data, call.layout)
    [] call.do = "get_meta_scalars" -> GetMetaScalars(d, call.name)
    [] call.do = "get_meta_strings" -> GetMetaStrings(d, call.name)
    [] call.do = "has_field" -> Done(d, HasField(d, call.name))
    [] call.do = "clear_field" -> ClearField(d, call.name)
    [] call.do = "get_tensor_names" -> GetTensorNames(d)
    [] call.do = "get_tensor_type" -> GetTensorType(d, call.name)
    [] call.do = "get_tensor_dims" -> GetTensorDims(d, call.name)
    [] call.do = "get_metadata_field_names" -> GetMetadataFieldNames(d)
    [] call.do = "get_metadata_field_type" -> GetMetadataFieldType(d, call.name)
=============================================================================
