------------------------------- MODULE Tensors --------------------------------
(***************************************************************************)
(* The tensors of RedisAI: [dtype, dims, data], where data has the elements   *)
(* in the order of the blob, the last dimension running fastest.  Clients      *)
(* send and get blobs only; tensors of strings, which SmartRedis does not      *)
(* have, are left out.                                                       *)
(***************************************************************************)
EXTENDS Integers, Sequences, FiniteSets, Functions, SequencesExt

SizeOf == [FLOAT |-> 4, DOUBLE |-> 8, INT8 |-> 1, INT16 |-> 2, INT32 |-> 4, INT64 |-> 8,
           UINT8 |-> 1, UINT16 |-> 2, BOOL |-> 1]
DataTypeFromString(name) == name \in DOMAIN SizeOf

Product(dims) == FoldLeft(LAMBDA a, b : a * b, 1, dims)
TensorNew(dtype, dims, data) == [dtype |-> dtype, dims |-> dims, data |-> data]
Length(t) == Product(t.dims)
ByteSize(t) == Length(t) * SizeOf[t.dtype]

\* A tensor of floats with one dimension.
Floats(data) == TensorNew("FLOAT", <<Len(data)>>, data)

(***************************************************************************)
(* AI.TENSORSET with a blob.  The last byte of a blob of Booleans is not       *)
(* looked at.                                                               *)
(***************************************************************************)
BooleansBlob(data) == \A i \in 1 .. Len(data) - 1 : data[i] \in {0, 1}
CreateFromBlob(arg) ==
  /\ Len(arg.data) * SizeOf[arg.dtype] = Product(arg.dims) * SizeOf[arg.dtype]
  /\ arg.dtype = "BOOL" => BooleansBlob(arg.data)
ParseTensorSetArgs(arg) ==
  /\ DataTypeFromString(arg.dtype)
  /\ \A i \in DOMAIN arg.dims : arg.dims[i] > 0
  /\ CreateFromBlob(arg)
IsTensor(t) == t = TensorNew(t.dtype, t.dims, t.data) /\ ParseTensorSetArgs(t)

\* AI.TENSORGET with META and BLOB.
Reply(t) == [dtype |-> t.dtype, dims |-> t.dims, data |-> t.data]

(***************************************************************************)
(* Batches: tensors are put one after the other along their first dimension,   *)
(* the others being those of the first tensor, and taken apart again.          *)
(***************************************************************************)
Rows(t) == t.dims[1]
RowLength(t) == Product(Tail(t.dims))
Row(t, i) == SubSeq(t.data, (i - 1) * RowLength(t) + 1, i * RowLength(t))
Total(sizes) == FoldLeft(LAMBDA a, b : a + b, 0, sizes)

\* The bytes of a tensor of another type are taken as they are.
BytesAs(dtype, t) ==
  IF t.dtype = dtype THEN t.data ELSE [i \in DOMAIN t.data |-> <<"bytes of", t.dtype, t.data[i]>>]
Concatenated(tensors) ==
  LET dtype == tensors[1].dtype  sizes == [b \in DOMAIN tensors |-> Rows(tensors[b])] IN
  TensorNew(dtype, <<Total(sizes)>> \o Tail(tensors[1].dims),
            FlattenSeq([b \in DOMAIN tensors |-> BytesAs(dtype, tensors[b])]))

Sliced(t, offset, len) ==
  TensorNew(t.dtype, <<len>> \o Tail(t.dims),
            SubSeq(t.data, offset * RowLength(t) + 1, (offset + len) * RowLength(t)))
=============================================================================
