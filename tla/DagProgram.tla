----------------------------- MODULE DagProgram -----------------------------
(***************************************************************************)
(* What a client asks RedisAI to run: a DAG, or a single model or script    *)
(* execution, which RedisAI treats as a DAG of one operation whose inputs   *)
(* were loaded when the command was parsed.  The parsed requests are        *)
(* constants.  The module also holds the step that resolves tensor names,   *)
(* MapTensorsKeysToIndices, which gives every output a slot of its own in   *)
(* dagSharedTensors.                                                        *)
(*                                                                         *)
(* A slot is named by the operation and the output position that fill it,   *)
(* <<i, j>>, operation 0 standing for the LOAD block; the code's index is   *)
(* the length of the array at that moment, a fresh number each time.        *)
(***************************************************************************)
EXTENDS Naturals, FiniteSets, SequencesExt

CONSTANTS
  Dags,        \* requests
  Devices,     \* devices, one run queue each
  Keys,        \* tensor names
  Models,      \* models (a script is never batched, its options do not matter)
  Program,     \* Program[d]: the operations of d, in the order of the command
  Loaded,      \* Loaded[d]: the names given to LOAD, in order
  Persist,     \* Persist[d]: the names given to PERSIST
  HasTimeout,  \* the requests that carry TIMEOUT
  ModelOpts    \* ModelOpts[m]: the batching options given to AI.MODELSTORE

(* RAI_DagOp.  rows is the size of the inputs along dimension 0 (0 when the  *)
(* inputs disagree on it) and shape stands for their other dimensions.       *)
Operation ==
  [cmd : {"tensorset", "tensorget", "modelrun", "scriptrun"}, device : Devices,
   model : Models, inkeys : Seq(Keys), outkeys : Seq(Keys), rows : Nat, shape : Nat]

(* AI.TENSORSET reads no tensor and AI.TENSORGET makes none; a model with no    *)
(* input runs on no rows.                                                     *)
ASSUME ProgramAssumption ==
  /\ IsFiniteSet(Devices)
  /\ Program \in [Dags -> Seq(Operation)]
  /\ \A d \in Dags : Len(Program[d]) > 0
  /\ Loaded \in [Dags -> Seq(Keys)]
  /\ Persist \in [Dags -> SUBSET Keys]
  /\ HasTimeout \subseteq Dags
  /\ \A d \in Dags : \A i \in DOMAIN Program[d] :
       /\ Program[d][i].cmd = "tensorset" => Program[d][i].inkeys = <<>>
       /\ Program[d][i].cmd = "tensorget" => Program[d][i].outkeys = <<>>
       /\ Program[d][i].cmd = "modelrun" /\ Program[d][i].inkeys = <<>> => Program[d][i].rows = 0

(* AI.MODELSTORE refuses MINBATCHSIZE without BATCHSIZE and MINBATCHTIMEOUT   *)
(* without MINBATCHSIZE; minbatchtimeout is whether one is set.               *)
ASSUME ModelOptsAssumption ==
  \A m \in Models :
    /\ ModelOpts[m].batchsize \in Nat
    /\ ModelOpts[m].minbatchsize \in Nat
    /\ ModelOpts[m].minbatchtimeout \in BOOLEAN
    /\ ModelOpts[m].batchsize = 0 => ModelOpts[m].minbatchsize = 0
    /\ ModelOpts[m].minbatchsize = 0 => ~ModelOpts[m].minbatchtimeout

-----------------------------------------------------------------------------
(* Where the operations of a request run.                                    *)

OpIds(d) == 1..Len(Program[d])
OpsOn(d, dev) == {i \in OpIds(d) : Program[d][i].device = dev}
DevicesOf(d) == {Program[d][i].device : i \in OpIds(d)}
IsRun(d, i) == Program[d][i].cmd \in {"modelrun", "scriptrun"}

(* The operation of d that dev executes after n of them: dagDeviceOps[n].     *)
DeviceOp(d, dev, n) ==
  CHOOSE i \in OpsOn(d, dev) : Cardinality({j \in OpsOn(d, dev) : j < i}) = n

-----------------------------------------------------------------------------
(* Tensor names to slots.                                                     *)

LastPosition(seq, k) ==
  CHOOSE j \in DOMAIN seq : seq[j] = k /\ \A h \in DOMAIN seq : seq[h] = k => h <= j
FirstPosition(seq, k) ==
  CHOOSE j \in DOMAIN seq : seq[j] = k /\ \A h \in DOMAIN seq : seq[h] = k => j <= h

(* LOAD binds a name once: AI_dictAdd keeps the first binding of a name that  *)
(* is given twice.                                                            *)
LoadedNames(d) == [k \in ToSet(Loaded[d]) |-> <<0, FirstPosition(Loaded[d], k)>>]

(* Mutant of BindOutputs: AI_dictAdd, which keeps the first binding.           *)
BindOutputsAdd(names, d, i) ==
  LET outkeys == Program[d][i].outkeys
  IN  [k \in DOMAIN names \cup ToSet(outkeys) |->
         IF k \in DOMAIN names THEN names[k] ELSE <<i, FirstPosition(outkeys, k)>>]

(* The names an operation redefines: AI_dictReplace keeps the last binding.   *)
BindOutputs(names, d, i) ==
  LET outkeys == Program[d][i].outkeys
  IN  [k \in DOMAIN names \cup ToSet(outkeys) |->
         IF k \in ToSet(outkeys) THEN <<i, LastPosition(outkeys, k)>> ELSE names[k]]

(* NameTable(d)[i]: the bindings after the outputs of operation i.            *)
NameTable(d) ==
  LET table[i \in {0} \cup OpIds(d)] ==
        IF i = 0 THEN LoadedNames(d) ELSE BindOutputs(table[i - 1], d, i)
  IN  table

InSlot(d, i, j) == NameTable(d)[i - 1][Program[d][i].inkeys[j]]
InSlots(d, i) == {InSlot(d, i, j) : j \in DOMAIN Program[d][i].inkeys}

OutSlots(d, i) == {<<i, j>> : j \in DOMAIN Program[d][i].outkeys}
PersistSlot(d, k) == NameTable(d)[Len(Program[d])][k]

(* The request is rejected when an input or a PERSIST name has no binding.    *)
WellFormed(d) ==
  /\ \A i \in OpIds(d) : ToSet(Program[d][i].inkeys) \subseteq DOMAIN NameTable(d)[i - 1]
  /\ Persist[d] \subseteq DOMAIN NameTable(d)[Len(Program[d])]

-----------------------------------------------------------------------------
(* Tensors.  A tensor is described by how it was computed, so that two        *)
(* tensors are equal exactly when the same operation made them from the same  *)
(* inputs.                                                                    *)

Computed(i, j, args) == [op |-> i, out |-> j, args |-> args]
LoadedTensor(k) == [op |-> 0, out |-> k, args |-> <<>>]
=============================================================================
