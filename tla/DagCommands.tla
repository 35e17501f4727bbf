---------------------------- MODULE DagCommands ------------------------------
(***************************************************************************)
(* How a command becomes the request that DagRun executes: AI.DAGEXECUTE,     *)
(* AI.MODELEXECUTE, AI.SCRIPTEXECUTE, their deprecated forms AI.DAGRUN,       *)
(* AI.MODELRUN and AI.SCRIPTRUN, and the interface that builds a DAG for      *)
(* another module.  An argument is a keyword or a number, as strings, or a    *)
(* name.  Operators that parse return a set: of what was asked for, or empty  *)
(* when the command is refused; all refusals are alike.                       *)
(***************************************************************************)
EXTENDS Integers, FiniteSets, SequencesExt

Tensor == INSTANCE Tensors

CONSTANTS
  Objects,     \* Objects[k]: what the key k holds when the command is parsed
  Local,       \* the keys that belong to this shard
  Cpu,         \* the device of operations on tensors
  Enterprise   \* whether this is an enterprise cluster

Holds(k, type) == k \in DOMAIN Objects /\ Objects[k].type = type
Loadable(names) == \A i \in DOMAIN names : Holds(names[i], "tensor")

-----------------------------------------------------------------------------
(* Numbers, and lists of names with their length in front.                    *)

StringToLongLong == ("-1" :> -1) @@ ("0" :> 0) @@ ("1" :> 1) @@ ("2" :> 2) @@ ("3" :> 3)
NumberAt(argv, p) == p \in DOMAIN argv /\ argv[p] \in DOMAIN StringToLongLong
Count(argv, p) == StringToLongLong[argv[p]]
PositiveAt(argv, p) == NumberAt(argv, p) /\ Count(argv, p) > 0

(* The list whose length is the argument p is all there.                      *)
ListAt(argv, p) == NumberAt(argv, p) /\ p + Count(argv, p) \in 0 .. Len(argv)
List(argv, p) == SubSeq(argv, p + 1, p + Count(argv, p))
NonEmptyListAt(argv, p) == PositiveAt(argv, p) /\ ListAt(argv, p)
Places(argv, word) == {p \in DOMAIN argv : argv[p] = word}

-----------------------------------------------------------------------------
(* Operations on models.  An operation of a request that has one alone also   *)
(* carries its timeout; in a DAG it is refused.                                *)

Run(cmd, k, inkeys, outkeys, timed) ==
  [cmd |-> cmd, device |-> Objects[k].device, object |-> k, inkeys |-> inkeys,
   outkeys |-> outkeys, timed |-> timed]

Matches(k, inkeys, outkeys) ==
  Len(inkeys) = Objects[k].inputs /\ Len(outkeys) = Objects[k].outputs

(* AI.MODELEXECUTE m INPUTS n ... OUTPUTS n ... [TIMEOUT t]                    *)
ParseModelExecute(argv) ==
  LET outs == 5 + Count(argv, 4)
      last == outs + 1 + Count(argv, outs + 1)
      timed == last < Len(argv)
  IN  {op \in {Run("modelrun", argv[2], List(argv, 4), List(argv, outs + 1), timed)} :
         /\ Matches(argv[2], op.inkeys, op.outkeys)
         /\ timed => /\ Len(argv) = last + 2
                     /\ argv[last + 1] = "TIMEOUT"
                     /\ PositiveAt(argv, last + 2)}
ParseModelExecuteCommand(argv) ==
  IF /\ Len(argv) >= 8
     /\ Holds(argv[2], "model")
     /\ argv[3] = "INPUTS"
     /\ NonEmptyListAt(argv, 4)
     /\ 5 + Count(argv, 4) \in Places(argv, "OUTPUTS")
     /\ NonEmptyListAt(argv, 6 + Count(argv, 4))
  THEN ParseModelExecute(argv) ELSE {}

(* AI.MODELRUN m [TIMEOUT t] INPUTS ... OUTPUTS ...: the first OUTPUTS ends the *)
(* inputs.                                                                     *)
ModelRunArgs(argv, p, timed) ==
  LET ends == {q \in Places(argv, "OUTPUTS") : q > p}
      outs == IF ends = {} THEN Len(argv) + 1 ELSE CHOOSE q \in ends : \A r \in ends : q <= r
  IN  {op \in {Run("modelrun", argv[2], SubSeq(argv, p + 1, outs - 1),
                   SubSeq(argv, outs + 1, Len(argv)), timed)} :
         Matches(argv[2], op.inkeys, op.outkeys)}
ParseModelRunCommand(argv) ==
  LET timed == argv[3] = "TIMEOUT"
      inputs == IF timed THEN 5 ELSE 3
  IN  IF /\ Len(argv) >= 6
         /\ Holds(argv[2], "model")
         /\ timed => PositiveAt(argv, 4)
         /\ argv[inputs] = "INPUTS"
      THEN ModelRunArgs(argv, inputs, timed) ELSE {}

-----------------------------------------------------------------------------
(* Operations on scripts.                                                     *)

(* AI.SCRIPTEXECUTE s f, then KEYS, INPUTS, ARGS and OUTPUTS with their lists,  *)
(* each at most once and in any order, and TIMEOUT at the end.  Only the list   *)
(* of KEYS may not be empty.                                                  *)
Scopes == {"KEYS", "ARGS", "INPUTS", "OUTPUTS"}
ScopeAt(argv, p) ==
  /\ argv[p] \in Scopes
  /\ ListAt(argv, p + 1)
  /\ argv[p] = "KEYS" => PositiveAt(argv, p + 1) /\ ToSet(List(argv, p + 1)) \subseteq Local
ScopeEnd(argv, p) == p + 1 + (IF Count(argv, p + 1) > 0 THEN Count(argv, p + 1) ELSE 0)

(* Where the scopes from p on begin; the last place is that of TIMEOUT, that    *)
(* after the arguments, or that of what is no scope.                            *)
ScopePlaces(argv) ==
  LET places[p \in 4 .. Len(argv) + 1] ==
        IF p <= Len(argv) /\ ScopeAt(argv, p) THEN <<p>> \o places[ScopeEnd(argv, p) + 1] ELSE <<p>>
  IN  places[4]
ScopeNames(argv, word) ==
  LET p == {q \in ToSet(Front(ScopePlaces(argv))) : argv[q] = word}
  IN  IF p = {} THEN <<>> ELSE List(argv, (CHOOSE q \in p : TRUE) + 1)

ParseScriptExecuteCommand(argv, alone) ==
  LET places == ScopePlaces(argv)
      scopes == [i \in DOMAIN Front(places) |-> argv[places[i]]]
      last == Last(places)
      timed == last <= Len(argv)
  IN  IF /\ Len(argv) >= 3
         /\ Holds(argv[2], "script")
         /\ alone => Len(argv) > 3 /\ argv[4] \in {"KEYS", "INPUTS"}
         /\ IsInjective(scopes)
         /\ timed => /\ argv[last] = "TIMEOUT"
                     /\ PositiveAt(argv, last + 1)
                     /\ Len(argv) = last + 1
      THEN {Run("scriptrun", argv[2], ScopeNames(argv, "INPUTS"), ScopeNames(argv, "OUTPUTS"), timed)}
      ELSE {}

(* AI.SCRIPTRUN s f [INPUTS ...] [OUTPUTS ...]: TIMEOUT with its value anywhere, *)
(* and $, which begins the variable part of the inputs, among them.              *)
WithoutTimeout(argv) ==
  LET p == CHOOSE p \in Places(argv, "TIMEOUT") : p > 3
  IN  SubSeq(argv, 1, p - 1) \o SubSeq(argv, p + 2, Len(argv))
ScriptRunArgs(k, args, timed) ==
  LET outs == IF "OUTPUTS" \in ToSet(args) THEN CHOOSE p \in Places(args, "OUTPUTS") : TRUE
                 ELSE Len(args) + 1
      inkeys == SubSeq(args, 2, outs - 1)
  IN  IF /\ \A word \in {"INPUTS", "OUTPUTS", "$"} : Cardinality(Places(args, word)) <= 1
         /\ args # <<>> => args[1] \in {"INPUTS", "OUTPUTS"}
         /\ \A p \in Places(args, "INPUTS") : p = 1
         /\ \A p \in Places(args, "$") : p < outs
      THEN {Run("scriptrun", k, SelectSeq(inkeys, LAMBDA n : n # "$"),
                SubSeq(args, outs + 1, Len(args)), timed)}
      ELSE {}
ParseScriptRunCommand(argv) ==
  LET timeouts == {p \in Places(argv, "TIMEOUT") : p > 3}
      args == IF timeouts = {} THEN argv ELSE WithoutTimeout(argv)
  IN  IF /\ Len(argv) >= 3
         /\ Holds(argv[2], "script")
         /\ Cardinality(timeouts) <= 1
         /\ \A p \in timeouts : PositiveAt(argv, p + 1)
      THEN ScriptRunArgs(argv[2], SubSeq(args, 4, Len(args)), timeouts # {}) ELSE {}

-----------------------------------------------------------------------------
(* Operations on tensors.                                                     *)

OnTensor(cmd, inkeys, outkeys) ==
  [cmd |-> cmd, device |-> Cpu, object |-> Cpu, inkeys |-> inkeys, outkeys |-> outkeys,
   timed |-> FALSE]

ParseTensorGetFormat(argv) ==
  /\ Len(argv) \in 2 .. 4
  /\ \A p \in 3 .. Len(argv) : argv[p] \in {"META", "BLOB", "VALUES"}
  /\ ~({"BLOB", "VALUES"} \subseteq ToSet(SubSeq(argv, 3, Len(argv))))

(* The dimensions, and then one blob or a value for each element, or nothing.   *)
(* That a blob has the size of its tensor is in Tensors.                        *)
ParseTensorSetArgs(argv) ==
  LET data == {p \in 4 .. Len(argv) : argv[p] \in {"BLOB", "VALUES"}}
      first == IF data = {} THEN Len(argv) + 1 ELSE CHOOSE p \in data : \A q \in data : p <= q
      dims == SubSeq(argv, 4, first - 1)
      size == FoldLeft(LAMBDA n, d : n * StringToLongLong[d], 1, dims)
  IN  /\ Len(argv) >= 4
      /\ Tensor!DataTypeFromString(argv[3])
      /\ \A i \in DOMAIN dims : PositiveAt(dims, i)
      /\ data # {} => Len(argv) - first = IF argv[first] = "BLOB" THEN 1 ELSE size

TensorOps(argv) ==
  CASE argv[1] = "AI.TENSORGET" /\ ParseTensorGetFormat(argv) -> {OnTensor("tensorget", <<argv[2]>>, <<>>)}
    [] argv[1] = "AI.TENSORSET" /\ ParseTensorSetArgs(argv) -> {OnTensor("tensorset", <<>>, <<argv[2]>>)}
    [] OTHER -> {}

-----------------------------------------------------------------------------
(* DAGs.  The operations are refused together when one of them is.             *)

Untimed(ops) == {op \in ops : ~op.timed}

ExecuteOps(argv, ro) ==
  CASE argv = <<>> -> {}
    [] argv[1] = "AI.MODELEXECUTE" -> Untimed(ParseModelExecuteCommand(argv))
    [] argv[1] = "AI.SCRIPTEXECUTE" -> IF ro THEN {} ELSE Untimed(ParseScriptExecuteCommand(argv, FALSE))
    [] OTHER -> TensorOps(argv)
RunOps(argv) ==
  CASE argv = <<>> -> {}
    [] argv[1] = "AI.MODELRUN" -> Untimed(ParseModelRunCommand(argv))
    [] argv[1] = "AI.SCRIPTRUN" -> Untimed(ParseScriptRunCommand(argv))
    [] OTHER -> TensorOps(argv)

All(results) ==
  IF {} \in ToSet(results) THEN {}
  ELSE {[i \in DOMAIN results |-> CHOOSE op \in results[i] : TRUE]}
ParseDAGExecuteOps(ops, ro) == All([i \in DOMAIN ops |-> ExecuteOps(ops[i], ro)])
ParseDAGRunOps(ops) == All([i \in DOMAIN ops |-> RunOps(ops[i])])

(* The sections before the first |>: what they are, and where they begin.       *)
SectionAt(argv, p) ==
  \/ argv[p] \in {"LOAD", "PERSIST"} /\ NonEmptyListAt(argv, p + 1)
  \/ argv[p] = "ROUTING" /\ p < Len(argv)
  \/ argv[p] = "TIMEOUT" /\ NumberAt(argv, p + 1)
SectionEnd(argv, p) ==
  IF argv[p] \in {"LOAD", "PERSIST"} THEN p + 1 + Count(argv, p + 1) ELSE p + 1
SectionPlaces(argv) ==
  LET places[p \in 2 .. Len(argv) + 1] ==
        IF p <= Len(argv) /\ SectionAt(argv, p) THEN <<p>> \o places[SectionEnd(argv, p) + 1] ELSE <<p>>
  IN  places[2]
Section(argv, word) ==
  LET p == {q \in ToSet(Front(SectionPlaces(argv))) : argv[q] = word}
  IN  IF p = {} THEN <<>> ELSE List(argv, (CHOOSE q \in p : TRUE) + 1)

(* The arguments of each operation: those after a |> up to the next one.        *)
CollectOpArgs(argv, p) ==
  LET starts == SetToSortSeq({q \in Places(argv, "|>") : q >= p /\ q < Len(argv)}, <)
  IN  [i \in DOMAIN starts |->
         SubSeq(argv, starts[i] + 1, IF i = Len(starts) THEN Len(argv) ELSE starts[i + 1] - 1)]

(* _parseTimeout compares the address of the value with zero, so that TIMEOUT 0 *)
(* and less are accepted; such a request has no timeout.                        *)
TimeoutSet(argv, places) ==
  \E i \in DOMAIN places : argv[places[i]] = "TIMEOUT" /\ Count(argv, places[i] + 1) > 0

(* Each section at most once, and operations.  The deprecated commands need no   *)
(* section.                                                                   *)
DAGInitialParsing(argv, ro, deprecated) ==
  LET places == SectionPlaces(argv)
      sections == [i \in DOMAIN Front(places) |-> argv[places[i]]]
      first == Last(places)
  IN  IF /\ IsInjective(sections)
         /\ first < Len(argv) /\ argv[first] = "|>" /\ Last(argv) # "|>"
         /\ deprecated \/ ToSet(sections) \cap {"LOAD", "PERSIST", "ROUTING"} # {}
         /\ ro => "PERSIST" \notin ToSet(sections)
         /\ Loadable(Section(argv, "LOAD"))
         /\ IsInjective(Section(argv, "PERSIST"))
         /\ ToSet(Section(argv, "PERSIST")) \subseteq Local
         /\ \A i \in DOMAIN sections : sections[i] = "ROUTING" => argv[places[i] + 1] \in Local
      THEN {[ops |-> CollectOpArgs(argv, first), loaded |-> Section(argv, "LOAD"),
             persist |-> ToSet(Section(argv, "PERSIST")),
             timed |-> TimeoutSet(argv, Front(places))]}
      ELSE {}

WithOps(dag, parsed) == {[dag EXCEPT !.ops = ops] : ops \in parsed}
ParseDAGExecuteCommand(argv, ro) ==
  IF Len(argv) < 6 THEN {}
  ELSE UNION {WithOps(dag, ParseDAGExecuteOps(dag.ops, ro)) :
                dag \in DAGInitialParsing(argv, ro, FALSE)}
ParseDAGRunCommand(argv, ro) ==
  IF Len(argv) < 4 THEN {}
  ELSE UNION {WithOps(dag, ParseDAGRunOps(dag.ops)) : dag \in DAGInitialParsing(argv, ro, TRUE)}

-----------------------------------------------------------------------------
(* Commands.  A model or script that runs alone is a DAG of one operation, whose *)
(* inputs are read at once and whose outputs are kept.                          *)

Alone(ops) ==
  {[ops |-> <<op>>, loaded |-> op.inkeys, persist |-> ToSet(op.outkeys), timed |-> op.timed] : op \in ops}
ModelRunCtx_SetParams(op) == Loadable(op.inkeys) /\ ToSet(op.outkeys) \subseteq Local
ScriptRunCtx_SetParams(op) == Loadable(op.inkeys)

Deprecated == {"AI.DAGRUN", "AI.DAGRUN_RO", "AI.MODELRUN"}

RunsAlone(argv) ==
  CASE argv[1] = "AI.MODELRUN" -> {op \in ParseModelRunCommand(argv) : ModelRunCtx_SetParams(op)}
    [] argv[1] = "AI.MODELEXECUTE" -> {op \in ParseModelExecuteCommand(argv) : ModelRunCtx_SetParams(op)}
    [] argv[1] = "AI.SCRIPTRUN" -> {op \in ParseScriptRunCommand(argv) : ScriptRunCtx_SetParams(op)}
    [] argv[1] = "AI.SCRIPTEXECUTE" ->
         {op \in ParseScriptExecuteCommand(argv, TRUE) : ScriptRunCtx_SetParams(op)}
    [] OTHER -> {}
RunsDAG(argv) ==
  CASE argv[1] = "AI.DAGRUN" -> ParseDAGRunCommand(argv, FALSE)
    [] argv[1] = "AI.DAGRUN_RO" -> ParseDAGRunCommand(argv, TRUE)
    [] argv[1] = "AI.DAGEXECUTE" -> ParseDAGExecuteCommand(argv, FALSE)
    [] argv[1] = "AI.DAGEXECUTE_RO" -> ParseDAGExecuteCommand(argv, TRUE)
    [] OTHER -> {}

(* A client that is in a transaction or a script of Redis cannot be blocked.     *)
ExecuteCommand(argv, flags) ==
  IF flags \cap {"MULTI", "LUA"} # {} \/ (Enterprise /\ argv[1] \in Deprecated)
  THEN {} ELSE Alone(RunsAlone(argv)) \cup RunsDAG(argv)

-----------------------------------------------------------------------------
(* Another module builds a DAG call by call; a call that is refused leaves the   *)
(* DAG as it was.                                                              *)

DAGRunCtxCreate == [ops |-> <<>>, loaded |-> <<>>, persist |-> {}, timed |-> FALSE]
DAGLoadTensor(dag, name) ==
  IF name \in ToSet(dag.loaded) THEN dag ELSE [dag EXCEPT !.loaded = Append(@, name)]

DAGCreateModelRunOp(m) == Run("modelrun", m, <<>>, <<>>, FALSE)
DAGCreateScriptRunOp(s) == Run("scriptrun", s, <<>>, <<>>, FALSE)
DAGRunOpAddInput(op, name) == [op EXCEPT !.inkeys = Append(@, name)]
DAGRunOpAddOutput(op, name) == [op EXCEPT !.outkeys = Append(@, name)]

AddOp(dag, op) == [dag EXCEPT !.ops = Append(@, op)]
DAGAddRunOp(dag, op) ==
  IF op.cmd = "modelrun" /\ ~Matches(op.object, op.inkeys, op.outkeys) THEN dag ELSE AddOp(dag, op)
DAGAddTensorGet(dag, name) == AddOp(dag, OnTensor("tensorget", <<name>>, <<>>))
DAGAddTensorSet(dag, name) == AddOp(dag, OnTensor("tensorset", <<>>, <<name>>))
DAGAddOpsFromString(dag, words) ==
  LET parsed == IF words[1] = "|>" THEN ParseDAGExecuteOps(CollectOpArgs(words, 1), FALSE) ELSE {}
  IN  IF parsed = {} THEN dag ELSE [dag EXCEPT !.ops = @ \o (CHOOSE ops \in parsed : TRUE)]

(* ModelRunAsync and ScriptRunAsync: the tensors are given, not named.            *)
RunAsync(op) == AddOp(DAGRunCtxCreate, op)

-----------------------------------------------------------------------------
(* AI.MODELSET m backend device [TAG t] [BATCHSIZE n] [MINBATCHSIZE n]            *)
(* [MINBATCHTIMEOUT n] [INPUTS ... OUTPUTS ...] BLOB ...: options in this order.   *)
(* Backends other than TensorFlow do not look at INPUTS and OUTPUTS.              *)

Given(argv, p, word) == p <= Len(argv) /\ argv[p] = word
After(argv, p, word) == IF Given(argv, p, word) THEN p + 2 ELSE p
Value(argv, p, word) == IF Given(argv, p, word) THEN Count(argv, p + 1) ELSE 0
Unsigned(argv, p, word) ==
  Given(argv, p, word) => NumberAt(argv, p + 1) /\ Count(argv, p + 1) >= 0

BatchOptions(argv) ==
  LET size == After(argv, 5, "TAG")
      min == After(argv, size, "BATCHSIZE")
      timeout == After(argv, min, "MINBATCHSIZE")
  IN  IF /\ Unsigned(argv, size, "BATCHSIZE") /\ Unsigned(argv, min, "MINBATCHSIZE")
         /\ Unsigned(argv, timeout, "MINBATCHTIMEOUT")
         /\ Given(argv, size, "BATCHSIZE") => argv[3] # "TFLITE"
         /\ Given(argv, min, "MINBATCHSIZE") => Value(argv, size, "BATCHSIZE") > 0
         /\ Given(argv, timeout, "MINBATCHTIMEOUT") =>
              Value(argv, size, "BATCHSIZE") > 0 /\ Value(argv, min, "MINBATCHSIZE") > 0
      THEN {[batchsize |-> Value(argv, size, "BATCHSIZE"), minbatchsize |-> Value(argv, min, "MINBATCHSIZE"),
             minbatchtimeout |-> Value(argv, timeout, "MINBATCHTIMEOUT") > 0,
             next |-> After(argv, timeout, "MINBATCHTIMEOUT")]}
      ELSE {}

(* Names up to OUTPUTS are inputs, the others outputs.                           *)
TensorFlowNames(names) ==
  /\ names # <<>> /\ names[1] = "INPUTS"
  /\ "OUTPUTS" \in ToSet(names)
Words == {"INPUTS", "OUTPUTS", "TAG", "BATCHSIZE", "MINBATCHSIZE", "MINBATCHTIMEOUT", "BLOB"}
ModelSetArgs(argv) ==
  {opts \in BatchOptions(argv) :
     LET blobs == {p \in Places(argv, "BLOB") : p >= opts.next} IN
     /\ Len(argv) >= 4
     /\ argv[3] \in {"TF", "TFLITE", "TORCH", "ONNX", "JAX"}
     /\ argv[4] \notin Words
     /\ \E p \in blobs :
          /\ \A q \in blobs : p <= q
          /\ p < Len(argv)
          /\ argv[3] = "TF" => TensorFlowNames(SubSeq(argv, opts.next, p - 1))}
=============================================================================
