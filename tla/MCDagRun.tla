------------------------------ MODULE MCDagRun ------------------------------
(***************************************************************************)
(* Small instances of DagRun for TLC.  The programs are chosen so that       *)
(* requests cross devices, reuse tensor names, compete for a device, fill    *)
(* and miss batches, fail, and time out.                                     *)
(***************************************************************************)
EXTENDS DagRun, TLC

CONSTANTS d1, d2, d3, d4, d5, cpu, gpu, c1, g1, g2, m, s, a, b, x

Op(cmd, dev, model, inkeys, outkeys, rows, shape) ==
  [cmd |-> cmd, device |-> dev, model |-> model, inkeys |-> inkeys, outkeys |-> outkeys,
   rows |-> rows, shape |-> shape]

Set(k) == Op("tensorset", cpu, s, <<>>, <<k>>, 1, 1)
Get(k) == Op("tensorget", cpu, s, <<k>>, <<>>, 1, 1)
ModelRun(dev, in, out, rows, shape) == Op("modelrun", dev, m, in, out, rows, shape)
ScriptRun(dev, in, out) == Op("scriptrun", dev, s, in, out, 1, 1)

(* Two requests that use both devices; the first names its output as its input,   *)
(* so that a GET before and a GET after the model read different tensors.          *)
CrossProgram ==
  (d1 :> <<Set(a), ModelRun(gpu, <<a>>, <<a>>, 1, 1), ScriptRun(cpu, <<a>>, <<b>>)>>) @@
  (d2 :> <<ModelRun(gpu, <<x>>, <<x>>, 1, 1), Get(x)>>)
CrossLoaded == (d1 :> <<>>) @@ (d2 :> <<x>>)
CrossPersist == (d1 :> {a, b}) @@ (d2 :> {x})

(* As above, but the inputs of the model have other dimensions in the second.      *)
ShapesProgram ==
  (d1 :> <<ModelRun(gpu, <<a>>, <<a>>, 1, 1), Get(a)>>) @@
  (d2 :> <<ModelRun(gpu, <<x>>, <<x>>, 1, 2), Get(x)>>)
ShapesLoaded == (d1 :> <<a>>) @@ (d2 :> <<x>>)
ShapesPersist == (d1 :> {a}) @@ (d2 :> {})

(* Executions of one model (requests of one operation) on a device with two workers: *)
(* two of the first three fill a batch; the fourth, of other dimensions, fills one     *)
(* alone; the fifth reads a name that nothing binds.                                 *)
BatchProgram ==
  [d \in {d1, d2, d3} |-> <<ModelRun(gpu, <<x>>, <<a>>, 1, 1)>>] @@
  (d4 :> <<ModelRun(gpu, <<x>>, <<a>>, 2, 2)>>) @@
  (d5 :> <<Get(b)>>)
BatchLoaded == [d \in {d1, d2, d3, d4, d5} |-> <<x>>]
BatchPersist == [d \in {d1, d2, d3, d4} |-> {a}] @@ (d5 :> {})
BatchSymmetry == Permutations({d1, d2, d3}) \cup Permutations({g1, g2})

Options2(batchsize, minbatchsize, timeout) ==
  [batchsize |-> batchsize, minbatchsize |-> minbatchsize, minbatchtimeout |-> timeout]
BatchedModels == (m :> Options2(2, 0, FALSE)) @@ (s :> Options2(0, 0, FALSE))
MinBatchModels == (m :> Options2(2, 2, TRUE)) @@ (s :> Options2(0, 0, FALSE))
(* Two executions of one row do not fill a batch, and go back in reverse order.       *)
AwaitedModels == (m :> Options2(3, 3, TRUE)) @@ (s :> Options2(0, 0, FALSE))

CrossWorkers == (c1 :> cpu) @@ (g1 :> gpu)
BatchWorkers == (c1 :> cpu) @@ (g1 :> gpu) @@ (g2 :> gpu)
GpuWorkers == (g1 :> gpu) @@ (g2 :> gpu)

-----------------------------------------------------------------------------
(* What the keys hold when the commands are parsed, and what each key is.           *)
StoredKeys ==
  [k \in {a, x} |-> [type |-> "tensor"]] @@
  (m :> [type |-> "model", device |-> gpu, inputs |-> 1, outputs |-> 1]) @@
  (s :> [type |-> "script", device |-> cpu])

Command == INSTANCE DagCommands
             WITH Objects <- StoredKeys, Local <- Keys, Cpu <- cpu, Enterprise <- FALSE

(* The requests above are what the parsers make of these commands; the rows and the  *)
(* shape of the inputs of the models are not in a command.                            *)
Asked(argv) == CHOOSE dag \in Command!ExecuteCommand(argv, {}) : TRUE
OneRow == [rows |-> 1, shape |-> 1]
Operations(dag, inputs) ==
  [i \in DOMAIN dag.ops |->
     LET op == dag.ops[i]
         size == IF op.cmd = "modelrun" THEN inputs ELSE OneRow
     IN  Op(op.cmd, op.device, IF op.object \in Models THEN op.object ELSE s,
            op.inkeys, op.outkeys, size.rows, size.shape)]
IsRequest(dag, program, inputs, loaded, persist) ==
  /\ program = Operations(dag, inputs)
  /\ loaded = dag.loaded
  /\ persist = dag.persist

Cross(timeout) ==
  (d1 :> Asked(<<"AI.DAGEXECUTE", "PERSIST", "2", a, b,
                 "|>", "AI.TENSORSET", a, "FLOAT", "1", "VALUES", "1",
                 "|>", "AI.MODELEXECUTE", m, "INPUTS", "1", a, "OUTPUTS", "1", a,
                 "|>", "AI.SCRIPTEXECUTE", s, "f", "INPUTS", "1", a, "OUTPUTS", "1", b>>)) @@
  (d2 :> Asked(<<"AI.DAGRUN", "LOAD", "1", x, "PERSIST", "1", x, "TIMEOUT", timeout,
                 "|>", "AI.MODELRUN", m, "INPUTS", x, "OUTPUTS", x,
                 "|>", "AI.TENSORGET", x>>))

(* The second is one that another module builds and keeps to itself.                  *)
Built ==
  LET run == Command!DAGRunOpAddOutput(Command!DAGRunOpAddInput(Command!DAGCreateModelRunOp(m), x), x)
      loaded == Command!DAGLoadTensor(Command!DAGRunCtxCreate, x)
  IN  Command!DAGAddTensorGet(Command!DAGAddRunOp(loaded, run), x)
Shapes ==
  (d1 :> Asked(<<"AI.DAGEXECUTE", "LOAD", "1", a, "PERSIST", "1", a,
                 "|>", "AI.MODELEXECUTE", m, "INPUTS", "1", a, "OUTPUTS", "1", a,
                 "|>", "AI.TENSORGET", a>>)) @@
  (d2 :> Built)

Batch ==
  [d \in {d1, d2, d3} |-> Asked(<<"AI.MODELEXECUTE", m, "INPUTS", "1", x, "OUTPUTS", "1", a>>)] @@
  (d4 :> Asked(<<"AI.MODELRUN", m, "INPUTS", x, "OUTPUTS", a>>)) @@
  (d5 :> Asked(<<"AI.DAGEXECUTE_RO", "LOAD", "1", x, "|>", "AI.TENSORGET", b>>))

(* The model's options, as AI.MODELSET gave them; a script has none.                 *)
ModelSet(options) == <<"AI.MODELSET", m, "TORCH", gpu>> \o options \o <<"BLOB", x>>
OptionsOf(argv) ==
  LET set == CHOOSE set \in Command!ModelSetArgs(argv) : TRUE
  IN  [batchsize |-> set.batchsize, minbatchsize |-> set.minbatchsize,
       minbatchtimeout |-> set.minbatchtimeout]
Models2(options) == (m :> OptionsOf(ModelSet(options))) @@ (s :> OptionsOf(ModelSet(<<>>)))

ASSUME RequestsAreAsked ==
  /\ \A d \in {d1, d2} :
       /\ IsRequest(Cross("1")[d], CrossProgram[d], OneRow, CrossLoaded[d], CrossPersist[d])
       /\ Cross("1")[d].timed <=> d = d2
       /\ Cross("0")[d] = [Cross("1")[d] EXCEPT !.timed = FALSE]   \* TIMEOUT 0 is none
       /\ IsRequest(Shapes[d], ShapesProgram[d], [OneRow EXCEPT !.shape = IF d = d2 THEN 2 ELSE 1],
                    ShapesLoaded[d], ShapesPersist[d])
  /\ \A d \in {d1, d2, d3, d4, d5} :
       IsRequest(Batch[d], BatchProgram[d],
                 IF d = d4 THEN [rows |-> 2, shape |-> 2] ELSE OneRow, BatchLoaded[d], BatchPersist[d])
  /\ BatchedModels = Models2(<<"BATCHSIZE", "2">>)
  /\ MinBatchModels = Models2(<<"BATCHSIZE", "2", "MINBATCHSIZE", "2", "MINBATCHTIMEOUT", "1">>)
  /\ AwaitedModels = Models2(<<"BATCHSIZE", "3", "MINBATCHSIZE", "3", "MINBATCHTIMEOUT", "1">>)

(* Commands that are refused, and others that are understood the same way.           *)

ModelExecute(inputs) == <<"AI.MODELEXECUTE", m, "INPUTS", "1", inputs, "OUTPUTS", "1", a>>
Refused ==
  {ModelExecute(b),                                           \* nothing is stored as b
   ModelExecute(s),                                           \* a script is no tensor
   ModelExecute(x) \o <<"TIMEOUT", "0">>,
   ModelExecute(x) \o <<"a">>,
   <<"AI.MODELEXECUTE", m, "INPUTS", "2", x, x, "OUTPUTS", "1", a>>,
   <<"AI.SCRIPTEXECUTE", s, "f", "OUTPUTS", "1", a>>,           \* KEYS or INPUTS come first
   <<"AI.SCRIPTEXECUTE", s, "f", "INPUTS", "1", x, "INPUTS", "1", x>>,
   <<"AI.SCRIPTRUN", s, "f", "OUTPUTS", a, "INPUTS", x>>,
   <<"AI.SCRIPTRUN", s, "f", "OUTPUTS", a, "$">>,
   <<"AI.DAGEXECUTE", "|>", "AI.TENSORGET", x, "META", "BLOB">>,      \* no section
   <<"AI.DAGEXECUTE", "LOAD", "2", x, "|>", "AI.TENSORGET", x>>,     \* x and |> are loaded
   <<"AI.DAGEXECUTE", "LOAD", "1", x, "|>", "AI.TENSORGET", x, "|>">>,
   <<"AI.DAGEXECUTE", "PERSIST", "2", a, a, "|>", "AI.TENSORSET", a, "FLOAT", "1">>,
   <<"AI.DAGEXECUTE", "LOAD", "1", x, "|>">> \o ModelExecute(x) \o <<"TIMEOUT", "1">>,
   <<"AI.DAGEXECUTE", "LOAD", "1", x, "|>", "AI.MODELRUN", m, "INPUTS", x, "OUTPUTS", a>>,
   <<"AI.DAGEXECUTE_RO", "PERSIST", "1", a, "|>", "AI.TENSORSET", a, "FLOAT", "1">>,
   <<"AI.DAGEXECUTE_RO", "LOAD", "1", x, "|>", "AI.SCRIPTEXECUTE", s, "f", "OUTPUTS", "1", a>>,
   <<"AI.DAGRUN", "|>">> \o ModelExecute(x),
   <<"AI.DAGRUN", "|>", "AI.TENSORSET", a, "FLOAT", "2", "VALUES", "1">>,
   <<"AI.DAGRUN", "|>", "AI.TENSORGET", x, "BLOB", "VALUES">>}
RefusedModels ==
  {ModelSet(<<"MINBATCHSIZE", "1">>), ModelSet(<<"BATCHSIZE", "1", "MINBATCHTIMEOUT", "1">>),
   ModelSet(<<"BATCHSIZE", "-1">>), ModelSet(<<"BATCHSIZE", "BLOB">>),
   <<"AI.MODELSET", m, "TF", gpu, "INPUTS", a, "BLOB", x>>,
   <<"AI.MODELSET", m, "TFLITE", gpu, "BATCHSIZE", "1", "BLOB", x>>}
SameRequests ==
  {<<ModelExecute(x), <<"AI.MODELRUN", m, "INPUTS", x, "OUTPUTS", a>>>>,
   <<<<"AI.SCRIPTEXECUTE", s, "f", "INPUTS", "2", x, a, "KEYS", "1", b, "OUTPUTS", "1", b, "TIMEOUT", "2">>,
     <<"AI.SCRIPTRUN", s, "f", "INPUTS", x, "TIMEOUT", "1", "$", a, "OUTPUTS", b>>>>,
   <<<<"AI.DAGEXECUTE_RO", "LOAD", "1", x, "|>", "AI.TENSORGET", x>>,
     <<"AI.DAGRUN_RO", "LOAD", "1", x, "|>", "AI.TENSORGET", x, "META">>>>}

ASSUME CommandsAreRead ==
  /\ \A argv \in Refused : Command!ExecuteCommand(argv, {}) = {}
  /\ \A argv \in RefusedModels : Command!ModelSetArgs(argv) = {}
  /\ \A pair \in SameRequests :
       /\ Command!ExecuteCommand(pair[1], {}) # {}
       /\ Command!ExecuteCommand(pair[1], {}) = Command!ExecuteCommand(pair[2], {})
       /\ Command!ExecuteCommand(pair[1], {"MULTI"}) = {}
  /\ Command!DAGAddOpsFromString(Command!DAGRunCtxCreate, <<"|>", "AI.TENSORGET", x>>)
       = Command!DAGAddTensorGet(Command!DAGRunCtxCreate, x)
=============================================================================
