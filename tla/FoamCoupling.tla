---------------------------- MODULE FoamCoupling -----------------------------
(***************************************************************************)
(* What the OpenFOAM programs and the script that trains a model for them    *)
(* call.  A program is a sequence of SmartRedis calls; between them,           *)
(*   [op |-> "reduce", step, rank]        all ranks of a solver wait           *)
(*   [op |-> "continue", what, with]      the program looks at what it has kept *)
(* A call with the field keep stores its result in the memory of the program;  *)
(* with soft, a poll in vain or an exception does not end the program.         *)
(***************************************************************************)
EXTENDS Datasets, TLC

Tries == 2    \* how often a poll asks: 10, 1000 or 10000 times in the code

Keep(call, name) == call @@ [keep |-> name]
Soft(call) == call @@ [soft |-> TRUE]
Continue(what, with) == [op |-> "continue", what |-> what, with |-> with]

\* How a program goes on: with these calls before the others, or it exits.
Proceed(memory, calls) == [memory |-> memory, calls |-> calls, exit |-> FALSE]
Exit(memory) == [memory |-> memory, calls |-> << >>, exit |-> TRUE]

Named(base, n) == base \o ToString(n)
PollFor(what, name, holds) ==
  [op |-> "poll", what |-> what, name |-> name, tries |-> Tries, holds |-> holds]
PutData(name, note, tensors) ==
  [op |-> "put_dataset", dataset |-> DataSetOf(name, "note", note, tensors)]
AppendTo(list, dataset) == [op |-> "append_to_list", name |-> list, dataset |-> dataset]
PutTensor(name, data) == [op |-> "put_tensor", name |-> name, data |-> Floats(data)]
OnName(op, name) == [op |-> op, name |-> name]

(***************************************************************************)
(* displacementSmartSimMotionSolver: in each step every rank sends the points  *)
(* and displacements of its part of the boundary, waits for the model, and     *)
(* moves its points by what the model says.                                   *)
(***************************************************************************)
SendBoundary(rank, step) ==
  LET points == Named("points_dataset_MPI_", rank)
      displacements == Named("displacement_dataset_MPI_", rank)
  IN << PutData(points, << >>, << [name |-> "points", data |-> Floats(<<step>>)] >>),
        PutData(displacements, << >>, << [name |-> "displacements", data |-> Floats(<<step>>)] >>),
        AppendTo("pointsDatasetList", points),
        AppendTo("displacementsDatasetList", displacements) >>
MoveInternalPoints(rank, step) ==
  LET input == Named("meshPoints_", rank)  output == Named("outputDisplacements_", rank) IN
  << PollFor("key", "model_updated", [is |-> "there"]),
     PutTensor(input, <<step>>),
     [op |-> "run_model", name |-> "MLP", ins |-> <<input>>, outs |-> <<output>>],
     Keep(OnName("get_tensor", output), "displacement") >>
Master(rank, calls) == IF rank = 0 THEN calls ELSE << >>

(* Mutant of Solve: the flag is not deleted at the end of the step.                *)
SolveFlagLeft(rank, step, last) ==
  SendBoundary(rank, step) \o MoveInternalPoints(rank, step)
  \o (IF last THEN Master(rank, <<PutTensor("end_time_index", <<step>>)>>) ELSE << >>)
  \o <<[op |-> "reduce", step |-> step, rank |-> rank]>>

Solve(rank, step, last) ==
  SendBoundary(rank, step) \o MoveInternalPoints(rank, step)
  \o (IF last THEN Master(rank, <<PutTensor("end_time_index", <<step>>)>>) ELSE << >>)
  \o <<[op |-> "reduce", step |-> step, rank |-> rank]>>
  \o Master(rank, <<OnName("delete_tensor", "model_updated")>>)

(***************************************************************************)
(* The script that trains: it waits for the data of all ranks, stores a model  *)
(* trained on them, and sets the flag.                                       *)
(***************************************************************************)
Training(ranks) ==
  << PollFor("list", "pointsDatasetList", [is |-> "equal", than |-> ranks]),
     PollFor("list", "displacementsDatasetList", [is |-> "equal", than |-> ranks]),
     Keep(OnName("get_datasets_from_list", "pointsDatasetList"), "points"),
     Keep(OnName("get_datasets_from_list", "displacementsDatasetList"), "displacements"),
     Continue("train", ranks) >>
Trained(memory) ==
  LET data(datasets) == FlattenSeq([i \in DOMAIN datasets |-> datasets[i].tensors[1].data.data])
  IN [name |-> "trained", of |-> data(memory.points) \o data(memory.displacements)]
StoreTrained(memory, ranks) ==
  << [op |-> "set_model", name |-> "MLP",
      def |-> [backend |-> "TORCH", device |-> "CPU", tag |-> "", batchsize |-> 0,
               minbatchsize |-> 0, minbatchtimeout |-> 0, inputs |-> << >>, outputs |-> << >>,
               blob |-> Trained(memory), size |-> 1]],
     PutTensor("model_updated", <<0>>),
     OnName("delete_list", "pointsDatasetList"), OnName("delete_list", "displacementsDatasetList"),
     Keep(Soft(PollFor("key", "end_time_index", [is |-> "there"])), "ended"),
     Continue("next step", ranks) >>

(***************************************************************************)
(* smartRedisClient and fieldsToSmartRedisFunctionObject: the fields of a step  *)
(* in a dataset per rank, and one with the names of them all.                  *)
(***************************************************************************)
MetadataName(object) == object \o "_metadata"
FieldsName(object, step, rank) ==
  object \o "_time_index_" \o ToString(step) \o "_mpi_rank_" \o ToString(rank)
PostMetadata(object, rank) ==
  Master(rank, <<PutData(MetadataName(object), <<"templates">>, << >>)>>)
PackFields(step, rank) == << [name |-> "p", data |-> Floats(<<step, rank>>)] >>
SendGeometricFields(object, rank, step) ==
  << PutData(FieldsName(object, step, rank), << >>, PackFields(step, rank)) >>
\* It does not look at what the poll says.
GetGeometricFields(object, rank, step) ==
  << Soft(PollFor("dataset", FieldsName(object, step, rank), [is |-> "there"])),
     Keep(OnName("get_dataset", FieldsName(object, step, rank)), "fields") >>
GetMetadata(object) ==
  << Keep([op |-> "exists", what |-> "dataset", name |-> MetadataName(object)], "there"),
     Continue("metadata", object) >>
\* All ranks do this at the end.
End(object, step) ==
  GetMetadata(object) \o <<Continue("add", [object |-> object, value |-> ToString(step)])>>
AddToMetadata(object, rank, value) ==
  Master(rank, GetMetadata(object) \o <<Continue("add", [object |-> object, value |-> value])>>)

(***************************************************************************)
(* How these programs go on.                                                 *)
(***************************************************************************)
FoamContinues(what, with, memory) ==
  CASE what = "train" -> Proceed(memory, StoreTrained(memory, with))
    [] what = "next step" -> Proceed(memory, IF memory.ended THEN << >> ELSE Training(with))
    [] what = "metadata" ->
         IF memory.there
         THEN Proceed(memory, <<Keep(OnName("get_dataset", MetadataName(with)), "metadata")>>)
         ELSE Exit(memory)
    [] what = "add" ->
         Proceed(memory, << [op |-> "put_dataset",
                             dataset |-> AddMetaString(memory.metadata, "note", with.value).dataset] >>)
FoamSteps == {"train", "next step", "metadata", "add"}
=============================================================================
