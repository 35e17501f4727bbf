---------------------------- MODULE TrainingData -----------------------------
(***************************************************************************)
(* TrainingDataUploader and DataDownloader of smartsim.ml: batches of samples  *)
(* in datasets, and the list of them, from which replicas of a training       *)
(* process take turns.  The memory of a downloader holds                      *)
(*   next      next_indices, by uploader                                      *)
(*   samples   the samples it has, a batch counting as one                     *)
(*   fetched   the datasets of the current update                             *)
(* and what it was made with: list, keys, replica, replicas.                   *)
(***************************************************************************)
EXTENDS FoamCoupling

InfoName(list) == list \o "_info"
PublishInfo(list, sampleName) == <<PutData(InfoName(list), <<sampleName>>, << >>)>>
BatchName(rank, index) == "training_samples_" \o ToString(rank) \o "_" \o ToString(index)
PutBatch(list, sampleName, rank, index, batch) ==
  << PutData(BatchName(rank, index), << >>, << [name |-> sampleName, data |-> Floats(<<batch>>)] >>),
     AppendTo(list, BatchName(rank, index)) >>

\* The name of the samples is "samples" when nobody has published another.
SampleName(memory) == IF "info" \in DOMAIN memory THEN memory.info.meta["note"].values[1] ELSE "samples"
NewDownloader(list, keys, replica, replicas, trials) ==
  << Keep(Soft(OnName("get_dataset", InfoName(list))), "info"),
     Continue("new downloader", [list |-> list, keys |-> keys, replica |-> replica,
                                 replicas |-> replicas, trials |-> trials]) >>
Created(memory, with) ==
  memory @@ [list |-> with.list, keys |-> with.keys, replica |-> with.replica,
             replicas |-> with.replicas, samples |-> << >>, fetched |-> << >>,
             next |-> [u \in DOMAIN with.keys |-> with.replica]]

(***************************************************************************)
(* An update asks the list of each uploader for what is new.                  *)
(***************************************************************************)
OfUploader(memory, u) ==
  (IF memory.keys[u] = << >> THEN << >>
   ELSE << [op |-> "use_ensemble_prefix", kind |-> "list", on |-> TRUE],
           [op |-> "set_data_source", source |-> memory.keys[u]] >>)
  \o << Keep(OnName("get_list_length", memory.list), "length"), Continue("fetch", u) >>
UpdateSamples(memory) == FlattenSeq([u \in DOMAIN memory.keys |-> OfUploader(memory, u)])

\* range(start, list_length, num_replicas), the places of a list beginning with 0
NewIndices(memory, u) ==
  [i \in 1 .. ((memory.length - memory.next[u] - 1) \div memory.replicas) + 1 |->
     memory.next[u] + (i - 1) * memory.replicas]
GetRange(memory, from, to) ==
  << Keep([op |-> "get_dataset_list_range", name |-> memory.list, range |-> <<from, to>>], "datasets"),
     Continue("gather", {}) >>
Fetch(memory, u) ==
  IF memory.length <= memory.next[u] THEN Proceed(memory, << >>)
  ELSE LET indices == NewIndices(memory, u) IN
       Proceed(memory,
         (IF memory.replicas = 1 THEN GetRange(memory, indices[1], Last(indices))
          ELSE FlattenSeq([i \in DOMAIN indices |-> GetRange(memory, indices[i], indices[i])]))
         \o <<Continue("add samples", [uploader |-> u, last |-> Last(indices)])>>)

HasSamples(dataset, name) == name \in ToSet(GetTensorNames(dataset).value)
Samples(dataset, name) == TensorAt(dataset, name).data
\* The first dataset of all is taken off the datasets only when there are others.
NewSamples(memory) ==
  LET got == memory.fetched
      first == IF memory.samples = << >> THEN <<got[1]>> ELSE << >>
      rest == IF memory.samples = << >> /\ Len(got) > 1 THEN Tail(got) ELSE got
  IN FlattenSeq([i \in DOMAIN (first \o rest) |-> Samples((first \o rest)[i], SampleName(memory))])
CanAdd(memory) ==
  memory.fetched # << >> /\ \A d \in ToSet(memory.fetched) : HasSamples(d, SampleName(memory))
(* Mutant of AddSamples: the next index is the one after the last, whatever the      *)
(* number of replicas.                                                           *)
AddSamplesInTurn(memory, with) ==
  IF ~CanAdd(memory) THEN Exit(memory)
  ELSE Proceed([memory EXCEPT !.samples = @ \o NewSamples(memory), !.fetched = << >>,
                              !.next[with.uploader] = with.last + 1], << >>)

AddSamples(memory, with) ==
  IF ~CanAdd(memory) THEN Exit(memory)
  ELSE Proceed([memory EXCEPT !.samples = @ \o NewSamples(memory), !.fetched = << >>,
                              !.next[with.uploader] = with.last + memory.replicas], << >>)

(***************************************************************************)
(* How a downloader goes on: it asks with.trials times until it has samples.   *)
(***************************************************************************)
InitSamples(memory, trials) ==
  IF memory.samples # << >> THEN Proceed(memory, << >>)
  ELSE IF trials = 0 THEN Exit(memory)
  ELSE Proceed(memory, UpdateSamples(memory) \o <<Continue("init", trials - 1)>>)
TrainingContinues(what, with, memory) ==
  CASE what = "new downloader" -> Proceed(Created(memory, with), <<Continue("init", with.trials)>>)
    [] what = "init" -> InitSamples(memory, with)
    [] what = "update" -> Proceed(memory, UpdateSamples(memory))
    [] what = "fetch" -> Fetch(memory, with)
    [] what = "gather" -> Proceed([memory EXCEPT !.fetched = @ \o memory.datasets], << >>)
    [] what = "add samples" -> AddSamples(memory, with)
=============================================================================
