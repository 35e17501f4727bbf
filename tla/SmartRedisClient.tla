-------------------------- MODULE SmartRedisClient ---------------------------
(***************************************************************************)
(* SmartRedis clients that work on the same shards.  Each client makes its     *)
(* calls one after the other (ClientCalls); every command it sends is one      *)
(* step of a shard (Keyspace), so that the calls of different clients           *)
(* interleave between their commands.  Replies get lost, which makes the        *)
(* client send again what was already done; shards end and start again from    *)
(* what they left on disk (KeyspaceImage).                                     *)
(***************************************************************************)
EXTENDS Bindings, EarlierImages, JaxWorker, FoamCoupling, TrainingData

CONSTANTS Clients,
          Scenarios    \* what the clients call, how they are configured, and which
                       \* faults happen: [calls, lang, env, ranks, put, sources, cluster,
                       \* aof, preamble, losses, crashes, rewrites], and what an earlier
                       \* version has left on the first shard: older [version, next, objects]

\* The objects of an earlier version are such as this host accepts, and have numbers that
\* tell them apart.
ASSUME ScenarioAssumption ==
  \A s \in Scenarios :
    /\ s.older.version \in 0 .. 3 /\ s.older.next \in Nat
    /\ \A k \in DOMAIN s.older.objects :
         LET object == s.older.objects[k] IN
         /\ object.type \in {"model", "script", "tensor"} /\ Accepted(s.host, object)
         /\ object.type # "tensor" =>
              /\ object.id \in 0 .. s.older.next - 1
              /\ \A j \in DOMAIN s.older.objects \ {k} :
                   s.older.objects[j].type # "tensor" => s.older.objects[j].id # object.id

VARIABLES scenario,
          db, up,      \* the shards, and whether they are up
          image,       \* what a shard would find on disk
          jax,         \* the JAX worker of each shard
          client,
          lost, crashes, rewrites,
          kept, past   \* what each shard ought to find, and what clients have begun to
                       \* store: only the properties read them

faults == <<lost, crashes, rewrites>>
vars == <<scenario, db, up, image, jax, client, faults, kept, past>>
ShardSet == ToSet(Order)

NoResult == [op |-> "none"]
\* _use_bytes_prefix is not initialised; it matters when there are prefixes.
Settings(s, c, bytes) ==
  [lang |-> s.lang[c], attempts |-> [connection |-> 101, command |-> 101], threads |-> 4,
   put |-> s.put[c], source |-> IF s.sources[c] = << >> THEN << >> ELSE s.sources[c][1],
   sources |-> s.sources[c], cluster |-> s.cluster, last |-> Order[1], chunk |-> 0,
   use |-> [tensor |-> TRUE, dataset |-> TRUE, list |-> TRUE, model |-> FALSE, bytes |-> bytes]]

\* What the first shard finds when it starts, and what of it the earlier version had
\* written down.
Found(s) == EarlierSnapshot(s.host, s.older.version, s.older.next, s.older.objects)
Recorded(older) ==
  [k \in DOMAIN older.objects |->
     LET object == Content(older.objects[k]) IN
     CASE object.type = "model" /\ older.version < 2 -> [object EXCEPT !.def.minbatchtimeout = 0]
       [] object.type = "script" /\ older.version < 3 -> [object EXCEPT !.def.entryPoints = << >>]
       [] OTHER -> object]

Init ==
  /\ scenario \in Scenarios
  /\ \E bytes \in [Clients -> BOOLEAN] :
       /\ \A c \in Clients :
            scenario.put[c] = << >> /\ scenario.sources[c] = << >> => bytes[c]
       /\ client = [c \in Clients |->
            [calls |-> scenario.calls[c], env |-> scenario.env[c], prog |-> << >>, got |-> << >>, before |-> << >>,
             memory |-> << >>, result |-> NoResult, extra |-> [s \in ShardSet |-> << >>],
             set |-> Settings(scenario, c, bytes[c])]]
  /\ image = [s \in ShardSet |-> IF s = Order[1] THEN Found(scenario) ELSE EmptyShard(scenario.host)]
  /\ db = image
  /\ up = [s \in ShardSet |-> TRUE]
  /\ jax = [s \in ShardSet |-> Worker]
  /\ lost = 0 /\ crashes = 0 /\ rewrites = 0
  /\ kept = [s \in ShardSet |-> IF s = Order[1] THEN Recorded(scenario.older) ELSE << >>]
  /\ past = [puts |-> {}, arrays |-> {},
             blobs |-> {<<k.tag[1], scenario.older.objects[k].def.blob>> :
                          k \in {j \in DOMAIN scenario.older.objects :
                                 scenario.older.objects[j].type # "tensor"}}]

(***************************************************************************)
(* Where a client is in its call.                                            *)
(***************************************************************************)
Idle(c) == client[c].prog = << >>
Call(c) == client[c].calls[1]
Busy(c) == ~Idle(c)
Mode(cl) == cl.prog[1].mode
Commands(cl) == cl.prog[1].cmds
Waiting(c) == \E s \in ShardSet : c \in DOMAIN db[s].running
Answered(cl) == DOMAIN cl.got
Sendable(cl) ==
  IF Mode(cl) = "unordered" THEN DOMAIN Commands(cl) \ Answered(cl)
  ELSE {Cardinality(Answered(cl)) + 1}

(***************************************************************************)
(* A call that throws ends the program of the client, as does a poll in vain,  *)
(* unless the program goes on.  Its result is what the binding gives and tells. *)
(***************************************************************************)
Remembered(memory, call, outcome) ==
  IF outcome.ok /\ "keep" \in DOMAIN call THEN Put(memory, call.keep, outcome.value) ELSE memory
Ended(cl, found) ==
  LET call == InLanguage(cl.set.lang, cl.calls[1])
      outcome == Gives(cl.set.lang, call, found)
      vain == ~outcome.ok \/ (call.op = "poll" /\ outcome.value = FALSE)
      stop == (vain /\ "soft" \notin DOMAIN call) \/ Killed(cl.set.lang, call, outcome)
  IN [cl EXCEPT !.memory = Remembered(@, call, outcome),
                !.set = IF call.op = "construct" /\ outcome.ok THEN outcome.value ELSE @,
                !.calls = IF stop THEN << >> ELSE Tail(@), !.prog = << >>, !.got = << >>,
                !.result = [op |-> call.op, call |-> call, ok |-> outcome.ok, value |-> outcome.value,
                            told |-> ErrorTold(cl.set.lang, outcome.error)]]

Continued(cl, outcome, rest) ==
  IF outcome.end THEN Ended(cl, outcome)
  ELSE [cl EXCEPT !.prog = outcome.prog \o rest, !.got = << >>]
Advanced(cl) ==
  LET rest == Tail(cl.prog) IN
  IF rest = << >> THEN Ended(cl, Return(Nothing))
  ELSE IF rest[1].mode = "then"
       THEN Continued(cl, Follow(cl.set, rest[1], cl.got), Tail(rest))
       ELSE [cl EXCEPT !.prog = rest, !.got = << >>]

\* The clients of a cluster throw what commands sent together throw as a plain Exception.
Kind(cl, error) == IF Mode(cl) = "unordered" THEN "Exception" ELSE error

Noted(set, cmd, reply) ==
  IF ~reply.ok THEN set
  ELSE [set EXCEPT !.last = IF set.cluster THEN cmd.at ELSE @,
                   !.chunk = IF cmd.op = "AI.CONFIG" THEN cmd.arg ELSE @]
Answer(cl, i, reply) ==
  LET new == [cl EXCEPT !.got = Put(@, i, reply),
                        !.set = Noted(@, Commands(cl)[i], reply)]
      all == DOMAIN new.got = DOMAIN Commands(cl)
  IN IF \/ ~reply.ok /\ Mode(cl) = "each"
        \/ all /\ HasError(new.got)
     THEN Ended(new, Throw(Kind(cl, "Runtime")))
     ELSE IF all THEN Advanced(new) ELSE new

\* The client takes the first reply on its connection to the shard, which after an
\* extra one is not that to the command it sent.
Replied(cl, i, reply) ==
  LET s == Commands(cl)[i].at
      read == Append(cl.extra[s], CommandReply(Commands(cl)[i].op, reply))
  IN Answer([cl EXCEPT !.extra[s] = Tail(read)], i, read[1])

\* The connection failed: what was sent together is sent again together.
Reconnected(cl, s) == [cl EXCEPT !.extra[s] = << >>]
SentAgain(cl) ==
  CASE Mode(cl) = "pipeline" -> [cl EXCEPT !.got = << >>]
    [] Mode(cl) = "once" -> Ended(cl, Throw("Database"))
    [] OTHER -> cl

(***************************************************************************)
(* What the properties want to know of the time a call began: the inputs of    *)
(* a run, what is about to be renamed and what is asked for.  A shard that is    *)
(* down has what it will find on disk.                                       *)
(***************************************************************************)
Current(s) == IF up[s] THEN db[s] ELSE image[s]
ValueAt(set, key, type) ==
  LET d == Current(Shard(set, key)) IN IF Is(d, key, type) THEN <<d.keys[key]>> ELSE << >>
DatasetAt(set, key) ==
  LET d == Current(Shard(set, key))
      dataset == Unpacked(key.tag[1], Fields(d, Meta(key)))
      names == NamesOf(dataset)
  IN IF AckField \in DOMAIN Fields(d, Meta(key)) /\ \A n \in ToSet(names) : Has(d, Under(key, n))
     THEN <<Held(WithTensors(dataset, [i \in DOMAIN names |-> d.keys[Under(key, names[i])].data]))>>
     ELSE << >>
Before(set, call) ==
  CASE call.op = "rename_dataset" -> DatasetAt(set, DatasetIn(set, call.name))
    [] call.op = "rename_tensor" -> ValueAt(set, KeyIn(set, "tensor", call.name), "tensor")
    [] call.op = "rename_list" -> ValueAt(set, KeyIn(set, "list", call.name), "list")
    [] call.op \in {"run_model", "run_model_multigpu", "run_script", "run_script_multigpu"} ->
         [i \in DOMAIN call.ins |-> ValueAt(set, Inputs(set, call)[i], "tensor")]
    [] call.op \in {"exists", "poll"} /\ call.what = "dataset" -> DatasetAt(set, DatasetIn(set, call.name))
    [] OTHER -> << >>

\* What the memory of a program has at each position, in each layout.
Array(memory, layout) ==
  [p \in Positions(memory.dims) |->
     CASE layout = "contiguous" -> memory.data[CIndex(memory.dims, p) + 1]
       [] layout = "fortran" -> memory.data[FIndex(memory.dims, p) + 1]
       [] layout = "nested" -> FoldLeft(LAMBDA m, i : m[i + 1], memory.data, p)]

\* What has been stored, or is about to be, of datasets, models and scripts.
Setters == {"set_model", "set_script", "set_model_multigpu", "set_script_multigpu"}
Storing(c, set, call) ==
  CASE call.op = "put_dataset" ->
         [past EXCEPT !.puts = @ \cup {[by |-> c, key |-> DatasetOut(set, call.dataset.name),
                                        value |-> Held(call.dataset)]}]
    [] call.op = "put_tensor" /\ "layout" \in DOMAIN call ->
         [past EXCEPT !.arrays = @ \cup {<<call.name, Array(call.data, call.layout)>>}]
    [] call.op \in Setters -> [past EXCEPT !.blobs = @ \cup {<<call.name, call.def.blob>>}]
    [] OTHER -> past

(***************************************************************************)
(* A client begins its next call.  Some of them only change its settings.     *)
(***************************************************************************)
\* The dataset it stores may be an object of the program, empty at first.
ObjectOf(memory, name) == IF name \in DOMAIN memory THEN memory[name] ELSE DataSet(name)
Resolved(memory, call) ==
  IF call.op = "put_dataset" /\ "on" \in DOMAIN call
  THEN [op |-> call.op, dataset |-> ObjectOf(memory, call.on)]
  ELSE IF call.op \in DOMAIN FromFile THEN SetFromFile(call) ELSE call
\* The call as the binding passes it on, and what binding or client say against it.
Passed(c) == InLanguage(client[c].set.lang, Resolved(client[c].memory, Call(c)))
Objection(c) ==
  LET lang == client[c].set.lang
      told == BindingRefusal(lang, Call(c))
  IN IF told # "none" THEN told ELSE Refusal(client[c].set, Passed(c))
Local == {"use_ensemble_prefix", "set_data_source", "continue", "reduce", "method", "options", "setenv",
          "construct"}
Turn(c, ops) == Idle(c) /\ client[c].calls # << >> /\ Call(c).op \in ops

Refuse(c) ==
  /\ Idle(c) /\ client[c].calls # << >> /\ Objection(c) # "none"
  /\ client' = [client EXCEPT ![c] = Ended(@, Throw(Objection(c)))]
  /\ UNCHANGED <<scenario, db, up, image, jax, faults, kept, past>>

Begin(c) ==
  /\ Idle(c) /\ client[c].calls # << >> /\ Call(c).op \notin Local /\ Objection(c) = "none"
  /\ LET cl == client[c]  call == Passed(c)  prog == ProgramIn(cl.set, call) IN
     /\ client' = [client EXCEPT ![c] =
          IF prog = << >> THEN Ended(cl, Return(Nothing))
          ELSE [cl EXCEPT !.prog = prog, !.before = Before(cl.set, call), !.result = NoResult]]
     /\ past' = Storing(c, cl.set, call)
  /\ UNCHANGED <<scenario, db, up, image, jax, faults, kept>>

UsePrefix(c) ==
  /\ Turn(c, {"use_ensemble_prefix"}) /\ Objection(c) = "none"
  /\ client' = [client EXCEPT ![c] =
       Ended([@ EXCEPT !.set.use[Call(c).kind] = Call(c).on], Return(Nothing))]
  /\ UNCHANGED <<scenario, db, up, image, jax, faults, kept, past>>

SetDataSource(c) ==
  /\ Turn(c, {"set_data_source"}) /\ Objection(c) = "none"
  /\ client' = [client EXCEPT ![c] =
       Ended([@ EXCEPT !.set.source = Call(c).source], Return(Nothing))]
  /\ UNCHANGED <<scenario, db, up, image, jax, faults, kept, past>>

\* A method of a DataSet object.
CallMethod(c) ==
  /\ Turn(c, {"method"}) /\ Objection(c) = "none"
  /\ LET call == Passed(c)
         outcome == Method(ObjectOf(client[c].memory, call.on), call)
     IN /\ client' = [client EXCEPT ![c] =
             Ended([@ EXCEPT !.memory = Put(@, call.on, outcome.dataset)], outcome)]
        /\ past' = IF call.do # "add_tensor" \/ ~outcome.ok THEN past
                   ELSE [past EXCEPT !.arrays = @ \cup {<<call.name, Array(call.data, call.layout)>>}]
  /\ UNCHANGED <<scenario, db, up, image, jax, faults, kept>>

(***************************************************************************)
(* A program sets a variable of its environment, calls a ConfigOptions object, or  *)
(* constructs its client from the environment or from such an object.         *)
(***************************************************************************)
SetEnvironment(c) ==
  /\ Turn(c, {"setenv"})
  /\ client' = [client EXCEPT ![c] =
       Ended([@ EXCEPT !.env = Put(@, <<Call(c).name, Call(c).suffix>>, Call(c).value)], Return(Nothing))]
  /\ UNCHANGED <<scenario, db, up, image, jax, faults, kept, past>>
Configure(c) ==
  /\ Turn(c, {"options"}) /\ Objection(c) = "none"
  /\ LET cl == client[c]  call == Passed(c)  answer == OptionsCall(cl.env, cl.memory, call) IN
     client' = [client EXCEPT ![c] =
       IF answer.error # "none" THEN Ended(@, Throw(answer.error))
       ELSE Ended([@ EXCEPT !.memory = Put(@, call.on, answer.options)], Return(answer.value))]
  /\ UNCHANGED <<scenario, db, up, image, jax, faults, kept, past>>
OptionsOf(memory, call) == IF "on" \in DOMAIN call THEN memory[call.on] ELSE ConfigOptions("")
Construct(c) ==
  LET cl == client[c]  call == Call(c)
      type == ServerType(cl.env, OptionsOf(cl.memory, call), call)
      new == NewServer(cl.env, type.options, type.value)
      fails(error) == client' = [client EXCEPT ![c] = Ended(@, Throw(error))]
  IN /\ Turn(c, {"construct"}) /\ Objection(c) = "none"
     /\ IF "on" \in DOMAIN call /\ call.on \notin DOMAIN cl.memory THEN fails("terminate")
        ELSE IF new.error # "none" THEN fails(new.error)
        ELSE \E address \in new.addresses :
          LET set == NewClient(cl.env, new.options, cl.set, type.value, address) IN
          IF type.value /\ address.protocol = "unix" THEN fails("Runtime")
          ELSE IF ~Reached(address, type.value, scenario.cluster) THEN fails("Database")
          ELSE client' = [client EXCEPT ![c].prog = Connect(set, address),
                       ![c].result = NoResult, ![c].extra = [s \in ShardSet |-> << >>]]
     /\ UNCHANGED <<scenario, db, up, image, jax, faults, kept, past>>

\* The program looks at what it has kept, and goes on or exits.
Resume(c) ==
  LET cl == client[c]  call == Call(c)
      next == IF call.what \in FoamSteps THEN FoamContinues(call.what, call.with, cl.memory)
              ELSE TrainingContinues(call.what, call.with, cl.memory)
  IN /\ Idle(c) /\ cl.calls # << >> /\ call.op = "continue"
     /\ client' = [client EXCEPT ![c].memory = next.memory,
          ![c].calls = IF next.exit THEN << >> ELSE next.calls \o Tail(@)]
     /\ UNCHANGED <<scenario, db, up, image, jax, faults, kept, past>>

\* All ranks of a solver have come to the reduction.
AtReduce(c) == Idle(c) /\ client[c].calls # << >> /\ Call(c).op = "reduce"
Reduce ==
  /\ scenario.ranks # {} /\ \A c \in scenario.ranks : AtReduce(c)
  /\ client' = [c \in Clients |->
       IF c \in scenario.ranks THEN [client[c] EXCEPT !.calls = Tail(@)] ELSE client[c]]
  /\ UNCHANGED <<scenario, db, up, image, jax, faults, kept, past>>

(***************************************************************************)
(* A shard carries out a command and writes it to the append-only file, or     *)
(* writes a snapshot.                                                         *)
(***************************************************************************)
Stored(s, cmd, reply) ==
  CASE scenario.aof /\ cmd.op \in Writes /\ reply.ok -> Replayed(image[s], cmd)
    [] ~scenario.aof /\ cmd.op = "SAVE" -> Snapshot(db[s])
    [] OTHER -> image[s]
Keeps(s, cmd, new) == IF scenario.aof \/ cmd.op = "SAVE" THEN Contents(new) ELSE kept[s]
Carried(s, cmd, reply) ==
  /\ db' = [db EXCEPT ![s] = reply.db]
  /\ image' = [image EXCEPT ![s] = Stored(s, cmd, reply)]
  /\ kept' = [kept EXCEPT ![s] = Keeps(s, cmd, reply.db)]

IsRun(cmd) == cmd.op \in {"MODELEXECUTE", "SCRIPTRUN"}
Places(c) == IF Busy(c) THEN DOMAIN Commands(client[c]) ELSE {}
Sends(c, i) == ~Waiting(c) /\ i \in Sendable(client[c]) /\ up[Commands(client[c])[i].at]

\* The command is answered.
Send(c) ==
  \E i \in Places(c) :
    /\ Sends(c, i)
    /\ LET cmd == Commands(client[c])[i]  reply == Perform(db[cmd.at], c, cmd) IN
       /\ ~reply.died /\ ~(IsRun(cmd) /\ reply.ok)
       /\ Carried(cmd.at, cmd, reply)
       /\ client' = [client EXCEPT ![c] = Replied(@, i, reply)]
    /\ UNCHANGED <<scenario, up, jax, faults, past>>

\* The command runs a model or script: the client waits for a worker.
StartRun(c) ==
  \E i \in Places(c) :
    /\ Sends(c, i)
    /\ LET cmd == Commands(client[c])[i]  reply == Perform(db[cmd.at], c, cmd) IN
       /\ IsRun(cmd) /\ reply.ok
       /\ db' = [db EXCEPT ![cmd.at] = reply.db]
    /\ UNCHANGED <<scenario, up, image, jax, client, faults, kept, past>>

\* The file gets an AI.TENSORSET for each output that was stored.
OutputsStored(d, outs, from) ==
  LET set(k) == TensorSet(d, k, from.keys[k].data)
  IN [d EXCEPT !.keys = PutAll(@, [k \in {j \in outs : set(j).ok} |-> set(k).db.keys[k]])]
Outcome(c, s) ==
  LET run == db[s].running[c] IN
  IF run.answer # << >> THEN run.answer[1]
  ELSE IF IsJax(run) THEN jax[s].replies[c] ELSE RunAlone(run)
HasRun(c, s) ==
  /\ c \in DOMAIN db[s].running
  /\ LET run == db[s].running[c] IN IsJax(run) /\ run.answer = << >> => c \in DOMAIN jax[s].replies
FinishRun(c, s) ==
  LET end == Finish(db[s], c, Outcome(c, s))
      reply == end.reply
  IN
  /\ up[s] /\ HasRun(c, s)
  /\ db' = [db EXCEPT ![s] = reply.db]
  /\ image' = [image EXCEPT ![s] = IF scenario.aof THEN OutputsStored(@, end.stored, reply.db) ELSE @]
  /\ kept' = [kept EXCEPT ![s] = IF scenario.aof THEN Contents(reply.db) ELSE @]
  /\ client' = [client EXCEPT ![c] =
       LET cl == Replied(@, Cardinality(Answered(@)) + 1, reply)
       IN [cl EXCEPT !.extra[s] = @ \o [i \in DOMAIN end.extra |-> ErrorReply]]]
  /\ jax' = [jax EXCEPT ![s].replies = Drop(@, {c})]
  /\ UNCHANGED <<scenario, up, faults, past>>

(***************************************************************************)
(* The worker threads of a shard ask its JAX worker.  Requests of one model    *)
(* may be taken together, as a batch.                                        *)
(***************************************************************************)
Unsent(s) ==
  {c \in DOMAIN db[s].running :
     LET run == db[s].running[c] IN IsJax(run) /\ run.answer = << >> /\ ~Asked(jax[s], c)}
AskWorker(c, s) ==
  /\ up[s] /\ c \in Unsent(s)
  /\ jax' = [jax EXCEPT ![s] = Sent(@, c, db[s].running[c])]
  /\ UNCHANGED <<scenario, db, up, image, client, faults, kept, past>>
RunTogether(s) ==
  /\ up[s]
  /\ \E a, b \in {c \in DOMAIN db[s].running : ~Asked(jax[s], c)} :
       /\ a # b /\ CanRunTogether(db[s].running[a], db[s].running[b])
       /\ db' = [db EXCEPT ![s] = RunTwo(@, a, b)]
  /\ UNCHANGED <<scenario, up, image, jax, client, faults, kept, past>>
WorkerServes(s) ==
  /\ jax[s].queue # << >>
  /\ \E worker \in {Served(jax[s])} \cup (IF MayEnd(jax[s]) THEN {WorkerEnded(jax[s])} ELSE {}) :
       jax' = [jax EXCEPT ![s] = worker]
  /\ UNCHANGED <<scenario, db, up, image, client, faults, kept, past>>

\* The command is carried out and its reply is lost.
LoseReply(c) ==
  \E i \in Places(c) :
    /\ Sends(c, i) /\ lost < scenario.losses
    /\ LET cmd == Commands(client[c])[i]  reply == Perform(db[cmd.at], c, cmd) IN
       /\ ~reply.died /\ ~IsRun(cmd)
       /\ Carried(cmd.at, cmd, reply)
       /\ client' = [client EXCEPT ![c] = SentAgain(Reconnected(@, cmd.at))]
    /\ lost' = lost + 1
    /\ UNCHANGED <<scenario, up, jax, crashes, rewrites, past>>

\* After a number of attempts a client gives up a shard that is down.
GiveUp(c) ==
  /\ Busy(c)
  /\ \E i \in Sendable(client[c]) : ~up[Commands(client[c])[i].at]
  /\ client' = [client EXCEPT ![c] = Ended(@, Throw(Kind(@, "Database")))]
  /\ UNCHANGED <<scenario, db, up, image, jax, faults, kept, past>>

(***************************************************************************)
(* A shard ends, or a command ends it, and starts again; its JAX worker with it. *)
(***************************************************************************)
Down(s) ==
  /\ up' = [up EXCEPT ![s] = FALSE]
  /\ jax' = [jax EXCEPT ![s] = [Worker EXCEPT !.up = FALSE]]
  /\ db' = [db EXCEPT ![s] = EmptyShard(scenario.host)]
  /\ client' = [c \in Clients |->
       LET cl == Reconnected(client[c], s) IN
       IF Busy(c) /\ Answered(cl) # {} /\ \E cmd \in ToSet(Commands(cl)) : cmd.at = s
       THEN SentAgain(cl) ELSE cl]
Crash(s) ==
  /\ up[s] /\ crashes < scenario.crashes
  /\ Down(s)
  /\ crashes' = crashes + 1
  /\ UNCHANGED <<scenario, image, lost, rewrites, kept, past>>
EndedByCommand(c) ==
  \E i \in Places(c) :
    /\ Sends(c, i)
    /\ LET cmd == Commands(client[c])[i] IN
       /\ Perform(db[cmd.at], c, cmd).died
       /\ Down(cmd.at)
    /\ UNCHANGED <<scenario, image, faults, kept, past>>
Restart(s) ==
  /\ ~up[s]
  /\ up' = [up EXCEPT ![s] = TRUE]
  /\ db' = [db EXCEPT ![s] = image[s]]
  /\ jax' = [jax EXCEPT ![s] = Worker]
  /\ UNCHANGED <<scenario, image, client, faults, kept, past>>

\* The append-only file is rewritten.
Rewrite(s) ==
  /\ up[s] /\ scenario.aof /\ rewrites < scenario.rewrites
  /\ image' = [image EXCEPT ![s] = Rewritten(db[s], scenario.preamble)]
  /\ rewrites' = rewrites + 1
  /\ UNCHANGED <<scenario, db, up, jax, client, lost, crashes, kept, past>>

Next ==
  \/ \E c \in Clients : Refuse(c) \/ Begin(c) \/ UsePrefix(c) \/ SetDataSource(c) \/ CallMethod(c) \/ Resume(c)
                        \/ Send(c) \/ SetEnvironment(c) \/ Configure(c) \/ Construct(c)
                        \/ StartRun(c) \/ LoseReply(c) \/ GiveUp(c) \/ EndedByCommand(c)
  \/ Reduce
  \/ \E c \in Clients, s \in ShardSet : AskWorker(c, s) \/ FinishRun(c, s)
  \/ \E s \in ShardSet : RunTogether(s) \/ WorkerServes(s) \/ Crash(s) \/ Restart(s) \/ Rewrite(s)

Spec == Init /\ [][Next]_vars

(***************************************************************************)
(* Properties.                                                              *)
(***************************************************************************)
PutUnder(key) == {p \in past.puts : p.key = key}
PutDatasets == {p.value : p \in past.puts}
\* No shard has come back without what it had acknowledged.
NothingForgotten == scenario.aof \/ crashes = 0

(* dataset_exists and poll_dataset look for the field that put_dataset and          *)
(* copy_dataset set last: while the field is there, all the tensors of one dataset    *)
(* that was put are there as well, also when one client puts the dataset again, when   *)
(* pipelines are sent twice, and while copies and deletions of others are under way.   *)
(* (Two clients that put different datasets under one name break it: see the README.)  *)
AckMeansWhole ==
  NothingForgotten =>
    \A s \in ShardSet : \A k \in DOMAIN db[s].keys :
      db[s].keys[k].type = "hash" /\ AckField \in DOMAIN db[s].keys[k].fields =>
        LET key == [k EXCEPT !.rest = Front(@)]
        IN Cardinality({p.by : p \in PutUnder(key)}) <= 1
             => \E p \in PutDatasets : DatasetAt([cluster |-> scenario.cluster], key) = <<p>>

\* The same element at the same position, in any memory layout.
Gets == {"get_tensor", "unpack_tensor"}
LayoutsAgree ==
  \A c \in Clients :
    LET r == client[c].result IN
    /\ r.op \in Gets \cup {"method"}
    /\ r.op = "method" => r.call.do \in Gets
    /\ r.ok /\ "layout" \in DOMAIN r.call
    => \A a \in past.arrays :
         a[1] = r.call.name /\ DOMAIN a[2] = Positions(r.value.dims) =>
           a[2] = Array(r.value, r.call.layout)

(* A dataset that get_dataset returns, and each of those that come from a list, is      *)
(* one that was put, with its own tensors; a member of a list that is gone comes back    *)
(* as an empty dataset.  The metadata and the tensors are read with different commands,  *)
(* so this is said while no name has been given to two datasets.  One that was there as a    *)
(* whole when dataset_exists or poll_dataset began to look for it is found, unless a client  *)
(* replaces or deletes it or sends a pipeline again meanwhile.  An array that was put    *)
(* in one memory layout, by put_tensor or in a dataset, comes back in any other, by each of  *)
(* the methods that give it, with the same element at the same position.  (Memory in column   *)
(* order that the caller gives other dimensions is filled by those of the tensor: see the     *)
(* README.)  The binding of each language tells an error whenever the call failed and only    *)
(* then, and a program in C has as many datasets of a list as it is told, unless it asked for  *)
(* the list with 0 in num_datasets, which gives it none.  A client that could be constructed   *)
(* tries to connect, and sends a command, at least once and until its timeout is over, by the   *)
(* options of its object, or those the environment has for it, or the defaults.              *)
PutOnce == \A p, q \in past.puts : p.key = q.key => p.value = q.value
FromLists == {"get_datasets_from_list", "get_dataset_list_range"}
Members(c) == LET r == client[c].result IN IF client[c].set.lang = "c" THEN r.value.given ELSE r.value
WholeDatasets ==
  \A c \in Clients :
    LET r == client[c].result IN
    PutOnce /\ r.op # "none" /\ r.ok =>
      /\ r.op = "get_dataset" => Held(r.value) \in PutDatasets
      /\ r.op \in FromLists =>
           \A d \in ToSet(Members(c)) : Held(d) \in PutDatasets \cup {Held(DataSet(d.name))}
BindingsTell ==
  \A c \in Clients :
    LET r == client[c].result  lang == client[c].set.lang IN
    r.op # "none" =>
      /\ r.ok <=> r.told = ErrorTold(lang, "none")
      /\ lang = "c" /\ r.ok /\ r.op \in FromLists /\ ("asked" \in DOMAIN r.call => r.call.asked > 0)
           => r.value.count = Len(r.value.given)
\* What an option ought to be when a client is constructed.
Option(cl, options, name) ==
  LET key == <<name, IF options = << >> THEN "" ELSE options[1].suffix>> IN
  IF options # << >> /\ name \in DOMAIN options[1].ints THEN options[1].ints[name]
  ELSE IF key \in DOMAIN cl.env /\ cl.env[key].words # << >> THEN CHOOSE n \in cl.env[key].integer : TRUE
  ELSE Defaults[name]
Lasts(attempts, timeout, interval) ==
  (attempts - 1) * interval <= timeout * 1000 /\ timeout * 1000 < attempts * interval
ClientsTry ==
  \A c \in Clients :
    LET cl == client[c]  r == cl.result
        option(name) ==
          Option(cl, IF "on" \in DOMAIN r.call THEN <<cl.memory[r.call.on]>> ELSE << >>, name)
    IN r.op = "construct" /\ r.ok =>
         /\ Lasts(cl.set.attempts.connection, option("SR_CONN_TIMEOUT"), option("SR_CONN_INTERVAL"))
         /\ Lasts(cl.set.attempts.command, option("SR_CMD_TIMEOUT"), option("SR_CMD_INTERVAL"))
         /\ cl.set.attempts.connection > 0 /\ cl.set.attempts.command > 0 /\ cl.set.threads > 0
\* A dataset that is not replaced, deleted or sent again is found by who looks for it.
Undisturbed ==
  /\ PutOnce /\ lost = 0 /\ crashes = 0
  /\ \A c \in Clients : \A call \in ToSet(scenario.calls[c]) :
       call.op \notin {"delete_dataset", "rename_dataset"}
DatasetsAreFound ==
  \A c \in Clients :
    LET r == client[c].result IN
    r.op \in {"exists", "poll"} /\ r.ok /\ Undisturbed =>
      (r.call.what = "dataset" /\ client[c].before # << >> => r.value)
AnswersAreTrue == LayoutsAgree /\ WholeDatasets /\ DatasetsAreFound /\ BindingsTell /\ ClientsTry

(* rename_dataset, rename_list, and rename_tensor between shards, copy and then         *)
(* delete: at every moment from their first command to the end of the call, all that had  *)
(* the old name when it began is there under the old or the new name, with lost          *)
(* replies and restarts in between.                                                     *)
NothingLostByRename ==
  \A c \in Clients :
    LET cl == client[c]
        call == Call(c)
        from == call.name  to == call.to
    IN Busy(c) /\ NothingForgotten /\ cl.before # << >> =>
         /\ call.op = "rename_dataset" =>
              cl.before \in {DatasetAt(cl.set, DatasetIn(cl.set, from)),
                             DatasetAt(cl.set, DatasetOut(cl.set, to))}
         /\ call.op = "rename_tensor" =>
              cl.before \in {ValueAt(cl.set, KeyIn(cl.set, "tensor", from), "tensor"),
                             ValueAt(cl.set, KeyOut(cl.set, "tensor", to), "tensor")}
         /\ call.op = "rename_list" =>
              \E key \in {KeyIn(cl.set, "list", from), KeyOut(cl.set, "list", to)} :
                IsPrefix(cl.before[1].items, Items(Current(Shard(cl.set, key)), key))

(* When run_model or run_script returns, its outputs are what the model or script makes  *)
(* of the inputs it was given, although the inputs and outputs of a cluster go through     *)
(* temporary tensors that clients share, and others run the same model meanwhile, in one   *)
(* batch with it or apart.  (When an output key holds another type the reply says that all    *)
(* went well, and an error follows that the client takes for the reply to its next command;     *)
(* and a request whose inputs are of another type than the model's may be answered from a      *)
(* batch all the same: see the README.)                                                    *)
ResultsOfRuns ==
  \A c \in Clients :
    LET cl == client[c]  call == cl.result.call
        ins == [j \in DOMAIN cl.before |-> cl.before[j][1].data]
        blobs == {b[2] : b \in {e \in past.blobs : e[1] = call.name}}
    IN /\ Idle(c) /\ cl.result.op \in {"run_model", "run_model_multigpu", "run_script", "run_script_multigpu"}
       /\ cl.result.ok /\ NothingForgotten
       /\ \A s \in ShardSet : cl.extra[s] = << >>
       => \A i \in DOMAIN call.outs :
            \E b \in blobs :
              TypesAre(ins, Artifact(b).dtype) =>
                ValueAt(cl.set, Outputs(cl.set, call)[i], "tensor") =
                  <<Tensor(Apply(b, ins, Len(call.outs))[i])>>

(* AI._MODELSCAN and AI._SCRIPTSCAN list the models and scripts by their statistics:      *)
(* each one in the keyspace has the entry of its key, whatever was stored and deleted    *)
(* under that key while older objects are still running, and no entry outlives the         *)
(* object it was made for.                                                              *)
ObjectKeys(d) == {k \in DOMAIN d.keys : d.keys[k].type \in {"model", "script"}}
Alive(d) == {d.keys[k] : k \in ObjectKeys(d)} \cup {d.running[c].object : c \in DOMAIN d.running}
IsEntryOf(d, k, o) == k = o.key /\ d.stats[k].id = o.id /\ d.stats[k].type = o.type
ObjectsHaveEntries ==
  \A s \in ShardSet : \A k \in ObjectKeys(db[s]) :
    \E e \in ModelScan(db[s]) \cup ScriptScan(db[s]) : IsEntryOf(db[s], e, db[s].keys[k])
EntriesHaveObjects ==
  \A s \in ShardSet : \A k \in DOMAIN db[s].stats : \E o \in Alive(db[s]) : IsEntryOf(db[s], k, o)
StatsFollowObjects == ObjectsHaveEntries /\ EntriesHaveObjects

\* RENAME moves a model or script away from the key it was created under, and so from its
\* entry.  No call is meant to do so, although rename_tensor does not look what it renames.
RenamesNoObject ==
  \A c \in Clients : \A i \in Places(c) :
    LET cmd == Commands(client[c])[i] IN
    cmd.op = "RENAME" => \A d \in {db[cmd.at], image[cmd.at]} : cmd.key \notin ObjectKeys(d)

\* What an execution stores are tensors that AI.TENSORSET accepts, as those are that the
\* frameworks return.
OutputsAreTensors ==
  \A s \in ShardSet : \A c \in DOMAIN db[s].running :
    HasRun(c, s) =>
      LET end == Finish(db[s], c, Outcome(c, s))
      IN \A k \in end.stored : IsTensor(end.reply.db.keys[k].data)

(* What a shard would find on disk is all it had: with the append-only file after every  *)
(* command and every rewrite of the file, with snapshots at the last SAVE.  Only scripts   *)
(* without entry points are missing once the file was rewritten as commands.  A shard that  *)
(* starts from the snapshot of an earlier version has all that this version wrote down.     *)
KeptAcrossRestart ==
  \A s \in ShardSet :
    LET found == Contents(image[s])
        may == {k \in DOMAIN kept[s] : /\ kept[s][k].type = "script" /\ kept[s][k].def.entryPoints = << >>
                                        /\ rewrites > 0 /\ ~scenario.preamble}
    IN /\ DOMAIN kept[s] \ may \subseteq DOMAIN found
       /\ \A k \in DOMAIN found : k \in DOMAIN kept[s] /\ found[k] = kept[s][k]

(* The motion solver and the script that trains its model hand over by a flag, two     *)
(* lists and datasets that are put again in each step: each model is trained on the data  *)
(* of one step and of all ranks, and when all have moved their points, rank 0 has done   *)
(* so by the model of this step.  The others may have found the flag of the step before,  *)
(* which rank 0 deletes after the reduction (see the README).                            *)
StepsStayTogether ==
  /\ \A b \in past.blobs : b[1] = "MLP" =>
       \A i, j \in DOMAIN b[2].of : b[2].of[i] = b[2].of[j] /\ Len(b[2].of) = 2 * Cardinality(scenario.ranks)
  /\ \A c \in scenario.ranks : AtReduce(c) =>
       LET step == client[c].memory.displacement.data[1][1].of[1]  now == Call(c).step
       IN step = now \/ (Call(c).rank # 0 /\ step = now - 1)

(* What a DataDownloader has are the batches at its places of the list of each uploader,  *)
(* those below its next index that its replica is to take, each of them once, although   *)
(* the lists grow between the calls of an update; only the first batch of all is there    *)
(* twice when the first update has found no other (see the README).                      *)
BatchesAt(c, m, u) ==
  LET key == Plain(m.keys[u], m.list)
      items == Items(Current(Shard(client[c].set, key)), key)
      mine == {i \in 1 .. m.next[u] : i <= Len(items) /\ (i - 1) % m.replicas = m.replica}
  IN UNION {{p.value.tensors : p \in PutUnder(items[i])} : i \in mine}
SamplesAreBatches ==
  \A c \in Clients :
    LET m == client[c].memory IN
    "samples" \in DOMAIN m =>
      LET twice == Len(m.samples) > 1 /\ m.samples[1] = m.samples[2]
          once == IF twice THEN Tail(m.samples) ELSE m.samples
      IN /\ IsInjective(once)
         /\ ToSet(once) = {tensors[n].data[1] : n \in {SampleName(m)},
                                                tensors \in UNION {BatchesAt(c, m, u) : u \in DOMAIN m.keys}}
=============================================================================
