# A TLA+ verification project for SmartSim-CSC

SmartSim-CSC couples simulations with machine learning through a Redis
database. The repository is a monorepo of four programs:

- `components/redisai`: RedisAI, a Redis module in C that stores tensors,
  models and scripts and runs them on devices, with a JAX worker process;
- `components/smartredis`: SmartRedis, the client library in C++ with C,
  Fortran and Python bindings;
- `components/smartsim`: SmartSim, the Python program that generates, launches
  and monitors simulations and databases, through workload managers or through
  its own Dragon backend, and hands training data to machine-learning libraries;
- `components/openfoam-smartsim`: OpenFOAM function objects and a motion solver
  that exchange fields with a training script through SmartRedis.

This directory holds TLA+ models of the parts whose correctness depends on
concurrency, failure and order, the TLC configurations that check them on small
instances, and theorems checked by TLAPS. `PROJECT.json` lists, for each
definition, the source lines it stands for, for each property a mutation of
the model that the property catches, and for each hazard of the code the
properties that would notice it going wrong.

There are five systems, each with a module that composes the others of its kind (the arrows go to the module that uses the others):

    RedisAI execution   DagCommands, DagProgram -> DagService, DagRun        OnnxTimeout
    Dragon              DragonBackend
    local launches      TaskManager -> JobManager -> Controller
    clusters            HashSlots -> ClusterMap, ThreadPool -> ClusterPipeline -> CallPromise
                        (Selection is used by these and by launches)
    shards and clients  Tensors -> Backends -> Keyspace -> KeyspaceImage, Replies, JaxWorker
                        KeyspaceImage, Replies, ClientKeys -> Programs -> RedisServer
                        RedisServer, Datasets -> ClientCalls -> Configuration -> Bindings
                        KeyspaceImage -> EarlierImages, FoamCoupling -> TrainingData
                        Bindings, EarlierImages, JaxWorker, TrainingData -> SmartRedisClient

`MC...` modules give each of them its small instances, `..._proofs` modules hold the theorems. Paths below are relative to
`src/components/`.

## 1. Inventory

### RedisAI: execution of DAGs, models and scripts (`redisai/src/execution`)

*State.* A request (`RedisAI_RunInfo`): its operations, the tensors its copies
share (`dagSharedTensors`), the shared flags `timedOut` and `dagError`, the
first error, `dagRefCount`, one rwlock. Per device a copy of the request with its
own list of operations and progress. Per device a run queue with a mutex and a
condition variable, and one or more worker threads.
*Operations.* Name resolution (`MapTensorsKeysToIndices`), one shallow copy per
device and its push (`DAG_InsertDAGToQueue`), the worker loop
(`BGWorker_ThreadMain`: wait, pop, timeout and error checks, readiness, batching,
execution, storing outputs, freeing or reinserting), the reply and persisting
(`RedisAI_DagRun_Reply`, `RAI_FreeRunInfo`).
*Interaction.* The main thread and the workers of all devices share the request;
the workers of one device share its queue. The last copy freed calls `OnFinish`,
which unblocks the client; the main thread then replies and frees the request.
*Hard.* Two devices end a request together; one fails or times out while the
other works; names redefined while another device reads them; batches formed,
refused, returned; the order of pushes to two queues.
*Correct when* no copy is lost or in two places, `OnFinish` is called exactly once
and after everything, inputs come from the right operation, a batch obeys the
model's options, and every accepted request is answered.

### RedisAI: ONNX timeout (`backends/onnx_timeout.c`)

*State.* For each worker thread an entry with the run options of its current
session, the time at which it began and a state (AVAILABLE, ACTIVE, INVALID,
TERMINATED); the number of each thread, given when it first runs; the array, its
length and its rwlock. *Operations.* A worker activates and resets its entry; the
main thread's cron terminates late sessions with compare-and-swap; a command that
names a new device starts threads and extends the array. *Hard.* The entry is used
again between the cron's read of the time and its compare-and-swap; threads take
numbers while the array is extended. *Correct when* the cron only touches the
options of a session that is alive, every run ends, and each thread has an entry.

### RedisAI: keyspace, objects and serialization (`redisai.c`, `redis_ai_objects`, `serialization`)

*State.* The keys of a shard with their tensors, models and scripts; the statistics by
key (`RunStats`); references to a model or script held by its key and by the
executions that run it; the chunk size. *Operations.* The commands, each in one step of
the main thread but for executions, which take a reference, run on a worker and
store their outputs later; snapshots, rewrites of the append-only file, and loading.
*Hard.* A model replaced or deleted while it runs; a key of another type; a
restart from an older image. *Correct when* the statistics follow the objects, and
what was acknowledged comes back.

### RedisAI: JAX backend and worker (`backends/jax.c`, `jax_worker/worker.py`)

*State.* One process beside each shard, with a socket and the models it has
deserialized. *Operations.* A request per run over a connection of its own, served one after the
other. *Hard.* Replies that are too long, a worker that ends, several threads that ask at
once, batches. *Correct when* each run gets the reply to its own request, of its
own model, or an error.

### RedisAI: TensorFlow, Torch, TFLite and ONNX backends (`backends`)

*State.* The libraries that a server has loaded. *Operations.* Loading one when a model first needs it; creating
a model or script from its bytes; a run of one execution or of a batch. *Hard.* The inputs of a batch are put together
along their first dimension, and each execution takes its own rows of the outputs; each backend does so in its own way. *Correct
when* an execution in a batch gets what it would have got alone, or an error.

### RedisAI: utilities

Vendored data structures.

### SmartRedis: client, datasets, lists, models (`smartredis/src/cpp/client.cpp`)

*State.* Prefixes and which names get them, the shard that answered last, the chunk size; datasets as objects
of the program, with tensors and metadata.
*Operations.* Calls, each a sequence of commands: a dataset is a hash with the names of its
tensors, the tensors, and a field that says that all is there; an aggregation list holds keys of
datasets; models and scripts are stored on every shard; a run in a cluster copies its
tensors to temporary names. *Hard.* Calls of several clients interleave between their
commands; a dataset is put again while it is read or copied; a rename is a copy and a delete.
*Correct when* what a client reads is something that was put, and nothing is lost by a rename.

### SmartRedis: command execution, thread pool, pipelines (`redis.cpp`, `rediscluster.cpp`, `threadpool.cpp`)

*State.* The table of shards, the connection, a queue of jobs with its worker threads
and a shutdown flag; for a clustered call one sub-pipeline per shard, a count and the
replies. *Operations.* Slot lookup, commands and pipelines that are sent again after a failure, jobs
that run in any order, replies put back in the caller's order. *Hard.* A command whose reply is lost
is sent again; jobs write to the stack of their caller; shutdown with jobs queued.
*Correct when* a call that returns has executed all its commands, reply i answers command i, and no job
has anything to store when its call has ended.

### SmartRedis: configuration and bindings (`configoptions.cpp`, `smartredis/src/c`, `smartredis/src/python`)

*State.* The environment; in a `ConfigOptions` object the values that it has read or that were overridden; in the
C library the last error. *Operations.* Reading and overriding options; the constructors, which read all options,
check them, choose an address and connect; functions that check their parameters, call the client, tell of
exceptions with a code or a class, and hand out memory. *Hard.* What is cached when the environment changes; which
errors come before anything was sent; what a caller is given after an error. *Correct when* a call does in each
language what it does in C++, and its caller is told of each error.

### SmartSim: task manager, job manager, controller (`smartsim/smartsim/_core`)

*State.* Tasks and their history; jobs, database jobs, monitored jobs and completed jobs; two monitor
threads, each with a flag `actively_monitoring`. *Operations.* Launch, relaunch, stop,
poll, reconnect to a saved database, interrupt, and the loops of the two monitors.
*Hard.* A list that is iterated without its lock while others change it; a decision made
without the lock and carried out with it; a thread that ends while work is added. *Correct
when* no process is lost, what is reported of a run is what its process did, and a launched job is watched
until it ends.

### SmartSim: Dragon backend (`_core/launcher/dragon/dragonBackend.py`)

*State.* Free hosts and allocated hosts, queued and running steps, the
stop requests, the status of each step, flags for shutdown. *Operations.* Request
handlers (run, update, stop, shutdown, bootstrap, handshake) on one thread, and
`update` on another: stop steps, start steps, refresh statuses, update the
shutdown status. *Hard.* Step starts that fail half-way, stops of steps that are
queued, running or already ended, shutdown while steps run. *Correct when* a host
serves one step at a time, hosts come back when a step ends, a terminal status
is final, and a shutdown request ends the server.

### SmartSim: training data (`smartsim/ml/data.py`)

*State.* Lists of batches, one or one per uploader; in each downloader the next index of each list and
the samples. *Operations.* Publish, put a batch, update. *Hard.* Uploaders append while
downloaders ask for lengths and ranges; replicas take turns. *Correct when* a replica has
each of its batches once.

### OpenFOAM: motion solver, function object, training script (`openfoam-smartsim`)

*State.* Keys of the database: a flag that the model is there, two lists, one that says that all has
ended, datasets by rank and step, a dataset with the names of the others. *Operations.* In each step every rank sends
its points, waits for the flag and runs the model; the script waits for all ranks, trains, and sets the flag;
the function object posts fields. *Hard.* The flag and the lists are deleted while others go on.
*Correct when* a model is trained on one step and used in that step.

### SmartSim: Dragon launcher and connector, workload managers, experiment, entities, settings, generation, command line

Sequential construction of data, files and command lines; parsing of
workload-manager output; build scripts. The connector sends the requests of the Dragon backend.

## 2. Plan

| # | Modules | Status |
|---|---------|--------|
| 1 | `DagCommands`, `DagProgram`, `DagService`, `DagRun`: execution core of RedisAI; `SequenceFacts`, `DagRun_proofs`, `DagOutcome_proofs` | done; safety and refinement proved |
| 2 | `OnnxTimeout`, `OnnxTimeout_proofs`: entries, workers, cron, new devices | done; safety proved |
| 3 | `DragonBackend`, `DragonBackend_proofs`: requests, update thread, hosts, stops, shutdown, launches that fail half-way | done; safety proved |
| 4 | `TaskManager`, `JobManager`, `Controller`, `Controller_proofs`: launches on the local launcher | done; safety proved |
| 5 | `HashSlots`, `ClusterMap`, `ThreadPool`, `ClusterPipeline`, `CallPromise`, `ClusterPipeline_proofs`: calls on a cluster | done; safety and refinement proved but for the prefixes of shards |
| 6 | `Tensors`, `Backends`, `Datasets`: tensors, libraries, the models and inputs they accept, batches; layouts of memory, datasets as objects | done |
| 7 | `Keyspace`, `KeyspaceImage`, `EarlierImages`, `Replies`, `ClientKeys`, `Programs`, `RedisServer`, `ClientCalls`, `SmartRedisClient`: shards, their images, clients; `SmartRedisClient_proofs` | done; the statistics and what is on disk proved |
| 8 | `Configuration`, `Bindings`: how clients are configured and constructed, and called from C and Python | done |
| 9 | `JaxWorker`, `FoamCoupling`, `TrainingData`: what runs on top of the clients | done |

Section 7 says what is proved, and what is left to TLC and why. Next: the other properties of shards and clients depend on the
programs that the clients run; an induction over these programs would need one lemma for each call.

## 3. The execution core: `DagCommands`, `DagProgram`, `DagService`, `DagRun`

### `DagCommands`

How a command becomes a request. An argument is a keyword or a number, as strings, or a name; each parser
(`ParseModelExecuteCommand`, `ParseScriptExecuteCommand`, `ParseTensorSetArgs`, ..., `ParseDAGExecuteCommand` and the deprecated
`AI.DAGRUN`, `AI.MODELRUN`, `AI.SCRIPTRUN`) is an operator that returns the set of what was asked for: one request, or none when the command
is refused. All refusals are alike: the text of errors is left out. The operations of a DAG are refused together. The
interface with which another module builds a DAG is there as well.

`MCDagRun` instantiates it with what the keys hold (`StoredKeys`). Two assumptions, which TLC evaluates in each run
of `DagRun`, tie the parsers to the requests of these runs: `RequestsAreAsked` (each request of the runs is what the parser makes of the command
that its client would send) and `CommandsAreRead` (commands that differ in one argument: which are refused, and what the
others ask for).

### `DagProgram`

The parsed requests are constants: per request the operations, the LOAD and
PERSIST names, whether it has a TIMEOUT. A model or script execution
(AI.MODELEXECUTE, AI.SCRIPTEXECUTE) is a request of one operation, as in the code,
whose input keys are read when it is parsed; in the model they are `Loaded`.
`MapTensorsKeysToIndices` becomes `NameTable`: the slot each name is bound to after
each operation. In the code a slot is an index into `dagSharedTensors`, a fresh one
for each output; in the model it is the pair of the operation and the output
position, `<<0, j>>` for LOAD. A tensor is a term that says which operation
computed it from which tensors, so two tensors are equal only when they were
computed the same way: reading a stale or a wrong tensor shows in the term.

### `DagRun`

| Code | Model |
|---|---|
| `RedisAI_RunInfo`, shared part | `phase`, `refCount`, `finishes`, `tensors`, `result`, `dagError`, `firstError`, `timedOut`, `readLocks`, `answer` |
| the copy of a request on a device | `toPush`, `opsDone`, `elapsed` |
| `RunQueueInfo` | `queue`, `mutex` |
| locals of `BGWorker_ThreadMain` | `pc`, `batch`, `position`, `batchRows`, `outputs`, `unfinished` |
| `RAI_DAGRun`, `DAG_InsertDAGToQueue` | `Submit`, `Reject`, `Push` |
| `_BGThread_Wait` | `Wake`, `Sleep` |
| `queuePop`, `_BGThread_IsRInfoTimedOut` and the flags | `Pop` |
| `_BGThread_PrepareExecution`, `_BGThread_BatchOperations` | `NotReady`, `RunAlone`, `StartScan`, `ScanSkip`, `ScanTake`, `LaunchBatch`, `ReturnBatch` |
| `_BGThread_Execute`, `RedisAI_DagRunSessionStep`, batched or not | `RunNothing`, `RunSucceeds`, `RunFails`, `Store` |
| `_BGThread_ExecutionFinish`, `_BGThread_RinfoFinish` | `FinishOne` |
| reinsertion of unfinished copies | `Reinsert` |
| `RedisAI_DagRun_Reply`, persisting, `RAI_FreeRunInfo` | `Reply` |
| the clock | `Tick` |

Atomicity. What a worker does while it holds the queue mutex is cut into several
actions even so, because it reads flags, tensors and times that others write
without that mutex. Storing the outputs of a batch is one action per copy, each
under the write lock of its request. Taking copies out of the batch at the end is
one action per copy: the counts are atomic in the code, and the reader's view of
them is what two workers race on.

Choices. The order in which the persist dictionary is walked is not modelled: when
a key cannot be written any subset of the others may have been saved. A backend
call that fails marks the operations of all the copies of the batch in one step;
the code walks over them, and nothing reads the results of the others in between
except through `dagError`, set with it. `RunSucceeds` marks the results and then stores the
outputs one copy after the other; `result` is only read when the request is
finished. What a key that cannot be persisted leaves in `dagError` and in the result of its operation (`dag.c:122, 151`) is left out: the
request is freed in the same call. `dagCompleteOpCount` is written and never read, and is left out, as are
statistics, the text of errors and the profile counters. `elapsed` records which
of the delays that the code compares with `queuingTime` have passed: only these
comparisons depend on time. `TimeoutFlagReturned` stands for the undefined value of
`RedisAI_DagTimeout`, which has no return statement: TRUE gives a build that
happens to return the flag, FALSE one that may return anything.

### `DagService`

The abstract specification: a request is accepted or refused, operations run
after those that produce their inputs and once each, several requests may be run
in one call, the request ends when all have run, one failed or the timeout passed,
and the answer holds what sequential execution would have computed. It does not
use `NameTable`: `Environment`, `Producers` and `Resolves` define names, inputs and refusal
anew from the order of the operations, so that the refinement checks the
resolution of names as well. `DagRun!Service` maps `phase` to `status` and keeps
`result`, `timedOut` and `answer`.

## 4. The timeout of ONNX runs: `OnnxTimeout`

The workers of section 3 that run ONNX models, seen from the array
`OnnxRunSessions`. What they run, and for whom, does not matter here: a worker that is
idle may run a model at any time. The call that `DagRun` takes to return
(`RunSucceeds`, `RunFails`) is the one whose return this module is about.

| Code | Model |
|---|---|
| `LastThreadId`, the thread-local number, `BGWorkersCount` | `lastId`, `threadId`, `counted` |
| `OnnxRunSessions` and its lengths | `entries`; `runState`, `queuingTime`, `runOptions` by number |
| `RAI_InitGlobalRunSessionsORT` | `LoadBackend` |
| `RunQueue_Create`, `RAI_AddNewDeviceORT` | `CreateQueue`, `Spawn`, `AddNewDevice` |
| `_BGWorker_SaveThreadId` | `Start` |
| `RAI_ActivateRunSessionCtxORT` | `Take`, `SetTime`, `SetActive` |
| `OrtApi.Run` in `RAI_ModelRunORT` | `EndRun` |
| `RAI_ResetRunSessionCtxORT` | `Reset`, `ClearTime`, `Release` |
| `RAI_EnforceTimeoutORT` | `CronStart`, `CronCheck`, `CronSwap`, `CronTerminate`, `CronStore` |
| the clock | `BecomeLate`, `cronLate` |

Atomicity. Every load, store and compare-and-swap that the other side can see is an
action. The cron and the commands are one thread, so a cron that waits for the
read lock never waits for the writer: the lock is `ReadLocked`, which only the writer
asks. Stores are seen in the order in which they are made, as on x86; the relaxed
stores of the code promise less. A session is the pair of a worker and the number of
its runs before, standing for its `OrtRunOptions`; a time is the session that began
then, and `late` the sessions whose time has passed. `cronLate` is `late` when the cron
read the clock. A thread whose number is past the end of the array indexes other
memory: it goes to `"outside"` and nothing is said of what follows. A
thread may be created at any time of `RunQueue_Create` before it ends; each is slow to
start at will.

## 5. The other models

### 5.1 The Dragon backend: `DragonBackend`

| Code (`smartsim/smartsim/_core/launcher/dragon/dragonBackend.py`) | Model |
|---|---|
| `_group_infos`: `status`, `process_group`, `hosts` | `status`, `groupOf`, `hostsOf` |
| the process groups of Dragon | `groups`, by step, in the order of their launches |
| `_queued_steps`, `_stop_requests`, `_running_steps` | `queued`, `stops`, `running` |
| `_allocated_hosts`, `_free_hosts` | `allocated`, `free` |
| `_shutdown_requested`, `_can_shutdown`, `_shutdown_initiation_time` | `requested`, `canShutdown`, `cooldown` |
| `run` of `_core/entrypoints/dragon.py` | `MainCheck`, `NoRequest`; `main` |
| `process_request`: run, stop, shutdown | `Run`, `Stop`, `Shutdown`, `MainStatus`, `KillAll` |
| `update` | `UpdaterCheck`; `updater` |
| `_stop_steps` | `BeginStop`, `StopOne`, `EndStop` |
| `_start_steps`, `_allocate_step` | `BeginStart`, `Skip`, `Start`, `FailToStart`, `LoseGroup`, `FailToRedirect`, `EndStart` |
| `_refresh_statuses` | `Refresh` |
| `_update_shutdown_status` | `UpdateShutdownStatus`, in `MainStatus` and `UpdaterStatus` |
| the end of processes, the clock | `EndGroup`, `CoolDown` |

Atomicity. `_queue_lock` excludes the requests from `_stop_steps` and `_start_steps`, which
take time and are cut into one action per step; `Locked` says that the update thread is in
one of them. Process groups may end between these actions, and the main thread may set
`requested` and read the flags, which it does without the lock. `_refresh_statuses` and
`_update_shutdown_status` hold the lock and are one action each; a group that ends while
the first looks at others is one that ended before or after. The main thread waits for
a request until its socket times out (`NoRequest`). `should_shutdown` starts the
cooldown as a side effect, so `MainCheck` and `UpdaterCheck` change `cooldown`.

Failures. A script of `Scripts` says which steps clients ask for and which calls to Dragon may fail:
`"init"`, the group cannot be initialised or started (the step is recorded as failed on the hosts that it
was given); `"puids"`, the group does not tell its process ids (logged; the step stays queued);
`"redirect"`, the workers that copy the output cannot be started (the exception leaves
`_start_steps`; `update` goes on with its next turn). The last two leave hosts and processes
behind; `lost` remembers the steps, and the properties about hosts, processes and shutdown are said
while there are none. `NoStepForgotten` is said whatever fails. `PolicyFits` is the set of steps that
`_can_honor_policy` accepts. A step that a client asks for is new: the code makes its id.

Left out: return codes, the redirect workers except for their failure, requests
that only read, bootstrap, and the `frontend_shutdown` flag, which changes how the processes of the
front end leave and not what the backend does. If the update thread dies the entry
point starts another; in the model no exception leaves `update`, as in the code.

### 5.2 Launches: `TaskManager`, `JobManager`, `Controller`

An experiment on the local launcher. Three kinds of threads: the main thread runs the user's program; a
monitor of the task manager looks at processes; a monitor of the job manager looks at jobs.

| Code (`smartsim/smartsim/_core`) | Model |
|---|---|
| processes, as `psutil` and `Popen` see them | `proc`, `code`; `Exit` |
| `TaskManager.tasks`, `task_history`, `actively_monitoring` | `tasks`, `history`, `watching` |
| `TaskManager.run` | `Begin`, `Loop`, `Look`, `Record`, `TakeOff`, `Empty`, `Clear`; `tm`, `at`, `held` |
| `start_task`: `Popen`, the poll 0.2 s later, the entry in the list; an interrupt in between | `StartTask`, `FailedAtOnce`, `ListTask`, `DropTask`; `starting`, `dropped` |
| `add_existing`, `remove_task`, `get_task_update` | `AddExisting`, `RemoveTasks`, `TaskStatus` |
| `JobManager.jobs` and `db_jobs`, `monitor_jobs`, `completed`; look-ups by name | `active`, `monitored`, `completed`; `Put`, `Found`, `Told` |
| `Job`: its step, status, return code, history | `run`, `status`, `returncode`, `recorded` |
| `JobManager.run` | `ManagerBegin`, `ManagerLoop`, `ManagerCheck`, `ManagerLook`, `ManagerMove`, `ManagerEmpty`, `ManagerClear`; `jm`, `toLook`, `moving` |
| `Controller.start`, `_launch_step`, `add_job`, `restart_job` | `Start`, `LaunchStep`, `Spawn`, `Spawned`, `Relaunch`, `AddJob`, `AddMonitor`, `BeginManager`; `main`, `queue` |
| `_orchestrator_launch_wait`, `set_db_hosts` | `LookAtDB`, `DBRuns`, `DBFails`, `SetHosts` |
| `stop_entity`, `stop_db` | `Stop` |
| `poll`, `reload_saved_db`, `signal_interrupt` | `Poll`, `EndPoll`, `Reconnect`, `SignalInterrupt`, `AbortDB` |

Atomicity. One step of a thread is what it does under a lock, or between two looks at state that
another thread changes. `TaskManager.run` iterates the list without its lock, so the place of the loop
(`at`) stays while the list moves. The job manager decides without the lock that a job is over (`ManagerLook`) and
moves it with the lock (`ManagerMove`). `add_job` sets one table and then another.
A launch is several steps: the process begins (`Spawn`), is polled and listed (`Spawned`), and gets its job (`AddJob`, `Relaunch`). The lock of
the task manager is held between the first two (`starting`): what needs it waits, but an interrupt comes in the same thread and may come in between.

Choices. A task may end so quickly that the launch polls it, and may fail at once. A process of an earlier
experiment is not a child: nothing but its end is seen. `actively_monitoring` is cleared in a step
of its own (`Clear`), so that a launch may see it set and start no thread; a thread may also be started beside one that
is about to clear it. An interrupt ends the call that it comes in. A name may have several jobs, `<<entity, number>>`: number 0 is the one that
`add_job` makes, the others come from a database of an earlier experiment each time it is loaded. A table holds one job of a name, and
`reload_saved_db` replaces the one that is there, whatever its state. Loading twice lists the process twice. When a database is told to shut
down by its address, any server of its name may be the one. A completed entity is launched again with the object that ran
before (`controller.py:567` compares them).

Two history variables record flaws of the code that the properties except. `overtaken` has the names of which a job was moved after it had been launched
again or replaced, an active job was replaced, or a launch was broken off by an interrupt after its process began. `dropped` has the
launches that were interrupted before their process was listed.

Left out: workload managers, batches, databases of several shards, telemetry, files, and what only reads.

### 5.3 Calls on a cluster: `HashSlots`, `ClusterMap`, `ThreadPool`, `ClusterPipeline`, `CallPromise`

`HashSlots` is the slot of a key, by its hash tag and CRC16, and the inverse of CRC16 that finds for a shard a prefix
which sends a key there; keys are sequences of bytes there, as the bits matter.
`ClusterMap` is the sorted table of shards and the binary search in it, as recursive functions;
`ThreadPool` the queue and its workers; `ClusterPipeline` composes both.

| Code (`smartredis/src/cpp`) | Model |
|---|---|
| `get_hash_tag`, `sr_crc16`, `_get_hash_slot`, `_get_crc16_prefix` and what it calls | `GetHashTag`, `Crc16`, `GetHashSlot`, `GetCrc16Prefix` |
| `_parse_reply_for_slots`, `_db_node_hash_search` | `DbNodes`, `HashSearch` |
| `submit_job`, `perform_jobs`, `shutdown` | `Submit`, `Take`, `Perform`, `JobDone`, `Leave`, `Shutdown` |
| `run_via_unordered_pipelines` | `Call`, `SkipShard`, `SubmitShard`, `EndSpin`; `next`, `count`, `success` |
| the job: `_run_pipeline`, then the results under `results_mutex`, then its unlocking | `Answered`, `ConnectionLost`, `StoreReplies`, `Unlock`; `attempt`, `results_mutex` |
| `PipelineReply::reorder` | `Reorder`, `Return`; `order`, `replies` |

A job stores its results and counts itself under the mutex in one step, and unlocks the mutex in another: the caller, which looks at the count alone,
may go on in between. A reply is the number of its command. A connection may fail after any prefix of the commands of a job was
executed; the job then sends all of them again, `Attempts` times. A mistake in the
order, a lost reply or a job that is counted before it has stored its replies shows in `replies`.
`CallPromise` is the abstract specification: commands are executed while the call runs, in any order and
perhaps more than once, and a call that returns has executed all of them. `KeepsPromise` is the refinement.

### 5.4 Shards and clients: from `Tensors` and `Keyspace` to `Bindings` and `SmartRedisClient`

`Keyspace` is one shard as a record, and each command as an operator that returns the shard after it
and the reply (`Perform`). An execution only begins there (`Execute`); it holds the object
and the tensors that were found, and `Finish` stores the outputs and drops the reference.
`ModelFree` removes a statistics entry with the last reference, if the entry is still of that
object. Objects are numbered, so that an entry is known to be of one object; the data of a
tensor computed by a model is a term that says by which, from what.

`Finish` replies before it stores the outputs, as `RedisAI_DagRun_Reply` does: when an output key holds another type the
client gets two replies to one command, and `extra` holds the second one until the next command takes it for its own.

`Tensors` are a type, dimensions and the elements in the order of the blob; `Concatenated` and `Sliced` put the rows of several
together and take them apart. `Backends` says what each library exports and the shard asks it for (`Needed`), what each backend refuses
when a model or script is created (`CreateTF`, ..., `ScriptCreate`), and what a run of one execution or of a batch makes of the inputs
(`RunTF`, `RunTorch`, `RunORT`, `RunTFLite`, `RunScript`). What a model computes is a term; the artifact that its bytes describe
(`Artifact`) says how many inputs it has, of which type, and whether its output has a row for each of the input. `RunTogether` takes two
executions of one model into a batch.

`Datasets` is the memory of a program: an array has a layout (`"nested"`, pointers to pointers; `"contiguous"`, rows
one after the other; `"fortran"`, columns one after the other), and a tensor its elements by rows. `FToC` and `CToF` move the
elements as the loops of `tensor.tcc` do; `LayoutsAgree` says that every position of an array has the same element when it is stored from one
layout and read in another. A dataset object has tensors and metadata fields; its fields go into the hash and come back
(`SerializationMap`, `AddSerializedField`), the names of its tensors being one of them. `Method` is a call of one of its methods (`CallMethod`).

`KeyspaceImage` is what a shard leaves on disk: a snapshot, written and read field by field, or the commands that a
rewrite of the append-only file emits. Objects are read one after the other, each into a key of its own; so the shard that reads them is put
together of parts with one object each (`Part`, `Combined`). Objects keep their numbers, which only tell them apart. `EarlierImages` has the decoders for the snapshots of earlier versions of RedisAI (versions 0 to 3 of
the encoding). What those versions saved is not in the repository; it is taken to be what their decoders read. In a scenario
with `older` the first shard starts from such a snapshot; `ScenarioAssumption` says that the objects in it have numbers of their own
and are such as a command could have stored on this host (`Accepted`): an earlier version on the same host had checked them with the same arguments.
A model or script keeps those arguments of the command that its structure has fields for (`ModelFields`, `ScriptFields`).

`ClientKeys` makes keys and finds their shards; a key is its hash tag
and the rest. `Programs` has the instructions a call is made of: they send commands one after the other, in a pipeline,
in a pipeline that is not retried, or in any order, or look at the replies and say how to go on.
`RedisServer` makes programs of the methods of `Redis` and `RedisCluster`, side by side, and `ClientCalls` of those of `Client`, with what it
refuses before anything is sent (`Refusal`).
`Replies` gives each reply its type, as hiredis does, and says which types each reader accepts: the reader that gets a reply of another
type throws (`Readable`). This decides what a client makes of replies that are not its own (`extra`, below).

`Configuration` is the environment, the `ConfigOptions` objects with what they have cached, and the constructors: which options are read in
which order, what is refused, which of several addresses is connected to and whether a cluster is there. A number in the environment is given with
what `stoi` makes of it. `Bindings` translates a call of a C or Python program: what it refuses itself (`BindingRefusal`), with what it calls the client
(`InLanguage`), what it hands out (`Gives`, such as the arrays of `get_dataset_list_range`) and the code or class of an exception (`ErrorTold`). The
cases in which an unchecked pointer ends the program are there too (`Unchecked`, `Killed`).

| Code | Model (`SmartRedisClient`) |
|---|---|
| a client and what it is doing | `client`: `calls`, `prog`, `got`, `set`, `result`; `Begin`, `UsePrefix`, `SetDataSource` |
| a call that client or binding refuse, a call of an object | `Refuse`, `CallMethod` |
| the environment, an options object, the constructor | `client.env`; `SetEnvironment`, `Configure`, `Construct` |
| one command, its retry after a lost reply | `Send`, `LoseReply` |
| `AI.MODELEXECUTE`, `AI.SCRIPTRUN` | `StartRun`, `FinishRun` |
| the end of the attempts while a shard is down | `GiveUp` |
| a shard that ends, or that a command ends, and starts again | `Crash`, `EndedByCommand`, `Restart`; `db`, `up`, `image` |
| the append-only file and its rewrite; `SAVE` | `Carried`, `Rewrite` |

Atomicity. A command is one step of its shard. A pipeline to one shard is sent in one go but executed
command by command, and commands of other clients come in between: Redis promises no more. Nothing else is
shared between clients.

Choices. `kept` is what a shard ought to find on disk and `past` what clients have begun to store; `before` is what
a run or a rename found when it began. Only properties read them. `_use_bytes_prefix` is not initialised by the
constructor: `Init` chooses either value when there are prefixes for it to matter. Addresses are looked up in the table as it was
reported, before it is sorted (`Addressed`), as the code does. 
A program whose pointer is not checked ends there, and so do the properties about it. Of a script or model file it matters whether
it is there.

### 5.5 On top of the clients: `JaxWorker`, `FoamCoupling`, `TrainingData`

`JaxWorker` is the worker process of each shard: `queue` holds the open connections, `models` what it has deserialized,
`replies` what the threads of the shard were told. In `SmartRedisClient`, `AskWorker` is
`RAI_ModelRunJAX` up to the wait for the reply, `WorkerServes` one turn of the worker's loop, and
`RunTogether` the batch of several executions that the backend refuses. Several requests may wait at once: a shard has a
thread per device, or more when it is configured so. A reply longer than the buffer of the shard (256 bytes
and 32 for each value) is cut off: the run fails, and the exception that the worker gets from the closed connection
is raised outside of its `try` and may end it (`MayEnd`, `WorkerEnded`). It starts before its shard, ends with it, and
nobody starts it again when it ends alone.

`FoamCoupling` and `TrainingData` are programs of clients: sequences of calls, with
`continue` steps at which the program looks at what it has kept in its `memory` and goes on or exits
(`Resume`), and the reduction at which the ranks of a solver wait for each other (`Reduce`). A poll in vain ends a
program unless the code ignores it (`soft`).

| Code | Model |
|---|---|
| `displacementSmartSimMotionSolver::solve`, by rank | `Solve`: `SendBoundary`, `MoveInternalPoints`, reduction, deletion of the flag |
| the loop of `openfoam-smartsim-mesh-motion.ipynb` | `Training`, `StoreTrained` |
| `fieldsToSmartRedisFunctionObject`, `smartRedisClient` | `PostMetadata`, `SendGeometricFields`, `GetGeometricFields`, `GetMetadata`, `End`, `AddToMetadata` |
| `TrainingDataUploader` | `PublishInfo`, `PutBatch` |
| `DataDownloader`: `__init__`, `_init_samples`, `update` | `NewDownloader`, `InitSamples`, `UpdateSamples`, `Fetch`, `AddSamples`; `next`, `samples`, `fetched` |

`Tries` is 2 for polls that ask 10, 1000 or 10000 times in the code: one try that fails and another is all that
the order of steps tells apart.

## 6. Runs

`MCDagRun` gives the requests, models and workers, `MCOnnxTimeout` the workers and their
devices, `MCDragonBackend` the steps and hosts, `MCController` the entities, `MCClusterPipeline` the clusters and
commands, `MCSmartRedisClient` the scenarios.

| Run | Instance | Question | Result |
|---|---|---|---|
| `dag_cross` | 2 requests, 2 devices, 3 workers (two on one device), batching, failures, one timeout, a key of a wrong type, a name redefined on another device than its reader | Are copies lost, duplicated or miscounted; does a request end once and with all its work done; are names resolved to the right tensors; is `DagService` implemented? | passes, 172,884 states |
| `dag_batch` | 4 executions of one model (BATCHSIZE 2, MINBATCHSIZE 2, MINBATCHTIMEOUT), one of them larger and of other dimensions, 2 workers on the device, and a request that is refused; symmetry | Does what runs in one call obey the options, and have one shape, when batches fill, wait and are returned? | passes, 286,692 states |
| `dag_answered` | the requests of `dag_cross`, MINBATCHSIZE 3 with its timeout, so that batches of one copy and of two go back to the queue, the latter in reverse order; one worker per device, fairness | Is every accepted request answered? | passes, 14,180 states |
| `dag_read_lock` | two requests whose inputs differ in shape, with fairness | the same question | violated: finding 1 |
| `onnx_entries` | 2 devices of one thread, the second created at any time, before or after the backend is loaded; 2 runs each; fairness | Does the cron terminate sessions that are alive, and leave each entry as its worker expects it? Does a run that never returns by itself end? | passes, 137,380 states |
| `dragon_steps` | 3 steps that compete for two hosts, one of them for both, or one for more than there are; stop requests and shutdown at any time; groups that fail to start, or every failure | Is a host free or given to one step; is one that is reported as ended dead; is the server done only when all steps are; is a step ever forgotten? | passes, 3,784,289 states |
| `dragon_ends` | steps for one host, for two and for three, groups that fail to start, fairness | Does a server that is told to shut down at once end, even if steps run for ever? If process groups end, does every accepted step, and the server after them? | passes, 158,601 states |
| `control_jobs` | a model launched twice; two models; a database that an earlier experiment may have left, launched beside it or loaded twice; up to two monitor threads of each manager; stops, polls and an interrupt at any time of a launch | Is a process lost; is what is reported of a run what its process did, and does it change; does an entity ever run twice? | passes, 2,318,602 states |
| `control_ends` | a model launched twice, or a database launched beside an earlier one or loaded twice, with one monitor thread of each manager; a model with up to two of each; fairness | Are jobs completed when their processes end, and does a poll return? | passes, 654,232 states |
| `control_interrupt` | two models | Are all jobs killed when an interrupt comes? | violated: finding 2 |
| `redis_pipeline` | clusters of one, three and four shards, reported out of order, two of whose shards have a prefix of three bytes in one case; callers of three commands and of one, two workers, two failing connections; fairness | Are shards found, by slot and by prefix; are replies in order; has a job that outlives its call more to do than to unlock the mutex; is `CallPromise` implemented; does every call end? | passes, 497,809 states |
| `redis_clients` | 80 scenarios of two or three clients, in C++, C and Python, on one shard or two, with a lost reply, a crash, a rewrite, a snapshot of an earlier version | Is a dataset that is there whole, and one that is read; does a rename lose something; are results those of the model and inputs; do statistics follow; does a shard come back as it was, or as an earlier version left it; is each caller told what happened, whatever its language; does a constructed client have the options that it was given; do solver and script, uploader and downloader keep in step? | passes, 268,460 states |

### Bounds

All sets are finite and given in the configurations.

- `DagRun`: nothing else is bounded (`readLocks` grows by one each time two
  shapes are compared, at most once per scan of a copy; a request has two or three
  operations). Two requests are enough for every race between two copies of one request
  or between requests on one queue; three that are alike in `dag_batch` allow a batch that is
  full, one that is not and one copy left outside, and the fourth one that must not join.
  The three, and the two workers, are exchanged by `BatchSymmetry`: they have the same
  program, names and options, and only invariants are checked. Two devices are enough for
  every race over the shared part of a request, two workers for those over a queue.
- `OnnxTimeout`: `MaxRuns` bounds the runs of a worker; two let an entry be
  used again, and what the cron read of the first is then old.
- `DragonBackend`: `MaxFaults` bounds the launches of a step after which it
  stays queued, `MaxStops` the stop requests that wait when a client sends another.
- `Controller`: `MaxRuns` bounds the launches of an entity (two: a job is relaunched while a monitor
  is at work on the first), `MaxThreads` the monitor threads that live at one time (two: one that is about to clear its flag
  and one that was started because the other was seen to have cleared it), `MaxLoads` how often the database of an earlier experiment is loaded
  (two: the second job replaces the first). A script bounds them further.
- `ClusterPipeline`: `Attempts` is 2 and `MaxLost` 2, so that a job may fail for good; three jobs
  on two workers leave one waiting.
- `SmartRedisClient`: the scenarios bound calls, lost replies, crashes and rewrites; each was
  written for an interleaving that it makes possible, named in its comment.
  A poll asks twice.

Deadlock is checked in `dag_cross`, `dag_batch`, `dag_answered`, `onnx_entries`, `dragon_steps`, `dragon_ends` and
`redis_pipeline`. It is not in the runs of `Controller`, where the user may do
nothing more and a poll may wait for ever, and in `redis_clients`, where programs end. `Idle` and
`Finished` are the steps of systems with nothing left to do.

What the bounds leave out: batches in `dag_batch` go back with one copy, as two are enough for their options (`dag_answered` returns two); the steps of
`DragonBackend` are few, so that small ones without end that keep a large one waiting, as nothing reserves hosts for it, are not
exercised; every run has a build with `TimeoutFlagReturned`.

### Fairness

The configurations with `Spec` check safety only and assume no fairness. `FairSpec` assumes of the threads
that the operating system runs them.

- `DagRun`: weak fairness of each worker and of the main thread's reply. A step that waits for a mutex has
  strong fairness (`Wake`, `Reinsert`, `Push`): the mutex is free again and again because the holders
  release it and then sleep on the condition variable or run an operation, and a POSIX
  mutex that is free again and again is obtained in the end. Backends return
  (an assumption on the libraries; `OnnxTimeout` shows it for ONNX). Of time only
  MINBATCHTIMEOUT is assumed to pass. Clients owe nothing: `Submit` has no fairness.
  In `dag_answered` the model has a MINBATCHTIMEOUT. Without it a request may wait for
  a batch that nobody fills; the documentation of MINBATCHSIZE allows that.
- `OnnxTimeout`: the main thread calls its cron (Redis does, every 100 ms) and ends its
  commands; a thread that was created starts; time passes; a worker goes on, and
  its spin in `Reset` reads the entry again and again. `OrtApi.Run` is only assumed to return
  once its session was terminated. There is always a step, as the cron runs again and again; that no worker
  waits for ever is `EveryRunEnds`.
- `DragonBackend`: both threads run and the cooldown passes. `MainStatus` and `KillAll` have strong
  fairness: they wait for the lock, which the update thread releases at the end of each
  phase, and it then sleeps before its next turn. `NoRequest` is the timeout of the socket.
  Clients owe nothing. That process groups end (`GroupsEnd`) is not assumed of the system: it is
  the premise of `ShutdownEnds` and `EveryStepEnds`, and `ImmediateShutdownEnds` does without.
- `Controller`: the main thread goes on with a launch and leaves a poll that may return; each monitor thread goes
  on; the processes of models end, those of databases need not. The user owes nothing.
- `ClusterPipeline`: callers and workers go on; a server answers in the end, or the connection fails. No
  connection owes a failure, and `Destroy` is not forced.

### Findings

1. `RAI_DagOpBatchable` (`redisai/src/execution/DAG/dag.c:353-355, 362-364`) returns
   without releasing the two read locks it took. A worker that then has to store
   outputs of that request waits for ever. `dag_read_lock` shows the behaviour.
2. `signal_interrupt` (`smartsim/smartsim/_core/control/jobmanager.py:342`) kills jobs only when
   `actively_monitoring` is set, and the job manager is started after everything was launched. An
   interrupt in between kills nothing, although the documentation of `poll` guarantees it.
   `control_interrupt` shows the behaviour.

### Known flaws that no run shows as a violation

The models have them; the properties except them, as their comments say, or a constant leaves
them out.

RedisAI:
- `RedisAI_DagTimeout` (`redisai/src/execution/DAG/dag.c:387-389`) has no return statement. With `TimeoutFlagReturned` FALSE a request may
  end early, and `FinishedMeansDone` is violated. The runs use a build that returns the flag. Two theorems have this as a
  hypothesis, `DagFinishedMeansDone` and `DagKeepsPromise`; the others hold for both.
- `RAI_EnforceTimeoutORT` (`redisai/src/backends/onnx_timeout.c:74`) compares the time of
  an entry and then swaps its state; the worker may have ended that session and begun the
  next in between, and the new one is terminated. `LateInItsEntry` is what does hold.
- `RunQueue_Create` (`redisai/src/execution/run_queue_info.c:37`) starts threads before the
  array has entries for them, and numbers are taken when threads first run. With two threads per device one
  that starts late takes a number after those of the new device and indexes the array past its end
  (`"outside"` in `OnnxTimeout`).
- A timeout is compared with 0 as a pointer (`parsing/dag_parser.c:137`), so that TIMEOUT 0 and less are accepted in a DAG (`TimeoutSet`). A MINBATCHSIZE without
  timeout may wait for ever, as documented.
- `AI.MODELSTORE` on a key that holds another type ends the server (`redis_ai_objects/model.c:122`; `EndedByCommand`).
- An execution whose output key holds another type is answered with OK and then with an error (`dag.c:601`); the client takes each later
  reply for that to the command after (`extra`; `ResultsOfRuns` is said while there is none).
- Requests of one model whose inputs differ in type are batched (`dag.c:319-372` compares dimensions), and the bytes of the others are read as the type of
  the first. Slices of tensors of strings take wrong offsets. An output of TensorFlow without dimensions is skipped in a batch, and
  one of a wrong size is freed twice; TFLite tensors of Booleans fall through to an error; all workers of a device share one TFLite interpreter;
  Torch writes the elements of a tuple past the outputs before it counts them.
- `ModelStore` and `AI.SCRIPTSET` reply twice when a run queue cannot be created.
- A rewrite of the append-only file without the RDB preamble loses scripts without entry points (`KeptAcrossRestart` excepts them);
  a model that cannot be serialized is saved as nothing. Scripts from snapshots of the versions 0 to 2 have no entry points, and are lost by the
  next such rewrite. `decode_v0.c` frees a tag with the wrong function when loading fails.
- A JAX reply longer than its buffer fails the run and may end the worker (`jax_worker/worker.py:88`), which nothing starts again; batches of
  several executions are refused, so that a model with a BATCHSIZE fails when it is called concurrently; nothing limits the
  time of a reply; the file of the socket, which the start of a shard waits for, is there between `bind` and `listen`.

SmartRedis:
- Two clients that put different datasets under one name, or one that deletes what another puts or copies, leave a mixture;
  a dataset that is put again while it is read comes back torn, or the read throws (`AckMeansWhole` and `AnswersAreTrue` say when not).
- Memory in column order of other dimensions with the same product is filled by the dimensions of the tensor (`client.cpp:498`). `clear_field`
  of `.tensor_names` stores a dataset whose tensors nobody finds; a field of the user named `.COMPLETE` is stored before the tensors and
  dropped by readers; a name that is twice in `.tensor_names` makes `get_dataset` throw. `add_meta_scalar` with the type of strings
  throws and leaves an empty field. A dataset that is put again with fewer tensors leaves the others.
- `rename_tensor` of the key of a model or script moves it, but not its entry in the statistics (a key that moves is not freed): the scans go on to list the old key.
- `rename_dataset` of a name to itself deletes it. What another client appends to a list between the copy and the deletion of
  `rename_list` is lost. `copy_list` with different prefixes for reading and writing appends to what is there.
- A pipelined call on a cluster spins on the count of finished jobs alone (`rediscluster.cpp:303`): it may return, and destroy `results_mutex` on its stack,
  while the last job, which has stored and counted its results (297), still has to unlock it (298), although the comment at 302 says that it waits
  until all jobs have finished. `OnlyUnlockOutlivesCall` says what does hold.
- A command whose reply is lost is sent again: `append_to_list` then appends twice, and a deletion or renaming that was done throws.
- Temporary tensors of a cluster are shared by clients with the same names, and stay when the execution fails.
- `poll_model` and `model_exists` ask one shard only; clients that set different models under one name may leave shards that disagree.
- `get_model` copies the pieces of a model of several chunks over each other (`client.cpp:911`). `set_model_chunk_size` reaches
  one shard (`client.cpp:2386`).
- The loops over GPUs go from `first_gpu` to `num_gpus - 1`, not to `first_gpu + num_gpus - 1`, while runs choose among the latter.
- `_use_bytes_prefix` is not initialised. A dataset with a tensor named `meta` overwrites its own metadata.
- The map from addresses to shards points into a table that is sorted afterwards (`rediscluster.cpp:1278`), so that what is addressed to one shard goes to
  another (`Addressed`). The prefix of the shard answered last is looked up through it as well. `error_response` is written without the mutex (`rediscluster.cpp:277`).
- `get_ai_info` with `reset_stat` throws after the statistics were reset: the reply to the reset is a status, and is read as an array (`client.cpp:1458-1475`).
  `client.h:1174` documents a map. In Python only the first address is reset.
- Names with `{}`, or with a `}` before a `{...}`, are hashed by client and server differently (`rediscluster.cpp:1376-1395`).
- A pipeline on a cluster that fails throws the base class `Exception` (`rediscluster.cpp:276-309`), which C tells as an invalid error. `get_tensor_type` and `get_tensor_dims` of a
  tensor that is not there throw `std::out_of_range` (`dataset.cpp:262, 280`) where `dataset.h:319` documents a key error.
- A missing script file is stored as an empty script. A model stored under the key of a script ends the server.
- An integer option that is set to nothing is cached as -1, so that the constructor refuses it. A negative `SR_THREAD_COUNT` becomes a huge
  count (`threadpool.cpp:18-32`) and ends the program. A program in Python that gives `Client` an options object that no factory made dereferences a null pointer.
- In C, `get_tensor` with no `type`, `get_list_length` with no result and `unpack_dataset_tensor` with no `data` are not checked and end the program;
  `get_dataset_list_range` allocates by what the caller left in `num_datasets` (`c_client.cpp:1422`); an out-of-memory error of a dataset's constructor is
  swallowed (`c_dataset.cpp:82-84`); a string option is handed out without a terminator (`c_configoptions.cpp:138`). Python tells the type UINT16 as "UINT6".
- In Fortran, which is not modelled, `get_datasets_from_list` overwrites the error code of the call for the length, and negative indices of a range are documented but refused.
- A reply of zero that belongs to another command, taken for the chunk size, would keep `set_model` in its loop for ever (the scenarios do not get there).

SmartSim:
- A Dragon group that does not tell its puids (`dragonBackend.py:522`) keeps its hosts for ever. When output cannot be redirected
  (`dragonBackend.py:541`) the step runs and stays queued: it is launched again, or stopped while its processes stay. Such steps (`lost`) are excepted
  by the safety properties of `dragon_steps` but `NoStepForgotten`, and `dragon_ends` has none.
- An interrupt between the start of a process (`utils/shell.py:108-112`, which sleeps 0.2 s there) and its entry in the list
  (`launcher/taskManager.py:121-125`) leaves it running, and neither a stop nor a later interrupt knows of it (`dropped`). One that comes after that and before
  `add_job` or `restart_job` leaves a listed task without a job.
- `reload_saved_db` (`control/controller.py:831`) replaces the job that has the name of a node of the saved database, though it be active: nothing
  watches or stops its process any more. With two servers of one name the shutdown of one cancels the job of the other.
- A job monitor may move a job that was launched again or replaced since it was looked at (`overtaken`). A job whose task got no return code, or that was moved before
  `add_job` set `monitor_jobs`, is polled for ever. A monitor that clears `actively_monitoring` after a launch has looked at it leaves nobody
  watching (`JobsComplete` and `PollEnds` say when not).
- A downloader whose first fetch returns exactly one dataset has its samples twice (`ml/data.py:437`).

OpenFOAM:
- Rank 0 deletes `model_updated` after the reduction, and nothing follows: another rank may find the flag of the step before and use
  the model of that step.
- The tutorial script deletes the lists after it has set the flag: what a fast rank appends before is lost, and both sides
  then wait in vain.
- At the end all ranks rewrite the metadata of a function object (`fieldsToSmartRedisFunctionObject.C:83`), so that a rank or a reader may find it
  missing. `getGeometricFields` does not look at what its poll says.

## 7. Proofs

`SequenceFacts` proves what the operations on queues and batches do to the elements
of a sequence and to their being distinct: concatenation, `Append`, `Cons`, `Tail`,
`Front`, `RemoveAt`, `Reverse`, `FlattenSeq`, `SetToSeq`, and those of `Selection`. Induction over data is done with sets: the
library's induction theorems take an operator as a parameter, which the prover cannot instantiate, but `SetInduction` is a
fact about sets of numbers (one that has 0, and n + 1 with n, has all), proved from the well-foundedness of finite
sets. A recursive function is the solution of an equation: the proofs that use one first show that there is a solution
(`SumExists`, `SearchEnds`, `FlattenRecursion`) and then reason about it with `SetInduction`. Definitions with an operator as a parameter
(`SortSeq`, `SelectSeq`, the folds) stay closed to the prover; `Selection` does without them.

`DagRun_proofs` proves, for any requests, models, devices and workers (with
finitely many devices), both values of `TimeoutFlagReturned`, and with `Spec` alone:

- `DagInvariant`: `[]IInv`;
- and from it `DagTypes`, `DagCopyInOnePlace`, `DagRefCount`, `DagFinishedOnce`,
  `DagCopyHasOperation`.

The argument. `RefCountIsCopies` is not inductive alone: that freeing a copy takes
one from the number of copies needs the copy to be nowhere else (`CopyInOnePlace`), and
to be in the batch (`BatchMatchesPlace`: which places of the worker go with which
batches). That `OnFinish` is called once needs the count to be right and, on
submission, that a request that is new has no copies (`FinishedOnce`). That a copy
has an operation left needs the progress of a new request to be zero
(`NewIsUntouched`). The conjunction is `IInv`. The
step is proved along what a step does to the copies: `MoveOnDevice` says it for a step
that changes the queue of one device and the hands of one of its workers;
`Shuffle` is the case where none is freed; one lemma for each action that moves
copies supplies the facts about its sequences; `KeptBookkeeping`,
`SubmitBookkeeping`, `NoCopiesBookkeeping` and `FinishBookkeeping` carry the counts over; `FinishShapes`, `MoveShapes`,
`StayShapes` and `RequestShapes` the types.

`OnnxTimeout_proofs` proves, for any workers, devices and bound on runs, with `Spec` alone:

- `OnnxInvariant`: `[]OnnxInv`;
- and from it `OnnxTypes`, `OnnxTerminatesLive` (the cron terminates a session that is
  alive), `OnnxEntryIsFree` (a worker that begins a run finds its entry free) and
  `OnnxLateInItsEntry` (a session that was late when the cron looked at it is still in its entry
  when it is terminated, or the entry was used again).

The argument. The cron and a worker meet at an entry, so the invariant says what an entry
holds at each place of its worker (`EntriesMatchPlaces`): its state, its options and whose
time. INVALID is the exception, which the cron writes: it is there only while the
cron is about to terminate on that entry or to store TERMINATED (`CronAtEntry`), and the worker spins
until then. That an entry has one worker needs the numbers of
threads to be distinct and each number given to have its worker (`NumbersAreDistinct`); that
there is an entry to speak of bounds the array by the threads counted and these by the
threads there are (`EntriesWithinThreads`). `LateKnown` keeps what the cron read of the clock true
while it is used. `OnnxInv` is the conjunction. There
is one lemma for each conjunct, each by cases on the actions that change its variables.

`DagOutcome_proofs` continues `DagRun_proofs`, for the same constants:

- `DagFinishedMeansDone`: a request that ends without an error or a timeout has run all its operations and has their tensors;
- `DagKeepsPromise`: `DagRun` implements `DagService`;
- `DagBatchWithinOptions`: what a worker runs in one call obeys the options of its model.

The argument. `OutcomeInv` says what is behind each copy. An operation has a result when the copy on its device has passed it, or when the
worker that holds this copy has just run it (`ResultsBehind`); of a request without error or timeout all that is behind a copy
is done, and a copy is gone only when all its operations are behind it (`DoneBehind`). A worker knows things of its batch that it has read
some steps before, while others go on: what it knows is stated for each place of its loop (`Known`), and stays true because a step of
another worker leaves the current operations of this batch alone (`Undisturbed`), for which `CopyInOnePlace` is needed. For the
refinement, `ServiceInv` adds what each tensor stands for: `Meaning` is what the operation computes when the operations run one after the other, by
the names as `DagService` resolves them. That the slots of `NameTable` mean these names (`NamesMean`) is an induction over the
operations. Each step then is one of `Accept`, `Refuse`, `TimeOut`, `RunTogether`, `Finish` and `Answer`, or changes nothing that
`DagService` sees (`StepServed`). `BatchInv` says what a batch holds while it is collected: the rows that the worker has added up
are those of the batch (`Collected`), and without its last copy it was not full.
The first two theorems have `TimeoutFlagReturned` as a hypothesis: in a build in which `RedisAI_DagTimeout` may return anything, a copy may be
dropped although no timeout has passed, and they are false. `DagBatchWithinOptions` needs no such hypothesis.

`ClusterPipeline_proofs` proves, for any callers, commands, shards, workers, attempts and failures:

- `PipelineInvariant`: `[]PipelineInv`; `PipelineJobsEnd` (a job that outlives its call only has to unlock the mutex) and `PipelineReplies` (replies in order);
- `PipelineKeepsPromise`: the implementation of `CallPromise`;
- `PipelineShardsFound`: the search finds the shard of each command.

The argument. A caller counts the shards whose jobs have stored what they have; so a job is in one place (`JobInOnePlace`), the worker that holds the
mutex of a call runs a job of it that is counted, what a caller has passed and is not pending is what it has counted (`Counted`), and the replies are those of the commands whose shards succeeded and are over (`Replied`). The
loop that puts replies in order has fixed the places before the one it is at (`Fixed`), and ends because the replies are a
permutation. The search is proved for any table in the order of its slots (`SearchEnds`) and any report whose shards do not
overlap and serve the slots of the commands (`TableOfReply`); nothing is assumed of what it returns.

`DragonBackend_proofs` proves, for any hosts, steps, policies and scripts: `DragonInvariant`, and from it `DragonForgetsNone`, `DragonHosts`,
`DragonHostServesOneStep`, `DragonEndedIsDead` and `DragonDoneWithAll`.

The argument. A step that waits is in the queue and was not started in this turn, and one that runs is among the running (`StepsKept`); this
holds whatever fails. While no launch has failed half-way, `Orderly` says the rest: the queue has each step once; a step among the running has one group, whose hosts
are those recorded for it, and what has ended has no living group (`GroupsOfRunning`); the free and the allocated hosts part the
list (`HostsInUse`); nothing begins once the server has seen that it can shut down (`ShutsDownWhenDone`), which needs the lock that keeps requests
out. `lost = {}` is the premise that the properties have as well.

`Controller_proofs` proves, for any entities, numbers of runs, monitor threads and manifests: `ControlInvariant`, and from it `ControlTaskList`,
`ControlOutcomes`, `ControlOneProcess` and the action property `ControlVerdicts`.

The argument. Three kinds of threads act on what they have read before. `TasksInOrder`: what runs is listed and has no return code, or is being
started, or its start was interrupted, and then nothing is known of it; what a monitor is about to record or
take off has ended. `NoneAhead`: nothing is known of a run that was not launched. `TablesInOrder`: a table holds one job of a name. `JobsTrue`: a job that
is said to have ended has no running process, and
what it returned is the code of this process; what a monitor is about to look at or move is a job. `RecordedRight`: the history of a completed job is what
is said of it. `MainInOrder`: where the main thread is between the steps of a launch, and how many launches of the manifest are left.
`OneAtATime`: a running process is that of its job, or was just started and is about to be given to it. Names in `overtaken` are excepted,
as in the properties.

`SmartRedisClient_proofs` proves, for any clients, calls, faults, shards and order of the shards' commands:

- `ShardStatsInvariant`: `[]ShardsInv`, and from it `StatsHaveObjects`: no entry of the statistics outlives its model or script;
- `StatsFollow`: `StatsFollowObjects`, as long as `RenamesNoObject`;
- `DiskHasAll`: `KeptAcrossRestart`, as long as `RenamesNoObject` and `OutputsAreTensors`.

The argument of the first two is about one shard. A model or script is alive while a key or an execution has it. `ShardOK` says that those alive are told
apart by their numbers, that one number is in one key, and that all numbers are below the next one; without it an entry could be
removed with an object that is not its own. `EntriesOK` says that each entry is of one that is alive. An object that has
lost its key is alive in an execution, and keeps its entry unless a new object has taken this (`FreeKeeps`): the command that takes the key and
the end of the run both call `ModelFree`, and only the last of them removes the entry. One lemma for each command says that it keeps both,
`PerformKeeps` collects them. The invariant is also about `image`, as what is on disk becomes a shard at a restart: each object
that is read makes a part of one key and one entry (`PartOf`), and parts with different numbers combine to a good shard (`CombinedGood`), whether they are
read from a snapshot, from rewritten commands, or as an earlier version saved them. `Placed` adds that each model and script is in the key
it was created under, with its entry. RENAME of such a key breaks `Placed`, and is the only command that does; `RenamesNoObject` says that no client is about
to send one. It is a hypothesis on the programs: `rename_tensor` sends RENAME without looking at what the key holds. It holds in every state of `redis_clients`
(add it to the INVARIANTS of the run to see this), but is not the code's to promise.

`KeptAcrossRestart` relates three things: what a shard holds, what is on its disk, and what it ought to find there (`kept`). It is not
inductive, as it does not say what the shard holds: the next command is carried out on the shard, and again on what is on disk. `KeptInv` adds, for each shard, that
everything in it and on its disk is `Accepted` by its host, and, with the append-only file, while it is up, that what it ought to find is in it and what is in it
is on disk (`Keeping`). The steps of the argument:

- What a command does to the contents of a shard, and whether it succeeds, depends on these contents and the host alone (`Allowed`, `Afterwards`; `WritesDo`), not on
  the numbers of the objects, the statistics, what runs, or the libraries that happen to be loaded (`Equipped`: any that are loaded have what they need). Commands that are not in `Writes` leave
  the contents (`OthersLeave`).
- Two contents are related by `Recalls`: the second has what the first has, but for scripts without entry points when
  a rewrite as commands may have lost them. A write that succeeded on the first keeps the relation when it is replayed on the second, although it may fail there,
  as the deletion of a script does that is missing (`ReplayRecalls`). RENAME of such a script does not: the replay fails, and the key the script
  was moved to is left as it was. This is where `RenamesNoObject` is used.
- What is saved and loaded is the same object if it is accepted (`ImagesKeep`): by the snapshot field by field, by the rewrite through the command that it emits,
  and through the decoders of versions 0 to 3 with the defaults of the fields these versions did not have (`FoundKeeps`).
- The outputs of an execution go to the file as AI.TENSORSET, which checks what the execution did not
  (`OutputsFiled`). `OutputsAreTensors` says that they pass: their dimensions and length agree and their type is known. It is a promise
  of the frameworks, which fill in what `tensor.c` asks them for, and holds in every state of `redis_clients`, as `RenamesNoObject` does.

The assumptions are those of the modules: `OnnxAssumption` (finitely many workers, at least one,
each with a device), `ProgramAssumption` (requests have at least an
operation and are well typed, as the parsers leave them; devices are finite), `ModelOptsAssumption` (what AI.MODELSTORE
accepts), `WorkerAssumption` (a worker has a device), `PipelineAssumption` (the server reports shards that do not overlap and serve the slots of the
commands), `ScenarioAssumption` (the objects an earlier version left have different numbers and are accepted by the host), and those on the hosts, steps, entities and scripts of `DragonBackend` and `Controller`. TLC evaluates them in every run.

TLC checks the consequences named above in the runs of section 6, on which the inductive invariants were
checked before they were proved. `DagCopyHasOperation` is in no run: it follows from `IInv` alone.

Only model-checked are:
- liveness, which is out of the prover's reach, as fairness speaks of `ENABLED`: `EveryRequestAnswered`, `EveryRunEnds`, `ImmediateShutdownEnds`, `ShutdownEnds`,
  `EveryStepEnds`, `JobsComplete`, `PollEnds`, `CallsEnd`;
- the second part of `SlotsAreFound`, that the prefix of a shard hashes to a slot of this shard: the CRC16 is a fold over bytes, which the prover
  cannot expand. Its first part is `PipelineShardsFound`;
- the other properties of `SmartRedisClient` (`AckMeansWhole`, `AnswersAreTrue`, `NothingLostByRename`, `ResultsOfRuns`,
  `StepsStayTogether`, `SamplesAreBatches`), most of which are about scenarios: their programs are data, and a proof for all
  programs would be an induction over them.

## 8. Not modelled

- RedisAI: what TensorFlow, Torch, TFLite and ONNX compute, their sessions and allocators; tensors of strings and tensors given as values; the text of
  errors; snapshots that end early; models that cannot be serialized; statistics but their number of calls; the arithmetic of the timed wait, which can only make a worker look at its queue earlier;
  vendored utilities.
- SmartRedis: the bytes of tensors and metadata (that they come back is `Unserialize`); what is in files; the text of what describes a server; logging; the Fortran modules, which
  call the C functions; the Python modules over the compiled classes.
- SmartSim: the launcher and connector of Dragon; the launchers of workload managers, which build command lines and parse their output;
  experiments, entities, settings and generation, which construct data and files in sequence; installation and command line; telemetry.
- OpenFOAM: lists of points, patches and fields one by one, meshes and dictionaries; the numerics.

`PROJECT.json` lists each component with what its model leaves out.
