------------------------------- MODULE DagRun -------------------------------
(***************************************************************************)
(* Execution of DAG requests in RedisAI (src/execution of the module).      *)
(*                                                                         *)
(* The main thread makes one shallow copy of the request per device it      *)
(* uses, counts the copies in dagRefCount and pushes each on the run queue  *)
(* of its device.  The worker threads of a device share its queue and its   *)
(* mutex.  A worker pops a copy, checks the request's timeout and error     *)
(* flags, puts the copy back when the inputs of its current operation are   *)
(* not there yet, tries to add to it other copies whose current operation   *)
(* runs the same model, runs the operation without the mutex, stores the    *)
(* outputs in the tensors the copies of the request share, and either       *)
(* frees the copy or puts it back at the front of the queue.  Whoever frees *)
(* the last copy calls OnFinish, which unblocks the client; the main thread *)
(* then replies, persists tensors and frees the request.                    *)
(*                                                                         *)
(* Left out: dagCompleteOpCount (written, never read), the statistics, the  *)
(* text of errors (an error is the operation that raised it).               *)
(***************************************************************************)
EXTENDS DagProgram

CONSTANTS
  Workers,       \* worker threads
  DeviceOf,      \* DeviceOf[w]: the device whose queue w serves
  NoWorker,
  MayFail,       \* models, or operations with no model, that may return an error
  BadKeys,       \* keys of the keyspace that hold a value of another type
  TimeoutFlagReturned
    \* whether the build makes RedisAI_DagTimeout, which has no return
    \* statement, return the flag it loads

ASSUME WorkerAssumption ==
  /\ DeviceOf \in [Workers -> Devices]
  /\ NoWorker \notin Workers
  /\ TimeoutFlagReturned \in BOOLEAN

VARIABLES
  \* a request, shared by its copies
  phase,       \* "new", "rejected", "running", "finished" (unblocked), "replied"
  refCount,    \* dagRefCount
  finishes,    \* how many times OnFinish was called (history)
  tensors,     \* dagSharedTensors: the slots realised so far
  result,      \* RAI_DagOp.result of each operation: "none", "ok", "err"
  dagError,    \* dagError
  firstError,  \* err: the operation whose error it holds, 0 for none
  timedOut,    \* timedOut
  readLocks,   \* read locks taken on dagLock and never released
  answer,      \* what the client got and what was persisted
  \* a copy of a request on a device
  toPush,      \* the devices whose copy is made but not pushed yet
  opsDone,     \* dagDeviceCompleteOpCount
  elapsed,     \* which delays, counted from queuingTime, have passed
  \* a run queue
  queue,       \* the copies in the queue of a device, front first
  mutex,       \* the worker that holds run_queue_mutex
  \* a worker
  pc,          \* where it is in BGWorker_ThreadMain
  batch,       \* batch_rinfo
  position,    \* the next item: of the queue when it scans, of the batch when it stores
  batchRows,   \* current_batchsize
  outputs,     \* what the model returned for each copy of the batch
  unfinished   \* the copies of the batch to put back, in their order

requestVars == <<phase, refCount, finishes, tensors, result, dagError, firstError,
                 timedOut, readLocks, answer>>
copyVars == <<toPush, opsDone, elapsed>>
queueVars == <<queue, mutex>>
workerVars == <<pc, batch, position, batchRows, outputs, unfinished>>
vars == <<requestVars, copyVars, queueVars, workerVars>>

NoAnswer == [kind |-> "none", saved |-> <<>>]

Init ==
  /\ phase = [d \in Dags |-> "new"]
  /\ refCount = [d \in Dags |-> 0]
  /\ finishes = [d \in Dags |-> 0]
  /\ tensors = [d \in Dags |-> <<>>]
  /\ result = [d \in Dags |-> [i \in OpIds(d) |-> "none"]]
  /\ dagError = [d \in Dags |-> FALSE]
  /\ firstError = [d \in Dags |-> 0]
  /\ timedOut = [d \in Dags |-> FALSE]
  /\ readLocks = [d \in Dags |-> 0]
  /\ answer = [d \in Dags |-> NoAnswer]
  /\ toPush = [d \in Dags |-> {}]
  /\ opsDone = [d \in Dags |-> [dev \in Devices |-> 0]]
  /\ elapsed = [d \in Dags |-> [dev \in Devices |-> {}]]
  /\ queue = [dev \in Devices |-> <<>>]
  /\ mutex = [dev \in Devices |-> NoWorker]
  /\ pc = [w \in Workers |-> "wait"]
  /\ batch = [w \in Workers |-> <<>>]
  /\ position = [w \in Workers |-> 1]
  /\ batchRows = [w \in Workers |-> 0]
  /\ outputs = [w \in Workers |-> <<>>]
  /\ unfinished = [w \in Workers |-> <<>>]

-----------------------------------------------------------------------------
(* The current operation of the copy of d on dev, RedisAI_DagCurrentOp, and   *)
(* what the workers ask about it.                                             *)

CurrentOp(d, dev) == DeviceOp(d, dev, opsDone[d][dev])
Current(d, dev) == Program[d][CurrentOp(d, dev)]

Ready(d, dev) == InSlots(d, CurrentOp(d, dev)) \subseteq DOMAIN tensors[d]
Batchable(d, dev) ==
  /\ Current(d, dev).cmd = "modelrun"
  /\ ModelOpts[Current(d, dev).model].batchsize > 0

(* RAI_DagOpBatchable: the same model and as many inputs, then the same       *)
(* dimensions past the first.                                                 *)
SameModel(d, e, dev) ==
  /\ Current(d, dev).model = Current(e, dev).model
  /\ Len(Current(d, dev).inkeys) = Len(Current(e, dev).inkeys)

(* Mutant of SameShape: only the number of inputs is compared.                 *)
AnyShape(d, e, dev) == TRUE

SameShape(d, e, dev) ==
  \/ Current(d, dev).inkeys = <<>>
  \/ Current(d, dev).shape = Current(e, dev).shape

(* The locks on the tensors of a request do nothing when it runs on one       *)
(* device (single_op_dag, single_device_dag).                                 *)
Locked(d) == Cardinality(DevicesOf(d)) > 1

Options(d, dev) == ModelOpts[Current(d, dev).model]

(* Mutant of MinBatchTimedOut: the delay matters only when others are queued.   *)
MinBatchTimedOutInCompany(d, dev) ==
  /\ Options(d, dev).minbatchtimeout /\ "minbatch" \in elapsed[d][dev]
  /\ queue[dev] # <<>>

(* MINBATCHTIMEOUT, counted from the moment the first copy of the batch was   *)
(* queued.                                                                    *)
MinBatchTimedOut(d, dev) ==
  Options(d, dev).minbatchtimeout /\ "minbatch" \in elapsed[d][dev]
BatchTooSmall(d, dev, rows) ==
  Options(d, dev).minbatchsize # 0 /\ rows < Options(d, dev).minbatchsize

(* RedisAI_DagTimeout loads the flag and has no return statement.             *)
DagTimeout(d) == IF TimeoutFlagReturned THEN {timedOut[d]} ELSE BOOLEAN

-----------------------------------------------------------------------------
(* The main thread.                                                           *)

(* The initial tensors: LOAD and AI.TENSORSET fill their slots at parsing.     *)
InitialTensors(d) ==
  LET loads == {<<0, j>> : j \in DOMAIN Loaded[d]}
      sets == UNION {OutSlots(d, i) : i \in {h \in OpIds(d) : Program[d][h].cmd = "tensorset"}}
  IN  [s \in loads \cup sets |-> IF s \in loads THEN LoadedTensor(Loaded[d][s[2]])
                                 ELSE Computed(s[1], s[2], <<>>)]

(* Mutant of CopiesMade: RAI_RunInfoShallowCopy does not count the copy.       *)
CopiesNotCounted(d) == 1

(* dagRefCount after one RAI_RunInfoShallowCopy per device.                    *)
CopiesMade(d) == Cardinality(DevicesOf(d))

Submit(d) ==
  /\ phase[d] = "new"
  /\ WellFormed(d)
  /\ phase' = [phase EXCEPT ![d] = "running"]
  /\ refCount' = [refCount EXCEPT ![d] = CopiesMade(d)]
  /\ tensors' = [tensors EXCEPT ![d] = InitialTensors(d)]
  /\ result' = [result EXCEPT ![d] =
       [i \in OpIds(d) |-> IF Program[d][i].cmd = "tensorset" THEN "ok" ELSE "none"]]
  /\ toPush' = [toPush EXCEPT ![d] = DevicesOf(d)]
  /\ UNCHANGED <<finishes, dagError, firstError, timedOut, readLocks, answer,
                 opsDone, elapsed, queueVars, workerVars>>

Reject(d) ==
  /\ phase[d] = "new"
  /\ ~WellFormed(d)
  /\ phase' = [phase EXCEPT ![d] = "rejected"]
  /\ UNCHANGED <<refCount, finishes, tensors, result, dagError, firstError, timedOut,
                 readLocks, answer, copyVars, queueVars, workerVars>>

(* DAG_InsertDAGToQueue pushes the copies in the order in which the operations *)
(* name their devices, under the mutex of each queue.                          *)
Push(d, dev) ==
  /\ dev \in toPush[d]
  /\ \E i \in OpsOn(d, dev) : \A other \in toPush[d] : \A j \in OpsOn(d, other) : i <= j
  /\ mutex[dev] = NoWorker
  /\ queue' = [queue EXCEPT ![dev] = Append(@, d)]
  /\ toPush' = [toPush EXCEPT ![d] = @ \ {dev}]
  /\ UNCHANGED <<requestVars, opsDone, elapsed, mutex, workerVars>>

(* RedisAI_DagRun_Reply and RAI_FreeRunInfo.  Persisting stops at the first   *)
(* key that cannot be written; the dictionary gives the keys in any order.     *)
(* Left out: persisting that stops also sets dagError, or the result of a      *)
(* single operation; the request is freed in the same call, and nothing but    *)
(* the answer, which has kind "not_saved", tells of it.                        *)
Failed(d) == \E i \in OpIds(d) : result[d][i] = "err"
Saved(d) ==
  IF timedOut[d] \/ Failed(d) THEN {{}}
  ELSE IF Persist[d] \cap BadKeys = {} THEN {Persist[d]}
  ELSE SUBSET (Persist[d] \ BadKeys)

Reply(d) ==
  /\ phase[d] = "finished"
  /\ phase' = [phase EXCEPT ![d] = "replied"]
  /\ \E saved \in Saved(d) :
       answer' = [answer EXCEPT ![d] =
         [kind |-> IF timedOut[d] THEN "timedout"
                   ELSE IF Failed(d) THEN "error"
                   ELSE IF saved = Persist[d] THEN "ok" ELSE "not_saved",
          saved |-> [k \in saved |-> tensors[d][PersistSlot(d, k)]]]]
  /\ UNCHANGED <<refCount, finishes, tensors, result, dagError, firstError, timedOut,
                 readLocks, copyVars, queueVars, workerVars>>

(* Time passes: a delay counted from the queuing of a copy.                    *)
Tick(d, dev, delay) ==
  /\ phase[d] = "running"
  /\ dev \in DevicesOf(d) \ toPush[d]
  /\ delay = "timeout" => d \in HasTimeout
  /\ delay = "minbatch" =>
       \E i \in OpsOn(d, dev) : /\ Program[d][i].cmd = "modelrun"
                               /\ ModelOpts[Program[d][i].model].minbatchtimeout
  /\ delay \notin elapsed[d][dev]
  /\ elapsed' = [elapsed EXCEPT ![d][dev] = @ \cup {delay}]
  /\ UNCHANGED <<requestVars, toPush, opsDone, queueVars, workerVars>>

-----------------------------------------------------------------------------
(* A worker at its queue, with the mutex.                                      *)

Dev(w) == DeviceOf[w]
HeadOf(w) == batch[w][1]

(* The timed wait ends, on a signal or after a millisecond; with an empty      *)
(* queue the worker waits again.                                               *)
Wake(w) ==
  /\ pc[w] = "wait"
  /\ mutex[Dev(w)] = NoWorker
  /\ queue[Dev(w)] # <<>>
  /\ mutex' = [mutex EXCEPT ![Dev(w)] = w]
  /\ pc' = [pc EXCEPT ![w] = "loop"]
  /\ UNCHANGED <<requestVars, copyVars, queue, batch, position, batchRows, outputs, unfinished>>

Sleep(w) ==
  /\ pc[w] = "loop"
  /\ queue[Dev(w)] = <<>>
  /\ mutex' = [mutex EXCEPT ![Dev(w)] = NoWorker]
  /\ pc' = [pc EXCEPT ![w] = "wait"]
  /\ UNCHANGED <<requestVars, copyVars, queue, batch, position, batchRows, outputs, unfinished>>

(* The worker pops a copy and looks at the flags of its request: when it timed *)
(* out or failed, its current operation is skipped.                            *)
Pop(w) ==
  LET d == Head(queue[Dev(w)])
      expired == "timeout" \in elapsed[d][Dev(w)]
  IN  /\ pc[w] = "loop"
      /\ queue[Dev(w)] # <<>>
      /\ queue' = [queue EXCEPT ![Dev(w)] = Tail(@)]
      /\ batch' = [batch EXCEPT ![w] = <<d>>]
      /\ \E flag \in DagTimeout(d) :
           /\ timedOut' = [timedOut EXCEPT ![d] = @ \/ (~flag /\ expired)]
           /\ IF flag \/ expired \/ dagError[d]
              THEN /\ pc' = [pc EXCEPT ![w] = "finish"]
                   /\ mutex' = [mutex EXCEPT ![Dev(w)] = NoWorker]
              ELSE /\ pc' = [pc EXCEPT ![w] = "prepare"]
                   /\ UNCHANGED mutex
      /\ UNCHANGED <<phase, refCount, finishes, tensors, result, dagError, firstError, readLocks,
                     answer, copyVars, position, batchRows, outputs, unfinished>>

(* The inputs of the current operation are not all there: the copy goes to the *)
(* back of the queue and the worker waits.                                     *)
NotReady(w) ==
  /\ pc[w] = "prepare"
  /\ ~Ready(HeadOf(w), Dev(w))
  /\ queue' = [queue EXCEPT ![Dev(w)] = Append(@, HeadOf(w))]
  /\ batch' = [batch EXCEPT ![w] = <<>>]
  /\ mutex' = [mutex EXCEPT ![Dev(w)] = NoWorker]
  /\ pc' = [pc EXCEPT ![w] = "wait"]
  /\ UNCHANGED <<requestVars, copyVars, position, batchRows, outputs, unfinished>>

(* The operation runs alone: it cannot be batched, or its inputs are already   *)
(* as large as a batch may be, or it has waited for a batch long enough.       *)
RunAlone(w) ==
  LET d == HeadOf(w)
      rows == Current(d, Dev(w)).rows
  IN  /\ pc[w] = "prepare"
      /\ Ready(d, Dev(w))
      /\ \/ ~Batchable(d, Dev(w))
         \/ rows = 0
         \/ rows >= Options(d, Dev(w)).batchsize
         \/ MinBatchTimedOut(d, Dev(w))
      /\ mutex' = [mutex EXCEPT ![Dev(w)] = NoWorker]
      /\ pc' = [pc EXCEPT ![w] = "run"]
      /\ UNCHANGED <<requestVars, copyVars, queue, batch, position, batchRows, outputs, unfinished>>

(* _BGThread_BatchOperations: the worker scans the queue for copies whose       *)
(* current operation can join the batch.                                        *)
StartScan(w) ==
  LET d == HeadOf(w)
      rows == Current(d, Dev(w)).rows
  IN  /\ pc[w] = "prepare"
      /\ Ready(d, Dev(w))
      /\ Batchable(d, Dev(w))
      /\ rows # 0
      /\ rows < Options(d, Dev(w)).batchsize
      /\ ~MinBatchTimedOut(d, Dev(w))
      /\ position' = [position EXCEPT ![w] = 1]
      /\ batchRows' = [batchRows EXCEPT ![w] = rows]
      /\ pc' = [pc EXCEPT ![w] = "scan"]
      /\ UNCHANGED <<requestVars, copyVars, queueVars, batch, outputs, unfinished>>

(* Mutant of ScanEnded: a full batch goes on growing.                           *)
ScanEndedAtTail(w) == position[w] > Len(queue[Dev(w)])

(* The scan stops at the end of the queue or with a full batch.                 *)
ScanEnded(w) ==
  \/ position[w] > Len(queue[Dev(w)])
  \/ batchRows[w] >= Options(HeadOf(w), Dev(w)).batchsize

Joins(w, e) ==
  /\ Ready(e, Dev(w))
  /\ Batchable(e, Dev(w))
  /\ SameModel(HeadOf(w), e, Dev(w))
  /\ SameShape(HeadOf(w), e, Dev(w))

(* The next copy cannot join.  When the shapes differ RAI_DagOpBatchable        *)
(* returns with both read locks held.                                           *)
ScanSkip(w) ==
  LET d == HeadOf(w)
      e == queue[Dev(w)][position[w]]
      shapesCompared == Ready(e, Dev(w)) /\ Batchable(e, Dev(w)) /\ SameModel(d, e, Dev(w))
  IN  /\ pc[w] = "scan"
      /\ ~ScanEnded(w)
      /\ ~Joins(w, e)
      /\ position' = [position EXCEPT ![w] = @ + 1]
      /\ readLocks' = [r \in Dags |-> IF shapesCompared /\ r \in {d, e} /\ Locked(r)
                                      THEN readLocks[r] + 1 ELSE readLocks[r]]
      /\ UNCHANGED <<phase, refCount, finishes, tensors, result, dagError, firstError, timedOut,
                     answer, copyVars, queueVars, pc, batch, batchRows, outputs, unfinished>>

(* Mutant of Evicted: the copy taken stays in the queue.                         *)
NotEvicted(copies, n) == copies

(* queueEvict: the n-th copy leaves the queue.                                   *)
Evicted(copies, n) == RemoveAt(copies, n)

(* The next copy joins.  With the batch still open, the delay of the first copy  *)
(* is read again: when it has passed the batch runs as it is.                    *)
ScanTake(w) ==
  LET e == queue[Dev(w)][position[w]]
      rows == batchRows[w] + Current(e, Dev(w)).rows
      runNow == /\ rows < Options(HeadOf(w), Dev(w)).batchsize
                /\ MinBatchTimedOut(HeadOf(w), Dev(w))
  IN  /\ pc[w] = "scan"
      /\ ~ScanEnded(w)
      /\ Joins(w, e)
      /\ queue' = [queue EXCEPT ![Dev(w)] = Evicted(@, position[w])]
      /\ batch' = [batch EXCEPT ![w] = Append(@, e)]
      /\ batchRows' = [batchRows EXCEPT ![w] = rows]
      /\ pc' = [pc EXCEPT ![w] = IF runNow THEN "run" ELSE "scan"]
      /\ mutex' = IF runNow THEN [mutex EXCEPT ![Dev(w)] = NoWorker] ELSE mutex
      /\ UNCHANGED <<requestVars, copyVars, position, outputs, unfinished>>

LaunchBatch(w) ==
  /\ pc[w] = "scan"
  /\ ScanEnded(w)
  /\ ~BatchTooSmall(HeadOf(w), Dev(w), batchRows[w])
  /\ mutex' = [mutex EXCEPT ![Dev(w)] = NoWorker]
  /\ pc' = [pc EXCEPT ![w] = "run"]
  /\ UNCHANGED <<requestVars, copyVars, queue, batch, position, batchRows, outputs, unfinished>>

(* MINBATCHSIZE is not reached: all the copies go to the back of the queue, the  *)
(* last one first.                                                               *)
ReturnBatch(w) ==
  /\ pc[w] = "scan"
  /\ ScanEnded(w)
  /\ BatchTooSmall(HeadOf(w), Dev(w), batchRows[w])
  /\ queue' = [queue EXCEPT ![Dev(w)] = @ \o Reverse(batch[w])]
  /\ batch' = [batch EXCEPT ![w] = <<>>]
  /\ mutex' = [mutex EXCEPT ![Dev(w)] = NoWorker]
  /\ pc' = [pc EXCEPT ![w] = "wait"]
  /\ UNCHANGED <<requestVars, copyVars, position, batchRows, outputs, unfinished>>

-----------------------------------------------------------------------------
(* A worker with its batch, without the mutex.                                  *)

InBatch(w) == ToSet(batch[w])
OpOf(d, w) == CurrentOp(d, Dev(w))
Args(d, i) == [j \in DOMAIN Program[d][i].inkeys |-> tensors[d][InSlot(d, i, j)]]
Returned(d, i) == [j \in DOMAIN Program[d][i].outkeys |-> Computed(i, j, Args(d, i))]

(* AI.TENSORSET ran at parsing and AI.TENSORGET runs at the reply: nothing to do. *)
RunNothing(w) ==
  /\ pc[w] = "run"
  /\ ~IsRun(HeadOf(w), OpOf(HeadOf(w), w))
  /\ pc' = [pc EXCEPT ![w] = "finish"]
  /\ UNCHANGED <<requestVars, copyVars, queueVars, batch, position, batchRows, outputs, unfinished>>

(* The backend runs the operations of the batch in one call, on the inputs each   *)
(* request holds now.                                                             *)
RunSucceeds(w) ==
  /\ pc[w] = "run"
  /\ IsRun(HeadOf(w), OpOf(HeadOf(w), w))
  /\ result' = [d \in Dags |-> IF d \in InBatch(w) THEN [result[d] EXCEPT ![OpOf(d, w)] = "ok"]
                              ELSE result[d]]
  /\ outputs' = [outputs EXCEPT ![w] =
       [k \in DOMAIN batch[w] |-> Returned(batch[w][k], OpOf(batch[w][k], w))]]
  /\ position' = [position EXCEPT ![w] = 1]
  /\ pc' = [pc EXCEPT ![w] = "store"]
  /\ UNCHANGED <<phase, refCount, finishes, tensors, dagError, firstError, timedOut, readLocks,
                 answer, copyVars, queueVars, batch, batchRows, unfinished>>

(* The call fails for all of them; a request keeps its first error.               *)
RunFails(w) ==
  /\ pc[w] = "run"
  /\ IsRun(HeadOf(w), OpOf(HeadOf(w), w))
  /\ Current(HeadOf(w), Dev(w)).model \in MayFail
  /\ result' = [d \in Dags |-> IF d \in InBatch(w) THEN [result[d] EXCEPT ![OpOf(d, w)] = "err"]
                              ELSE result[d]]
  /\ dagError' = [d \in Dags |-> dagError[d] \/ d \in InBatch(w)]
  /\ firstError' = [d \in Dags |-> IF d \in InBatch(w) /\ ~dagError[d] THEN OpOf(d, w)
                                  ELSE firstError[d]]
  /\ pc' = [pc EXCEPT ![w] = "finish"]
  /\ UNCHANGED <<phase, refCount, finishes, tensors, timedOut, readLocks, answer, copyVars,
                 queueVars, batch, position, batchRows, outputs, unfinished>>

(* Dag_StoreCurrentOpOutputs, for one copy of the batch after the other, under    *)
(* the write lock of its request.                                                 *)
Stored(d, w, k) ==
  LET i == OpOf(d, w)
  IN  [s \in DOMAIN tensors[d] \cup OutSlots(d, i) |->
         IF s \in OutSlots(d, i) THEN outputs[w][k][s[2]] ELSE tensors[d][s]]

Store(w) ==
  LET d == batch[w][position[w]]
  IN  /\ pc[w] = "store"
      /\ Locked(d) => readLocks[d] = 0
      /\ tensors' = [tensors EXCEPT ![d] = Stored(d, w, position[w])]
      /\ position' = [position EXCEPT ![w] = @ + 1]
      /\ pc' = [pc EXCEPT ![w] = IF position[w] = Len(batch[w]) THEN "finish" ELSE "store"]
      /\ UNCHANGED <<phase, refCount, finishes, result, dagError, firstError, timedOut, readLocks,
                     answer, copyVars, queueVars, batch, batchRows, outputs, unfinished>>

(* Mutant of Free: an error unblocks the client at once.                          *)
FreeOnError(d) ==
  /\ refCount' = [refCount EXCEPT ![d] = @ - 1]
  /\ IF refCount[d] = 1 \/ dagError[d]
     THEN /\ finishes' = [finishes EXCEPT ![d] = @ + 1]
          /\ phase' = [phase EXCEPT ![d] = "finished"]
     ELSE UNCHANGED <<finishes, phase>>

(* Mutant of Free: the last copy is freed without being counted.                  *)
FreeUncounted(d) ==
  IF refCount[d] = 1
  THEN /\ finishes' = [finishes EXCEPT ![d] = @ + 1]
       /\ phase' = [phase EXCEPT ![d] = "finished"]
       /\ UNCHANGED refCount
  ELSE /\ refCount' = [refCount EXCEPT ![d] = @ - 1]
       /\ UNCHANGED <<finishes, phase>>

(* RAI_DagRunInfoFreeShallowCopy, and _BGThread_RinfoFinish: whoever frees the    *)
(* last copy calls OnFinish.                                                      *)
Free(d) ==
  /\ refCount' = [refCount EXCEPT ![d] = @ - 1]
  /\ IF refCount[d] = 1
     THEN /\ finishes' = [finishes EXCEPT ![d] = @ + 1]
          /\ phase' = [phase EXCEPT ![d] = "finished"]
     ELSE UNCHANGED <<finishes, phase>>

(* Mutants of DeviceComplete: one operation too many, one too few.                *)
DeviceCompleteLate(d, dev, n) == n > Cardinality(OpsOn(d, dev))
DeviceCompleteEarly(d, dev, n) == n + 1 >= Cardinality(OpsOn(d, dev))

DeviceComplete(d, dev, n) == n = Cardinality(OpsOn(d, dev))

(* _BGThread_ExecutionFinish for the last copy left in the batch: the operation   *)
(* counts as done; the copy is freed when it has no more operations or its        *)
(* request failed or timed out.                                                   *)
FinishOne(w) ==
  LET d == Last(batch[w])
      n == opsDone[d][Dev(w)] + 1
  IN  /\ pc[w] = "finish"
      /\ batch' = [batch EXCEPT ![w] = Front(@)]
      /\ opsDone' = [opsDone EXCEPT ![d][Dev(w)] = n]
      /\ \E flag \in DagTimeout(d) :
           IF DeviceComplete(d, Dev(w), n) \/ dagError[d] \/ flag
           THEN Free(d) /\ UNCHANGED unfinished
           ELSE /\ unfinished' = [unfinished EXCEPT ![w] = Cons(d, @)]
                /\ UNCHANGED <<refCount, finishes, phase>>
      /\ pc' = [pc EXCEPT ![w] = IF Len(batch[w]) = 1 THEN "reinsert" ELSE "finish"]
      /\ UNCHANGED <<tensors, result, dagError, firstError, timedOut, readLocks, answer,
                     toPush, elapsed, queueVars, position, batchRows, outputs>>

(* With the mutex again, the worker puts the unfinished copies back at the front, *)
(* in the order they had, and looks at the queue again.                           *)
Reinsert(w) ==
  /\ pc[w] = "reinsert"
  /\ mutex[Dev(w)] = NoWorker
  /\ mutex' = [mutex EXCEPT ![Dev(w)] = w]
  /\ queue' = [queue EXCEPT ![Dev(w)] = unfinished[w] \o @]
  /\ unfinished' = [unfinished EXCEPT ![w] = <<>>]
  /\ pc' = [pc EXCEPT ![w] = "loop"]
  /\ UNCHANGED <<requestVars, copyVars, batch, position, batchRows, outputs>>

-----------------------------------------------------------------------------
Run(w) == RunNothing(w) \/ RunSucceeds(w) \/ RunFails(w)

Scan(w) == StartScan(w) \/ ScanSkip(w) \/ ScanTake(w) \/ LaunchBatch(w) \/ ReturnBatch(w)

Worker(w) ==
  \/ Wake(w) \/ Sleep(w) \/ Pop(w) \/ NotReady(w) \/ RunAlone(w)
  \/ Scan(w) \/ Run(w) \/ Store(w) \/ FinishOne(w) \/ Reinsert(w)

Request(d) ==
  \/ Submit(d) \/ Reject(d) \/ Reply(d)
  \/ \E dev \in Devices : Push(d, dev)

Clock == \E d \in Dags, dev \in Devices, delay \in {"timeout", "minbatch"} : Tick(d, dev, delay)

(* Nothing left to do: the workers wait on empty queues.                          *)
Idle ==
  /\ \A d \in Dags : phase[d] \in {"rejected", "replied"}
  /\ \A w \in Workers : pc[w] = "wait"
  /\ UNCHANGED vars

Next ==
  \/ \E d \in Dags : Request(d)
  \/ \E w \in Workers : Worker(w)
  \/ Clock
  \/ Idle

(* The operating system runs every thread and lets each thread that waits for a   *)
(* mutex have it in the end (the other threads release it and sleep); the backend *)
(* returns; time passes, of which only MINBATCHTIMEOUT is needed.  Clients owe    *)
(* nothing.                                                                       *)
Fairness ==
  /\ \A d \in Dags : WF_vars(Reply(d))
  /\ \A d \in Dags : \A dev \in DevicesOf(d) : SF_vars(Push(d, dev))
  /\ \A w \in Workers : WF_vars(Worker(w)) /\ SF_vars(Wake(w)) /\ SF_vars(Reinsert(w))
  /\ \A d \in Dags : \A dev \in DevicesOf(d) : WF_vars(Tick(d, dev, "minbatch"))

Spec == Init /\ [][Next]_vars
FairSpec == Spec /\ Fairness

-----------------------------------------------------------------------------
(* Properties.                                                                    *)

Phases == {"new", "rejected", "running", "finished", "replied"}
Places == {"wait", "loop", "prepare", "scan", "run", "store", "finish", "reinsert"}

(* Types of the state of the requests, the copies, the queues and the workers.    *)
TypeOK ==
  /\ phase \in [Dags -> Phases]
  /\ refCount \in [Dags -> Nat]
  /\ finishes \in [Dags -> Nat]
  /\ DOMAIN result = Dags
  /\ \A d \in Dags : result[d] \in [OpIds(d) -> {"none", "ok", "err"}]
  /\ dagError \in [Dags -> BOOLEAN]
  /\ timedOut \in [Dags -> BOOLEAN]
  /\ readLocks \in [Dags -> Nat]
  /\ toPush \in [Dags -> SUBSET Devices]
  /\ opsDone \in [Dags -> [Devices -> Nat]]
  /\ elapsed \in [Dags -> [Devices -> SUBSET {"timeout", "minbatch"}]]
  /\ queue \in [Devices -> Seq(Dags)]
  /\ mutex \in [Devices -> Workers \cup {NoWorker}]
  /\ pc \in [Workers -> Places]
  /\ batch \in [Workers -> Seq(Dags)]
  /\ position \in [Workers -> Nat \ {0}]
  /\ unfinished \in [Workers -> Seq(Dags)]

(* The devices on which d still has a copy: to be pushed, in the queue, or in the *)
(* hands of a worker.                                                             *)
Held(w) == ToSet(batch[w]) \cup ToSet(unfinished[w])
HasCopy(d, dev) ==
  \/ dev \in toPush[d]
  \/ d \in ToSet(queue[dev])
  \/ \E w \in Workers : Dev(w) = dev /\ d \in Held(w)
Copies(d) == {dev \in Devices : HasCopy(d, dev)}

(* dagRefCount counts the copies that exist, so that the request is finished when *)
(* and only when the last one is freed (RAI_DagRunInfoFreeShallowCopy).           *)
RefCountIsCopies == \A d \in Dags : refCount[d] = Cardinality(Copies(d))

(* A request runs as long as a copy of it exists: once OnFinish is called, and    *)
(* the main thread may free the request, no queue and no worker has a copy; and   *)
(* OnFinish is called, and called once (_BGThread_RinfoFinish, RAI_FreeRunInfo).   *)
FinishedOnce ==
  \A d \in Dags :
    /\ finishes[d] = IF phase[d] \in {"finished", "replied"} THEN 1 ELSE 0
    /\ phase[d] = "running" <=> Copies(d) # {}

(* A copy is in one place: never twice in a queue, in the hands of two workers,   *)
(* or in a queue and with a worker.                                               *)
CopyInOnePlace ==
  /\ \A dev \in Devices : IsInjective(queue[dev])
  /\ \A w \in Workers : /\ IsInjective(batch[w])
                        /\ IsInjective(unfinished[w])
                        /\ ToSet(batch[w]) \cap ToSet(unfinished[w]) = {}
                        /\ ToSet(queue[Dev(w)]) \cap Held(w) = {}
  /\ \A v, w \in Workers : v # w /\ Dev(v) = Dev(w) => Held(v) \cap Held(w) = {}
  /\ \A d \in Dags : \A dev \in toPush[d] :
       /\ d \notin ToSet(queue[dev])
       /\ \A w \in Workers : Dev(w) = dev => d \notin Held(w)

(* A copy in a queue or with a worker has an operation left: the assertion on     *)
(* currentOp in RedisAI_DagCurrentOpInfo.                                         *)
CopyHasOperation ==
  \A d \in Dags, dev \in Devices : HasCopy(d, dev) => opsDone[d][dev] < Cardinality(OpsOn(d, dev))

(* What a worker has in its batch at each place, and what a request has before    *)
(* it is submitted.                                                               *)
BatchMatchesPlace ==
  \A w \in Workers :
    /\ pc[w] \in {"wait", "loop", "reinsert"} => batch[w] = <<>>
    /\ pc[w] = "prepare" => Len(batch[w]) = 1
    /\ pc[w] \in {"scan", "run", "store", "finish"} => batch[w] # <<>>
NewIsUntouched ==
  \A d \in Dags : phase[d] = "new" => \A dev \in Devices : opsDone[d][dev] = 0

(* The inductive invariant of DagRun_proofs: where the copies of a request are,    *)
(* what counts them, and how far each has got.                                    *)
IInv ==
  /\ TypeOK
  /\ BatchMatchesPlace
  /\ NewIsUntouched
  /\ CopyInOnePlace
  /\ RefCountIsCopies
  /\ FinishedOnce
  /\ CopyHasOperation

(* A request that ends without an error and without a timeout has run all its     *)
(* operations and has all its tensors; an error is kept with the first operation  *)
(* that raised it, whichever worker got there first.                              *)
FinishedMeansDone ==
  \A d \in Dags :
    /\ dagError[d] <=> Failed(d)
    /\ dagError[d] => result[d][firstError[d]] = "err"
    /\ phase[d] = "finished" /\ ~timedOut[d] /\ ~dagError[d] =>
         \A i \in OpIds(d) : /\ IsRun(d, i) => result[d][i] = "ok"
                            /\ InSlots(d, i) \cup OutSlots(d, i) \subseteq DOMAIN tensors[d]

(* The rows of the first n copies of the batch of w.                              *)
SumTo(rows, n) ==
  LET sum[k \in 0 .. n] == IF k = 0 THEN 0 ELSE sum[k - 1] + rows[k]
  IN  sum[n]
RowsOf(w, n) == SumTo([k \in DOMAIN batch[w] |-> Current(batch[w][k], Dev(w)).rows], n)

(* What a worker runs in one call of the backend: operations ready to run, of one *)
(* model and one shape, never added to a batch that is full, and fewer rows than  *)
(* MINBATCHSIZE only when MINBATCHTIMEOUT has passed for the first of them (or    *)
(* its own rows fill a batch, or its inputs disagree on theirs).                  *)
BatchFits(w) ==
  LET d == HeadOf(w)
      n == Len(batch[w])
  IN  /\ \A e \in InBatch(w) : Ready(e, Dev(w))
      /\ n > 1 => \A e \in InBatch(w) : /\ Current(e, Dev(w)).model = Current(d, Dev(w)).model
                                         /\ Current(e, Dev(w)).shape = Current(d, Dev(w)).shape
      /\ n > 1 => RowsOf(w, n - 1) < Options(d, Dev(w)).batchsize
      /\ Batchable(d, Dev(w)) /\ BatchTooSmall(d, Dev(w), RowsOf(w, n)) =>
           \/ MinBatchTimedOut(d, Dev(w))
           \/ RowsOf(w, 1) = 0
           \/ RowsOf(w, 1) >= Options(d, Dev(w)).batchsize
BatchWithinOptions == \A w \in Workers : pc[w] = "run" => BatchFits(w)

(* The service the clients see: see DagService.                                   *)
Service == INSTANCE DagService WITH status <- phase
ServiceSpec == Service!Spec

(* "When all ops in a DAG have been executed or an error occurs, the client is    *)
(* unblocked" (dag.c): every accepted request is answered.                        *)
EveryRequestAnswered == \A d \in Dags : phase[d] = "running" ~> phase[d] = "replied"
=============================================================================
