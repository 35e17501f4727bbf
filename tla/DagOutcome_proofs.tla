--------------------------- MODULE DagOutcome_proofs ---------------------------
(***************************************************************************)
(* Proofs about DagRun: what a request has when it ends, what a worker runs   *)
(* in one call, and that RedisAI keeps the promise of DagService.  IInv of    *)
(* DagRun_proofs says where the copies of a request are; OutcomeInv says what  *)
(* has happened behind each copy, and what a worker knows of its batch at     *)
(* each place of its loop; ServiceInv adds what each tensor stands for, and    *)
(* BatchInv what a batch holds while it is collected.  What a worker knows     *)
(* stays true because the steps of the others leave the current operations of  *)
(* its batch alone (Undisturbed, Kept).                                       *)
(***************************************************************************)
EXTENDS DagRun_proofs

(* The order of the operations of a device, and how far the copy of d has got.     *)
Rank(d, i) == Cardinality({j \in OpsOn(d, Program[d][i].device) : j < i})
Past(d, i) == Rank(d, i) < opsDone[d][Program[d][i].device]

(* Worker w has, in its batch, the copy of d whose current operation is i.          *)
AtOp(w, d, i) == d \in InBatch(w) /\ Dev(w) = Program[d][i].device /\ OpOf(d, w) = i

Accepted(d) == phase[d] \notin {"new", "rejected"}
Halted(d) == timedOut[d] \/ dagError[d]

(* Operation i of d has run, and its tensors are there.                             *)
Done(d, i) ==
  /\ IsRun(d, i) => result[d][i] = "ok"
  /\ InSlots(d, i) \cup OutSlots(d, i) \subseteq DOMAIN tensors[d]

LoadSlots(d) == {<<0, j>> : j \in DOMAIN Loaded[d]}

(* Before a request is accepted nothing has happened to it; afterwards what the     *)
(* command itself supplies is there.                                                *)
Beginning ==
  \A d \in Dags :
    /\ ~Accepted(d) => /\ ~Halted(d)
                       /\ \A i \in OpIds(d) : result[d][i] = "none"
    /\ Accepted(d) => /\ WellFormed(d)
                      /\ LoadSlots(d) \subseteq DOMAIN tensors[d]
                      /\ \A i \in OpIds(d) : Program[d][i].cmd = "tensorset" =>
                           result[d][i] = "ok" /\ OutSlots(d, i) \subseteq DOMAIN tensors[d]

ErrorsAreTrue ==
  \A d \in Dags :
    /\ dagError[d] <=> Failed(d)
    /\ dagError[d] => firstError[d] \in OpIds(d) /\ result[d][firstError[d]] = "err"

(* An operation that has a result is behind its copy, or the one the worker that    *)
(* holds the copy has just run.                                                     *)
ResultsBehind ==
  \A d \in Dags : \A i \in OpIds(d) :
    /\ ~IsRun(d, i) => result[d][i] # "err"
    /\ IsRun(d, i) /\ result[d][i] # "none" =>
         Past(d, i) \/ \E w \in Workers : AtOp(w, d, i) /\ pc[w] \in {"store", "finish"}

(* Of a request that has not failed or timed out, what is behind a copy is done,    *)
(* and a copy is gone only when all is behind it.                                   *)
DoneBehind ==
  \A d \in Dags : Accepted(d) /\ ~Halted(d) =>
    /\ \A i \in OpIds(d) : Past(d, i) => Done(d, i)
    /\ \A dev \in DevicesOf(d) : ~HasCopy(d, dev) => opsDone[d][dev] = Cardinality(OpsOn(d, dev))

(* What a worker knows of its batch at each place.                                  *)
RunPlace(w) ==
  /\ \A d \in InBatch(w) : Ready(d, Dev(w))
  /\ Len(batch[w]) > 1 => \A d \in InBatch(w) : IsRun(d, OpOf(d, w))
ScanPlace(w) == \A d \in InBatch(w) : Ready(d, Dev(w)) /\ Batchable(d, Dev(w))
StorePlace(w) ==
  /\ position[w] <= Len(batch[w])
  /\ DOMAIN outputs[w] = DOMAIN batch[w]
  /\ \A d \in InBatch(w) : Ready(d, Dev(w)) /\ result[d][OpOf(d, w)] = "ok"
  /\ \A d \in InBatch(w), k \in DOMAIN batch[w] :
       batch[w][k] = d /\ k < position[w] => OutSlots(d, OpOf(d, w)) \subseteq DOMAIN tensors[d]
FinishPlace(w) == \A d \in InBatch(w) : Halted(d) \/ Done(d, OpOf(d, w))
Known(w) ==
  /\ pc[w] = "scan" => ScanPlace(w)
  /\ pc[w] = "run" => RunPlace(w)
  /\ pc[w] = "store" => StorePlace(w)
  /\ pc[w] = "finish" => FinishPlace(w)

(* Timeouts are those of requests that have one.                                    *)
TimeoutsAreAsked ==
  \A d \in Dags : d \notin HasTimeout =>
    ~timedOut[d] /\ \A dev \in Devices : "timeout" \notin elapsed[d][dev]

Domains ==
  /\ DOMAIN tensors = Dags /\ DOMAIN firstError = Dags /\ DOMAIN answer = Dags
  /\ DOMAIN outputs = Workers /\ DOMAIN batchRows = Workers

OutcomeInv ==
  /\ Domains
  /\ Beginning
  /\ ErrorsAreTrue
  /\ ResultsBehind
  /\ DoneBehind
  /\ \A w \in Workers : Known(w)

-----------------------------------------------------------------------------
(* The tensor a slot stands for when the operations run one after the other.        *)
Meaning(d, slot) ==
  IF slot[1] = 0 THEN LoadedTensor(Loaded[d][slot[2]])
  ELSE Computed(slot[1], slot[2],
                [j \in DOMAIN Program[d][slot[1]].inkeys |->
                   Service!Environment(d)[slot[1] - 1][Program[d][slot[1]].inkeys[j]]])

(* The tensors of a request are those the operations of it compute when they run    *)
(* one after the other, and each is there because its operation succeeded.           *)
TensorsAreMeant ==
  \A d \in Dags : Accepted(d) =>
    \A slot \in DOMAIN tensors[d] :
      /\ slot \in LoadSlots(d) \cup UNION {OutSlots(d, i) : i \in OpIds(d)}
      /\ slot[1] # 0 => result[d][slot[1]] = "ok"
      /\ tensors[d][slot] = Meaning(d, slot)

OutputsAreMeant ==
  \A w \in Workers : pc[w] = "store" =>
    \A d \in InBatch(w), k \in DOMAIN batch[w] :
      batch[w][k] = d =>
        outputs[w][k] = [j \in DOMAIN Program[d][OpOf(d, w)].outkeys |-> Meaning(d, <<OpOf(d, w), j>>)]

ServiceInv == OutcomeInv /\ TimeoutsAreAsked /\ TensorsAreMeant /\ OutputsAreMeant
-----------------------------------------------------------------------------
(* The operations of a device are run in their order: the operation of place n is   *)
(* the one that n others precede.                                                    *)
LEMMA RankFacts ==
  ASSUME NEW d \in Dags
  PROVE  /\ \A i \in OpIds(d) : /\ Program[d][i].device \in DevicesOf(d)
                                /\ i \in OpsOn(d, Program[d][i].device)
                                /\ Rank(d, i) \in Nat
                                /\ Rank(d, i) < Cardinality(OpsOn(d, Program[d][i].device))
                                /\ DeviceOp(d, Program[d][i].device, Rank(d, i)) = i
         /\ \A dev \in Devices, n \in Nat : n < Cardinality(OpsOn(d, dev)) =>
              /\ DeviceOp(d, dev, n) \in OpIds(d)
              /\ DeviceOp(d, dev, n) \in OpsOn(d, dev)
              /\ Program[d][DeviceOp(d, dev, n)].device = dev
              /\ Rank(d, DeviceOp(d, dev, n)) = n
<1> DEFINE Place(dev, k) == Cardinality({j \in OpsOn(d, dev) : j < k})
<1>1. ASSUME NEW dev \in Devices
      PROVE  /\ Cardinality(OpsOn(d, dev)) \in Nat
             /\ \A k \in OpsOn(d, dev) : Place(dev, k) \in 0 .. Cardinality(OpsOn(d, dev)) - 1
             /\ \A k, l \in OpsOn(d, dev) : Place(dev, k) = Place(dev, l) => k = l
             /\ \A n \in 0 .. Cardinality(OpsOn(d, dev)) - 1 : \E k \in OpsOn(d, dev) : Place(dev, k) = n
  <2>1. OpsOn(d, dev) \in SUBSET Nat
    <3>1. Len(Program[d]) \in Nat
      BY ProgramAssumption
    <3> QED BY <3>1 DEF OpsOn, OpIds
  <2>2. IsFiniteSet(OpsOn(d, dev))
    BY ProgramFacts
  <2> QED BY <2>1, <2>2, Ranks
<1>2. ASSUME NEW dev \in Devices, NEW n \in Nat, n < Cardinality(OpsOn(d, dev))
      PROVE  /\ DeviceOp(d, dev, n) \in OpsOn(d, dev)
             /\ Place(dev, DeviceOp(d, dev, n)) = n
  <2>1. DeviceOp(d, dev, n) = CHOOSE k \in OpsOn(d, dev) : Place(dev, k) = n
    BY DEF DeviceOp
  <2>2. n \in 0 .. Cardinality(OpsOn(d, dev)) - 1
    BY <1>1, <1>2
  <2> HIDE DEF Place
  <2>3. \E k \in OpsOn(d, dev) : Place(dev, k) = n
    BY <1>1, <2>2
  <2> QED BY <2>1, <2>3
<1>3. \A i \in OpIds(d) : /\ Program[d][i].device \in DevicesOf(d)
                          /\ Program[d][i].device \in Devices
                          /\ i \in OpsOn(d, Program[d][i].device)
                          /\ Rank(d, i) = Place(Program[d][i].device, i)
  BY ProgramFacts DEF DevicesOf, OpsOn, Rank
<1>4. \A dev \in Devices : \A i \in OpsOn(d, dev) : i \in OpIds(d) /\ Program[d][i].device = dev
  BY DEF OpsOn
<1> HIDE DEF Place
<1>5. ASSUME NEW i \in OpIds(d)
      PROVE  /\ Rank(d, i) \in Nat
             /\ Rank(d, i) < Cardinality(OpsOn(d, Program[d][i].device))
             /\ DeviceOp(d, Program[d][i].device, Rank(d, i)) = i
  <2> DEFINE dev == Program[d][i].device
             n == Rank(d, i)
  <2>1. dev \in Devices /\ i \in OpsOn(d, dev) /\ n = Place(dev, i)
    BY <1>3
  <2> HIDE DEF dev, n
  <2>2. n \in Nat /\ n < Cardinality(OpsOn(d, dev))
    BY <1>1, <2>1
  <2>3. DeviceOp(d, dev, n) \in OpsOn(d, dev) /\ Place(dev, DeviceOp(d, dev, n)) = n
    BY <1>2, <2>1, <2>2
  <2>4. DeviceOp(d, dev, n) = i
    BY <1>1, <2>1, <2>3
  <2> QED BY <2>2, <2>4 DEF dev, n
<1>6. ASSUME NEW dev \in Devices, NEW n \in Nat, n < Cardinality(OpsOn(d, dev))
      PROVE  /\ DeviceOp(d, dev, n) \in OpIds(d)
             /\ DeviceOp(d, dev, n) \in OpsOn(d, dev)
             /\ Program[d][DeviceOp(d, dev, n)].device = dev
             /\ Rank(d, DeviceOp(d, dev, n)) = n
  BY <1>2, <1>3, <1>4, <1>6
<1> QED BY <1>3, <1>5, <1>6

(* A request whose copy a worker has in its batch is running, and the current        *)
(* operation of the copy is the next one of the device.                              *)
LEMMA OpAt ==
  ASSUME NEW w \in Workers, NEW d \in InBatch(w), IInv
  PROVE  /\ d \in Dags /\ Dev(w) \in Devices
         /\ HasCopy(d, Dev(w))
         /\ phase[d] = "running" /\ Accepted(d)
         /\ OpOf(d, w) \in OpIds(d) /\ OpOf(d, w) \in OpsOn(d, Dev(w))
         /\ Program[d][OpOf(d, w)].device = Dev(w)
         /\ opsDone[d][Dev(w)] \in Nat
         /\ Rank(d, OpOf(d, w)) = opsDone[d][Dev(w)]
<1>1. d \in Dags /\ Dev(w) \in Devices
  <2>1. batch[w] \in Seq(Dags)
    BY DEF IInv, TypeOK
  <2> QED BY <2>1, ElementPositions, DevFacts DEF InBatch
<1>2. HasCopy(d, Dev(w))
  BY <1>1 DEF HasCopy, Held, InBatch
<1>3. phase[d] = "running"
  <2>1. Dev(w) \in Copies(d)
    BY <1>1, <1>2 DEF Copies
  <2> QED BY <1>1, <2>1 DEF IInv, FinishedOnce
<1>4. opsDone[d][Dev(w)] \in Nat /\ opsDone[d][Dev(w)] < Cardinality(OpsOn(d, Dev(w)))
  BY <1>1, <1>2 DEF IInv, CopyHasOperation, TypeOK
<1> QED BY <1>1, <1>2, <1>3, <1>4, RankFacts DEF OpOf, CurrentOp, Accepted

(* Two workers of a device never have a copy of the same request.                     *)
LEMMA OneHolder ==
  ASSUME NEW v \in Workers, NEW w \in Workers, Dev(v) = Dev(w), IInv,
         NEW d \in InBatch(v), d \in InBatch(w)
  PROVE  v = w
BY DEF IInv, CopyInOnePlace, Held, InBatch

-----------------------------------------------------------------------------
(* What the steps of others leave of what worker v knows.                            *)
Undisturbed(v) ==
  /\ pc'[v] = pc[v] /\ batch'[v] = batch[v] /\ position'[v] = position[v]
  /\ outputs'[v] = outputs[v] /\ batchRows'[v] = batchRows[v]
  /\ \A d \in InBatch(v) : /\ opsDone'[d][Dev(v)] = opsDone[d][Dev(v)]
                           /\ result'[d][OpOf(d, v)] = result[d][OpOf(d, v)]
                           /\ DOMAIN tensors[d] \subseteq DOMAIN tensors'[d]
                           /\ elapsed[d][Dev(v)] \subseteq elapsed'[d][Dev(v)]
                           /\ Halted(d) => Halted(d)'

LEMMA UndisturbedKnows ==
  ASSUME NEW v \in Workers, IInv, Known(v), Undisturbed(v)
  PROVE  Known(v)'
<1>1. /\ InBatch(v)' = InBatch(v) /\ Dev(v)' = Dev(v)
      /\ pc'[v] = pc[v] /\ batch'[v] = batch[v] /\ position'[v] = position[v]
      /\ outputs'[v] = outputs[v]
  BY DEF Undisturbed, InBatch, Dev
<1>2. \A d \in InBatch(v) :
        /\ OpOf(d, v)' = OpOf(d, v) /\ CurrentOp(d, Dev(v))' = CurrentOp(d, Dev(v))
        /\ result'[d][OpOf(d, v)] = result[d][OpOf(d, v)]
        /\ DOMAIN tensors[d] \subseteq DOMAIN tensors'[d]
        /\ Halted(d) => Halted(d)'
  BY DEF Undisturbed, OpOf, CurrentOp, Dev
<1>3. \A d \in InBatch(v) : Ready(d, Dev(v)) => Ready(d, Dev(v))'
  BY <1>2 DEF Ready, Dev
<1>4. \A d \in InBatch(v) : Batchable(d, Dev(v)) => Batchable(d, Dev(v))'
  BY <1>2 DEF Batchable, Current, Dev
<1>5. \A d \in InBatch(v) : Done(d, OpOf(d, v)) => Done(d, OpOf(d, v))'
  BY <1>2 DEF Done
<1>7. pc[v] = "scan" /\ ScanPlace(v) => ScanPlace(v)'
  BY <1>1, <1>3, <1>4 DEF ScanPlace
<1>8. RunPlace(v) => RunPlace(v)'
  BY <1>1, <1>2, <1>3 DEF RunPlace
<1>9. StorePlace(v) => StorePlace(v)'
  BY <1>1, <1>2, <1>3 DEF StorePlace
<1>10. FinishPlace(v) => FinishPlace(v)'
  BY <1>1, <1>2, <1>5 DEF FinishPlace
<1> QED BY <1>1, <1>7, <1>8, <1>9, <1>10 DEF Known

(* The steps of a worker that change only where it is, and where copies are.          *)
Moves(w) ==
  \/ Wake(w) \/ Sleep(w) \/ NotReady(w) \/ RunAlone(w) \/ Scan(w) \/ RunNothing(w) \/ Reinsert(w)

LEMMA MovesEffect ==
  ASSUME NEW w \in Workers, IInv, Domains, Moves(w)
  PROVE  /\ UNCHANGED <<phase, result, dagError, firstError, timedOut, tensors, opsDone, elapsed,
                        outputs, answer>>
         /\ pc[w] \notin {"store", "finish"}
         /\ \A v \in Workers : v # w => /\ pc'[v] = pc[v] /\ batch'[v] = batch[v]
                                        /\ position'[v] = position[v]
                                        /\ batchRows'[v] = batchRows[v]
         /\ \A d \in Dags, dev \in Devices : HasCopy(d, dev)' <=> HasCopy(d, dev)
         /\ Domains'
<1> USE DEF requestVars, copyVars, queueVars, workerVars
<1>1. /\ pc \in [Workers -> Places] /\ batch \in [Workers -> Seq(Dags)]
      /\ position \in [Workers -> Nat \ {0}] /\ DOMAIN batchRows = Workers
      /\ TypeOK /\ CopyInOnePlace /\ BatchMatchesPlace
  BY DEF IInv, TypeOK, Domains
<1>2. /\ UNCHANGED <<phase, result, dagError, firstError, timedOut, tensors, opsDone, elapsed,
                     outputs, answer>>
      /\ pc[w] \notin {"store", "finish"}
  BY DEF Moves, Scan, Wake, Sleep, NotReady, RunAlone, StartScan, ScanSkip, ScanTake, LaunchBatch,
         ReturnBatch, RunNothing, Reinsert
<1>3. \A v \in Workers : v # w => /\ pc'[v] = pc[v] /\ batch'[v] = batch[v]
                                  /\ position'[v] = position[v]
                                  /\ batchRows'[v] = batchRows[v]
  <2>1. CASE Wake(w) \/ Sleep(w) \/ RunAlone(w) \/ LaunchBatch(w) \/ RunNothing(w)
    BY <1>1, <2>1 DEF Wake, Sleep, RunAlone, LaunchBatch, RunNothing
  <2>2. CASE NotReady(w)
    BY <1>1, <2>2 DEF NotReady
  <2>3. CASE ReturnBatch(w)
    BY <1>1, <2>3 DEF ReturnBatch
  <2>4. CASE Reinsert(w)
    BY <1>1, <2>4 DEF Reinsert
  <2>5. CASE StartScan(w)
    BY <1>1, <2>5 DEF StartScan
  <2>6. CASE ScanSkip(w)
    BY <1>1, <2>6 DEF ScanSkip
  <2>7. CASE ScanTake(w)
    BY <1>1, <2>7 DEF ScanTake
  <2> QED BY <2>1, <2>2, <2>3, <2>4, <2>5, <2>6, <2>7 DEF Moves, Scan
<1>4. CopiesKept
  <2>1. CASE NotReady(w) \/ ScanTake(w) \/ ReturnBatch(w) \/ Reinsert(w)
    BY <1>1, <2>1, MoveShapes
  <2>2. CASE Stays(w)
    BY <1>1, <2>2, StayShapes, NoMove
  <2> QED BY <2>1, <2>2 DEF Moves, Stays, Scan, Run
<1>5. Domains'
  <2>1. batchRows' = batchRows \/ \E rows : batchRows' = [batchRows EXCEPT ![w] = rows]
    BY DEF Moves, Scan, Wake, Sleep, NotReady, RunAlone, StartScan, ScanSkip, ScanTake, LaunchBatch,
           ReturnBatch, RunNothing, Reinsert
  <2>2. DOMAIN batchRows' = Workers
    BY <1>1, <2>1
  <2> QED BY <1>2, <2>2 DEF Domains
<1> QED BY <1>2, <1>3, <1>4, <1>5 DEF CopiesKept

(* A worker looks at the flags of the copy it has popped.                             *)
LEMMA PopEffect ==
  ASSUME NEW w \in Workers, IInv, Domains, Pop(w), TimeoutFlagReturned
  PROVE  \E d \in Dags :
           /\ batch'[w] = <<d>>
           /\ UNCHANGED <<phase, result, dagError, firstError, tensors, opsDone, elapsed, outputs,
                          answer>>
           /\ \A e \in Dags : timedOut[e] => timedOut'[e]
           /\ \A e \in Dags : timedOut'[e] # timedOut[e] => e = d /\ "timeout" \in elapsed[d][Dev(w)]
           /\ \/ pc'[w] = "finish" /\ Halted(d)'
              \/ pc'[w] = "prepare"
           /\ pc[w] = "loop"
           /\ \A v \in Workers : v # w => /\ pc'[v] = pc[v] /\ batch'[v] = batch[v]
                                          /\ position'[v] = position[v]
                                          /\ batchRows'[v] = batchRows[v]
           /\ \A e \in Dags, dev \in Devices : HasCopy(e, dev)' <=> HasCopy(e, dev)
           /\ Domains'
<1>0. PICK d : d = Head(queue[Dev(w)])
  OBVIOUS
<1> DEFINE expired == "timeout" \in elapsed[d][Dev(w)]
<1>1. /\ TypeOK /\ CopyInOnePlace /\ BatchMatchesPlace
      /\ pc \in [Workers -> Places] /\ batch \in [Workers -> Seq(Dags)]
      /\ timedOut \in [Dags -> BOOLEAN] /\ dagError \in [Dags -> BOOLEAN]
  BY DEF IInv, TypeOK
<1>2. CopiesKept /\ d \in Dags
  BY <1>0, <1>1, PopMoves
<1>3. /\ batch' = [batch EXCEPT ![w] = <<d>>]
      /\ timedOut' = [timedOut EXCEPT ![d] = @ \/ (~timedOut[d] /\ expired)]
      /\ IF timedOut[d] \/ expired \/ dagError[d]
         THEN pc' = [pc EXCEPT ![w] = "finish"]
         ELSE pc' = [pc EXCEPT ![w] = "prepare"]
      /\ pc[w] = "loop"
      /\ UNCHANGED <<phase, result, dagError, firstError, tensors, opsDone, elapsed, outputs,
                     position, batchRows, answer>>
  BY <1>0 DEF Pop, DagTimeout, copyVars
<1> HIDE DEF expired
<1>4. /\ batch'[w] = <<d>>
      /\ \A v \in Workers : v # w => pc'[v] = pc[v] /\ batch'[v] = batch[v]
      /\ pc'[w] = IF timedOut[d] \/ expired \/ dagError[d] THEN "finish" ELSE "prepare"
  BY <1>1, <1>3
<1>5. timedOut'[d] = (timedOut[d] \/ (~timedOut[d] /\ expired))
      /\ \A e \in Dags : e # d => timedOut'[e] = timedOut[e]
  BY <1>1, <1>2, <1>3
<1>6. \A e \in Dags : timedOut[e] => timedOut'[e]
  BY <1>5
<1>7. \A e \in Dags : timedOut'[e] # timedOut[e] => e = d /\ expired
  <2>1. ~expired => timedOut'[d] = timedOut[d]
    <3>1. timedOut[d] \in BOOLEAN
      BY <1>1, <1>2
    <3> QED BY <1>5, <3>1
  <2> QED BY <1>5, <2>1
<1>8. \/ pc'[w] = "finish" /\ Halted(d)'
      \/ pc'[w] = "prepare"
  <2>1. CASE timedOut[d] \/ expired \/ dagError[d]
    <3>1. timedOut'[d] \/ dagError'[d]
      BY <1>3, <1>5, <2>1
    <3>2. Halted(d)'
      BY <3>1 DEF Halted
    <3> QED BY <1>4, <2>1, <3>2
  <2>2. CASE ~(timedOut[d] \/ expired \/ dagError[d])
    BY <1>4, <2>2
  <2> QED BY <2>1, <2>2
<1>9. Domains'
  BY <1>3 DEF Domains
<1> QED BY <1>2, <1>3, <1>4, <1>6, <1>7, <1>8, <1>9 DEF CopiesKept, expired

(* The backend returns for a batch.                                                   *)
LEMMA RunEffect ==
  ASSUME NEW w \in Workers, IInv, Domains, RunSucceeds(w) \/ RunFails(w)
  PROVE  /\ UNCHANGED <<phase, timedOut, tensors, opsDone, elapsed, answer, batch, batchRows>>
         /\ pc[w] = "run" /\ IsRun(HeadOf(w), OpOf(HeadOf(w), w))
         /\ \E outcome \in {"ok", "err"} :
              result' = [d \in Dags |-> IF d \in InBatch(w)
                                        THEN [result[d] EXCEPT ![OpOf(d, w)] = outcome]
                                        ELSE result[d]]
         /\ \A v \in Workers : v # w => /\ pc'[v] = pc[v] /\ position'[v] = position[v]
                                        /\ outputs'[v] = outputs[v]
         /\ \A d \in Dags : dagError[d] => dagError'[d]
         /\ \A d \in Dags, dev \in Devices : HasCopy(d, dev)' <=> HasCopy(d, dev)
         /\ Domains'
<1> USE DEF requestVars, copyVars, queueVars, workerVars
<1>1. /\ pc \in [Workers -> Places] /\ position \in [Workers -> Nat \ {0}]
      /\ DOMAIN outputs = Workers /\ DOMAIN firstError = Dags
      /\ dagError \in [Dags -> BOOLEAN]
      /\ TypeOK /\ CopyInOnePlace /\ BatchMatchesPlace
  BY DEF IInv, TypeOK, Domains
<1>2. /\ UNCHANGED <<phase, timedOut, tensors, opsDone, elapsed, answer, batch, batchRows>>
      /\ pc[w] = "run" /\ IsRun(HeadOf(w), OpOf(HeadOf(w), w))
      /\ \E outcome \in {"ok", "err"} :
           result' = [d \in Dags |-> IF d \in InBatch(w)
                                     THEN [result[d] EXCEPT ![OpOf(d, w)] = outcome]
                                     ELSE result[d]]
  BY DEF RunSucceeds, RunFails
<1>3. \A v \in Workers : v # w => /\ pc'[v] = pc[v] /\ position'[v] = position[v]
                                  /\ outputs'[v] = outputs[v]
  <2>1. CASE RunSucceeds(w)
    BY <1>1, <2>1 DEF RunSucceeds
  <2>2. CASE RunFails(w)
    BY <1>1, <2>2 DEF RunFails
  <2> QED BY <2>1, <2>2
<1>4. \A d \in Dags : dagError[d] => dagError'[d]
  BY <1>1 DEF RunSucceeds, RunFails
<1>5. CopiesKept
  <2>1. Stays(w)
    BY DEF Stays, Run
  <2> QED BY <1>1, <2>1, StayShapes, NoMove
<1>6. Domains'
  <2>1. DOMAIN firstError' = Dags /\ DOMAIN outputs' = Workers
    BY <1>1 DEF RunSucceeds, RunFails
  <2> QED BY <1>2, <2>1 DEF Domains
<1> QED BY <1>2, <1>3, <1>4, <1>5, <1>6 DEF CopiesKept

(* The outputs of one copy of the batch are stored.                                   *)
LEMMA StoreEffect ==
  ASSUME NEW w \in Workers, IInv, Domains, Known(w), Store(w)
  PROVE  LET d == batch[w][position[w]]
         IN  /\ position[w] \in DOMAIN batch[w] /\ d \in InBatch(w) /\ d \in Dags
             /\ tensors' = [tensors EXCEPT ![d] = Stored(d, w, position[w])]
             /\ \A e \in Dags : e # d => tensors'[e] = tensors[e]
             /\ tensors'[d] = Stored(d, w, position[w])
             /\ DOMAIN tensors'[d] = DOMAIN tensors[d] \cup OutSlots(d, OpOf(d, w))
             /\ UNCHANGED <<phase, result, dagError, firstError, timedOut, opsDone, elapsed, outputs,
                            answer, batch, batchRows>>
             /\ pc[w] = "store" /\ position'[w] = position[w] + 1
             /\ pc'[w] = IF position[w] = Len(batch[w]) THEN "finish" ELSE "store"
             /\ \A v \in Workers : v # w => pc'[v] = pc[v] /\ position'[v] = position[v]
             /\ \A e \in Dags, dev \in Devices : HasCopy(e, dev)' <=> HasCopy(e, dev)
             /\ Domains'
<1> USE DEF requestVars, copyVars, queueVars, workerVars
<1> DEFINE d == batch[w][position[w]]
<1>1. /\ pc \in [Workers -> Places] /\ position \in [Workers -> Nat \ {0}]
      /\ DOMAIN tensors = Dags /\ batch[w] \in Seq(Dags)
      /\ TypeOK /\ CopyInOnePlace /\ BatchMatchesPlace
  BY DEF IInv, TypeOK, Domains
<1>2. pc[w] = "store" /\ position[w] <= Len(batch[w])
  BY DEF Store, Known, StorePlace
<1>3. position[w] \in 1 .. Len(batch[w]) /\ DOMAIN batch[w] = 1 .. Len(batch[w])
  BY <1>1, <1>2
<1>4. d \in Dags /\ d \in InBatch(w)
  BY <1>1, <1>3, ElementPositions DEF InBatch
<1>5. /\ tensors' = [tensors EXCEPT ![d] = Stored(d, w, position[w])]
      /\ position' = [position EXCEPT ![w] = @ + 1]
      /\ pc' = [pc EXCEPT ![w] = IF position[w] = Len(batch[w]) THEN "finish" ELSE "store"]
      /\ UNCHANGED <<phase, result, dagError, firstError, timedOut, opsDone, elapsed, outputs,
                     answer, batch, batchRows>>
  BY DEF Store
<1> HIDE DEF d
<1>6. /\ tensors'[d] = Stored(d, w, position[w])
      /\ \A e \in Dags : e # d => tensors'[e] = tensors[e]
  BY <1>1, <1>4, <1>5
<1>7. DOMAIN tensors'[d] = DOMAIN tensors[d] \cup OutSlots(d, OpOf(d, w))
  BY <1>6 DEF Stored
<1>8. /\ position'[w] = position[w] + 1
      /\ pc'[w] = IF position[w] = Len(batch[w]) THEN "finish" ELSE "store"
      /\ \A v \in Workers : v # w => pc'[v] = pc[v] /\ position'[v] = position[v]
  BY <1>1, <1>5
<1>9. CopiesKept
  <2>1. Stays(w)
    BY DEF Stays
  <2> QED BY <1>1, <2>1, StayShapes, NoMove
<1>10. Domains'
  BY <1>5 DEF Domains
<1> QED BY <1>2, <1>3, <1>4, <1>5, <1>6, <1>7, <1>8, <1>9, <1>10 DEF CopiesKept, d

(* The last copy left in the batch has executed its operation.                        *)
LEMMA FinishEffect ==
  ASSUME NEW w \in Workers, IInv, Domains, FinishOne(w), TimeoutFlagReturned
  PROVE  \E d \in Dags :
           /\ d \in InBatch(w)
           /\ InBatch(w)' = InBatch(w) \ {d}
           /\ opsDone'[d][Dev(w)] = opsDone[d][Dev(w)] + 1
           /\ \A e \in Dags, dev \in Devices :
                ~(e = d /\ dev = Dev(w)) => /\ opsDone'[e][dev] = opsDone[e][dev]
                                            /\ HasCopy(e, dev)' <=> HasCopy(e, dev)
           /\ \/ HasCopy(d, Dev(w))'
              \/ opsDone[d][Dev(w)] + 1 = Cardinality(OpsOn(d, Dev(w)))
              \/ Halted(d)
           /\ UNCHANGED <<result, dagError, firstError, timedOut, tensors, elapsed, answer, outputs,
                          position, batchRows>>
           /\ \A e \in Dags : Accepted(e)' <=> Accepted(e)
           /\ \/ UNCHANGED phase
              \/ /\ phase' = [phase EXCEPT ![d] = "finished"]
                 /\ phase[d] = "running"
           /\ pc[w] = "finish" /\ pc'[w] \in {"finish", "reinsert"}
           /\ \A v \in Workers : v # w => pc'[v] = pc[v] /\ batch'[v] = batch[v]
           /\ Domains'
<1>0. PICK d : d = Last(batch[w])
  OBVIOUS
<1> DEFINE n == opsDone[d][Dev(w)] + 1
<1> USE DEF requestVars, copyVars, queueVars, workerVars
<1>1. /\ TypeOK /\ CopyInOnePlace /\ BatchMatchesPlace /\ Bookkeeping
      /\ opsDone \in [Dags -> [Devices -> Nat]]
      /\ pc \in [Workers -> Places] /\ phase \in [Dags -> Phases]
      /\ Dev(w) \in Devices
  BY DevFacts DEF IInv, Bookkeeping, TypeOK
<1>2. /\ d \in Dags /\ d \in InBatch(w) /\ InBatch(w)' = InBatch(w) \ {d}
      /\ \A v \in Workers : v # w => batch'[v] = batch[v]
  BY <1>0, <1>1, FinishTakesLast DEF InBatch
<1>3. phase[d] = "running"
  BY <1>2, OpAt
<1>4. /\ opsDone' = [opsDone EXCEPT ![d][Dev(w)] = n]
      /\ pc[w] = "finish"
      /\ pc' = [pc EXCEPT ![w] = IF Len(batch[w]) = 1 THEN "reinsert" ELSE "finish"]
      /\ UNCHANGED <<result, dagError, firstError, timedOut, tensors, elapsed, answer, outputs,
                     position, batchRows>>
      /\ \/ /\ DeviceComplete(d, Dev(w), n) \/ dagError[d] \/ timedOut[d]
            /\ Free(d) /\ UNCHANGED unfinished
         \/ /\ ~DeviceComplete(d, Dev(w), n)
            /\ unfinished' = [unfinished EXCEPT ![w] = Cons(d, @)]
            /\ UNCHANGED <<refCount, finishes, phase>>
  BY <1>0 DEF FinishOne, DagTimeout
<1>5. /\ (HasCopy(d, Dev(w))' \/ n = Cardinality(OpsOn(d, Dev(w))) \/ Halted(d))
      /\ \A e \in Dags, dev \in Devices :
           ~(e = d /\ dev = Dev(w)) => (HasCopy(e, dev)' <=> HasCopy(e, dev))
  <2>1. CASE Free(d) /\ UNCHANGED unfinished /\ (DeviceComplete(d, Dev(w), n) \/ dagError[d] \/ timedOut[d])
    BY <1>0, <1>1, <2>1, FinishFrees DEF DeviceComplete, Halted
  <2>2. CASE unfinished' = [unfinished EXCEPT ![w] = Cons(d, @)]
    <3>1. CopiesKept
      BY <1>0, <1>1, <2>2, FinishKeeps
    <3>2. HasCopy(d, Dev(w))
      BY <1>2, OpAt
    <3> QED BY <1>1, <1>2, <3>1, <3>2 DEF CopiesKept
  <2> QED BY <1>4, <2>1, <2>2
<1>6. \/ UNCHANGED phase
      \/ phase' = [phase EXCEPT ![d] = "finished"]
  BY <1>4 DEF Free
<1> HIDE DEF n
<1>7. \A e \in Dags : Accepted(e)' <=> Accepted(e)
  BY <1>1, <1>2, <1>3, <1>6 DEF Accepted
<1>8. /\ opsDone'[d][Dev(w)] = n
      /\ \A e \in Dags, dev \in Devices : ~(e = d /\ dev = Dev(w)) => opsDone'[e][dev] = opsDone[e][dev]
  BY <1>1, <1>2, <1>4
<1>9. pc'[w] \in {"finish", "reinsert"} /\ \A v \in Workers : v # w => pc'[v] = pc[v]
  BY <1>1, <1>4
<1>10. Domains'
  BY <1>4 DEF Domains
<1> QED BY <1>2, <1>3, <1>4, <1>5, <1>6, <1>7, <1>8, <1>9, <1>10 DEF n

-----------------------------------------------------------------------------
(* A step of a worker leaves what the others know alone: their copies are not its,    *)
(* and the operations it runs are of its own device.                                  *)
LEMMA OthersUndisturbed ==
  ASSUME NEW w \in Workers, NEW v \in Workers, v # w, IInv, Domains, Known(w), Worker(w),
         TimeoutFlagReturned
  PROVE  Undisturbed(v)
<1>1. \A d \in InBatch(v) : d \in Dags
  BY OpAt
<1>2. \A d \in InBatch(v) : d \in InBatch(w) => Dev(w) # Dev(v)
  BY OneHolder
<1>3. CASE Moves(w)
  BY <1>1, <1>3, MovesEffect DEF Undisturbed, Halted
<1>4. CASE Pop(w)
  BY <1>1, <1>4, PopEffect DEF Undisturbed, Halted
<1>5. CASE RunSucceeds(w) \/ RunFails(w)
  <2>1. ASSUME NEW d \in InBatch(v) PROVE result'[d][OpOf(d, v)] = result[d][OpOf(d, v)]
    <3>1. PICK outcome : result' = [e \in Dags |-> IF e \in InBatch(w)
                                                   THEN [result[e] EXCEPT ![OpOf(e, w)] = outcome]
                                                   ELSE result[e]]
      BY <1>5, RunEffect
    <3>2. CASE d \notin InBatch(w)
      BY <1>1, <3>1, <3>2
    <3>3. CASE d \in InBatch(w)
      <4>1. OpOf(d, v) # OpOf(d, w)
        BY <1>2, <3>3, OpAt
      <4>2. OpOf(d, v) \in OpIds(d) /\ result[d] \in [OpIds(d) -> {"none", "ok", "err"}]
        BY <1>1, OpAt DEF IInv, TypeOK
      <4> QED BY <1>1, <3>1, <3>3, <4>1, <4>2
    <3> QED BY <3>2, <3>3
  <2>2. \A d \in InBatch(v) : Halted(d) => Halted(d)'
    BY <1>1, <1>5, RunEffect DEF Halted
  <2> QED BY <1>1, <1>5, <2>1, <2>2, RunEffect DEF Undisturbed
<1>6. CASE Store(w)
  <2>1. \A d \in Dags : DOMAIN tensors[d] \subseteq DOMAIN tensors'[d]
    BY <1>6, StoreEffect
  <2> QED BY <1>1, <1>6, <2>1, StoreEffect DEF Undisturbed, Halted
<1>7. CASE FinishOne(w)
  <2>1. PICK d \in InBatch(w) :
          \A e \in Dags, dev \in Devices :
            ~(e = d /\ dev = Dev(w)) => opsDone'[e][dev] = opsDone[e][dev]
    BY <1>7, FinishEffect
  <2>2. \A e \in InBatch(v) : opsDone'[e][Dev(v)] = opsDone[e][Dev(v)]
    BY <1>1, <1>2, <2>1, DevFacts
  <2>3. /\ UNCHANGED <<result, dagError, timedOut, tensors, elapsed, outputs, position, batchRows>>
        /\ pc'[v] = pc[v] /\ batch'[v] = batch[v]
    BY <1>7, FinishEffect
  <2> QED BY <2>2, <2>3 DEF Undisturbed, Halted
<1> QED BY <1>3, <1>4, <1>5, <1>6, <1>7 DEF Worker, Moves, Run

(* So do the steps of the main thread and of time.                                    *)
Outside(d) ==
  \/ Submit(d) \/ Reject(d) \/ Reply(d)
  \/ \E dev \in Devices : Push(d, dev)
  \/ \E dev \in Devices, delay \in {"timeout", "minbatch"} : Tick(d, dev, delay)

LEMMA OutsideUndisturbed ==
  ASSUME NEW r \in Dags, NEW v \in Workers, IInv, Domains, Outside(r)
  PROVE  Undisturbed(v)
<1> USE DEF requestVars, copyVars, queueVars, workerVars
<1>1. \A d \in InBatch(v) : d \in Dags /\ phase[d] = "running" /\ Dev(v) \in Devices
  BY OpAt
<1>2. CASE Submit(r)
  <2>1. phase[r] = "new" /\ \A d \in InBatch(v) : d # r
    BY <1>1, <1>2 DEF Submit
  <2>2. \A d \in InBatch(v) : result'[d] = result[d] /\ tensors'[d] = tensors[d]
    BY <1>1, <1>2, <2>1 DEF Submit, IInv, TypeOK, Domains
  <2> QED BY <1>2, <2>2 DEF Submit, Undisturbed, Halted
<1>3. CASE Reject(r) \/ Reply(r)
  BY <1>3 DEF Reject, Reply, Undisturbed, Halted
<1>4. CASE \E dev \in Devices : Push(r, dev)
  BY <1>4 DEF Push, Undisturbed, Halted
<1>5. CASE \E dev \in Devices, delay \in {"timeout", "minbatch"} : Tick(r, dev, delay)
  <2>1. \A d \in InBatch(v) : elapsed[d][Dev(v)] \subseteq elapsed'[d][Dev(v)]
    <3>1. PICK dev \in Devices, delay \in {"timeout", "minbatch"} :
            elapsed' = [elapsed EXCEPT ![r][dev] = @ \cup {delay}]
      BY <1>5 DEF Tick
    <3> QED BY <1>1, <3>1 DEF IInv, TypeOK
  <2>2. UNCHANGED <<result, dagError, timedOut, tensors, opsDone, pc, batch, position, outputs,
                    batchRows>>
    BY <1>5 DEF Tick
  <2> QED BY <2>1, <2>2 DEF Undisturbed, Halted
<1> QED BY <1>2, <1>3, <1>4, <1>5 DEF Outside

-----------------------------------------------------------------------------
(* What a worker knows after its own step.                                            *)
LEMMA BatchFacts ==
  ASSUME NEW w \in Workers, batch[w] \in Seq(Dags)
  PROVE  /\ Len(batch[w]) \in Nat /\ DOMAIN batch[w] = 1 .. Len(batch[w])
         /\ \A k \in DOMAIN batch[w] : batch[w][k] \in InBatch(w)
         /\ \A d \in InBatch(w) : \E k \in DOMAIN batch[w] : batch[w][k] = d
         /\ batch[w] # <<>> => HeadOf(w) \in InBatch(w) /\ Len(batch[w]) > 0
         /\ Len(batch[w]) = 1 => InBatch(w) = {HeadOf(w)}
<1>1. Len(batch[w]) \in Nat /\ DOMAIN batch[w] = 1 .. Len(batch[w])
  OBVIOUS
<1>2. /\ \A k \in 1 .. Len(batch[w]) : batch[w][k] \in InBatch(w)
      /\ \A d \in InBatch(w) : \E k \in 1 .. Len(batch[w]) : batch[w][k] = d
  BY ElementPositions DEF InBatch
<1>3. batch[w] # <<>> => Len(batch[w]) > 0 /\ HeadOf(w) \in InBatch(w)
  <2> SUFFICES ASSUME batch[w] # <<>> PROVE Len(batch[w]) > 0 /\ HeadOf(w) \in InBatch(w)
    OBVIOUS
  <2>1. Len(batch[w]) > 0
    OBVIOUS
  <2>2. 1 \in 1 .. Len(batch[w])
    BY <1>1, <2>1
  <2> QED BY <1>2, <2>1, <2>2 DEF HeadOf
<1>4. Len(batch[w]) = 1 => InBatch(w) = {HeadOf(w)}
  BY <1>2 DEF HeadOf
<1> QED BY <1>1, <1>2, <1>3, <1>4

(* A worker that moves: Moves changes no operation and no tensor.                     *)
LEMMA MovesKnows ==
  ASSUME NEW w \in Workers, IInv, IInv', Domains, Beginning, Known(w), Moves(w)
  PROVE  Known(w)'
<1> USE DEF requestVars, copyVars, queueVars, workerVars
<1>1. /\ UNCHANGED <<result, dagError, timedOut, tensors, opsDone, phase>>
      /\ pc \in [Workers -> Places] /\ batch \in [Workers -> Seq(Dags)]
      /\ batch[w] \in Seq(Dags) /\ batch'[w] \in Seq(Dags)
      /\ BatchMatchesPlace
  BY MovesEffect DEF IInv, TypeOK
<1>2. \A d, dev : /\ Ready(d, dev)' <=> Ready(d, dev)
                  /\ Batchable(d, dev)' <=> Batchable(d, dev)
                  /\ CurrentOp(d, dev)' = CurrentOp(d, dev)
  BY <1>1 DEF Ready, Batchable, Current, CurrentOp
<1>3. \A d : /\ OpOf(d, w)' = OpOf(d, w)
             /\ Done(d, OpOf(d, w))' <=> Done(d, OpOf(d, w))
  BY <1>1 DEF OpOf, CurrentOp, Done, Dev
<1>4. Dev(w)' = Dev(w)
  BY DEF Dev
<1>5. CASE Wake(w) \/ Sleep(w) \/ NotReady(w) \/ ReturnBatch(w) \/ Reinsert(w)
  <2>1. pc'[w] \in {"wait", "loop"}
    <3>1. CASE Wake(w) \/ Sleep(w)
      BY <1>1, <3>1 DEF Wake, Sleep
    <3>2. CASE NotReady(w)
      BY <1>1, <3>2 DEF NotReady
    <3>3. CASE ReturnBatch(w)
      BY <1>1, <3>3 DEF ReturnBatch
    <3>4. CASE Reinsert(w)
      BY <1>1, <3>4 DEF Reinsert
    <3> QED BY <1>5, <3>1, <3>2, <3>3, <3>4
  <2> QED BY <2>1 DEF Known
<1>6. CASE RunAlone(w)
  <2>1. /\ pc'[w] = "run" /\ batch'[w] = batch[w] /\ Len(batch[w]) = 1
        /\ Ready(HeadOf(w), Dev(w))
    BY <1>1, <1>6 DEF RunAlone, BatchMatchesPlace
  <2>2. InBatch(w) = {HeadOf(w)} /\ InBatch(w)' = InBatch(w)
    BY <1>1, <2>1, BatchFacts DEF InBatch
  <2>3. RunPlace(w)'
    BY <1>2, <1>4, <2>1, <2>2 DEF RunPlace
  <2> QED BY <2>1, <2>3 DEF Known
<1>7. CASE StartScan(w)
  <2>1. /\ pc'[w] = "scan" /\ batch'[w] = batch[w] /\ Len(batch[w]) = 1
        /\ Ready(HeadOf(w), Dev(w)) /\ Batchable(HeadOf(w), Dev(w))
    BY <1>1, <1>7 DEF StartScan, BatchMatchesPlace
  <2>2. InBatch(w) = {HeadOf(w)} /\ InBatch(w)' = InBatch(w)
    BY <1>1, <2>1, BatchFacts DEF InBatch
  <2>3. ScanPlace(w)'
    BY <1>2, <1>4, <2>1, <2>2 DEF ScanPlace
  <2> QED BY <2>1, <2>3 DEF Known
<1>8. ASSUME ScanPlace(w), InBatch(w)' = InBatch(w) PROVE ScanPlace(w)' /\ RunPlace(w)'
  <2>1. ScanPlace(w)'
    BY <1>2, <1>4, <1>8 DEF ScanPlace
  <2>2. \A d \in InBatch(w) : IsRun(d, OpOf(d, w))
    BY <1>8 DEF ScanPlace, Batchable, Current, OpOf, IsRun
  <2>3. RunPlace(w)'
    BY <1>2, <1>3, <1>4, <1>8, <2>2 DEF RunPlace, ScanPlace
  <2> QED BY <2>1, <2>3
<1>9. CASE ScanSkip(w) \/ LaunchBatch(w)
  <2>1. /\ pc[w] = "scan" /\ ScanPlace(w) /\ batch'[w] = batch[w]
        /\ pc'[w] = "scan" \/ pc'[w] = "run"
    BY <1>1, <1>9 DEF ScanSkip, LaunchBatch, Known
  <2>2. InBatch(w)' = InBatch(w)
    BY <2>1 DEF InBatch
  <2> QED BY <1>8, <2>1, <2>2 DEF Known
<1>10. CASE ScanTake(w)
  <2>1. PICK e : e = queue[Dev(w)][position[w]]
    OBVIOUS
  <2>2. /\ pc[w] = "scan" /\ ScanPlace(w) /\ batch'[w] = Append(batch[w], e)
        /\ pc'[w] = "scan" \/ pc'[w] = "run"
        /\ Ready(e, Dev(w)) /\ Batchable(e, Dev(w))
    BY <1>1, <1>10, <2>1 DEF ScanTake, Known, Joins
  <2>3. e \in Dags
    <3>1. Append(batch[w], e) \in Seq(Dags)
      BY <1>1, <2>2
    <3>2. 1 .. Len(batch[w]) + 1 = DOMAIN Append(batch[w], e) /\ Append(batch[w], e)[Len(batch[w]) + 1] = e
      BY <1>1
    <3>3. Len(batch[w]) + 1 \in 1 .. Len(batch[w]) + 1
      BY <1>1
    <3> QED BY <3>1, <3>2, <3>3
  <2>4. InBatch(w)' = InBatch(w) \cup {e}
    BY <1>1, <2>2, <2>3, AppendElements DEF InBatch
  <2>5. ScanPlace(w)'
    BY <1>2, <1>4, <2>2, <2>4 DEF ScanPlace
  <2>6. \A d \in InBatch(w)' : IsRun(d, OpOf(d, w))
    BY <2>2, <2>4 DEF ScanPlace, Batchable, Current, OpOf, IsRun
  <2>7. RunPlace(w)'
    BY <1>3, <2>5, <2>6 DEF RunPlace, ScanPlace
  <2> QED BY <2>2, <2>5, <2>7 DEF Known
<1>11. CASE RunNothing(w)
  <2>1. /\ pc[w] = "run" /\ RunPlace(w) /\ batch'[w] = batch[w] /\ batch[w] # <<>>
        /\ pc'[w] = "finish" /\ ~IsRun(HeadOf(w), OpOf(HeadOf(w), w))
    BY <1>1, <1>11 DEF RunNothing, Known, BatchMatchesPlace
  <2>2. PICK d \in InBatch(w) : d = HeadOf(w)
    BY <1>1, <2>1, BatchFacts
  <2>3. Len(batch[w]) = 1
    <3>1. PICK n : n = Len(batch[w])
      OBVIOUS
    <3>2. n \in Nat /\ n > 0
      BY <1>1, <2>1, <3>1, BatchFacts
    <3>3. ~(n > 1)
      BY <2>1, <2>2, <3>1 DEF RunPlace
    <3>4. n = 1
      BY <3>2, <3>3
    <3> QED BY <3>1, <3>4
  <2>4. InBatch(w) = {d} /\ InBatch(w)' = InBatch(w)
    BY <1>1, <2>1, <2>2, <2>3, BatchFacts DEF InBatch
  <2>5. /\ d \in Dags /\ Accepted(d) /\ OpOf(d, w) \in OpIds(d) /\ OpIds(d) = DOMAIN Program[d]
        /\ Program[d][OpOf(d, w)] \in Operation
    BY OpAt, ProgramAssumption DEF OpIds
  <2>6. Program[d][OpOf(d, w)].cmd \in {"tensorset", "tensorget"}
    BY <2>1, <2>2, <2>5 DEF Operation, IsRun
  <2>7. OutSlots(d, OpOf(d, w)) \subseteq DOMAIN tensors[d]
    <3>1. CASE Program[d][OpOf(d, w)].cmd = "tensorset"
      BY <2>5, <3>1 DEF Beginning
    <3>2. CASE Program[d][OpOf(d, w)].cmd = "tensorget"
      <4>1. Program[d][OpOf(d, w)].outkeys = <<>>
        BY <2>5, <3>2, ProgramAssumption
      <4> QED BY <4>1 DEF OutSlots
    <3> QED BY <2>6, <3>1, <3>2
  <2>8. InSlots(d, OpOf(d, w)) \subseteq DOMAIN tensors[d]
    BY <2>1, <2>2 DEF RunPlace, Ready, OpOf
  <2>9. Done(d, OpOf(d, w))
    BY <2>1, <2>2, <2>7, <2>8 DEF Done
  <2>10. FinishPlace(w)'
    BY <1>3, <2>4, <2>9 DEF FinishPlace
  <2> QED BY <2>1, <2>10 DEF Known
<1> QED BY <1>5, <1>6, <1>7, <1>9, <1>10, <1>11 DEF Moves, Scan

(* What is not done yet when the backend is called: the operations of the batch are    *)
(* all executions, and none of them has a result.                                     *)
LEMMA NotYetRun ==
  ASSUME NEW w \in Workers, IInv, Known(w), ResultsBehind,
         pc[w] = "run", IsRun(HeadOf(w), OpOf(HeadOf(w), w)),
         NEW d \in InBatch(w)
  PROVE  IsRun(d, OpOf(d, w)) /\ result[d][OpOf(d, w)] = "none"
<1>1. batch[w] \in Seq(Dags) /\ batch[w] # <<>>
  BY DEF IInv, TypeOK, BatchMatchesPlace
<1>2. IsRun(d, OpOf(d, w))
  <2>1. Len(batch[w]) = 1 \/ Len(batch[w]) > 1
    <3>1. PICK n : n = Len(batch[w])
      OBVIOUS
    <3>2. n \in Nat /\ n > 0
      BY <1>1, <3>1, BatchFacts
    <3>3. n = 1 \/ n > 1
      BY <3>2
    <3> QED BY <3>1, <3>3
  <2>2. CASE Len(batch[w]) = 1
    <3>1. d = HeadOf(w)
      BY <1>1, <2>2, BatchFacts
    <3> QED BY <3>1
  <2>3. CASE Len(batch[w]) > 1
    BY <2>3 DEF Known, RunPlace
  <2> QED BY <2>1, <2>2, <2>3
<1>3. /\ d \in Dags /\ OpOf(d, w) \in OpIds(d)
      /\ Program[d][OpOf(d, w)].device = Dev(w)
      /\ opsDone[d][Dev(w)] \in Nat /\ Rank(d, OpOf(d, w)) = opsDone[d][Dev(w)]
  BY OpAt
<1>4. ~Past(d, OpOf(d, w))
  BY <1>3 DEF Past
<1>5. ASSUME NEW v \in Workers, AtOp(v, d, OpOf(d, w)), pc[v] \in {"store", "finish"}
      PROVE  FALSE
  <2>1. d \in InBatch(v) /\ Dev(v) = Dev(w)
    BY <1>3, <1>5 DEF AtOp
  <2>2. v = w
    BY <2>1, OneHolder
  <2> QED BY <1>5, <2>2
<1> QED BY <1>2, <1>3, <1>4, <1>5 DEF ResultsBehind

(* A worker whose step does more.                                                     *)
LEMMA OwnKnows ==
  ASSUME NEW w \in Workers, IInv, IInv', Domains, Known(w), TimeoutFlagReturned,
         Pop(w) \/ RunSucceeds(w) \/ RunFails(w) \/ Store(w) \/ FinishOne(w)
  PROVE  Known(w)'
<1>1. /\ pc \in [Workers -> Places] /\ batch \in [Workers -> Seq(Dags)]
      /\ batch[w] \in Seq(Dags) /\ batch'[w] \in Seq(Dags)
      /\ dagError \in [Dags -> BOOLEAN]
      /\ BatchMatchesPlace /\ Dev(w)' = Dev(w)
  BY DEF IInv, TypeOK, Dev
<1>2. CASE Pop(w)
  <2>1. PICK d \in Dags : /\ batch'[w] = <<d>>
                          /\ \/ pc'[w] = "finish" /\ Halted(d)'
                             \/ pc'[w] = "prepare"
    BY <1>2, PopEffect
  <2>2. InBatch(w)' = {d}
    BY <2>1, SingleElement DEF InBatch
  <2>3. Halted(d)' => FinishPlace(w)'
    BY <2>2 DEF FinishPlace
  <2> QED BY <2>1, <2>3 DEF Known
<1>3. CASE RunSucceeds(w)
  <2>1. /\ pc[w] = "run" /\ RunPlace(w) /\ batch' = batch /\ batch[w] # <<>>
        /\ UNCHANGED <<tensors, opsDone>>
        /\ pc'[w] = "store" /\ position'[w] = 1
        /\ outputs'[w] = [k \in DOMAIN batch[w] |-> Returned(batch[w][k], OpOf(batch[w][k], w))]
        /\ result' = [d \in Dags |-> IF d \in InBatch(w) THEN [result[d] EXCEPT ![OpOf(d, w)] = "ok"]
                                     ELSE result[d]]
    BY <1>1, <1>3 DEF RunSucceeds, Known, BatchMatchesPlace, IInv, TypeOK, Domains, copyVars
  <2>2. 1 <= Len(batch[w]) /\ \A k \in DOMAIN batch[w] : ~(k < 1)
    BY <1>1, <2>1, BatchFacts
  <2>3. ASSUME NEW d \in InBatch(w)
        PROVE  /\ Ready(d, Dev(w))'
               /\ result'[d][OpOf(d, w)'] = "ok"
    <3>1. OpOf(d, w)' = OpOf(d, w) /\ CurrentOp(d, Dev(w))' = CurrentOp(d, Dev(w))
      BY <2>1 DEF OpOf, CurrentOp, Dev
    <3>2. Ready(d, Dev(w))'
      BY <2>1, <3>1 DEF RunPlace, Ready, Dev
    <3>3. d \in Dags /\ OpOf(d, w) \in OpIds(d) /\ result[d] \in [OpIds(d) -> {"none", "ok", "err"}]
      BY OpAt DEF IInv, TypeOK
    <3> QED BY <2>1, <3>1, <3>2, <3>3
  <2>4. InBatch(w)' = InBatch(w)
    BY <2>1 DEF InBatch
  <2>5. StorePlace(w)'
    <3>1. position'[w] <= Len(batch'[w]) /\ DOMAIN outputs'[w] = DOMAIN batch'[w]
      BY <2>1, <2>2
    <3>2. \A k \in DOMAIN batch'[w] : ~(k < position'[w])
      BY <2>1, <2>2
    <3>3. \A d \in InBatch(w) : Ready(d, Dev(w))' /\ result'[d][OpOf(d, w)'] = "ok"
      BY <2>3
    <3> QED BY <1>1, <2>4, <3>1, <3>2, <3>3 DEF StorePlace
  <2> QED BY <2>1, <2>5 DEF Known
<1>4. CASE RunFails(w)
  <2>1. /\ batch' = batch /\ pc'[w] = "finish"
        /\ dagError' = [d \in Dags |-> dagError[d] \/ d \in InBatch(w)]
    BY <1>1, <1>4 DEF RunFails
  <2>2. InBatch(w)' = InBatch(w)
    BY <2>1 DEF InBatch
  <2>3. \A d \in InBatch(w) : d \in Dags
    BY OpAt
  <2>4. \A d \in InBatch(w) : Halted(d)'
    BY <2>1, <2>3 DEF Halted
  <2>5. FinishPlace(w)'
    BY <2>2, <2>4 DEF FinishPlace
  <2> QED BY <2>1, <2>5 DEF Known
<1>5. CASE Store(w)
  <2> DEFINE p == position[w]
  <2>1. /\ p \in DOMAIN batch[w] /\ pc[w] = "store" /\ StorePlace(w)
        /\ UNCHANGED <<result, opsDone, outputs, batch>>
        /\ \A e \in Dags : DOMAIN tensors[e] \subseteq DOMAIN tensors'[e]
        /\ OutSlots(batch[w][p], OpOf(batch[w][p], w)) \subseteq DOMAIN tensors'[batch[w][p]]
        /\ position'[w] = p + 1
        /\ pc'[w] = IF p = Len(batch[w]) THEN "finish" ELSE "store"
    <3>1. \A e \in Dags : DOMAIN tensors[e] \subseteq DOMAIN tensors'[e]
      BY <1>5, StoreEffect
    <3> QED BY <1>5, <3>1, StoreEffect DEF Known
  <2>2. p \in Nat /\ Len(batch[w]) \in Nat /\ DOMAIN batch[w] = 1 .. Len(batch[w])
    BY <1>1, <2>1, BatchFacts
  <2> HIDE DEF p
  <2>3. \A d : OpOf(d, w)' = OpOf(d, w) /\ CurrentOp(d, Dev(w))' = CurrentOp(d, Dev(w))
    BY <2>1 DEF OpOf, CurrentOp, Dev
  <2>4. ASSUME NEW d \in InBatch(w)
        PROVE  /\ Ready(d, Dev(w))'
               /\ result'[d][OpOf(d, w)] = "ok"
               /\ \A k \in DOMAIN batch[w] : batch[w][k] = d /\ k < p + 1 =>
                    OutSlots(d, OpOf(d, w)) \subseteq DOMAIN tensors'[d]
    <3>1. d \in Dags
      BY OpAt
    <3>2. Ready(d, Dev(w)) /\ result[d][OpOf(d, w)] = "ok"
      BY <2>1 DEF StorePlace
    <3>3. Ready(d, Dev(w))'
      BY <2>1, <2>3, <3>1, <3>2 DEF Ready, Dev
    <3>4. ASSUME NEW k \in DOMAIN batch[w], batch[w][k] = d, k < p + 1
          PROVE  OutSlots(d, OpOf(d, w)) \subseteq DOMAIN tensors'[d]
      <4>1. k < p \/ k = p
        BY <2>2, <3>4
      <4>2. CASE k < p
        <5>1. OutSlots(d, OpOf(d, w)) \subseteq DOMAIN tensors[d]
          BY <2>1, <3>4, <4>2 DEF StorePlace, p
        <5> QED BY <2>1, <3>1, <5>1
      <4>3. CASE k = p
        BY <2>1, <3>4, <4>3
      <4> QED BY <4>1, <4>2, <4>3
    <3> QED BY <2>1, <3>2, <3>3, <3>4
  <2>5. CASE p = Len(batch[w])
    <3>1. pc'[w] = "finish"
      BY <2>1, <2>5
    <3>2. ASSUME NEW d \in InBatch(w) PROVE Done(d, OpOf(d, w))'
      <4>1. PICK k \in DOMAIN batch[w] : batch[w][k] = d
        BY <1>1, BatchFacts
      <4>2. k < p + 1
        BY <2>2, <2>5
      <4>3. /\ Ready(d, Dev(w))' /\ result'[d][OpOf(d, w)] = "ok"
            /\ OutSlots(d, OpOf(d, w)) \subseteq DOMAIN tensors'[d]
        BY <2>4, <4>1, <4>2
      <4> QED BY <2>3, <4>3 DEF Done, Ready, OpOf, Dev
    <3>3. FinishPlace(w)'
      BY <2>1, <3>2 DEF FinishPlace, InBatch
    <3> QED BY <3>1, <3>3 DEF Known
  <2>6. CASE p # Len(batch[w])
    <3>1. pc'[w] = "store"
      BY <2>1, <2>6
    <3>2. p + 1 <= Len(batch[w])
      BY <2>1, <2>2, <2>6
    <3>3. StorePlace(w)'
      <4>1. position'[w] <= Len(batch'[w]) /\ DOMAIN outputs'[w] = DOMAIN batch'[w]
        BY <2>1, <3>2 DEF StorePlace
      <4>2. InBatch(w)' = InBatch(w)
        BY <2>1 DEF InBatch
      <4> QED BY <1>1, <2>1, <2>3, <2>4, <4>1, <4>2 DEF StorePlace
    <3> QED BY <3>1, <3>3 DEF Known
  <2> QED BY <2>5, <2>6
<1>6. CASE FinishOne(w)
  <2>1. PICK d \in Dags :
          /\ d \in InBatch(w) /\ InBatch(w)' = InBatch(w) \ {d}
          /\ \A e \in Dags, dev \in Devices :
               ~(e = d /\ dev = Dev(w)) => opsDone'[e][dev] = opsDone[e][dev]
          /\ UNCHANGED <<result, dagError, timedOut, tensors>>
          /\ pc[w] = "finish" /\ pc'[w] \in {"finish", "reinsert"}
    BY <1>6, FinishEffect
  <2>2. ASSUME NEW e \in InBatch(w) \ {d} PROVE Halted(e)' \/ Done(e, OpOf(e, w))'
    <3>1. e \in Dags /\ Dev(w) \in Devices
      BY OpAt
    <3>2. OpOf(e, w)' = OpOf(e, w)
      BY <2>1, <3>1 DEF OpOf, CurrentOp, Dev
    <3>3. Halted(e) \/ Done(e, OpOf(e, w))
      BY <2>1 DEF Known, FinishPlace
    <3> QED BY <2>1, <3>2, <3>3 DEF Halted, Done
  <2>3. FinishPlace(w)'
    BY <2>1, <2>2 DEF FinishPlace
  <2> QED BY <2>1, <2>3 DEF Known
<1> QED BY <1>2, <1>3, <1>4, <1>5, <1>6

-----------------------------------------------------------------------------
(* What has happened to the requests.                                                 *)
RequestInv == Beginning /\ ErrorsAreTrue /\ ResultsBehind /\ DoneBehind

(* A step that runs no operation, completes none and accepts no request.               *)
Quiet ==
  /\ UNCHANGED <<result, dagError, firstError, opsDone>>
  /\ \A d \in Dags :
       /\ Accepted(d)' <=> Accepted(d)
       /\ timedOut[d] => timedOut'[d]
       /\ ~Accepted(d) => (timedOut'[d] <=> timedOut[d])
       /\ DOMAIN tensors[d] \subseteq DOMAIN tensors'[d]
       /\ \A dev \in Devices : HasCopy(d, dev)' <=> HasCopy(d, dev)
  /\ \A v \in Workers : pc[v] \in {"store", "finish"} =>
       pc'[v] \in {"store", "finish"} /\ batch'[v] = batch[v]

LEMMA QuietKeeps ==
  ASSUME IInv, RequestInv, Quiet
  PROVE  RequestInv'
<1>1. \A d : \A i : /\ Past(d, i)' <=> Past(d, i)
                    /\ Failed(d)' <=> Failed(d)
  BY DEF Quiet, Past, Failed
<1>2. ASSUME NEW d \in Dags PROVE Halted(d) => Halted(d)'
  BY DEF Quiet, Halted
<1>3. ASSUME NEW d \in Dags PROVE ~Accepted(d) => (Halted(d)' <=> Halted(d))
  BY DEF Quiet, Halted
<1>4. ASSUME NEW d \in Dags, NEW i \in OpIds(d), Done(d, i) PROVE Done(d, i)'
  BY <1>4 DEF Quiet, Done
<1>5. Beginning'
  BY <1>3 DEF RequestInv, Beginning, Quiet
<1>6. ErrorsAreTrue'
  BY <1>1 DEF RequestInv, ErrorsAreTrue, Quiet
<1>7. ResultsBehind'
  <2> SUFFICES ASSUME NEW d \in Dags, NEW i \in OpIds(d)
               PROVE  /\ ~IsRun(d, i) => result'[d][i] # "err"
                      /\ IsRun(d, i) /\ result'[d][i] # "none" =>
                           \/ Past(d, i)'
                           \/ \E w \in Workers : AtOp(w, d, i)' /\ pc'[w] \in {"store", "finish"}
    BY DEF ResultsBehind
  <2>1. \A w \in Workers : AtOp(w, d, i) /\ pc[w] \in {"store", "finish"} =>
          AtOp(w, d, i)' /\ pc'[w] \in {"store", "finish"}
    BY DEF Quiet, AtOp, InBatch, OpOf, CurrentOp, Dev
  <2>2. result'[d][i] = result[d][i]
    BY DEF Quiet
  <2> QED BY <1>1, <2>1, <2>2 DEF RequestInv, ResultsBehind
<1>8. DoneBehind'
  <2> SUFFICES ASSUME NEW d \in Dags, Accepted(d)', ~Halted(d)'
               PROVE  /\ \A i \in OpIds(d) : Past(d, i)' => Done(d, i)'
                      /\ \A dev \in DevicesOf(d) :
                           ~HasCopy(d, dev)' => opsDone'[d][dev] = Cardinality(OpsOn(d, dev))
    BY DEF DoneBehind
  <2>1. Accepted(d) /\ ~Halted(d)
    BY <1>2 DEF Quiet
  <2>2. \A i \in OpIds(d) : Past(d, i)' => Done(d, i)'
    BY <1>1, <1>4, <2>1 DEF RequestInv, DoneBehind
  <2>3. \A dev \in DevicesOf(d) : dev \in Devices
    BY ProgramFacts
  <2>4. \A dev \in DevicesOf(d) :
          ~HasCopy(d, dev)' => opsDone'[d][dev] = Cardinality(OpsOn(d, dev))
    BY <2>1, <2>3 DEF RequestInv, DoneBehind, Quiet
  <2> QED BY <2>2, <2>4
<1> QED BY <1>5, <1>6, <1>7, <1>8 DEF RequestInv

LEMMA QuietSteps ==
  ASSUME IInv, IInv', Domains, \A w \in Workers : Known(w), TimeoutFlagReturned,
         \/ \E w \in Workers : Moves(w) \/ Pop(w) \/ Store(w)
         \/ \E d \in Dags : /\ Outside(d)
                            /\ ~Submit(d)
  PROVE  Quiet /\ Domains'
<1> USE DEF requestVars, copyVars, queueVars, workerVars
<1>1. CASE \E w \in Workers : Moves(w)
  BY <1>1, MovesEffect DEF Quiet, Accepted
<1>2. CASE \E w \in Workers : Pop(w)
  <2>1. PICK w \in Workers : Pop(w)
    BY <1>2
  <2>2. PICK d \in Dags :
          /\ batch'[w] = <<d>>
          /\ UNCHANGED <<phase, result, dagError, firstError, tensors, opsDone>>
          /\ \A e \in Dags : timedOut[e] => timedOut'[e]
          /\ \A e \in Dags : timedOut'[e] # timedOut[e] => e = d
          /\ pc[w] = "loop"
          /\ \A v \in Workers : v # w => pc'[v] = pc[v] /\ batch'[v] = batch[v]
          /\ \A e \in Dags, dev \in Devices : HasCopy(e, dev)' <=> HasCopy(e, dev)
          /\ Domains'
    BY <2>1, PopEffect
  <2>3. d \in InBatch(w)'
    BY <2>2, SingleElement DEF InBatch
  <2>4. phase'[d] = "running"
    <3>1. /\ Dev(w) \in Devices /\ HasCopy(d, Dev(w))'
      BY <2>3, DevFacts DEF HasCopy, Held, InBatch, Dev
    <3>2. Copies(d)' # {}
      BY <3>1 DEF Copies
    <3> QED BY <3>2 DEF IInv, FinishedOnce
  <2>5. Accepted(d)
    BY <2>2, <2>4 DEF Accepted
  <2>6. \A e \in Dags : ~Accepted(e) => (timedOut'[e] <=> timedOut[e])
    BY <2>2, <2>5
  <2> QED BY <2>2, <2>6 DEF Quiet, Accepted
<1>3. CASE \E w \in Workers : Store(w)
  <2>1. PICK w \in Workers : Store(w)
    BY <1>3
  <2>2. /\ UNCHANGED <<phase, result, dagError, firstError, timedOut, opsDone, batch>>
        /\ pc'[w] \in {"store", "finish"}
        /\ \A v \in Workers : v # w => pc'[v] = pc[v]
        /\ \A e \in Dags, dev \in Devices : HasCopy(e, dev)' <=> HasCopy(e, dev)
        /\ Domains'
    BY <2>1, StoreEffect
  <2>3. \A e \in Dags : DOMAIN tensors[e] \subseteq DOMAIN tensors'[e]
    BY <2>1, StoreEffect
  <2> QED BY <2>2, <2>3 DEF Quiet, Accepted
<1>4. CASE \E d \in Dags : Reject(d) \/ Reply(d)
  <2>1. PICK d \in Dags : Reject(d) \/ Reply(d)
    BY <1>4
  <2>2. /\ \A e \in Dags : Accepted(e)' <=> Accepted(e)
        /\ UNCHANGED <<result, dagError, firstError, timedOut, tensors, opsDone, pc, batch, toPush,
                       queue, unfinished, outputs, batchRows>>
    BY <2>1 DEF Reject, Reply, Accepted, IInv, TypeOK
  <2>3. DOMAIN answer' = Dags
    BY <2>1 DEF Reject, Reply, Domains
  <2>4. \A e, dev : HasCopy(e, dev)' <=> HasCopy(e, dev)
    BY <2>2 DEF HasCopy, Held, Dev
  <2> QED BY <2>2, <2>3, <2>4 DEF Quiet, Domains
<1>5. CASE \E d \in Dags : \E dev \in Devices : Push(d, dev)
  <2>1. PICK d \in Dags, dev \in Devices : Push(d, dev)
    BY <1>5
  <2>2. CopiesKept
    BY <2>1, PushMoves DEF IInv
  <2>3. UNCHANGED <<phase, result, dagError, firstError, timedOut, tensors, opsDone, pc, batch, answer,
                    outputs, batchRows>>
    BY <2>1 DEF Push
  <2> QED BY <2>2, <2>3 DEF Quiet, Domains, Accepted, CopiesKept
<1>6. CASE \E d \in Dags : \E dev \in Devices, delay \in {"timeout", "minbatch"} : Tick(d, dev, delay)
  <2>1. UNCHANGED <<phase, result, dagError, firstError, timedOut, tensors, opsDone, pc, batch, answer,
                    outputs, batchRows, toPush, queue, unfinished>>
    BY <1>6 DEF Tick
  <2>2. \A e, dev : HasCopy(e, dev)' <=> HasCopy(e, dev)
    BY <2>1 DEF HasCopy, Held, Dev
  <2> QED BY <2>1, <2>2 DEF Quiet, Domains, Accepted
<1> QED BY <1>1, <1>2, <1>3, <1>4, <1>5, <1>6 DEF Outside

(* A request is accepted: AI.TENSORSET has run, and nothing else has.                  *)
LEMMA SubmitKeeps ==
  ASSUME NEW r \in Dags, IInv, RequestInv, Domains, Submit(r)
  PROVE  RequestInv' /\ Domains'
<1> USE DEF requestVars, copyVars, queueVars, workerVars
<1>1. /\ phase \in [Dags -> Phases] /\ DOMAIN result = Dags /\ DOMAIN tensors = Dags
      /\ toPush \in [Dags -> SUBSET Devices] /\ opsDone \in [Dags -> [Devices -> Nat]]
      /\ dagError \in [Dags -> BOOLEAN]
  BY DEF IInv, TypeOK, Domains
<1>2. /\ phase[r] = "new" /\ WellFormed(r)
      /\ UNCHANGED <<dagError, firstError, timedOut, answer, opsDone, queue, pc, batch, unfinished,
                     outputs, batchRows>>
      /\ phase'[r] = "running" /\ tensors'[r] = InitialTensors(r) /\ toPush'[r] = DevicesOf(r)
      /\ result'[r] = [i \in OpIds(r) |-> IF Program[r][i].cmd = "tensorset" THEN "ok" ELSE "none"]
      /\ \A d \in Dags : d # r => /\ phase'[d] = phase[d] /\ tensors'[d] = tensors[d]
                                  /\ result'[d] = result[d] /\ toPush'[d] = toPush[d]
      /\ DOMAIN tensors' = Dags
  BY <1>1 DEF Submit
<1>3. /\ ~Accepted(r) /\ Accepted(r)' /\ ~Halted(r)
      /\ \A d \in Dags : d # r => (Accepted(d)' <=> Accepted(d))
  BY <1>2 DEF Accepted, RequestInv, Beginning
<1>4. \A d \in Dags : Halted(d)' <=> Halted(d)
  BY <1>2 DEF Halted
<1>5. \A d \in Dags : d # r =>
        /\ \A i : Past(d, i)' <=> Past(d, i)
        /\ \A i : Done(d, i)' <=> Done(d, i)
        /\ Failed(d)' <=> Failed(d)
        /\ \A dev : HasCopy(d, dev)' <=> HasCopy(d, dev)
        /\ \A i, w : AtOp(w, d, i)' <=> AtOp(w, d, i)
  BY <1>2 DEF Past, Done, Failed, HasCopy, Held, AtOp, InBatch, OpOf, CurrentOp, Dev
<1>6. Beginning'
  <2>1. ASSUME NEW d \in Dags, d # r
        PROVE  /\ ~Accepted(d)' => /\ ~Halted(d)'
                                   /\ \A i \in OpIds(d) : result'[d][i] = "none"
               /\ Accepted(d)' =>
                    /\ WellFormed(d)
                    /\ LoadSlots(d) \subseteq DOMAIN tensors'[d]
                    /\ \A i \in OpIds(d) : Program[d][i].cmd = "tensorset" =>
                         result'[d][i] = "ok" /\ OutSlots(d, i) \subseteq DOMAIN tensors'[d]
    BY <1>2, <1>3, <1>4, <2>1 DEF RequestInv, Beginning
  <2>2. LoadSlots(r) \subseteq DOMAIN tensors'[r]
    BY <1>2 DEF InitialTensors, LoadSlots
  <2>3. ASSUME NEW i \in OpIds(r), Program[r][i].cmd = "tensorset"
        PROVE  result'[r][i] = "ok" /\ OutSlots(r, i) \subseteq DOMAIN tensors'[r]
    BY <1>2, <2>3 DEF InitialTensors
  <2> QED BY <1>2, <1>3, <2>1, <2>2, <2>3 DEF Beginning
<1>7. ErrorsAreTrue'
  <2>1. ~dagError'[r] /\ ~Failed(r)'
    BY <1>2, <1>3 DEF Halted, Failed
  <2>2. ASSUME NEW d \in Dags, d # r
        PROVE  /\ dagError'[d] <=> Failed(d)'
               /\ dagError'[d] => firstError'[d] \in OpIds(d) /\ result'[d][firstError'[d]] = "err"
    BY <1>2, <1>5, <2>2 DEF RequestInv, ErrorsAreTrue
  <2> QED BY <2>1, <2>2 DEF ErrorsAreTrue
<1>8. ResultsBehind'
  <2>1. ASSUME NEW i \in OpIds(r)
        PROVE  result'[r][i] # "err" /\ ~(IsRun(r, i) /\ result'[r][i] # "none")
    BY <1>2 DEF IsRun
  <2>2. ASSUME NEW d \in Dags, d # r, NEW i \in OpIds(d)
        PROVE  /\ ~IsRun(d, i) => result'[d][i] # "err"
               /\ IsRun(d, i) /\ result'[d][i] # "none" =>
                    \/ Past(d, i)'
                    \/ \E w \in Workers : AtOp(w, d, i)' /\ pc'[w] \in {"store", "finish"}
    BY <1>2, <1>5, <2>2 DEF RequestInv, ResultsBehind
  <2> QED BY <2>1, <2>2 DEF ResultsBehind
<1>9. DoneBehind'
  <2>1. ASSUME NEW i \in OpIds(r) PROVE ~Past(r, i)'
    <3>1. Program[r][i].device \in Devices
      BY ProgramFacts DEF DevicesOf
    <3>2. opsDone[r][Program[r][i].device] = 0
      BY <1>2, <3>1 DEF IInv, NewIsUntouched
    <3>3. Rank(r, i) \in Nat
      BY RankFacts
    <3> QED BY <1>2, <3>2, <3>3 DEF Past
  <2>2. \A dev \in DevicesOf(r) : HasCopy(r, dev)'
    BY <1>2 DEF HasCopy
  <2>3. ASSUME NEW d \in Dags, d # r, Accepted(d)', ~Halted(d)'
        PROVE  /\ \A i \in OpIds(d) : Past(d, i)' => Done(d, i)'
               /\ \A dev \in DevicesOf(d) :
                    ~HasCopy(d, dev)' => opsDone'[d][dev] = Cardinality(OpsOn(d, dev))
    <3>1. Accepted(d) /\ ~Halted(d)
      BY <1>3, <1>4, <2>3
    <3> QED BY <1>2, <1>5, <2>3, <3>1 DEF RequestInv, DoneBehind
  <2> QED BY <2>1, <2>2, <2>3 DEF DoneBehind
<1>10. Domains'
  BY <1>2 DEF Domains
<1> QED BY <1>6, <1>7, <1>8, <1>9, <1>10 DEF RequestInv

(* The backend returns: the operations of the batch get a result, which none of them   *)
(* had.                                                                               *)
LEMMA RunKeeps ==
  ASSUME NEW w \in Workers, IInv, RequestInv, Domains, Known(w), RunSucceeds(w) \/ RunFails(w)
  PROVE  RequestInv' /\ Domains'
<1> USE DEF requestVars, copyVars, queueVars, workerVars
<1>0. /\ UNCHANGED <<phase, timedOut, tensors, opsDone, batch>>
      /\ pc[w] = "run" /\ IsRun(HeadOf(w), OpOf(HeadOf(w), w))
      /\ \A v \in Workers : v # w => pc'[v] = pc[v]
      /\ \A d \in Dags : dagError[d] => dagError'[d]
      /\ \A d \in Dags, dev \in Devices : HasCopy(d, dev)' <=> HasCopy(d, dev)
      /\ Domains'
  BY RunEffect
<1> DEFINE Results(o) ==
             result' = [d \in Dags |-> IF d \in InBatch(w) THEN [result[d] EXCEPT ![OpOf(d, w)] = o]
                                       ELSE result[d]]
           Errors(o) ==
             /\ o = "ok" => dagError' = dagError /\ firstError' = firstError
             /\ o = "err" => \A d \in Dags :
                  /\ d \in InBatch(w) => dagError'[d]
                  /\ d \notin InBatch(w) => (dagError'[d] <=> dagError[d]) /\ firstError'[d] = firstError[d]
                  /\ dagError[d] => firstError'[d] = firstError[d]
                  /\ d \in InBatch(w) /\ ~dagError[d] => firstError'[d] = OpOf(d, w)
<1>1. PICK outcome \in {"ok", "err"} : Results(outcome) /\ Errors(outcome)
  <2>1. CASE RunSucceeds(w)
    <3>1. Results("ok") /\ Errors("ok")
      BY <2>1 DEF RunSucceeds
    <3> QED BY <3>1
  <2>2. CASE RunFails(w)
    <3>1. Results("err")
      BY <2>2 DEF RunFails
    <3>2. /\ dagError' = [d \in Dags |-> dagError[d] \/ d \in InBatch(w)]
          /\ firstError' = [d \in Dags |-> IF d \in InBatch(w) /\ ~dagError[d] THEN OpOf(d, w)
                                           ELSE firstError[d]]
      BY <2>2 DEF RunFails
    <3>3. dagError \in [Dags -> BOOLEAN]
      BY DEF IInv, TypeOK
    <3>4. ASSUME NEW d \in Dags
          PROVE  /\ d \in InBatch(w) => dagError'[d]
                 /\ d \notin InBatch(w) => (dagError'[d] <=> dagError[d]) /\ firstError'[d] = firstError[d]
                 /\ dagError[d] => firstError'[d] = firstError[d]
                 /\ d \in InBatch(w) /\ ~dagError[d] => firstError'[d] = OpOf(d, w)
      BY <3>2, <3>3
    <3>5. Errors("err")
      BY <3>4
    <3> QED BY <3>1, <3>5
  <2> QED BY <2>1, <2>2
<1>2. /\ result' = [d \in Dags |-> IF d \in InBatch(w)
                                   THEN [result[d] EXCEPT ![OpOf(d, w)] = outcome]
                                   ELSE result[d]]
      /\ outcome \in {"ok", "err"}
  BY <1>1
<1>3. /\ outcome = "ok" \/ outcome = "err"
      /\ outcome = "ok" => dagError' = dagError /\ firstError' = firstError
      /\ outcome = "err" => \A d \in Dags :
           /\ d \in InBatch(w) => dagError'[d]
           /\ d \notin InBatch(w) => (dagError'[d] <=> dagError[d]) /\ firstError'[d] = firstError[d]
           /\ dagError[d] => firstError'[d] = firstError[d]
           /\ d \in InBatch(w) /\ ~dagError[d] => firstError'[d] = OpOf(d, w)
  BY <1>1
<1> HIDE DEF Results, Errors
<1>4. \A d \in Dags : result[d] \in [OpIds(d) -> {"none", "ok", "err"}]
  BY DEF IInv, TypeOK
<1>5. ASSUME NEW d \in InBatch(w)
      PROVE  /\ d \in Dags /\ Accepted(d) /\ OpOf(d, w) \in OpIds(d)
             /\ IsRun(d, OpOf(d, w)) /\ result[d][OpOf(d, w)] = "none" /\ ~Past(d, OpOf(d, w))
             /\ AtOp(w, d, OpOf(d, w))
  <2>1. /\ d \in Dags /\ Accepted(d) /\ OpOf(d, w) \in OpIds(d)
        /\ Program[d][OpOf(d, w)].device = Dev(w)
        /\ opsDone[d][Dev(w)] \in Nat /\ Rank(d, OpOf(d, w)) = opsDone[d][Dev(w)]
    BY OpAt
  <2>2. IsRun(d, OpOf(d, w)) /\ result[d][OpOf(d, w)] = "none"
    BY <1>0, NotYetRun DEF RequestInv
  <2> QED BY <2>1, <2>2 DEF Past, AtOp
<1>6. ASSUME NEW d \in InBatch(w)
      PROVE  /\ result'[d][OpOf(d, w)] = outcome
             /\ \A i \in OpIds(d) : i # OpOf(d, w) => result'[d][i] = result[d][i]
  BY <1>2, <1>4, <1>5
<1>7. \A d \in Dags : d \notin InBatch(w) => result'[d] = result[d]
  BY <1>2
<1>8. \A d \in Dags : /\ Accepted(d)' <=> Accepted(d)
                      /\ Halted(d) => Halted(d)'
                      /\ ~Accepted(d) => d \notin InBatch(w)
  BY <1>0, <1>5 DEF Accepted, Halted
<1>9. \A d : \A i : Past(d, i)' <=> Past(d, i)
  BY <1>0 DEF Past
<1>10. \A v \in Workers : \A d, i : AtOp(v, d, i)' <=> AtOp(v, d, i)
  BY <1>0 DEF AtOp, InBatch, OpOf, CurrentOp, Dev
<1>11. pc'[w] \in {"store", "finish"}
  BY DEF RunSucceeds, RunFails, IInv, TypeOK
<1>12. Beginning'
  <2> SUFFICES ASSUME NEW d \in Dags
               PROVE  /\ ~Accepted(d)' => /\ ~Halted(d)'
                                          /\ \A i \in OpIds(d) : result'[d][i] = "none"
                      /\ Accepted(d)' =>
                           /\ WellFormed(d)
                           /\ LoadSlots(d) \subseteq DOMAIN tensors'[d]
                           /\ \A i \in OpIds(d) : Program[d][i].cmd = "tensorset" =>
                                result'[d][i] = "ok" /\ OutSlots(d, i) \subseteq DOMAIN tensors'[d]
    BY DEF Beginning
  <2>1. ASSUME ~Accepted(d) PROVE ~Halted(d)' /\ \A i \in OpIds(d) : result'[d][i] = "none"
    <3>1. d \notin InBatch(w) /\ ~Halted(d) /\ result'[d] = result[d]
      BY <1>7, <1>8, <2>1 DEF RequestInv, Beginning
    <3>2. ~dagError'[d] /\ ~timedOut'[d]
      BY <1>0, <1>3, <3>1 DEF Halted
    <3> QED BY <2>1, <3>1, <3>2 DEF Halted, RequestInv, Beginning
  <2>2. ASSUME Accepted(d), NEW i \in OpIds(d), Program[d][i].cmd = "tensorset"
        PROVE  result'[d][i] = "ok"
    <3>1. result[d][i] = "ok"
      BY <2>2 DEF RequestInv, Beginning
    <3>2. d \in InBatch(w) => i # OpOf(d, w)
      BY <1>5, <2>2 DEF IsRun
    <3> QED BY <1>6, <1>7, <3>1, <3>2
  <2> QED BY <1>0, <1>8, <2>1, <2>2 DEF RequestInv, Beginning
<1>13. ErrorsAreTrue'
  <2> SUFFICES ASSUME NEW d \in Dags
               PROVE  /\ dagError'[d] <=> Failed(d)'
                      /\ dagError'[d] => firstError'[d] \in OpIds(d) /\ result'[d][firstError'[d]] = "err"
    BY DEF ErrorsAreTrue
  <2>1. /\ dagError[d] <=> Failed(d)
        /\ dagError[d] => firstError[d] \in OpIds(d) /\ result[d][firstError[d]] = "err"
    BY DEF RequestInv, ErrorsAreTrue
  <2>2. CASE d \notin InBatch(w)
    <3>1. result'[d] = result[d] /\ (Failed(d)' <=> Failed(d))
      BY <1>7, <2>2 DEF Failed
    <3>2. firstError'[d] = firstError[d] /\ (dagError'[d] <=> dagError[d])
      BY <1>3, <2>2
    <3> QED BY <2>1, <3>1, <3>2
  <2>3. CASE d \in InBatch(w)
    <3>1. \A i \in OpIds(d) : result[d][i] = "err" => result'[d][i] = "err"
      BY <1>5, <1>6, <2>3
    <3>2. dagError[d] => dagError'[d] /\ Failed(d)' /\ firstError'[d] = firstError[d]
      BY <1>0, <1>3, <2>1, <3>1 DEF Failed
    <3>3. dagError[d] => firstError'[d] \in OpIds(d) /\ result'[d][firstError'[d]] = "err"
      BY <2>1, <3>1, <3>2
    <3>4. CASE outcome = "err"
      <4>1. dagError'[d] /\ Failed(d)'
        BY <1>5, <1>6, <1>3, <2>3, <3>4 DEF Failed
      <4>2. ~dagError[d] => firstError'[d] \in OpIds(d) /\ result'[d][firstError'[d]] = "err"
        BY <1>5, <1>6, <1>3, <2>3, <3>4
      <4> QED BY <3>3, <4>1, <4>2
    <3>5. CASE outcome = "ok"
      <4>1. Failed(d)' => Failed(d)
        BY <1>6, <2>3, <3>5 DEF Failed
      <4>2. dagError' = dagError
        BY <1>3, <3>5
      <4> QED BY <2>1, <3>2, <3>3, <4>1, <4>2
    <3> QED BY <3>4, <3>5
  <2> QED BY <2>2, <2>3
<1>14. ResultsBehind'
  <2> SUFFICES ASSUME NEW d \in Dags, NEW i \in OpIds(d)
               PROVE  /\ ~IsRun(d, i) => result'[d][i] # "err"
                      /\ IsRun(d, i) /\ result'[d][i] # "none" =>
                           \/ Past(d, i)'
                           \/ \E v \in Workers : AtOp(v, d, i)' /\ pc'[v] \in {"store", "finish"}
    BY DEF ResultsBehind
  <2>1. CASE d \in InBatch(w) /\ i = OpOf(d, w)
    BY <1>5, <1>10, <1>11, <2>1
  <2>2. CASE ~(d \in InBatch(w) /\ i = OpOf(d, w))
    <3>1. result'[d][i] = result[d][i]
      BY <1>6, <1>7, <2>2
    <3>2. \A v \in Workers : AtOp(v, d, i) /\ pc[v] \in {"store", "finish"} =>
            AtOp(v, d, i)' /\ pc'[v] \in {"store", "finish"}
      BY <1>0, <1>10
    <3> QED BY <1>9, <3>1, <3>2 DEF RequestInv, ResultsBehind
  <2> QED BY <2>1, <2>2
<1>15. DoneBehind'
  <2> SUFFICES ASSUME NEW d \in Dags, Accepted(d)', ~Halted(d)'
               PROVE  /\ \A i \in OpIds(d) : Past(d, i)' => Done(d, i)'
                      /\ \A dev \in DevicesOf(d) :
                           ~HasCopy(d, dev)' => opsDone'[d][dev] = Cardinality(OpsOn(d, dev))
    BY DEF DoneBehind
  <2>1. Accepted(d) /\ ~Halted(d)
    BY <1>8
  <2>2. ASSUME NEW i \in OpIds(d), Past(d, i) PROVE Done(d, i)'
    <3>1. Done(d, i)
      BY <2>1, <2>2 DEF RequestInv, DoneBehind
    <3>2. result'[d][i] = result[d][i]
      BY <1>5, <1>6, <1>7, <2>2
    <3> QED BY <1>0, <3>1, <3>2 DEF Done
  <2>3. \A dev \in DevicesOf(d) : dev \in Devices
    BY ProgramFacts
  <2>4. \A dev \in DevicesOf(d) :
          ~HasCopy(d, dev)' => opsDone'[d][dev] = Cardinality(OpsOn(d, dev))
    BY <1>0, <2>1, <2>3 DEF RequestInv, DoneBehind
  <2> QED BY <1>9, <2>2, <2>4
<1> QED BY <1>0, <1>12, <1>13, <1>14, <1>15 DEF RequestInv

(* The last copy left in a batch has executed its operation: it is behind the copy     *)
(* now, and it is done unless the request failed or timed out.                         *)
LEMMA FinishBehind ==
  ASSUME NEW w \in Workers, IInv, IInv', RequestInv, Domains, Known(w), FinishOne(w),
         TimeoutFlagReturned
  PROVE  RequestInv' /\ Domains'
<1>1. PICK d \in Dags :
        /\ d \in InBatch(w) /\ InBatch(w)' = InBatch(w) \ {d}
        /\ opsDone'[d][Dev(w)] = opsDone[d][Dev(w)] + 1
        /\ \A e \in Dags, dev \in Devices :
             ~(e = d /\ dev = Dev(w)) => /\ opsDone'[e][dev] = opsDone[e][dev]
                                         /\ HasCopy(e, dev)' <=> HasCopy(e, dev)
        /\ \/ HasCopy(d, Dev(w))'
           \/ opsDone[d][Dev(w)] + 1 = Cardinality(OpsOn(d, Dev(w)))
           \/ Halted(d)
        /\ UNCHANGED <<result, dagError, firstError, timedOut, tensors>>
        /\ \A e \in Dags : Accepted(e)' <=> Accepted(e)
        /\ pc[w] = "finish" /\ pc'[w] \in {"finish", "reinsert"}
        /\ \A v \in Workers : v # w => pc'[v] = pc[v] /\ batch'[v] = batch[v]
        /\ Domains'
  BY FinishEffect
<1>2. /\ Dev(w) \in Devices /\ OpOf(d, w) \in OpIds(d)
      /\ Program[d][OpOf(d, w)].device = Dev(w)
      /\ opsDone[d][Dev(w)] \in Nat /\ Rank(d, OpOf(d, w)) = opsDone[d][Dev(w)]
      /\ OpOf(d, w) = DeviceOp(d, Dev(w), opsDone[d][Dev(w)])
  BY <1>1, OpAt DEF OpOf, CurrentOp
<1>3. \A e \in Dags : /\ Halted(e)' <=> Halted(e)
                      /\ Failed(e)' <=> Failed(e)
                      /\ \A i \in OpIds(e) : Done(e, i)' <=> Done(e, i)
  BY <1>1 DEF Halted, Failed, Done
<1>4. ASSUME NEW e \in Dags, NEW i \in OpIds(e), ~(e = d /\ i = OpOf(d, w))
      PROVE  Past(e, i)' <=> Past(e, i)
  <2>1. Program[e][i].device \in Devices /\ Rank(e, i) \in Nat
    BY ProgramFacts, RankFacts DEF DevicesOf
  <2>2. CASE e = d /\ Program[e][i].device = Dev(w)
    <3>1. Rank(e, i) # opsDone[d][Dev(w)]
      <4>1. DeviceOp(e, Program[e][i].device, Rank(e, i)) = i
        BY RankFacts
      <4> QED BY <1>2, <1>4, <2>2, <4>1
    <3>2. Rank(e, i) < opsDone[d][Dev(w)] + 1 <=> Rank(e, i) < opsDone[d][Dev(w)]
      BY <1>2, <2>1, <3>1
    <3> QED BY <1>1, <2>2, <3>2 DEF Past
  <2>3. CASE ~(e = d /\ Program[e][i].device = Dev(w))
    BY <1>1, <2>1, <2>3 DEF Past
  <2> QED BY <2>2, <2>3
<1>5. ASSUME NEW i, i = OpOf(d, w) PROVE Past(d, i)'
  BY <1>1, <1>2, <1>5 DEF Past
<1>6. Beginning'
  BY <1>1, <1>3 DEF RequestInv, Beginning
<1>7. ErrorsAreTrue'
  BY <1>1, <1>3 DEF RequestInv, ErrorsAreTrue
<1>8. ResultsBehind'
  <2> SUFFICES ASSUME NEW e \in Dags, NEW i \in OpIds(e)
               PROVE  /\ ~IsRun(e, i) => result'[e][i] # "err"
                      /\ IsRun(e, i) /\ result'[e][i] # "none" =>
                           \/ Past(e, i)'
                           \/ \E v \in Workers : AtOp(v, e, i)' /\ pc'[v] \in {"store", "finish"}
    BY DEF ResultsBehind
  <2>1. ASSUME NEW v \in Workers, AtOp(v, e, i), pc[v] \in {"store", "finish"},
               ~(e = d /\ i = OpOf(d, w))
        PROVE  AtOp(v, e, i)' /\ pc'[v] \in {"store", "finish"}
    <3>1. /\ e \in InBatch(v) /\ Dev(v) = Program[e][i].device /\ OpOf(e, v) = i
          /\ Dev(v) \in Devices
      BY <2>1, DevFacts DEF AtOp
    <3>2. e \in InBatch(v)' /\ pc'[v] \in {"store", "finish"}
      <4>1. CASE v = w
        <5>1. e # d
          BY <2>1, <3>1, <4>1
        <5>2. e \in InBatch(w)'
          BY <1>1, <3>1, <4>1, <5>1
        <5>3. batch'[w] # <<>>
          BY <5>2, EmptyElements DEF InBatch
        <5>4. pc'[w] # "reinsert"
          BY <5>3 DEF IInv, BatchMatchesPlace
        <5> QED BY <1>1, <4>1, <5>2, <5>4
      <4>2. CASE v # w
        BY <1>1, <2>1, <3>1, <4>2 DEF InBatch
      <4> QED BY <4>1, <4>2
    <3>3. opsDone'[e][Dev(v)] = opsDone[e][Dev(v)]
      <4>1. ~(e = d /\ Dev(v) = Dev(w))
        <5>1. CASE v = w
          BY <2>1, <3>1, <5>1
        <5>2. CASE v # w
          BY <1>1, <3>1, <5>2, OneHolder
        <5> QED BY <5>1, <5>2
      <4> QED BY <1>1, <3>1, <4>1
    <3>4. OpOf(e, v)' = OpOf(e, v) /\ Dev(v)' = Dev(v)
      BY <3>3 DEF OpOf, CurrentOp, Dev
    <3> QED BY <3>1, <3>2, <3>4 DEF AtOp
  <2>2. result'[e][i] = result[e][i]
    BY <1>1
  <2>3. CASE e = d /\ i = OpOf(d, w)
    BY <1>5, <2>2, <2>3 DEF RequestInv, ResultsBehind
  <2>4. CASE ~(e = d /\ i = OpOf(d, w))
    BY <1>4, <2>1, <2>2, <2>4 DEF RequestInv, ResultsBehind
  <2> QED BY <2>3, <2>4
<1>9. DoneBehind'
  <2> SUFFICES ASSUME NEW e \in Dags, Accepted(e)', ~Halted(e)'
               PROVE  /\ \A i \in OpIds(e) : Past(e, i)' => Done(e, i)'
                      /\ \A dev \in DevicesOf(e) :
                           ~HasCopy(e, dev)' => opsDone'[e][dev] = Cardinality(OpsOn(e, dev))
    BY DEF DoneBehind
  <2>1. Accepted(e) /\ ~Halted(e)
    BY <1>1, <1>3
  <2>2. ASSUME NEW i \in OpIds(e), Past(e, i)' PROVE Done(e, i)
    <3>1. CASE e = d /\ i = OpOf(d, w)
      BY <1>1, <2>1, <3>1 DEF Known, FinishPlace
    <3>2. CASE ~(e = d /\ i = OpOf(d, w))
      BY <1>4, <2>1, <2>2, <3>2 DEF RequestInv, DoneBehind
    <3> QED BY <3>1, <3>2
  <2>3. ASSUME NEW dev \in DevicesOf(e), ~HasCopy(e, dev)'
        PROVE  opsDone'[e][dev] = Cardinality(OpsOn(e, dev))
    <3>1. dev \in Devices
      BY ProgramFacts
    <3>2. CASE e = d /\ dev = Dev(w)
      BY <1>1, <2>1, <2>3, <3>2
    <3>3. CASE ~(e = d /\ dev = Dev(w))
      BY <1>1, <2>1, <2>3, <3>1, <3>3 DEF RequestInv, DoneBehind
    <3> QED BY <3>2, <3>3
  <2> QED BY <1>3, <2>2, <2>3
<1> QED BY <1>1, <1>6, <1>7, <1>8, <1>9 DEF RequestInv

-----------------------------------------------------------------------------
(* Nothing has happened yet.                                                          *)
LEMMA InitOutcome == Init => OutcomeInv
<1> SUFFICES ASSUME Init PROVE OutcomeInv
  OBVIOUS
<1>1. Domains
  BY DEF Init, Domains
<1>2. \A d \in Dags : ~Accepted(d) /\ ~Halted(d) /\ ~dagError[d] /\ ~Failed(d)
  BY DEF Init, Accepted, Halted, Failed
<1>3. \A d \in Dags : \A i \in OpIds(d) : result[d][i] = "none"
  BY DEF Init
<1>4. Beginning /\ ErrorsAreTrue /\ ResultsBehind /\ DoneBehind
  BY <1>2, <1>3 DEF Beginning, ErrorsAreTrue, ResultsBehind, DoneBehind
<1>5. \A w \in Workers : Known(w)
  BY DEF Init, Known
<1> QED BY <1>1, <1>4, <1>5 DEF OutcomeInv

LEMMA StepOutcome ==
  ASSUME IInv, OutcomeInv, [Next]_vars, TimeoutFlagReturned
  PROVE  OutcomeInv'
<1>1. IInv'
  BY StepIInv
<1>2. RequestInv /\ Domains /\ \A w \in Workers : Known(w)
  BY DEF OutcomeInv, RequestInv
<1>3. ASSUME NEW w \in Workers, Worker(w) PROVE OutcomeInv'
  <2>1. \A v \in Workers : v # w => Known(v)'
    BY <1>2, <1>3, OthersUndisturbed, UndisturbedKnows
  <2>2. CASE Moves(w)
    <3>1. Known(w)'
      BY <1>1, <1>2, <2>2, MovesKnows DEF RequestInv
    <3>2. RequestInv' /\ Domains'
      BY <1>1, <1>2, <2>2, QuietSteps, QuietKeeps
    <3> QED BY <2>1, <3>1, <3>2 DEF OutcomeInv, RequestInv
  <2>3. CASE Pop(w) \/ Store(w)
    <3>1. Known(w)'
      BY <1>1, <1>2, <2>3, OwnKnows
    <3>2. RequestInv' /\ Domains'
      BY <1>1, <1>2, <2>3, QuietSteps, QuietKeeps
    <3> QED BY <2>1, <3>1, <3>2 DEF OutcomeInv, RequestInv
  <2>4. CASE RunSucceeds(w) \/ RunFails(w)
    <3>1. Known(w)'
      BY <1>1, <1>2, <2>4, OwnKnows
    <3>2. RequestInv' /\ Domains'
      BY <1>2, <2>4, RunKeeps
    <3> QED BY <2>1, <3>1, <3>2 DEF OutcomeInv, RequestInv
  <2>5. CASE FinishOne(w)
    <3>1. Known(w)'
      BY <1>1, <1>2, <2>5, OwnKnows
    <3>2. RequestInv' /\ Domains'
      BY <1>1, <1>2, <2>5, FinishBehind
    <3> QED BY <2>1, <3>1, <3>2 DEF OutcomeInv, RequestInv
  <2> QED BY <1>3, <2>2, <2>3, <2>4, <2>5 DEF Worker, Moves, Run
<1>4. ASSUME NEW d \in Dags, Outside(d) PROVE OutcomeInv'
  <2>1. \A v \in Workers : Known(v)'
    BY <1>2, <1>4, OutsideUndisturbed, UndisturbedKnows
  <2>2. RequestInv' /\ Domains'
    <3>1. CASE Submit(d)
      BY <1>2, <3>1, SubmitKeeps
    <3>2. CASE ~Submit(d)
      BY <1>1, <1>2, <1>4, <3>2, QuietSteps, QuietKeeps
    <3> QED BY <3>1, <3>2
  <2> QED BY <2>1, <2>2 DEF OutcomeInv, RequestInv
<1>5. ASSUME UNCHANGED vars PROVE OutcomeInv'
  <2> USE DEF requestVars, copyVars, queueVars, workerVars
  <2>1. UNCHANGED <<phase, result, dagError, firstError, timedOut, tensors, opsDone, pc, batch, answer,
                    outputs, batchRows, toPush, queue, unfinished, position, elapsed>>
    BY <1>5 DEF vars
  <2>2. Quiet /\ Domains'
    <3>1. \A d, dev : HasCopy(d, dev)' <=> HasCopy(d, dev)
      BY <2>1 DEF HasCopy, Held, Dev
    <3> QED BY <1>2, <2>1, <3>1 DEF Quiet, Domains, Accepted
  <2>3. \A v \in Workers : Known(v)'
    <3>1. \A v \in Workers : Undisturbed(v)
      BY <2>1 DEF Undisturbed, Halted
    <3> QED BY <1>2, <3>1, UndisturbedKnows
  <2> QED BY <1>2, <2>2, <2>3, QuietKeeps DEF OutcomeInv, RequestInv
<1> QED BY <1>3, <1>4, <1>5 DEF Next, Request, Clock, Idle, Outside

(* All the copies of a finished request are gone, so all is behind them.               *)
LEMMA OutcomeMeans == IInv /\ OutcomeInv => FinishedMeansDone
<1> SUFFICES ASSUME IInv, OutcomeInv, NEW d \in Dags
             PROVE  /\ dagError[d] <=> Failed(d)
                    /\ dagError[d] => result[d][firstError[d]] = "err"
                    /\ phase[d] = "finished" /\ ~timedOut[d] /\ ~dagError[d] =>
                         \A i \in OpIds(d) :
                           /\ IsRun(d, i) => result[d][i] = "ok"
                           /\ InSlots(d, i) \cup OutSlots(d, i) \subseteq DOMAIN tensors[d]
  BY DEF FinishedMeansDone
<1>1. /\ dagError[d] <=> Failed(d)
      /\ dagError[d] => result[d][firstError[d]] = "err"
  BY DEF OutcomeInv, ErrorsAreTrue
<1>2. ASSUME phase[d] = "finished", ~timedOut[d], ~dagError[d], NEW i \in OpIds(d)
      PROVE  /\ IsRun(d, i) => result[d][i] = "ok"
             /\ InSlots(d, i) \cup OutSlots(d, i) \subseteq DOMAIN tensors[d]
  <2>1. Accepted(d) /\ ~Halted(d)
    BY <1>2 DEF Accepted, Halted
  <2>2. Program[d][i].device \in Devices /\ Program[d][i].device \in DevicesOf(d)
    BY ProgramFacts DEF DevicesOf
  <2>3. ~HasCopy(d, Program[d][i].device)
    BY <1>2, <2>2 DEF IInv, FinishedOnce, Copies
  <2>4. opsDone[d][Program[d][i].device] = Cardinality(OpsOn(d, Program[d][i].device))
    BY <2>1, <2>2, <2>3 DEF OutcomeInv, DoneBehind
  <2>5. Past(d, i)
    BY <2>4, RankFacts DEF Past
  <2>6. Done(d, i)
    BY <2>1, <2>5 DEF OutcomeInv, DoneBehind
  <2> QED BY <2>6 DEF Done
<1> QED BY <1>1, <1>2

(* A request that ends without an error and without a timeout has run all its          *)
(* operations and has all its tensors; an error is kept with an operation that raised  *)
(* it: in a build whose RedisAI_DagTimeout returns the flag it loads.                  *)
THEOREM DagFinishedMeansDone == TimeoutFlagReturned => (Spec => []FinishedMeansDone)
<1>1. IInv /\ OutcomeInv /\ [Next]_vars /\ TimeoutFlagReturned => OutcomeInv'
  BY StepOutcome
<1> SUFFICES ASSUME TimeoutFlagReturned PROVE Spec => []FinishedMeansDone
  OBVIOUS
<1>2. IInv /\ OutcomeInv /\ [Next]_vars => OutcomeInv'
  BY <1>1
<1> QED BY <1>2, DagInvariant, InitOutcome, OutcomeMeans, PTL DEF Spec

-----------------------------------------------------------------------------
(* What the names of a request stand for.  The two recursive functions, NameTable of   *)
(* the code and Environment of the service, are what their recursions say: such        *)
(* functions exist, by induction on the number of operations.                          *)
LEMMA OpNumbers ==
  ASSUME NEW d \in Dags
  PROVE  /\ Len(Program[d]) \in Nat /\ Len(Program[d]) > 0 /\ OpIds(d) = 1 .. Len(Program[d])
         /\ {0} \cup OpIds(d) = 0 .. Len(Program[d])
         /\ \A i \in OpIds(d) : /\ Program[d][i] \in Operation
                                /\ i - 1 \in 0 .. Len(Program[d])
                                /\ Program[d][i].inkeys \in Seq(Keys)
                                /\ Program[d][i].outkeys \in Seq(Keys)
<1>1. Program[d] \in Seq(Operation) /\ Len(Program[d]) \in Nat /\ Len(Program[d]) > 0
  BY ProgramAssumption
<1>2. OpIds(d) = 1 .. Len(Program[d])
  BY DEF OpIds
<1>3. \A i \in OpIds(d) : Program[d][i] \in Operation
  BY <1>1, <1>2
<1>4. {0} \cup OpIds(d) = 0 .. Len(Program[d]) /\ \A i \in OpIds(d) : i - 1 \in 0 .. Len(Program[d])
  BY <1>1, <1>2
<1>5. \A i \in OpIds(d) : Program[d][i].inkeys \in Seq(Keys) /\ Program[d][i].outkeys \in Seq(Keys)
  BY <1>3 DEF Operation
<1> QED BY <1>1, <1>2, <1>3, <1>4, <1>5

LEMMA NameTableSteps ==
  ASSUME NEW d \in Dags
  PROVE  /\ NameTable(d)[0] = LoadedNames(d)
         /\ \A i \in OpIds(d) : NameTable(d)[i] = BindOutputs(NameTable(d)[i - 1], d, i)
<1> DEFINE n == Len(Program[d])
           Good == {m \in Nat : m <= n => \E f :
                      f = [i \in 0 .. m |-> IF i = 0 THEN LoadedNames(d) ELSE BindOutputs(f[i - 1], d, i)]}
<1>1. n \in Nat /\ OpIds(d) = 1 .. n /\ {0} \cup OpIds(d) = 0 .. n
  BY OpNumbers
<1> HIDE DEF n
<1>2. 0 \in Good
  <2> DEFINE f == [i \in 0 .. 0 |-> LoadedNames(d)]
  <2>1. f = [i \in 0 .. 0 |-> IF i = 0 THEN LoadedNames(d) ELSE BindOutputs(f[i - 1], d, i)]
    BY \A i \in 0 .. 0 : i = 0
  <2> QED BY <2>1
<1>3. ASSUME NEW m \in Good, m + 1 <= n PROVE m + 1 \in Good
  <2>0. m \in Nat /\ m <= n /\ m + 1 \in Nat
    BY <1>1, <1>3
  <2>1. PICK f : f = [i \in 0 .. m |-> IF i = 0 THEN LoadedNames(d) ELSE BindOutputs(f[i - 1], d, i)]
    BY <2>0
  <2> DEFINE g == [i \in 0 .. m + 1 |-> IF i = m + 1 THEN BindOutputs(f[m], d, m + 1) ELSE f[i]]
  <2>2. ASSUME NEW i \in 0 .. m + 1
        PROVE  g[i] = IF i = 0 THEN LoadedNames(d) ELSE BindOutputs(g[i - 1], d, i)
    <3>1. CASE i = m + 1
      <4>1. i # 0 /\ i - 1 = m /\ m \in 0 .. m + 1 /\ m # m + 1
        BY <2>0, <3>1
      <4>2. g[i] = BindOutputs(f[m], d, m + 1) /\ g[m] = f[m]
        BY <3>1, <4>1
      <4> HIDE DEF g
      <4> QED BY <3>1, <4>1, <4>2
    <3>2. CASE i # m + 1
      <4>1. i \in 0 .. m /\ (i # 0 => i - 1 \in 0 .. m + 1 /\ i - 1 # m + 1)
        BY <2>0, <3>2
      <4>2. g[i] = f[i] /\ (i # 0 => g[i - 1] = f[i - 1])
        BY <3>2, <4>1
      <4> HIDE DEF g
      <4>3. f[i] = IF i = 0 THEN LoadedNames(d) ELSE BindOutputs(f[i - 1], d, i)
        BY <2>1, <4>1
      <4> QED BY <4>2, <4>3
    <3> QED BY <3>1, <3>2
  <2>3. g = [i \in 0 .. m + 1 |-> IF i = 0 THEN LoadedNames(d) ELSE BindOutputs(g[i - 1], d, i)]
    BY <2>2
  <2> HIDE DEF g
  <2> QED BY <2>0, <2>3
<1>4. Good = Nat
  <2>1. ASSUME NEW m \in Good PROVE m + 1 \in Good
    <3>1. CASE m + 1 <= n
      BY <1>3, <3>1
    <3>2. CASE ~(m + 1 <= n)
      BY <3>2
    <3> QED BY <3>1, <3>2
  <2>2. Good \in SUBSET Nat
    OBVIOUS
  <2> HIDE DEF Good
  <2> QED BY <1>2, <2>1, <2>2, SetInduction
<1>5. \E f : f = [i \in 0 .. n |-> IF i = 0 THEN LoadedNames(d) ELSE BindOutputs(f[i - 1], d, i)]
  <2>1. n \in Good
    <3> HIDE DEF Good
    <3> QED BY <1>1, <1>4
  <2>2. n <= n
    BY <1>1
  <2> QED BY <2>1, <2>2
<1>6. NameTable(d) = CHOOSE f : f = [i \in 0 .. n |-> IF i = 0 THEN LoadedNames(d)
                                                     ELSE BindOutputs(f[i - 1], d, i)]
  BY <1>1 DEF NameTable
<1>7. NameTable(d) = [i \in 0 .. n |-> IF i = 0 THEN LoadedNames(d)
                                      ELSE BindOutputs(NameTable(d)[i - 1], d, i)]
  BY <1>5, <1>6
<1>8. 0 \in 0 .. n /\ \A i \in OpIds(d) : i \in 0 .. n /\ i # 0
  BY <1>1
<1> QED BY <1>7, <1>8

FirstEnv(d) == [k \in ToSet(Loaded[d]) |-> LoadedTensor(k)]
EnvAfter(env, d, i) ==
  LET op == Program[d][i]
      args == [j \in DOMAIN op.inkeys |-> env[op.inkeys[j]]]
  IN  [k \in DOMAIN env \cup ToSet(op.outkeys) |->
         IF k \in ToSet(op.outkeys) THEN Computed(i, LastPosition(op.outkeys, k), args) ELSE env[k]]

LEMMA EnvironmentSteps ==
  ASSUME NEW d \in Dags
  PROVE  /\ Service!Environment(d)[0] = FirstEnv(d)
         /\ \A i \in OpIds(d) : Service!Environment(d)[i] = EnvAfter(Service!Environment(d)[i - 1], d, i)
<1> DEFINE n == Len(Program[d])
           Good == {m \in Nat : m <= n => \E f :
                      f = [i \in 0 .. m |-> IF i = 0 THEN FirstEnv(d) ELSE EnvAfter(f[i - 1], d, i)]}
<1>1. n \in Nat /\ OpIds(d) = 1 .. n /\ {0} \cup OpIds(d) = 0 .. n
  BY OpNumbers
<1> HIDE DEF n
<1>2. 0 \in Good
  <2> DEFINE f == [i \in 0 .. 0 |-> FirstEnv(d)]
  <2>1. f = [i \in 0 .. 0 |-> IF i = 0 THEN FirstEnv(d) ELSE EnvAfter(f[i - 1], d, i)]
    BY \A i \in 0 .. 0 : i = 0
  <2> QED BY <2>1
<1>3. ASSUME NEW m \in Good, m + 1 <= n PROVE m + 1 \in Good
  <2>0. m \in Nat /\ m <= n /\ m + 1 \in Nat
    BY <1>1, <1>3
  <2>1. PICK f : f = [i \in 0 .. m |-> IF i = 0 THEN FirstEnv(d) ELSE EnvAfter(f[i - 1], d, i)]
    BY <2>0
  <2> DEFINE g == [i \in 0 .. m + 1 |-> IF i = m + 1 THEN EnvAfter(f[m], d, m + 1) ELSE f[i]]
  <2>2. ASSUME NEW i \in 0 .. m + 1
        PROVE  g[i] = IF i = 0 THEN FirstEnv(d) ELSE EnvAfter(g[i - 1], d, i)
    <3>1. CASE i = m + 1
      <4>1. i # 0 /\ i - 1 = m /\ m \in 0 .. m + 1 /\ m # m + 1
        BY <2>0, <3>1
      <4>2. g[i] = EnvAfter(f[m], d, m + 1) /\ g[m] = f[m]
        BY <3>1, <4>1
      <4> HIDE DEF g
      <4> QED BY <3>1, <4>1, <4>2
    <3>2. CASE i # m + 1
      <4>1. i \in 0 .. m /\ (i # 0 => i - 1 \in 0 .. m + 1 /\ i - 1 # m + 1)
        BY <2>0, <3>2
      <4>2. g[i] = f[i] /\ (i # 0 => g[i - 1] = f[i - 1])
        BY <3>2, <4>1
      <4> HIDE DEF g
      <4>3. f[i] = IF i = 0 THEN FirstEnv(d) ELSE EnvAfter(f[i - 1], d, i)
        BY <2>1, <4>1
      <4> QED BY <4>2, <4>3
    <3> QED BY <3>1, <3>2
  <2>3. g = [i \in 0 .. m + 1 |-> IF i = 0 THEN FirstEnv(d) ELSE EnvAfter(g[i - 1], d, i)]
    BY <2>2
  <2> HIDE DEF g
  <2> QED BY <2>0, <2>3
<1>4. Good = Nat
  <2>1. ASSUME NEW m \in Good PROVE m + 1 \in Good
    <3>1. CASE m + 1 <= n
      BY <1>3, <3>1
    <3>2. CASE ~(m + 1 <= n)
      BY <3>2
    <3> QED BY <3>1, <3>2
  <2>2. Good \in SUBSET Nat
    OBVIOUS
  <2> HIDE DEF Good
  <2> QED BY <1>2, <2>1, <2>2, SetInduction
<1>5. \E f : f = [i \in 0 .. n |-> IF i = 0 THEN FirstEnv(d) ELSE EnvAfter(f[i - 1], d, i)]
  <2>1. n \in Good
    <3> HIDE DEF Good
    <3> QED BY <1>1, <1>4
  <2>2. n <= n
    BY <1>1
  <2> QED BY <2>1, <2>2
<1>6. Service!Environment(d) = CHOOSE f : f = [i \in 0 .. n |-> IF i = 0 THEN FirstEnv(d)
                                                     ELSE EnvAfter(f[i - 1], d, i)]
  <2>1. Service!Environment(d) = CHOOSE f : f = [i \in {0} \cup OpIds(d) |->
                                                  IF i = 0 THEN FirstEnv(d) ELSE EnvAfter(f[i - 1], d, i)]
    BY Zenon DEF Service!Environment, FirstEnv, EnvAfter, LastPosition, Service!OpIds, OpIds,
                 Service!Computed, Computed, Service!LoadedTensor, LoadedTensor,
                 Service!ToSet, ToSet
  <2> QED BY <1>1, <2>1
<1>7. Service!Environment(d) = [i \in 0 .. n |-> IF i = 0 THEN FirstEnv(d)
                                      ELSE EnvAfter(Service!Environment(d)[i - 1], d, i)]
  BY <1>5, <1>6
<1>8. 0 \in 0 .. n /\ \A i \in OpIds(d) : i \in 0 .. n /\ i # 0
  BY <1>1
<1> QED BY <1>7, <1>8

(* The first and the last position of a name in a sequence of names.                   *)
LEMMA Positions ==
  ASSUME NEW S, NEW q \in Seq(S), NEW k \in ToSet(q)
  PROVE  /\ FirstPosition(q, k) \in DOMAIN q /\ q[FirstPosition(q, k)] = k
         /\ LastPosition(q, k) \in DOMAIN q /\ q[LastPosition(q, k)] = k
<1> DEFINE n == Len(q)
           T == {j \in 1 .. n : q[j] = k}
<1>1. n \in Nat /\ DOMAIN q = 1 .. n
  OBVIOUS
<1>2. T # {} /\ T \in SUBSET Nat
  BY <1>1, ElementPositions
<1> HIDE DEF n
<1>3. PICK first \in T : \A j \in T : first <= j
  <2> HIDE DEF T
  <2> QED BY <1>2, LeastNumber
<1>4. PICK last \in T : \A j \in T : j <= last
  <2> DEFINE U == {n - j : j \in T}
  <2>1. U \in SUBSET Nat /\ U # {}
    BY <1>1, <1>2
  <2>2. PICK m \in U : \A j \in U : m <= j
    <3> HIDE DEF U
    <3> QED BY <2>1, LeastNumber
  <2>3. PICK last \in T : m = n - last
    BY <2>2
  <2>4. ASSUME NEW j \in T PROVE j <= last
    <3>1. n - last <= n - j
      BY <2>2, <2>3
    <3> QED BY <1>1, <2>3, <3>1
  <2> QED BY <2>3, <2>4
<1>5. FirstPosition(q, k) \in DOMAIN q /\ q[FirstPosition(q, k)] = k
  <2>1. \E j \in DOMAIN q : q[j] = k /\ \A h \in DOMAIN q : q[h] = k => j <= h
    BY <1>1, <1>3
  <2> QED BY <2>1 DEF FirstPosition
<1>6. LastPosition(q, k) \in DOMAIN q /\ q[LastPosition(q, k)] = k
  <2>1. \E j \in DOMAIN q : q[j] = k /\ \A h \in DOMAIN q : q[h] = k => h <= j
    BY <1>1, <1>4
  <2> QED BY <2>1 DEF LastPosition
<1> QED BY <1>5, <1>6

(* What is bound after operation i: the names LOAD gives and those written so far,     *)
(* each to the slot of its last writer, and the service gives it the tensor that the   *)
(* slot means.                                                                         *)
Bound(d, i) == ToSet(Loaded[d]) \cup {k \in Keys : \E h \in OpIds(d) :
                                        h <= i /\ k \in ToSet(Program[d][h].outkeys)}
LastWriter(d, i, k, h) ==
  /\ h \in OpIds(d) /\ h <= i /\ k \in ToSet(Program[d][h].outkeys)
  /\ \A g \in OpIds(d) : g <= i /\ k \in ToSet(Program[d][g].outkeys) => g <= h
NamesTrue(d, i) ==
  /\ DOMAIN NameTable(d)[i] = Bound(d, i) /\ DOMAIN Service!Environment(d)[i] = Bound(d, i)
  /\ \A k \in Bound(d, i) :
       /\ \/ NameTable(d)[i][k] \in LoadSlots(d)
          \/ \E h \in OpIds(d) : h <= i /\ NameTable(d)[i][k] \in OutSlots(d, h)
       /\ Service!Environment(d)[i][k] = Meaning(d, NameTable(d)[i][k])
       /\ \A h : LastWriter(d, i, k, h) => NameTable(d)[i][k][1] = h

LEMMA NamesMean ==
  ASSUME NEW d \in Dags
  PROVE  \A i \in 0 .. Len(Program[d]) : NamesTrue(d, i)
<1> DEFINE n == Len(Program[d])
           Good == {m \in Nat : m <= n => NamesTrue(d, m)}
<1>1. n \in Nat /\ OpIds(d) = 1 .. n
  BY OpNumbers
<1> HIDE DEF n
<1>2. NamesTrue(d, 0)
  <2>1. NameTable(d)[0] = LoadedNames(d) /\ Service!Environment(d)[0] = FirstEnv(d)
    BY NameTableSteps, EnvironmentSteps
  <2>2. Bound(d, 0) = ToSet(Loaded[d])
    <3>1. \A h \in OpIds(d) : ~(h <= 0)
      BY <1>1
    <3> QED BY <3>1 DEF Bound
  <2>3. DOMAIN NameTable(d)[0] = Bound(d, 0) /\ DOMAIN Service!Environment(d)[0] = Bound(d, 0)
    BY <2>1, <2>2 DEF LoadedNames, FirstEnv
  <2>4. ASSUME NEW k \in Bound(d, 0)
        PROVE  /\ NameTable(d)[0][k] \in LoadSlots(d)
               /\ Service!Environment(d)[0][k] = Meaning(d, NameTable(d)[0][k])
               /\ \A h : ~LastWriter(d, 0, k, h)
    <3>1. Loaded[d] \in Seq(Keys)
      BY ProgramAssumption
    <3>2. PICK j : j = FirstPosition(Loaded[d], k)
      OBVIOUS
    <3>3. j \in DOMAIN Loaded[d] /\ Loaded[d][j] = k
      BY <2>2, <2>4, <3>1, <3>2, Positions
    <3>4. NameTable(d)[0][k] = <<0, j>> /\ Service!Environment(d)[0][k] = LoadedTensor(k)
      BY <2>1, <2>2, <3>2 DEF LoadedNames, FirstEnv
    <3>5. NameTable(d)[0][k] \in LoadSlots(d)
      BY <3>3, <3>4 DEF LoadSlots
    <3>6. Meaning(d, <<0, j>>) = LoadedTensor(k)
      BY <3>3 DEF Meaning
    <3>7. \A h \in OpIds(d) : ~(h <= 0)
      BY <1>1
    <3> QED BY <3>4, <3>5, <3>6, <3>7 DEF LastWriter
  <2> QED BY <2>3, <2>4 DEF NamesTrue
<1>3. ASSUME NEW m \in Good, m + 1 <= n PROVE m + 1 \in Good
  <2>0. m \in Nat /\ m <= n /\ NamesTrue(d, m)
    BY <1>1, <1>3
  <2> DEFINE i == m + 1
  <2>1. i \in OpIds(d) /\ i - 1 = m /\ i \in Nat /\ i # 0
    BY <1>1, <1>3, <2>0
  <2>2. PICK out : out = Program[d][i].outkeys
    OBVIOUS
  <2> HIDE DEF i
  <2>3. out \in Seq(Keys) /\ ToSet(out) \subseteq Keys
    <3>1. out \in Seq(Keys)
      BY <2>1, <2>2, OpNumbers
    <3> QED BY <3>1, ElementPositions
  <2>4. /\ NameTable(d)[i] = [k \in DOMAIN NameTable(d)[m] \cup ToSet(out) |->
             IF k \in ToSet(out) THEN <<i, LastPosition(out, k)>> ELSE NameTable(d)[m][k]]
        /\ Service!Environment(d)[i] = [k \in DOMAIN Service!Environment(d)[m] \cup ToSet(out) |->
             IF k \in ToSet(out)
             THEN Computed(i, LastPosition(out, k),
                    [j \in DOMAIN Program[d][i].inkeys |->
                       Service!Environment(d)[m][Program[d][i].inkeys[j]]])
             ELSE Service!Environment(d)[m][k]]
    <3>1. NameTable(d)[i] = BindOutputs(NameTable(d)[m], d, i)
      BY <2>1, NameTableSteps
    <3>2. Service!Environment(d)[i] = EnvAfter(Service!Environment(d)[m], d, i)
      BY <2>1, EnvironmentSteps
    <3> QED BY <2>2, <3>1, <3>2 DEF BindOutputs, EnvAfter
  <2>5. \A h \in OpIds(d) : h <= i <=> h <= m \/ h = i
    BY <1>1, <2>0 DEF i
  <2>6. Bound(d, i) = Bound(d, m) \cup ToSet(out)
    BY <2>1, <2>2, <2>3, <2>5 DEF Bound
  <2>7. DOMAIN NameTable(d)[i] = Bound(d, i) /\ DOMAIN Service!Environment(d)[i] = Bound(d, i)
    BY <2>0, <2>4, <2>6 DEF NamesTrue
  <2>8. ASSUME NEW k \in Bound(d, i)
        PROVE  /\ \/ NameTable(d)[i][k] \in LoadSlots(d)
                  \/ \E h \in OpIds(d) : h <= i /\ NameTable(d)[i][k] \in OutSlots(d, h)
               /\ Service!Environment(d)[i][k] = Meaning(d, NameTable(d)[i][k])
               /\ \A h : LastWriter(d, i, k, h) => NameTable(d)[i][k][1] = h
    <3>1. CASE k \in ToSet(out)
      <4>1. PICK j : j = LastPosition(out, k)
        OBVIOUS
      <4>2. j \in DOMAIN out
        BY <2>3, <3>1, <4>1, Positions
      <4>3. NameTable(d)[i][k] = <<i, j>>
        BY <2>0, <2>4, <3>1, <4>1 DEF NamesTrue
      <4>4. <<i, j>> \in OutSlots(d, i)
        BY <2>2, <4>2 DEF OutSlots
      <4>5. Service!Environment(d)[i][k] =
              Computed(i, j, [x \in DOMAIN Program[d][i].inkeys |->
                                Service!Environment(d)[m][Program[d][i].inkeys[x]]])
        BY <2>0, <2>4, <3>1, <4>1 DEF NamesTrue
      <4>6. Meaning(d, <<i, j>>) =
              Computed(i, j, [x \in DOMAIN Program[d][i].inkeys |->
                                Service!Environment(d)[m][Program[d][i].inkeys[x]]])
        BY <2>1 DEF Meaning
      <4>7. ASSUME NEW h, LastWriter(d, i, k, h) PROVE h = i
        <5>1. h \in OpIds(d) /\ h <= i /\ i <= h
          BY <2>1, <2>2, <2>5, <3>1, <4>7 DEF LastWriter
        <5> QED BY <1>1, <2>1, <5>1
      <4>8. i <= i
        BY <2>1
      <4> QED BY <2>1, <4>3, <4>4, <4>5, <4>6, <4>7, <4>8
    <3>2. CASE k \notin ToSet(out)
      <4>1. k \in Bound(d, m)
        BY <2>6, <2>8, <3>2
      <4>2. /\ NameTable(d)[i][k] = NameTable(d)[m][k]
            /\ Service!Environment(d)[i][k] = Service!Environment(d)[m][k]
        BY <2>0, <2>4, <3>2, <4>1 DEF NamesTrue
      <4>3. \A h : LastWriter(d, i, k, h) => LastWriter(d, m, k, h)
        BY <2>2, <2>5, <3>2 DEF LastWriter
      <4> QED BY <2>0, <2>5, <4>1, <4>2, <4>3 DEF NamesTrue
    <3> QED BY <3>1, <3>2
  <2>9. NamesTrue(d, i)
    BY <2>7, <2>8 DEF NamesTrue
  <2> QED BY <2>1, <2>9 DEF i
<1>4. Good = Nat
  <2>1. ASSUME NEW m \in Good PROVE m + 1 \in Good
    <3>1. CASE m + 1 <= n
      BY <1>3, <3>1
    <3>2. CASE ~(m + 1 <= n)
      BY <3>2
    <3> QED BY <3>1, <3>2
  <2>2. Good \in SUBSET Nat /\ 0 \in Good
    BY <1>2
  <2> HIDE DEF Good
  <2> QED BY <2>1, <2>2, SetInduction
<1>5. ASSUME NEW i \in 0 .. n PROVE NamesTrue(d, i)
  <2>1. i \in Good /\ i <= n
    <3> HIDE DEF Good
    <3> QED BY <1>1, <1>4
  <2> QED BY <2>1
<1> QED BY <1>5 DEF n

(* What that says of an operation of an accepted request, and of the names the          *)
(* request persists.                                                                   *)
LEMMA InputsMean ==
  ASSUME NEW d \in Dags, WellFormed(d), NEW i \in OpIds(d)
  PROVE  /\ \A j \in DOMAIN Program[d][i].inkeys :
              Service!Environment(d)[i - 1][Program[d][i].inkeys[j]] = Meaning(d, InSlot(d, i, j))
         /\ \A h \in Service!Producers(d, i) : h \in OpIds(d) /\ \E slot \in InSlots(d, i) : slot[1] = h
<1>1. i - 1 \in 0 .. Len(Program[d]) /\ OpIds(d) = 1 .. Len(Program[d]) /\ Len(Program[d]) \in Nat
  BY OpNumbers
<1>2. NamesTrue(d, i - 1)
  BY <1>1, NamesMean
<1>3. \A j \in DOMAIN Program[d][i].inkeys : Program[d][i].inkeys[j] \in Bound(d, i - 1)
  <2>1. ToSet(Program[d][i].inkeys) \subseteq DOMAIN NameTable(d)[i - 1]
    BY DEF WellFormed
  <2>2. \A j \in DOMAIN Program[d][i].inkeys : Program[d][i].inkeys[j] \in ToSet(Program[d][i].inkeys)
    <3>1. Program[d][i].inkeys \in Seq(Keys)
      BY OpNumbers
    <3> QED BY <3>1, ElementPositions
  <2> QED BY <1>2, <2>1, <2>2 DEF NamesTrue
<1>4. \A j \in DOMAIN Program[d][i].inkeys :
        Service!Environment(d)[i - 1][Program[d][i].inkeys[j]] = Meaning(d, InSlot(d, i, j))
  BY <1>2, <1>3 DEF NamesTrue, InSlot
<1>5. ASSUME NEW h \in Service!Producers(d, i)
      PROVE  h \in OpIds(d) /\ \E slot \in InSlots(d, i) : slot[1] = h
  <2>1. /\ h \in OpIds(d)
        /\ \E j \in DOMAIN Program[d][i].inkeys :
             /\ h < i
             /\ Program[d][i].inkeys[j] \in ToSet(Program[d][h].outkeys)
             /\ \A g \in OpIds(d) : Program[d][i].inkeys[j] \in ToSet(Program[d][g].outkeys) =>
                  (g < i => g <= h)
    BY <1>5 DEF Service!Producers, Service!Writers, Service!OpIds, OpIds, Service!ToSet, ToSet
  <2>2. PICK j \in DOMAIN Program[d][i].inkeys :
             /\ h < i
             /\ Program[d][i].inkeys[j] \in ToSet(Program[d][h].outkeys)
             /\ \A g \in OpIds(d) : Program[d][i].inkeys[j] \in ToSet(Program[d][g].outkeys) =>
                  (g < i => g <= h)
    BY <2>1
  <2>3. \A g \in OpIds(d) : g <= i - 1 <=> g < i
    BY <1>1
  <2>4. LastWriter(d, i - 1, Program[d][i].inkeys[j], h)
    BY <2>1, <2>2, <2>3 DEF LastWriter
  <2>5. InSlot(d, i, j)[1] = h
    BY <1>2, <1>3, <2>4 DEF NamesTrue, InSlot
  <2> QED BY <2>1, <2>5 DEF InSlots
<1> QED BY <1>4, <1>5

LEMMA PersistMeans ==
  ASSUME NEW d \in Dags, WellFormed(d), NEW k \in Persist[d]
  PROVE  /\ \/ PersistSlot(d, k) \in LoadSlots(d)
            \/ \E h \in OpIds(d) : PersistSlot(d, k) \in OutSlots(d, h)
         /\ Service!Environment(d)[Len(Program[d])][k] = Meaning(d, PersistSlot(d, k))
<1>1. Len(Program[d]) \in 0 .. Len(Program[d])
  BY OpNumbers
<1>2. NamesTrue(d, Len(Program[d]))
  BY <1>1, NamesMean
<1>3. k \in Bound(d, Len(Program[d]))
  BY <1>2 DEF NamesTrue, WellFormed
<1> QED BY <1>2, <1>3 DEF NamesTrue, PersistSlot

(* The code accepts the requests that the service accepts.                             *)
LEMMA Resolving ==
  ASSUME NEW d \in Dags
  PROVE  WellFormed(d) <=> Service!Resolves(d)
<1>1. /\ Len(Program[d]) \in Nat /\ OpIds(d) = 1 .. Len(Program[d])
      /\ \A i \in OpIds(d) : i - 1 \in 0 .. Len(Program[d])
      /\ Service!OpIds(d) = OpIds(d)
  BY OpNumbers DEF Service!OpIds, OpIds
<1>2. ASSUME NEW i \in 1 .. Len(Program[d]) + 1
      PROVE  Service!BoundBefore(d, i) = DOMAIN NameTable(d)[i - 1]
  <2>1. i - 1 \in 0 .. Len(Program[d])
    BY <1>1
  <2>2. DOMAIN NameTable(d)[i - 1] = Bound(d, i - 1)
    BY <2>1, NamesMean DEF NamesTrue
  <2>3. \A h \in OpIds(d) : h <= i - 1 <=> h < i
    BY <1>1
  <2>4. Service!BoundBefore(d, i) = ToSet(Loaded[d]) \cup {k \in Keys : \E h \in OpIds(d) :
                                       k \in ToSet(Program[d][h].outkeys) /\ h < i}
    BY <1>1 DEF Service!BoundBefore, Service!Writers, Service!ToSet, ToSet
  <2> QED BY <2>2, <2>3, <2>4 DEF Bound
<1>3. \A i \in OpIds(d) : Service!BoundBefore(d, i) = DOMAIN NameTable(d)[i - 1]
  BY <1>1, <1>2
<1>4. Service!BoundBefore(d, Len(Program[d]) + 1) = DOMAIN NameTable(d)[Len(Program[d])]
  <2>1. Len(Program[d]) + 1 \in 1 .. Len(Program[d]) + 1 /\ (Len(Program[d]) + 1) - 1 = Len(Program[d])
    BY <1>1
  <2> QED BY <1>2, <2>1
<1> QED BY <1>1, <1>3, <1>4 DEF WellFormed, Service!Resolves, Service!ToSet, ToSet

(* What the backend returns for an operation whose inputs are as they are meant.        *)
LEMMA ReturnedMeans ==
  ASSUME NEW d \in Dags, Accepted(d), WellFormed(d), TensorsAreMeant, NEW i \in OpIds(d),
         InSlots(d, i) \subseteq DOMAIN tensors[d]
  PROVE  Returned(d, i) = [j \in DOMAIN Program[d][i].outkeys |-> Meaning(d, <<i, j>>)]
<1>1. \A j \in DOMAIN Program[d][i].inkeys :
        tensors[d][InSlot(d, i, j)] = Service!Environment(d)[i - 1][Program[d][i].inkeys[j]]
  <2>1. \A j \in DOMAIN Program[d][i].inkeys : InSlot(d, i, j) \in DOMAIN tensors[d]
    BY DEF InSlots
  <2> QED BY <2>1, InputsMean DEF TensorsAreMeant
<1>2. Args(d, i) = [j \in DOMAIN Program[d][i].inkeys |->
                      Service!Environment(d)[i - 1][Program[d][i].inkeys[j]]]
  BY <1>1 DEF Args
<1>3. i # 0
  BY OpNumbers
<1>4. \A j : Meaning(d, <<i, j>>) = Computed(i, j, Args(d, i))
  BY <1>2, <1>3 DEF Meaning
<1> QED BY <1>4 DEF Returned

-----------------------------------------------------------------------------
(* Timeouts come from the clock, and the clock knows the requests that have one.        *)
LEMMA TimeoutsKept ==
  ASSUME IInv, Domains, TimeoutsAreAsked, Next, TimeoutFlagReturned
  PROVE  TimeoutsAreAsked'
<1> USE DEF requestVars, copyVars, queueVars, workerVars
<1>1. CASE UNCHANGED <<timedOut, elapsed>>
  BY <1>1 DEF TimeoutsAreAsked
<1>2. ASSUME NEW w \in Workers, Pop(w) PROVE TimeoutsAreAsked'
  <2>1. PICK d \in Dags :
          /\ elapsed' = elapsed
          /\ \A e \in Dags : timedOut'[e] # timedOut[e] => e = d /\ "timeout" \in elapsed[d][Dev(w)]
    BY <1>2, PopEffect
  <2>2. Dev(w) \in Devices
    BY DevFacts
  <2>3. ASSUME NEW e \in Dags, e \notin HasTimeout PROVE ~timedOut'[e]
    <3>1. ~timedOut[e] /\ \A dev \in Devices : "timeout" \notin elapsed[e][dev]
      BY <2>3 DEF TimeoutsAreAsked
    <3>2. timedOut'[e] = timedOut[e]
      BY <2>1, <2>2, <3>1
    <3> QED BY <3>1, <3>2
  <2> QED BY <2>1, <2>3 DEF TimeoutsAreAsked
<1>3. ASSUME NEW w \in Workers, Worker(w) PROVE TimeoutsAreAsked'
  <2>1. CASE Moves(w)
    BY <1>1, <2>1, MovesEffect
  <2>2. CASE RunSucceeds(w) \/ RunFails(w) \/ Store(w) \/ FinishOne(w)
    BY <1>1, <2>2 DEF RunSucceeds, RunFails, Store, FinishOne
  <2> QED BY <1>2, <1>3, <2>1, <2>2 DEF Worker, Moves, Run
<1>4. ASSUME NEW d \in Dags, Request(d) PROVE TimeoutsAreAsked'
  BY <1>1, <1>4 DEF Request, Submit, Reject, Reply, Push
<1>5. ASSUME NEW d \in Dags, NEW dev \in Devices, NEW delay \in {"timeout", "minbatch"},
             Tick(d, dev, delay)
      PROVE  TimeoutsAreAsked'
  <2>1. /\ UNCHANGED timedOut
        /\ elapsed' = [elapsed EXCEPT ![d][dev] = @ \cup {delay}]
        /\ delay = "timeout" => d \in HasTimeout
        /\ elapsed \in [Dags -> [Devices -> SUBSET {"timeout", "minbatch"}]]
    BY <1>5 DEF Tick, IInv, TypeOK
  <2>2. ASSUME NEW e \in Dags, e \notin HasTimeout, NEW at \in Devices
        PROVE  "timeout" \notin elapsed'[e][at]
    <3>1. "timeout" \notin elapsed[e][at]
      BY <2>2 DEF TimeoutsAreAsked
    <3>2. CASE e = d /\ at = dev
      BY <2>1, <2>2, <3>1, <3>2
    <3>3. CASE ~(e = d /\ at = dev)
      BY <2>1, <3>1, <3>3
    <3> QED BY <3>2, <3>3
  <2> QED BY <2>1, <2>2 DEF TimeoutsAreAsked
<1>6. CASE Idle
  BY <1>1, <1>6 DEF Idle, vars
<1> QED BY <1>3, <1>4, <1>5, <1>6 DEF Next, Clock

(* The tensors of a request stay what they mean: Submit and Store fill slots, and no    *)
(* operation that has succeeded gets another result.                                   *)
LEMMA SlotFacts ==
  ASSUME NEW d \in Dags
  PROVE  /\ \A slot \in LoadSlots(d) : slot[1] = 0
         /\ \A i \in OpIds(d) : i # 0 /\ \A slot \in OutSlots(d, i) :
              slot[1] = i /\ slot[2] \in DOMAIN Program[d][i].outkeys /\ slot = <<i, slot[2]>>
BY OpNumbers DEF LoadSlots, OutSlots

LEMMA SubmitMeans ==
  ASSUME NEW r \in Dags, IInv, Domains, TensorsAreMeant, Submit(r)
  PROVE  TensorsAreMeant'
<1>1. /\ tensors'[r] = InitialTensors(r)
      /\ result'[r] = [i \in OpIds(r) |-> IF Program[r][i].cmd = "tensorset" THEN "ok" ELSE "none"]
      /\ \A d \in Dags : d # r => /\ phase'[d] = phase[d] /\ tensors'[d] = tensors[d]
                                  /\ result'[d] = result[d]
  BY DEF Submit, IInv, TypeOK, Domains
<1>2. ASSUME NEW slot \in DOMAIN tensors'[r]
      PROVE  /\ slot \in LoadSlots(r) \cup UNION {OutSlots(r, i) : i \in OpIds(r)}
             /\ slot[1] # 0 => result'[r][slot[1]] = "ok"
             /\ tensors'[r][slot] = Meaning(r, slot)
  <2>1. CASE slot \in LoadSlots(r)
    <3>1. slot[1] = 0
      BY <2>1, SlotFacts
    <3>2. tensors'[r][slot] = LoadedTensor(Loaded[r][slot[2]])
      BY <1>1, <2>1 DEF InitialTensors, LoadSlots
    <3> QED BY <2>1, <3>1, <3>2 DEF Meaning
  <2>2. CASE slot \notin LoadSlots(r)
    <3>1. PICK i \in OpIds(r) : Program[r][i].cmd = "tensorset" /\ slot \in OutSlots(r, i)
      BY <1>1, <2>2 DEF InitialTensors, LoadSlots
    <3>2. slot[1] = i /\ i # 0
      BY <3>1, SlotFacts
    <3>3. tensors'[r][slot] = Computed(i, slot[2], <<>>)
      BY <1>1, <2>2, <3>1, <3>2 DEF InitialTensors, LoadSlots
    <3>4. Program[r][i].inkeys = <<>>
      BY <3>1, ProgramAssumption DEF OpIds
    <3>5. [j \in DOMAIN Program[r][i].inkeys |->
             Service!Environment(r)[i - 1][Program[r][i].inkeys[j]]] = <<>>
      BY <3>4
    <3>6. Meaning(r, slot) = Computed(i, slot[2], <<>>)
      BY <3>2, <3>5 DEF Meaning
    <3> QED BY <1>1, <3>1, <3>2, <3>3, <3>6
  <2> QED BY <2>1, <2>2
<1>3. ASSUME NEW d \in Dags, d # r, Accepted(d)'
      PROVE  \A slot \in DOMAIN tensors'[d] :
               /\ slot \in LoadSlots(d) \cup UNION {OutSlots(d, i) : i \in OpIds(d)}
               /\ slot[1] # 0 => result'[d][slot[1]] = "ok"
               /\ tensors'[d][slot] = Meaning(d, slot)
  BY <1>1, <1>3 DEF TensorsAreMeant, Accepted
<1> QED BY <1>2, <1>3 DEF TensorsAreMeant

LEMMA RunMeans ==
  ASSUME NEW w \in Workers, IInv, RequestInv, Domains, Known(w), TensorsAreMeant,
         RunSucceeds(w) \/ RunFails(w)
  PROVE  TensorsAreMeant'
<1>1. /\ UNCHANGED <<phase, tensors>>
      /\ pc[w] = "run" /\ IsRun(HeadOf(w), OpOf(HeadOf(w), w))
  BY RunEffect
<1>2. PICK outcome :
        result' = [d \in Dags |-> IF d \in InBatch(w) THEN [result[d] EXCEPT ![OpOf(d, w)] = outcome]
                                  ELSE result[d]]
  BY RunEffect
<1>3. ASSUME NEW d \in Dags, Accepted(d), NEW slot \in DOMAIN tensors[d], slot[1] # 0
      PROVE  result'[d][slot[1]] = "ok"
  <2>1. /\ result[d][slot[1]] = "ok"
        /\ slot \in LoadSlots(d) \cup UNION {OutSlots(d, i) : i \in OpIds(d)}
    BY <1>3 DEF TensorsAreMeant
  <2>2. slot[1] \in OpIds(d)
    BY <1>3, <2>1, SlotFacts
  <2>3. CASE d \notin InBatch(w)
    BY <1>2, <2>1, <2>3
  <2>4. CASE d \in InBatch(w)
    <3>1. result[d][OpOf(d, w)] = "none"
      BY <1>1, <2>4, NotYetRun DEF RequestInv
    <3>2. result[d] \in [OpIds(d) -> {"none", "ok", "err"}]
      BY DEF IInv, TypeOK
    <3>3. slot[1] # OpOf(d, w)
      BY <2>1, <3>1
    <3> QED BY <1>2, <2>1, <2>2, <2>4, <3>2, <3>3
  <2> QED BY <2>3, <2>4
<1> QED BY <1>1, <1>3 DEF TensorsAreMeant, Accepted

LEMMA StoreMeans ==
  ASSUME NEW w \in Workers, IInv, Domains, Known(w), TensorsAreMeant, OutputsAreMeant, Store(w)
  PROVE  TensorsAreMeant'
<1>1. PICK d : d = batch[w][position[w]]
  OBVIOUS
<1>2. /\ position[w] \in DOMAIN batch[w] /\ d \in InBatch(w) /\ d \in Dags
      /\ \A e \in Dags : e # d => tensors'[e] = tensors[e]
      /\ tensors'[d] = Stored(d, w, position[w])
      /\ UNCHANGED <<phase, result>>
      /\ pc[w] = "store"
  BY <1>1, StoreEffect
<1>3. PICK i : i = OpOf(d, w)
  OBVIOUS
<1>4. i \in OpIds(d) /\ result[d][i] = "ok"
  BY <1>2, <1>3, OpAt DEF Known, StorePlace
<1>5. outputs[w][position[w]] = [j \in DOMAIN Program[d][i].outkeys |-> Meaning(d, <<i, j>>)]
  BY <1>1, <1>2, <1>3 DEF OutputsAreMeant
<1>6. ASSUME Accepted(d), NEW slot \in DOMAIN tensors'[d]
      PROVE  /\ slot \in LoadSlots(d) \cup UNION {OutSlots(d, h) : h \in OpIds(d)}
             /\ slot[1] # 0 => result[d][slot[1]] = "ok"
             /\ tensors'[d][slot] = Meaning(d, slot)
  <2>1. CASE slot \in OutSlots(d, i)
    <3>1. slot[1] = i /\ slot[2] \in DOMAIN Program[d][i].outkeys /\ slot = <<i, slot[2]>>
      BY <1>2, <1>4, <2>1, SlotFacts
    <3>2. tensors'[d][slot] = outputs[w][position[w]][slot[2]]
      BY <1>2, <1>3, <2>1 DEF Stored
    <3>3. tensors'[d][slot] = Meaning(d, slot)
      BY <1>5, <3>1, <3>2
    <3> QED BY <1>4, <2>1, <3>1, <3>3
  <2>2. CASE slot \notin OutSlots(d, i)
    <3>1. slot \in DOMAIN tensors[d] /\ tensors'[d][slot] = tensors[d][slot]
      BY <1>2, <1>3, <1>6, <2>2 DEF Stored
    <3> QED BY <1>2, <1>6, <3>1 DEF TensorsAreMeant
  <2> QED BY <2>1, <2>2
<1> QED BY <1>2, <1>6 DEF TensorsAreMeant, Accepted

(* So do the outputs a worker has and has not stored yet.                              *)
LEMMA OutputsKept ==
  ASSUME NEW v \in Workers, IInv, OutputsAreMeant, Undisturbed(v), pc'[v] = "store",
         NEW d \in InBatch(v)', NEW k \in DOMAIN batch'[v], batch'[v][k] = d
  PROVE  outputs'[v][k] = [j \in DOMAIN Program[d][OpOf(d, v)'].outkeys |-> Meaning(d, <<OpOf(d, v)', j>>)]
<1>1. /\ pc[v] = "store" /\ batch'[v] = batch[v] /\ outputs'[v] = outputs[v] /\ d \in InBatch(v)
  BY DEF Undisturbed, InBatch
<1>2. OpOf(d, v)' = OpOf(d, v)
  BY <1>1 DEF Undisturbed, OpOf, CurrentOp, Dev
<1> QED BY <1>1, <1>2 DEF OutputsAreMeant

LEMMA OwnOutputs ==
  ASSUME NEW w \in Workers, IInv, OutcomeInv, TensorsAreMeant, OutputsAreMeant, Worker(w),
         TimeoutFlagReturned, pc'[w] = "store",
         NEW d \in InBatch(w)', NEW k \in DOMAIN batch'[w], batch'[w][k] = d
  PROVE  outputs'[w][k] = [j \in DOMAIN Program[d][OpOf(d, w)'].outkeys |-> Meaning(d, <<OpOf(d, w)', j>>)]
<1> USE DEF requestVars, copyVars, queueVars, workerVars
<1>1. pc \in [Workers -> Places] /\ Domains /\ Known(w) /\ Beginning
  BY DEF IInv, TypeOK, OutcomeInv
<1>2. CASE Moves(w) \/ Pop(w) \/ RunFails(w) \/ FinishOne(w)
  <2>1. pc'[w] # "store"
    <3>1. CASE Wake(w) \/ Sleep(w) \/ NotReady(w) \/ RunAlone(w) \/ RunNothing(w) \/ Reinsert(w)
      BY <1>1, <3>1 DEF Wake, Sleep, NotReady, RunAlone, RunNothing, Reinsert
    <3>2. CASE Scan(w)
      BY <1>1, <3>2 DEF Scan, StartScan, ScanSkip, ScanTake, LaunchBatch, ReturnBatch
    <3>3. CASE Pop(w)
      BY <1>1, <3>3, PopEffect
    <3>4. CASE FinishOne(w)
      BY <1>1, <3>4, FinishEffect
    <3>5. CASE RunFails(w)
      BY <1>1, <3>5 DEF RunFails
    <3> QED BY <1>2, <3>1, <3>2, <3>3, <3>4, <3>5 DEF Moves
  <2> QED BY <2>1
<1>3. CASE RunSucceeds(w)
  <2>1. /\ UNCHANGED <<batch, opsDone>> /\ pc[w] = "run"
        /\ outputs'[w] = [l \in DOMAIN batch[w] |-> Returned(batch[w][l], OpOf(batch[w][l], w))]
    BY <1>1, <1>3 DEF RunSucceeds, Domains
  <2>2. d \in InBatch(w) /\ batch[w][k] = d /\ k \in DOMAIN batch[w] /\ OpOf(d, w)' = OpOf(d, w)
    BY <2>1 DEF InBatch, OpOf, CurrentOp, Dev
  <2>3. outputs'[w][k] = Returned(d, OpOf(d, w))
    BY <2>1, <2>2
  <2>4. /\ d \in Dags /\ Accepted(d) /\ OpOf(d, w) \in OpIds(d) /\ WellFormed(d)
    BY <1>1, <2>2, OpAt DEF Beginning
  <2>5. InSlots(d, OpOf(d, w)) \subseteq DOMAIN tensors[d]
    BY <1>1, <2>1, <2>2 DEF Known, RunPlace, Ready, OpOf
  <2>6. Returned(d, OpOf(d, w)) =
          [j \in DOMAIN Program[d][OpOf(d, w)].outkeys |-> Meaning(d, <<OpOf(d, w), j>>)]
    BY <2>4, <2>5, ReturnedMeans
  <2> QED BY <2>2, <2>3, <2>6
<1>4. CASE Store(w)
  <2>1. UNCHANGED <<batch, opsDone, outputs>> /\ pc[w] = "store"
    BY <1>4 DEF Store
  <2>2. d \in InBatch(w) /\ batch[w][k] = d /\ k \in DOMAIN batch[w] /\ OpOf(d, w)' = OpOf(d, w)
    BY <2>1 DEF InBatch, OpOf, CurrentOp, Dev
  <2> QED BY <2>1, <2>2 DEF OutputsAreMeant
<1> QED BY <1>2, <1>3, <1>4 DEF Worker, Moves, Run

LEMMA InitService == Init => ServiceInv
<1> SUFFICES ASSUME Init PROVE ServiceInv
  OBVIOUS
<1>1. \A d \in Dags : ~Accepted(d) /\ ~timedOut[d] /\ \A dev \in Devices : elapsed[d][dev] = {}
  BY DEF Init, Accepted
<1>2. \A w \in Workers : pc[w] = "wait"
  BY DEF Init
<1> QED BY <1>1, <1>2, InitOutcome DEF ServiceInv, TimeoutsAreAsked, TensorsAreMeant, OutputsAreMeant

LEMMA StepService ==
  ASSUME IInv, ServiceInv, [Next]_vars, TimeoutFlagReturned
  PROVE  ServiceInv'
<1>1. IInv' /\ OutcomeInv'
  BY StepIInv, StepOutcome DEF ServiceInv
<1>2. /\ OutcomeInv /\ TimeoutsAreAsked /\ TensorsAreMeant /\ OutputsAreMeant
      /\ RequestInv /\ Domains /\ \A w \in Workers : Known(w)
  BY DEF ServiceInv, OutcomeInv, RequestInv
<1>3. ASSUME UNCHANGED <<tensors, result>>, \A d \in Dags : Accepted(d)' => Accepted(d)
      PROVE  TensorsAreMeant'
  BY <1>2, <1>3 DEF TensorsAreMeant
<1>4. ASSUME \A v \in Workers : Undisturbed(v) PROVE OutputsAreMeant'
  <2> SUFFICES ASSUME NEW v \in Workers, pc'[v] = "store", NEW d \in InBatch(v)',
                      NEW k \in DOMAIN batch'[v], batch'[v][k] = d
               PROVE  outputs'[v][k] = [j \in DOMAIN Program[d][OpOf(d, v)'].outkeys |->
                                          Meaning(d, <<OpOf(d, v)', j>>)]
    BY DEF OutputsAreMeant
  <2> QED BY <1>2, <1>4, OutputsKept
<1>5. ASSUME NEW w \in Workers, Worker(w) PROVE TensorsAreMeant' /\ OutputsAreMeant'
  <2>1. OutputsAreMeant'
    <3> SUFFICES ASSUME NEW v \in Workers, pc'[v] = "store", NEW d \in InBatch(v)',
                        NEW k \in DOMAIN batch'[v], batch'[v][k] = d
                 PROVE  outputs'[v][k] = [j \in DOMAIN Program[d][OpOf(d, v)'].outkeys |->
                                            Meaning(d, <<OpOf(d, v)', j>>)]
      BY DEF OutputsAreMeant
    <3>1. CASE v = w
      BY <1>2, <1>5, <3>1, OwnOutputs
    <3>2. CASE v # w
      <4>1. Undisturbed(v)
        BY <1>2, <1>5, <3>2, OthersUndisturbed
      <4> QED BY <1>2, <4>1, OutputsKept
    <3> QED BY <3>1, <3>2
  <2>2. TensorsAreMeant'
    <3>1. CASE Moves(w)
      BY <1>2, <1>3, <3>1, MovesEffect DEF Accepted
    <3>2. CASE Pop(w)
      BY <1>2, <1>3, <3>2, PopEffect DEF Accepted
    <3>3. CASE RunSucceeds(w) \/ RunFails(w)
      BY <1>2, <3>3, RunMeans
    <3>4. CASE Store(w)
      BY <1>2, <3>4, StoreMeans
    <3>5. CASE FinishOne(w)
      BY <1>2, <1>3, <3>5, FinishEffect
    <3> QED BY <1>5, <3>1, <3>2, <3>3, <3>4, <3>5 DEF Worker, Moves, Run
  <2> QED BY <2>1, <2>2
<1>6. ASSUME NEW d \in Dags, Outside(d) PROVE TensorsAreMeant' /\ OutputsAreMeant'
  <2>1. OutputsAreMeant'
    BY <1>2, <1>4, <1>6, OutsideUndisturbed
  <2>2. TensorsAreMeant'
    <3>1. CASE Submit(d)
      BY <1>2, <3>1, SubmitMeans
    <3>2. CASE Reject(d) \/ Reply(d)
      <4>1. UNCHANGED <<tensors, result>> /\ \A e \in Dags : Accepted(e)' => Accepted(e)
        BY <3>2 DEF Reject, Reply, Accepted, IInv, TypeOK
      <4> QED BY <1>3, <4>1
    <3>3. CASE \E dev \in Devices : Push(d, dev)
      BY <1>3, <3>3 DEF Push, Accepted, requestVars
    <3>4. CASE \E dev \in Devices, delay \in {"timeout", "minbatch"} : Tick(d, dev, delay)
      BY <1>3, <3>4 DEF Tick, Accepted, requestVars
    <3> QED BY <1>6, <3>1, <3>2, <3>3, <3>4 DEF Outside
  <2> QED BY <2>1, <2>2
<1>7. ASSUME UNCHANGED vars PROVE TimeoutsAreAsked' /\ TensorsAreMeant' /\ OutputsAreMeant'
  <2> USE DEF requestVars, copyVars, queueVars, workerVars
  <2>1. \A v \in Workers : Undisturbed(v)
    BY <1>7 DEF vars, Undisturbed, Halted
  <2>2. UNCHANGED <<tensors, result, phase, timedOut, elapsed>>
    BY <1>7 DEF vars
  <2> QED BY <1>2, <1>3, <1>4, <2>1, <2>2 DEF Accepted, TimeoutsAreAsked
<1>8. CASE Next
  <2>1. TimeoutsAreAsked'
    BY <1>2, <1>8, TimeoutsKept
  <2>2. TensorsAreMeant' /\ OutputsAreMeant'
    BY <1>5, <1>6, <1>7, <1>8 DEF Next, Request, Clock, Idle, Outside
  <2> QED BY <1>1, <2>1, <2>2 DEF ServiceInv
<1>9. CASE UNCHANGED vars
  BY <1>1, <1>7, <1>9 DEF ServiceInv
<1> QED BY <1>8, <1>9

-----------------------------------------------------------------------------
(* The requests implement DagService: each step is one of the service's or changes      *)
(* nothing that the clients see.                                                       *)
LEMMA ServiceTerms ==
  /\ \A d : Service!OpIds(d) = OpIds(d)
  /\ \A d, i : Service!IsRun(d, i) <=> IsRun(d, i)
  /\ \A d : Service!Failed(d) <=> Failed(d)
  /\ Service!NoAnswer = NoAnswer
BY DEF Service!OpIds, OpIds, Service!IsRun, IsRun, Service!Failed, Failed, Service!NoAnswer, NoAnswer

LEMMA InitServed == Init => Service!Init
BY ServiceTerms DEF Init, Service!Init

Stutters == UNCHANGED <<phase, result, timedOut, answer>>

LEMMA StutterSteps ==
  ASSUME IInv, Domains,
         \/ \E w \in Workers : Moves(w) \/ Store(w)
         \/ \E d \in Dags, dev \in Devices : Push(d, dev)
         \/ Clock \/ Idle \/ UNCHANGED vars
  PROVE  Stutters
<1> USE DEF requestVars, copyVars, queueVars, workerVars
<1>1. CASE \E w \in Workers : Moves(w)
  BY <1>1, MovesEffect DEF Stutters
<1>2. CASE \E w \in Workers : Store(w)
  BY <1>2 DEF Stutters, Store
<1>3. CASE \E d \in Dags, dev \in Devices : Push(d, dev)
  BY <1>3 DEF Stutters, Push
<1>4. CASE Clock \/ Idle \/ UNCHANGED vars
  BY <1>4 DEF Stutters, Clock, Tick, Idle, vars
<1> QED BY <1>1, <1>2, <1>3, <1>4

(* Parsing accepts or refuses.                                                         *)
LEMMA ParseServed ==
  ASSUME NEW d \in Dags, Submit(d) \/ Reject(d)
  PROVE  Service!Accept(d) \/ Service!Refuse(d)
<1>1. CASE Submit(d)
  BY <1>1, Resolving, ServiceTerms DEF Submit, Service!Accept
<1>2. CASE Reject(d)
  BY <1>2, Resolving DEF Reject, Service!Refuse
<1> QED BY <1>1, <1>2

(* A worker finds that the TIMEOUT of the request has passed.                          *)
LEMMA PopServed ==
  ASSUME NEW w \in Workers, IInv, IInv', Domains, TimeoutsAreAsked, TimeoutFlagReturned, Pop(w)
  PROVE  Stutters \/ \E d \in Dags : Service!TimeOut(d)
<1>1. PICK d : d = Head(queue[Dev(w)])
  OBVIOUS
<1> DEFINE expired == "timeout" \in elapsed[d][Dev(w)]
<1>2. /\ timedOut' = [timedOut EXCEPT ![d] = @ \/ (~timedOut[d] /\ expired)]
      /\ batch' = [batch EXCEPT ![w] = <<d>>]
      /\ UNCHANGED <<phase, result, answer>>
  BY <1>1 DEF Pop, DagTimeout
<1>3. d \in Dags /\ batch \in [Workers -> Seq(Dags)] /\ timedOut \in [Dags -> BOOLEAN]
  BY <1>1, PopMoves DEF IInv, TypeOK
<1> HIDE DEF expired
<1>4. CASE expired
  <2>1. d \in HasTimeout
    BY <1>3, <1>4, DevFacts DEF TimeoutsAreAsked, expired
  <2>2. phase[d] = "running"
    <3>1. d \in InBatch(w)'
      BY <1>2, <1>3, SingleElement DEF InBatch
    <3>2. HasCopy(d, Dev(w))'
      BY <3>1 DEF HasCopy, Held, InBatch, Dev
    <3>3. Copies(d)' # {}
      BY <3>2, DevFacts DEF Copies, Dev
    <3> QED BY <1>2, <1>3, <3>3 DEF IInv, FinishedOnce
  <2>3. timedOut' = [timedOut EXCEPT ![d] = TRUE]
    <3>1. \A e \in Dags : timedOut'[e] = [timedOut EXCEPT ![d] = TRUE][e]
      <4>1. timedOut[d] \in BOOLEAN
        BY <1>3
      <4>2. (timedOut[d] \/ (~timedOut[d] /\ expired)) = TRUE
        BY <1>4, <4>1
      <4> QED BY <1>2, <1>3, <4>2
    <3> QED BY <1>2, <1>3, <3>1
  <2>4. Service!TimeOut(d)
    BY <1>2, <2>1, <2>2, <2>3 DEF Service!TimeOut
  <2> QED BY <1>3, <2>4
<1>5. CASE ~expired
  <2>1. \A e \in Dags : timedOut'[e] = timedOut[e]
    <3>1. timedOut[d] \in BOOLEAN
      BY <1>3
    <3>2. (timedOut[d] \/ (~timedOut[d] /\ expired)) = timedOut[d]
      BY <1>5, <3>1
    <3> QED BY <1>2, <1>3, <3>2
  <2>2. timedOut' = timedOut
    BY <1>2, <1>3, <2>1
  <2> QED BY <1>2, <2>2 DEF Stutters
<1> QED BY <1>4, <1>5

(* One call of the backend for the batch.                                              *)
LEMMA RunServed ==
  ASSUME NEW w \in Workers, IInv, ServiceInv, RunSucceeds(w) \/ RunFails(w)
  PROVE  \E D \in (SUBSET Dags) \ {{}}, outcome \in {"ok", "err"} :
           \E op \in [D -> UNION {Service!OpIds(d) : d \in D}] : Service!RunTogether(D, op, outcome)
<1> DEFINE D == InBatch(w)
           op == [d \in D |-> OpOf(d, w)]
<1>1. RequestInv /\ Domains /\ Known(w) /\ TensorsAreMeant
  BY DEF ServiceInv, OutcomeInv, RequestInv
<1>2. /\ UNCHANGED <<phase, timedOut, answer>>
      /\ pc[w] = "run" /\ IsRun(HeadOf(w), OpOf(HeadOf(w), w))
  BY <1>1, RunEffect
<1>3. PICK outcome \in {"ok", "err"} :
        result' = [d \in Dags |-> IF d \in InBatch(w) THEN [result[d] EXCEPT ![OpOf(d, w)] = outcome]
                                  ELSE result[d]]
  BY <1>1, RunEffect
<1>4. D \in (SUBSET Dags) \ {{}}
  <2>1. batch[w] \in Seq(Dags) /\ batch[w] # <<>>
    BY <1>2 DEF IInv, TypeOK, BatchMatchesPlace
  <2>2. \A d \in D : d \in Dags
    BY OpAt
  <2>3. HeadOf(w) \in D
    BY <2>1, BatchFacts
  <2> QED BY <2>2, <2>3
<1>5. ASSUME NEW d \in D
      PROVE  /\ d \in Dags /\ phase[d] = "running" /\ OpOf(d, w) \in Service!OpIds(d)
             /\ Service!IsRun(d, OpOf(d, w))
             /\ result[d][OpOf(d, w)] = "none"
             /\ \A h \in Service!Producers(d, OpOf(d, w)) : result[d][h] = "ok"
  <2>1. d \in Dags /\ phase[d] = "running" /\ Accepted(d) /\ OpOf(d, w) \in OpIds(d)
    BY OpAt
  <2>2. IsRun(d, OpOf(d, w)) /\ result[d][OpOf(d, w)] = "none"
    BY <1>1, <1>2, NotYetRun DEF RequestInv
  <2>3. WellFormed(d)
    BY <1>1, <2>1 DEF RequestInv, Beginning
  <2>4. InSlots(d, OpOf(d, w)) \subseteq DOMAIN tensors[d]
    BY <1>1, <1>2 DEF Known, RunPlace, Ready, OpOf
  <2>5. ASSUME NEW h \in Service!Producers(d, OpOf(d, w)) PROVE result[d][h] = "ok"
    <3>1. PICK slot \in InSlots(d, OpOf(d, w)) : slot[1] = h
      BY <2>1, <2>3, InputsMean
    <3>2. h # 0
      BY <2>1, <2>3, InputsMean, OpNumbers
    <3> QED BY <1>1, <2>1, <2>4, <3>1, <3>2 DEF TensorsAreMeant
  <2> QED BY <2>1, <2>2, <2>5, ServiceTerms
<1>6. op \in [D -> UNION {Service!OpIds(d) : d \in D}]
  BY <1>5
<1>7. \A d \in D : op[d] = OpOf(d, w)
  OBVIOUS
<1> HIDE DEF op
<1>8. Service!RunTogether(D, op, outcome)
  <2>1. result' = [d \in Dags |-> IF d \in D THEN [result[d] EXCEPT ![op[d]] = outcome] ELSE result[d]]
    BY <1>3, <1>7
  <2>2. \A d \in D : /\ phase[d] = "running" /\ op[d] \in Service!OpIds(d)
                     /\ Service!IsRun(d, op[d]) /\ result[d][op[d]] = "none"
                     /\ \A h \in Service!Producers(d, op[d]) : result[d][h] = "ok"
    BY <1>5, <1>7
  <2> HIDE DEF D
  <2> QED BY <1>2, <2>1, <2>2 DEF Service!RunTogether
<1> HIDE DEF D
<1> QED BY <1>3, <1>4, <1>6, <1>8

(* The last copy is freed: the request has succeeded, failed or timed out.              *)
LEMMA FinishServed ==
  ASSUME NEW w \in Workers, IInv, IInv', OutcomeInv, OutcomeInv', FinishOne(w), TimeoutFlagReturned
  PROVE  Stutters \/ \E d \in Dags : Service!Finish(d)
<1>1. PICK d \in Dags :
        /\ UNCHANGED <<result, dagError, timedOut, answer>>
        /\ UNCHANGED phase \/ (phase' = [phase EXCEPT ![d] = "finished"] /\ phase[d] = "running")
  <2>1. Domains
    BY DEF OutcomeInv
  <2> QED BY <2>1, FinishEffect
<1>2. CASE UNCHANGED phase
  BY <1>1, <1>2 DEF Stutters
<1>3. CASE phase' = [phase EXCEPT ![d] = "finished"] /\ phase[d] = "running"
  <2>1. phase'[d] = "finished"
    BY <1>3 DEF IInv, TypeOK
  <2>2. FinishedMeansDone'
    BY OutcomeMeans, PTL
  <2>3. \/ \A i \in OpIds(d) : IsRun(d, i) => result[d][i] = "ok"
        \/ Failed(d) \/ timedOut[d]
    <3>1. dagError'[d] <=> Failed(d)'
      BY <2>2 DEF FinishedMeansDone
    <3>2. Failed(d)' <=> Failed(d)
      BY <1>1 DEF Failed
    <3>3. ~timedOut'[d] /\ ~dagError'[d] => \A i \in OpIds(d) : IsRun(d, i) => result'[d][i] = "ok"
      BY <2>1, <2>2 DEF FinishedMeansDone
    <3> QED BY <1>1, <3>1, <3>2, <3>3
  <2>4. Service!Succeeded(d) \/ Service!Failed(d) \/ timedOut[d]
    BY <2>3, ServiceTerms DEF Service!Succeeded
  <2>5. Service!Finish(d)
    BY <1>1, <1>3, <2>4 DEF Service!Finish
  <2> QED BY <2>5
<1> QED BY <1>1, <1>2, <1>3

(* The answer: what is persisted is what the names mean.                               *)
LEMMA ReplyServed ==
  ASSUME NEW d \in Dags, IInv, ServiceInv, Reply(d)
  PROVE  Service!Answer(d)
<1>1. PICK saved \in Saved(d) :
        answer' = [answer EXCEPT ![d] =
          [kind |-> IF timedOut[d] THEN "timedout"
                    ELSE IF Failed(d) THEN "error"
                    ELSE IF saved = Persist[d] THEN "ok" ELSE "not_saved",
           saved |-> [k \in saved |-> tensors[d][PersistSlot(d, k)]]]]
  BY DEF Reply
<1>2. /\ saved \subseteq Persist[d] /\ saved \cap BadKeys = {}
      /\ timedOut[d] \/ Failed(d) => saved = {}
  BY DEF Saved
<1>3. phase[d] = "finished" /\ phase' = [phase EXCEPT ![d] = "replied"] /\ UNCHANGED <<result, timedOut>>
  BY DEF Reply
<1>4. Accepted(d) /\ WellFormed(d) /\ LoadSlots(d) \subseteq DOMAIN tensors[d] /\ TensorsAreMeant
  BY <1>3 DEF Accepted, ServiceInv, OutcomeInv, Beginning
<1>5. ASSUME NEW k \in saved
      PROVE  tensors[d][PersistSlot(d, k)] = Service!Environment(d)[Len(Program[d])][k]
  <2>1. k \in Persist[d] /\ ~timedOut[d] /\ ~Failed(d)
    BY <1>2
  <2>2. FinishedMeansDone
    BY OutcomeMeans DEF ServiceInv
  <2>3. \A h \in OpIds(d) : OutSlots(d, h) \subseteq DOMAIN tensors[d]
    BY <1>3, <2>1, <2>2 DEF FinishedMeansDone
  <2>4. PersistSlot(d, k) \in DOMAIN tensors[d]
    BY <1>4, <2>1, <2>3, PersistMeans
  <2>5. tensors[d][PersistSlot(d, k)] = Meaning(d, PersistSlot(d, k))
    BY <1>4, <2>4 DEF TensorsAreMeant
  <2> QED BY <1>4, <2>1, <2>5, PersistMeans
<1>6. [k \in saved |-> tensors[d][PersistSlot(d, k)]] =
        [k \in saved |-> Service!Environment(d)[Len(Program[d])][k]]
  BY <1>5
<1> DEFINE kind == CASE timedOut[d] -> "timedout"
                     [] ~timedOut[d] /\ Service!Failed(d) -> "error"
                     [] ~timedOut[d] /\ ~Service!Failed(d) /\ saved = Persist[d] -> "ok"
                     [] OTHER -> "not_saved"
<1>7. kind = IF timedOut[d] THEN "timedout"
             ELSE IF Failed(d) THEN "error"
             ELSE IF saved = Persist[d] THEN "ok" ELSE "not_saved"
  BY ServiceTerms
<1>8. answer' = [answer EXCEPT ![d] =
        [kind |-> kind, saved |-> [k \in saved |-> Service!Environment(d)[Len(Program[d])][k]]]]
  <2> HIDE DEF kind
  <2> QED BY <1>1, <1>6, <1>7
<1> QED BY <1>2, <1>3, <1>8, ServiceTerms DEF Service!Answer

LEMMA StepServed ==
  ASSUME IInv, ServiceInv, [Next]_vars, TimeoutFlagReturned
  PROVE  [Service!Next]_<<phase, result, timedOut, answer>>
<1>1. IInv' /\ ServiceInv'
  BY StepIInv, StepService
<1>2. /\ OutcomeInv /\ OutcomeInv' /\ Domains /\ TimeoutsAreAsked
  BY <1>1 DEF ServiceInv, OutcomeInv
<1>3. Stutters \/ Service!Next
  <2>1. ASSUME NEW d \in Dags, Request(d) PROVE Stutters \/ Service!Next
    <3>1. CASE Submit(d) \/ Reject(d)
      BY <3>1, ParseServed DEF Service!Next
    <3>2. CASE Reply(d)
      BY <3>2, ReplyServed DEF Service!Next
    <3>3. CASE \E dev \in Devices : Push(d, dev)
      BY <1>2, <3>3, StutterSteps
    <3> QED BY <2>1, <3>1, <3>2, <3>3 DEF Request
  <2>2. ASSUME NEW w \in Workers, Worker(w) PROVE Stutters \/ Service!Next
    <3>1. CASE Moves(w) \/ Store(w)
      BY <1>2, <3>1, StutterSteps
    <3>2. CASE Pop(w)
      BY <1>1, <1>2, <3>2, PopServed DEF Service!Next
    <3>3. CASE RunSucceeds(w) \/ RunFails(w)
      BY <3>3, RunServed DEF Service!Next
    <3>4. CASE FinishOne(w)
      BY <1>1, <1>2, <3>4, FinishServed DEF Service!Next
    <3> QED BY <2>2, <3>1, <3>2, <3>3, <3>4 DEF Worker, Moves, Run
  <2>3. CASE Clock \/ Idle \/ UNCHANGED vars
    BY <1>2, <2>3, StutterSteps
  <2> QED BY <2>1, <2>2, <2>3 DEF Next
<1> QED BY <1>3 DEF Stutters

(* RedisAI keeps the promise of DagService, which knows no queues, threads, copies,     *)
(* locks or batches, for any requests, devices and workers, whatever fails: in a build  *)
(* whose RedisAI_DagTimeout returns the flag it loads.                                  *)
THEOREM DagKeepsPromise == TimeoutFlagReturned => (Spec => ServiceSpec)
<1> SUFFICES ASSUME TimeoutFlagReturned PROVE Spec => ServiceSpec
  OBVIOUS
<1>1. IInv /\ ServiceInv /\ [Next]_vars => ServiceInv'
  BY StepService
<1>2. IInv /\ ServiceInv /\ [Next]_vars => [Service!Next]_<<phase, result, timedOut, answer>>
  BY StepServed
<1> QED BY <1>1, <1>2, InitService, InitServed, DagInvariant, PTL
        DEF Spec, ServiceSpec, Service!Spec, Service!serviceVars

-----------------------------------------------------------------------------
(* The batches.  A worker that scans its queue knows what BatchFits asks of the batch   *)
(* it is collecting, and the rows of it.                                                *)
Collected(w) ==
  LET d == HeadOf(w)
      n == Len(batch[w])
  IN  /\ \A e \in InBatch(w) : Joins(w, e)
      /\ Current(d, Dev(w)).inkeys # <<>>
      /\ batchRows[w] \in Nat /\ batchRows[w] = RowsOf(w, n)
      /\ n > 1 => RowsOf(w, n - 1) < Options(d, Dev(w)).batchsize

BatchKnown(w) ==
  /\ pc[w] = "scan" => Collected(w)
  /\ pc[w] = "run" => BatchFits(w)

BatchInv ==
  /\ Domains
  /\ \A w \in Workers : BatchKnown(w)

(* The rows of a batch: the recursive function of SumTo is what its recursion says.     *)
IsSum(f, rows, n) == f = [k \in 0 .. n |-> IF k = 0 THEN 0 ELSE f[k - 1] + rows[k]]

LEMMA SumExists ==
  ASSUME NEW rows, NEW n \in Nat
  PROVE  \E f : IsSum(f, rows, n)
<1> DEFINE Good == {m \in Nat : \E f : IsSum(f, rows, m)}
<1>1. 0 \in Good
  <2> DEFINE f == [k \in 0 .. 0 |-> 0]
  <2>1. f = [k \in 0 .. 0 |-> IF k = 0 THEN 0 ELSE f[k - 1] + rows[k]]
    BY \A k \in 0 .. 0 : k = 0
  <2>2. IsSum(f, rows, 0)
    BY <2>1 DEF IsSum
  <2> QED BY <2>2
<1>2. ASSUME NEW m \in Good PROVE m + 1 \in Good
  <2>0. m \in Nat /\ m + 1 \in Nat
    BY <1>2
  <2>1. PICK f : f = [k \in 0 .. m |-> IF k = 0 THEN 0 ELSE f[k - 1] + rows[k]]
    BY DEF IsSum
  <2> DEFINE g == [k \in 0 .. m + 1 |-> IF k = m + 1 THEN f[m] + rows[m + 1] ELSE f[k]]
  <2>2. ASSUME NEW k \in 0 .. m + 1
        PROVE  g[k] = IF k = 0 THEN 0 ELSE g[k - 1] + rows[k]
    <3>1. CASE k = m + 1
      <4>1. k # 0 /\ k - 1 = m /\ m \in 0 .. m + 1 /\ m # m + 1
        BY <2>0, <3>1
      <4>2. g[k] = f[m] + rows[m + 1] /\ g[m] = f[m]
        BY <3>1, <4>1
      <4> HIDE DEF g
      <4> QED BY <3>1, <4>1, <4>2
    <3>2. CASE k # m + 1
      <4>1. k \in 0 .. m /\ (k # 0 => k - 1 \in 0 .. m + 1 /\ k - 1 # m + 1)
        BY <2>0, <3>2
      <4>2. g[k] = f[k] /\ (k # 0 => g[k - 1] = f[k - 1])
        BY <3>2, <4>1
      <4> HIDE DEF g
      <4>3. f[k] = IF k = 0 THEN 0 ELSE f[k - 1] + rows[k]
        BY <2>1, <4>1
      <4> QED BY <4>2, <4>3
    <3> QED BY <3>1, <3>2
  <2>3. g = [k \in 0 .. m + 1 |-> IF k = 0 THEN 0 ELSE g[k - 1] + rows[k]]
    BY <2>2
  <2> HIDE DEF g
  <2>4. IsSum(g, rows, m + 1)
    BY <2>3 DEF IsSum
  <2> QED BY <2>0, <2>4
<1>3. Good = Nat
  <2>1. Good \in SUBSET Nat
    OBVIOUS
  <2>2. \A m \in Good : m + 1 \in Good
    BY <1>2
  <2> HIDE DEF Good
  <2> QED BY <1>1, <2>1, <2>2, SetInduction
<1> QED BY <1>3

LEMMA SumUnique ==
  ASSUME NEW rows, NEW n \in Nat, NEW m \in Nat, n <= m, NEW f, NEW g,
         IsSum(f, rows, n), IsSum(g, rows, m)
  PROVE  f[n] = g[n]
<1> DEFINE Same == {k \in Nat : k <= n => f[k] = g[k]}
<1>1. /\ \A k \in 0 .. n : f[k] = IF k = 0 THEN 0 ELSE f[k - 1] + rows[k]
      /\ \A k \in 0 .. m : g[k] = IF k = 0 THEN 0 ELSE g[k - 1] + rows[k]
  BY DEF IsSum
<1>2. 0 \in Same
  BY <1>1
<1>3. ASSUME NEW k \in Same PROVE k + 1 \in Same
  <2>1. k \in Nat /\ k + 1 \in Nat
    BY <1>3
  <2>2. CASE k + 1 <= n
    <3>1. k + 1 \in 0 .. n /\ k + 1 \in 0 .. m /\ k + 1 # 0 /\ (k + 1) - 1 = k /\ k <= n
      BY <2>1, <2>2
    <3>2. f[k + 1] = f[k] + rows[k + 1] /\ g[k + 1] = g[k] + rows[k + 1]
      BY <1>1, <3>1
    <3>3. f[k] = g[k]
      BY <3>1
    <3> QED BY <2>1, <3>2, <3>3
  <2>3. CASE ~(k + 1 <= n)
    BY <2>1, <2>3
  <2> QED BY <2>2, <2>3
<1>4. Same = Nat
  <2>1. Same \in SUBSET Nat
    OBVIOUS
  <2>2. \A k \in Same : k + 1 \in Same
    BY <1>3
  <2> HIDE DEF Same
  <2> QED BY <1>2, <2>1, <2>2, SetInduction
<1> QED BY <1>4

LEMMA SumSteps ==
  ASSUME NEW rows
  PROVE  /\ SumTo(rows, 0) = 0
         /\ \A n \in Nat : SumTo(rows, n + 1) = SumTo(rows, n) + rows[n + 1]
<1> DEFINE S(n) == CHOOSE f : f = [k \in 0 .. n |-> IF k = 0 THEN 0 ELSE f[k - 1] + rows[k]]
<1>1. \A n : SumTo(rows, n) = S(n)[n]
  BY DEF SumTo
<1>2. ASSUME NEW n \in Nat PROVE IsSum(S(n), rows, n)
  BY SumExists DEF IsSum
<1> HIDE DEF S
<1>3. SumTo(rows, 0) = 0
  <2>1. IsSum(S(0), rows, 0) /\ 0 \in 0 .. 0
    BY <1>2
  <2> QED BY <1>1, <2>1 DEF IsSum
<1>4. ASSUME NEW n \in Nat PROVE SumTo(rows, n + 1) = SumTo(rows, n) + rows[n + 1]
  <2>1. /\ n + 1 \in Nat /\ n <= n + 1
        /\ n + 1 \in 0 .. n + 1 /\ n + 1 # 0 /\ (n + 1) - 1 = n
    OBVIOUS
  <2>2. IsSum(S(n), rows, n) /\ IsSum(S(n + 1), rows, n + 1)
    BY <1>2, <2>1
  <2>3. S(n)[n] = S(n + 1)[n]
    BY <2>1, <2>2, SumUnique
  <2>4. S(n + 1)[n + 1] = S(n + 1)[n] + rows[n + 1]
    BY <2>1, <2>2 DEF IsSum
  <2> QED BY <1>1, <2>3, <2>4
<1> QED BY <1>3, <1>4

LEMMA SumSame ==
  ASSUME NEW r, NEW s, NEW n \in Nat, \A k \in 1 .. n : r[k] = s[k]
  PROVE  SumTo(r, n) = SumTo(s, n)
<1> DEFINE Same == {k \in Nat : k <= n => SumTo(r, k) = SumTo(s, k)}
<1>1. 0 \in Same
  BY SumSteps
<1>2. ASSUME NEW k \in Same PROVE k + 1 \in Same
  <2>1. k \in Nat /\ k + 1 \in Nat
    BY <1>2
  <2>2. CASE k + 1 <= n
    <3>1. k + 1 \in 1 .. n /\ k <= n
      BY <2>1, <2>2
    <3>2. r[k + 1] = s[k + 1] /\ SumTo(r, k) = SumTo(s, k)
      BY <3>1
    <3>3. SumTo(r, k + 1) = SumTo(s, k + 1)
      BY <2>1, <3>2, SumSteps
    <3> QED BY <2>1, <3>3
  <2>3. CASE ~(k + 1 <= n)
    BY <2>1, <2>3
  <2> QED BY <2>2, <2>3
<1>3. Same = Nat
  <2>1. Same \in SUBSET Nat
    OBVIOUS
  <2>2. \A k \in Same : k + 1 \in Same
    BY <1>2
  <2> HIDE DEF Same
  <2> QED BY <1>1, <2>1, <2>2, SetInduction
<1> QED BY <1>3

LEMMA RowsSteps ==
  ASSUME NEW w \in Workers, batch[w] \in Seq(Dags), batch[w] # <<>>
  PROVE  /\ RowsOf(w, 0) = 0
         /\ RowsOf(w, 1) = RowsOf(w, 0) + Current(HeadOf(w), Dev(w)).rows
<1> DEFINE rows == [k \in DOMAIN batch[w] |-> Current(batch[w][k], Dev(w)).rows]
<1>1. \A n : RowsOf(w, n) = SumTo(rows, n)
  BY DEF RowsOf
<1>2. 1 \in DOMAIN batch[w]
  BY BatchFacts
<1>3. rows[1] = Current(HeadOf(w), Dev(w)).rows
  BY <1>2 DEF HeadOf
<1> HIDE DEF rows
<1>4. SumTo(rows, 0) = 0 /\ SumTo(rows, 0 + 1) = SumTo(rows, 0) + rows[0 + 1]
  BY SumSteps
<1> QED BY <1>1, <1>3, <1>4

(* What BatchFits and Collected say of the copies of a batch, step by step.             *)
Kept(v) ==
  /\ pc'[v] = pc[v] /\ batch'[v] = batch[v] /\ batchRows'[v] = batchRows[v]
  /\ \A d \in InBatch(v) : /\ opsDone'[d][Dev(v)] = opsDone[d][Dev(v)]
                           /\ DOMAIN tensors[d] \subseteq DOMAIN tensors'[d]
                           /\ elapsed[d][Dev(v)] \subseteq elapsed'[d][Dev(v)]

LEMMA KeptBatch ==
  ASSUME NEW v \in Workers, IInv, BatchKnown(v), Kept(v)
  PROVE  BatchKnown(v)'
<1>1. /\ batch[v] \in Seq(Dags) /\ Dev(v)' = Dev(v) /\ BatchMatchesPlace
      /\ pc'[v] = pc[v] /\ batch'[v] = batch[v] /\ batchRows'[v] = batchRows[v]
      /\ InBatch(v)' = InBatch(v) /\ HeadOf(v)' = HeadOf(v)
  BY DEF IInv, TypeOK, Dev, Kept, InBatch, HeadOf
<1>2. ASSUME pc[v] \in {"scan", "run"} PROVE HeadOf(v) \in InBatch(v)
  BY <1>1, <1>2, BatchFacts DEF BatchMatchesPlace
<1>3. \A d \in InBatch(v) : /\ CurrentOp(d, Dev(v))' = CurrentOp(d, Dev(v))
                            /\ Current(d, Dev(v))' = Current(d, Dev(v))
                            /\ Ready(d, Dev(v)) => Ready(d, Dev(v))'
                            /\ Batchable(d, Dev(v))' <=> Batchable(d, Dev(v))
                            /\ Options(d, Dev(v))' = Options(d, Dev(v))
                            /\ MinBatchTimedOut(d, Dev(v)) => MinBatchTimedOut(d, Dev(v))'
  BY DEF Kept, CurrentOp, Current, Ready, Batchable, Options, MinBatchTimedOut, Dev
<1>4. \A n : RowsOf(v, n)' = RowsOf(v, n)
  <2>1. \A k \in DOMAIN batch[v] : batch[v][k] \in InBatch(v)
    BY <1>1, BatchFacts
  <2>2. [k \in DOMAIN batch[v] |-> Current(batch[v][k], Dev(v)).rows]'
          = [k \in DOMAIN batch[v] |-> Current(batch[v][k], Dev(v)).rows]
    BY <1>1, <1>3, <2>1 DEF Kept, Current, CurrentOp, Dev
  <2> QED BY <2>2 DEF RowsOf
<1>5. ASSUME pc[v] = "scan", Collected(v) PROVE Collected(v)'
  <2>1. \A e \in InBatch(v) : Joins(v, e)'
    BY <1>1, <1>2, <1>3, <1>5 DEF Collected, Joins, SameModel, SameShape
  <2> QED BY <1>1, <1>2, <1>3, <1>4, <1>5, <2>1 DEF Collected
<1>6. ASSUME pc[v] = "run", BatchFits(v) PROVE BatchFits(v)'
  <2>1. \A n : BatchTooSmall(HeadOf(v), Dev(v), RowsOf(v, n))'
                 <=> BatchTooSmall(HeadOf(v), Dev(v), RowsOf(v, n))
    BY <1>1, <1>2, <1>3, <1>4, <1>6 DEF BatchTooSmall
  <2> QED BY <1>1, <1>2, <1>3, <1>4, <1>6, <2>1 DEF BatchFits
<1> QED BY <1>1, <1>5, <1>6 DEF BatchKnown

(* The steps of the other workers keep it, and those of the main thread and of time.     *)
LEMMA OthersKept ==
  ASSUME NEW w \in Workers, IInv, Domains, Worker(w)
  PROVE  /\ \A v \in Workers : v # w => Kept(v)
         /\ Domains'
         /\ Moves(w) \/ pc'[w] \notin {"scan", "run"}
<1> USE DEF requestVars, copyVars, queueVars, workerVars
<1>1. /\ pc \in [Workers -> Places] /\ batch \in [Workers -> Seq(Dags)]
      /\ DOMAIN batchRows = Workers /\ DOMAIN tensors = Dags /\ DOMAIN outputs = Workers
      /\ opsDone \in [Dags -> [Devices -> Nat]]
      /\ TypeOK /\ CopyInOnePlace /\ BatchMatchesPlace
      /\ Dev(w) \in Devices
  BY DevFacts DEF IInv, TypeOK, Domains
<1>2. \A v \in Workers : \A d \in InBatch(v) : d \in Dags /\ Dev(v) \in Devices
  BY OpAt
<1>3. CASE Moves(w)
  BY <1>2, <1>3, MovesEffect DEF Kept
<1>4. CASE Pop(w)
  <2>1. /\ UNCHANGED <<tensors, firstError, answer, outputs, batchRows, opsDone, elapsed>>
        /\ \A v \in Workers : v # w => pc'[v] = pc[v] /\ batch'[v] = batch[v]
        /\ pc'[w] \in {"finish", "prepare"}
    BY <1>1, <1>4 DEF Pop
  <2> QED BY <2>1 DEF Kept, Domains
<1>5. CASE RunSucceeds(w) \/ RunFails(w)
  <2>1. pc'[w] \in {"store", "finish"}
    BY <1>1, <1>5 DEF RunSucceeds, RunFails
  <2> QED BY <1>2, <1>5, <2>1, RunEffect DEF Kept
<1>6. CASE Store(w)
  <2>1. /\ UNCHANGED <<firstError, answer, outputs, batchRows, opsDone, elapsed, batch>>
        /\ \A v \in Workers : v # w => pc'[v] = pc[v]
        /\ pc'[w] \in {"store", "finish"}
    BY <1>1, <1>6 DEF Store
  <2>2. PICK d, k : tensors' = [tensors EXCEPT ![d] = Stored(d, w, k)]
    BY <1>6 DEF Store
  <2>3. DOMAIN tensors' = Dags /\ \A e \in Dags : DOMAIN tensors[e] \subseteq DOMAIN tensors'[e]
    BY <1>1, <2>2 DEF Stored
  <2> QED BY <1>2, <2>1, <2>3 DEF Kept, Domains
<1>7. CASE FinishOne(w)
  <2>1. PICK d \in Dags : d \in InBatch(w) /\ opsDone' = [opsDone EXCEPT ![d][Dev(w)] = opsDone[d][Dev(w)] + 1]
    BY <1>1, <1>7, FinishTakesLast DEF FinishOne, InBatch
  <2>2. /\ UNCHANGED <<tensors, firstError, answer, outputs, batchRows, elapsed>>
        /\ pc' = [pc EXCEPT ![w] = IF Len(batch[w]) = 1 THEN "reinsert" ELSE "finish"]
    BY <1>7 DEF FinishOne
  <2>3. \A v \in Workers : v # w => pc'[v] = pc[v] /\ batch'[v] = batch[v]
    BY <1>1, <1>7, <2>2, FinishTakesLast
  <2>4. \A v \in Workers : v # w => \A e \in InBatch(v) : opsDone'[e][Dev(v)] = opsDone[e][Dev(v)]
    <3> SUFFICES ASSUME NEW v \in Workers, v # w, NEW e \in InBatch(v)
                 PROVE  opsDone'[e][Dev(v)] = opsDone[e][Dev(v)]
      OBVIOUS
    <3>1. ~(e = d /\ Dev(v) = Dev(w))
      BY <2>1, OneHolder
    <3> QED BY <1>1, <1>2, <2>1, <3>1
  <2>5. pc'[w] \in {"reinsert", "finish"}
    BY <1>1, <2>2
  <2> QED BY <2>2, <2>3, <2>4, <2>5 DEF Kept, Domains
<1> QED BY <1>3, <1>4, <1>5, <1>6, <1>7 DEF Worker, Moves, Run

LEMMA OutsideKept ==
  ASSUME NEW d \in Dags, IInv, Domains, Outside(d)
  PROVE  Domains' /\ \A v \in Workers : Kept(v)
<1> USE DEF requestVars, copyVars, queueVars, workerVars
<1>1. \A v \in Workers : Kept(v)
  BY OutsideUndisturbed DEF Undisturbed, Kept
<1>2. CASE Submit(d)
  BY <1>1, <1>2 DEF Submit, Domains
<1>3. CASE Reply(d)
  BY <1>1, <1>3 DEF Reply, Domains
<1>4. CASE Reject(d) \/ (\E dev \in Devices : Push(d, dev))
           \/ \E dev \in Devices, delay \in {"timeout", "minbatch"} : Tick(d, dev, delay)
  <2>1. UNCHANGED <<tensors, firstError, answer, outputs, batchRows>>
    BY <1>4 DEF Reject, Push, Tick
  <2> QED BY <1>1, <2>1 DEF Domains
<1> QED BY <1>1, <1>2, <1>3, <1>4 DEF Outside

(* What a worker knows of its batch after a move of its own.                             *)
LEMMA MovesBatch ==
  ASSUME NEW w \in Workers, IInv, IInv', Domains, BatchKnown(w), Moves(w)
  PROVE  BatchKnown(w)'
<1> USE DEF requestVars, copyVars, queueVars, workerVars
<1>1. /\ UNCHANGED <<tensors, opsDone, elapsed>>
      /\ pc \in [Workers -> Places] /\ batch \in [Workers -> Seq(Dags)]
      /\ batch[w] \in Seq(Dags) /\ batch'[w] \in Seq(Dags)
      /\ DOMAIN batchRows = Workers
      /\ BatchMatchesPlace /\ BatchMatchesPlace' /\ Dev(w)' = Dev(w)
  BY MovesEffect DEF IInv, TypeOK, Dev, Domains
<1>2. \A d, dev : /\ Ready(d, dev)' <=> Ready(d, dev)
                  /\ Batchable(d, dev)' <=> Batchable(d, dev)
                  /\ Current(d, dev)' = Current(d, dev)
                  /\ Options(d, dev)' = Options(d, dev)
                  /\ MinBatchTimedOut(d, dev)' <=> MinBatchTimedOut(d, dev)
  BY <1>1 DEF Ready, Batchable, Current, CurrentOp, Options, MinBatchTimedOut
<1>3. ASSUME NEW d \in InBatch(w) PROVE /\ Current(d, Dev(w)) \in Operation
                                        /\ Batchable(d, Dev(w)) /\ Current(d, Dev(w)).rows # 0 =>
                                             Current(d, Dev(w)).inkeys # <<>>
  <2>1. d \in Dags /\ OpOf(d, w) \in DOMAIN Program[d] /\ OpIds(d) = DOMAIN Program[d]
    BY OpAt, ProgramAssumption DEF OpIds
  <2>2. Program[d][OpOf(d, w)] \in Operation
    BY <2>1, ProgramAssumption
  <2>3. Current(d, Dev(w)) = Program[d][OpOf(d, w)]
    BY DEF Current, OpOf
  <2>4. Current(d, Dev(w)).cmd = "modelrun" /\ Current(d, Dev(w)).inkeys = <<>> => Current(d, Dev(w)).rows = 0
    BY <2>1, <2>3, ProgramAssumption
  <2> QED BY <2>2, <2>3, <2>4 DEF Batchable
<1>4. CASE pc'[w] \notin {"scan", "run"}
  BY <1>4 DEF BatchKnown
<1>5. CASE RunAlone(w) \/ StartScan(w)
  <2>1. PICK d : d = HeadOf(w)
    OBVIOUS
  <2>2. /\ batch' = batch /\ Len(batch[w]) = 1 /\ batch[w] # <<>> /\ pc[w] = "prepare"
        /\ InBatch(w)' = InBatch(w) /\ HeadOf(w)' = d /\ HeadOf(w)' = HeadOf(w)
    BY <1>1, <1>5, <2>1 DEF RunAlone, StartScan, BatchMatchesPlace, InBatch, HeadOf
  <2>3. InBatch(w) = {d} /\ d \in InBatch(w)
    BY <1>1, <2>1, <2>2, BatchFacts
  <2>4. Current(d, Dev(w)).rows \in Nat
    BY <1>3, <2>3 DEF Operation
  <2>5. RowsOf(w, 1) = Current(d, Dev(w)).rows
    BY <1>1, <2>1, <2>2, <2>4, RowsSteps
  <2>6. \A n : RowsOf(w, n)' = RowsOf(w, n)
    BY <1>1, <1>2, <2>2 DEF RowsOf
  <2>7. CASE RunAlone(w)
    <3>1. pc'[w] = "run" /\ Ready(d, Dev(w))
      BY <1>1, <2>1, <2>7 DEF RunAlone
    <3>2. \/ ~Batchable(d, Dev(w))
          \/ MinBatchTimedOut(d, Dev(w))
          \/ RowsOf(w, 1) = 0
          \/ RowsOf(w, 1) >= Options(d, Dev(w)).batchsize
      BY <2>1, <2>5, <2>7 DEF RunAlone
    <3>3. BatchFits(w)'
      BY <1>1, <1>2, <2>1, <2>2, <2>3, <2>6, <3>1, <3>2 DEF BatchFits
    <3> QED BY <3>1, <3>3 DEF BatchKnown
  <2>8. CASE StartScan(w)
    <3>1. /\ pc'[w] = "scan" /\ Ready(d, Dev(w)) /\ Batchable(d, Dev(w))
          /\ Current(d, Dev(w)).rows # 0 /\ batchRows'[w] = Current(d, Dev(w)).rows
      BY <1>1, <2>1, <2>8 DEF StartScan
    <3>2. Current(d, Dev(w)).inkeys # <<>>
      BY <1>3, <2>3, <3>1
    <3>3. Joins(w, d)
      BY <2>1, <3>1 DEF Joins, SameModel, SameShape
    <3>4. Joins(w, d)'
      BY <1>1, <1>2, <2>1, <2>2, <3>3 DEF Joins, SameModel, SameShape
    <3>5. Collected(w)'
      BY <1>1, <1>2, <2>1, <2>2, <2>3, <2>4, <2>5, <2>6, <3>1, <3>2, <3>4 DEF Collected
    <3> QED BY <3>1, <3>5 DEF BatchKnown
  <2> QED BY <1>5, <2>7, <2>8
<1>6. ASSUME Collected(w), batch[w] # <<>>
      PROVE  /\ \A e \in InBatch(w) : /\ Ready(e, Dev(w))
                                      /\ Current(e, Dev(w)).model = Current(HeadOf(w), Dev(w)).model
                                      /\ Current(e, Dev(w)).shape = Current(HeadOf(w), Dev(w)).shape
             /\ HeadOf(w) \in InBatch(w)
             /\ Options(HeadOf(w), Dev(w)).batchsize \in Nat
  <2>1. HeadOf(w) \in InBatch(w)
    BY <1>1, <1>6, BatchFacts
  <2>2. Current(HeadOf(w), Dev(w)).model \in Models
    BY <1>3, <2>1 DEF Operation
  <2>3. Options(HeadOf(w), Dev(w)).batchsize \in Nat
    BY <2>2, ModelOptsAssumption DEF Options
  <2> QED BY <1>6, <2>1, <2>3 DEF Collected, Joins, SameModel, SameShape
<1>7. CASE ScanSkip(w) \/ LaunchBatch(w)
  <2>1. /\ pc[w] = "scan" /\ Collected(w) /\ batch' = batch /\ batchRows' = batchRows
        /\ InBatch(w)' = InBatch(w) /\ HeadOf(w)' = HeadOf(w) /\ batch[w] # <<>>
    BY <1>1, <1>7 DEF ScanSkip, LaunchBatch, BatchKnown, InBatch, HeadOf, BatchMatchesPlace
  <2>2. \A n : RowsOf(w, n)' = RowsOf(w, n)
    BY <1>1, <1>2, <2>1 DEF RowsOf
  <2>3. CASE ScanSkip(w)
    <3>1. pc'[w] = "scan"
      BY <2>1, <2>3 DEF ScanSkip
    <3>2. \A e \in InBatch(w) : Joins(w, e)'
      BY <1>1, <1>2, <2>1 DEF Collected, Joins, SameModel, SameShape
    <3>3. Collected(w)'
      BY <1>1, <1>2, <2>1, <2>2, <3>2 DEF Collected
    <3> QED BY <3>1, <3>3 DEF BatchKnown
  <2>4. CASE LaunchBatch(w)
    <3>1. pc'[w] = "run"
      BY <1>1, <2>4 DEF LaunchBatch
    <3>2. ~BatchTooSmall(HeadOf(w), Dev(w), RowsOf(w, Len(batch[w])))
      BY <2>1, <2>4 DEF LaunchBatch, Collected
    <3>3. ~BatchTooSmall(HeadOf(w), Dev(w), RowsOf(w, Len(batch[w])))'
      BY <1>1, <1>2, <2>1, <2>2, <3>2 DEF BatchTooSmall
    <3>4. Len(batch[w]) > 1 => RowsOf(w, Len(batch[w]) - 1) < Options(HeadOf(w), Dev(w)).batchsize
      BY <2>1 DEF Collected
    <3>5. BatchFits(w)'
      BY <1>1, <1>2, <1>6, <2>1, <2>2, <3>3, <3>4 DEF BatchFits
    <3> QED BY <3>1, <3>5 DEF BatchKnown
  <2> QED BY <1>7, <2>3, <2>4
<1>8. CASE ScanTake(w)
  <2>1. PICK e : e = queue[Dev(w)][position[w]]
    OBVIOUS
  <2>2. PICK d, n : d = HeadOf(w) /\ n = Len(batch[w])
    OBVIOUS
  <2>3. /\ pc[w] = "scan" /\ Collected(w) /\ batch[w] # <<>> /\ Joins(w, e)
        /\ batch'[w] = Append(batch[w], e)
        /\ batchRows'[w] = batchRows[w] + Current(e, Dev(w)).rows
        /\ ~(batchRows[w] >= Options(d, Dev(w)).batchsize)
        /\ \/ pc'[w] = "scan"
           \/ pc'[w] = "run" /\ MinBatchTimedOut(d, Dev(w))
    BY <1>1, <1>8, <2>1, <2>2 DEF ScanTake, ScanEnded, BatchKnown, BatchMatchesPlace
  <2>4. n \in Nat /\ n > 0 /\ DOMAIN batch[w] = 1 .. n /\ 1 \in 1 .. n
    BY <1>1, <2>2, <2>3, BatchFacts
  <2>5. e \in Dags /\ e \in InBatch(w)'
    <3>1. Append(batch[w], e) \in Seq(Dags) /\ Len(Append(batch[w], e)) = n + 1
      BY <1>1, <2>2, <2>3
    <3>2. n + 1 \in DOMAIN Append(batch[w], e) /\ Append(batch[w], e)[n + 1] = e
      BY <1>1, <2>2, <2>4
    <3>3. e \in Dags
      BY <2>4, <3>1, <3>2
    <3> QED BY <1>1, <2>3, <3>3, AppendElements DEF InBatch
  <2>6. /\ InBatch(w)' = InBatch(w) \cup {e}
        /\ Len(batch'[w]) = n + 1 /\ DOMAIN batch'[w] = 1 .. n + 1
        /\ \A k \in 1 .. n : batch'[w][k] = batch[w][k]
        /\ batch'[w][n + 1] = e
    <3>1. InBatch(w)' = InBatch(w) \cup {e}
      BY <1>1, <2>3, <2>5, AppendElements DEF InBatch
    <3> QED BY <1>1, <2>2, <2>3, <2>4, <2>5, <3>1
  <2>7. HeadOf(w)' = d
    BY <2>2, <2>4, <2>6 DEF HeadOf
  <2>8. Current(e, Dev(w)).rows \in Nat
    <3>1. e \in InBatch(w)' /\ opsDone' = opsDone
      BY <1>1, <2>5
    <3>2. OpOf(e, w)' \in OpIds(e) /\ OpIds(e) = DOMAIN Program[e]
      <4>1. HasCopy(e, Dev(w))'
        BY <1>1, <2>5 DEF HasCopy, Held, InBatch
      <4>2. opsDone'[e][Dev(w)] \in Nat /\ opsDone'[e][Dev(w)] < Cardinality(OpsOn(e, Dev(w)))
        BY <1>1, <2>5, <4>1, DevFacts DEF IInv, CopyHasOperation, TypeOK
      <4> QED BY <1>1, <2>5, <4>2, RankFacts, DevFacts, ProgramAssumption DEF OpOf, CurrentOp, OpIds
    <3>3. Current(e, Dev(w)) = Program[e][OpOf(e, w)'] /\ Program[e] \in Seq(Operation)
      BY <1>1, <2>5, ProgramAssumption DEF Current, OpOf, CurrentOp
    <3>4. Current(e, Dev(w)) \in Operation
      BY <3>2, <3>3
    <3> QED BY <3>4 DEF Operation
  <2>9. \A x \in InBatch(w) \cup {e} : Joins(w, x)'
    <3>1. \A x \in InBatch(w) \cup {e} : Joins(w, x)
      BY <2>3 DEF Collected
    <3> QED BY <1>1, <1>2, <2>2, <2>7, <3>1 DEF Joins, SameModel, SameShape
  <2>10. /\ RowsOf(w, n)' = RowsOf(w, n)
         /\ RowsOf(w, n + 1)' = RowsOf(w, n) + Current(e, Dev(w)).rows
    <3> DEFINE r == [k \in DOMAIN batch[w] |-> Current(batch[w][k], Dev(w)).rows]
               s == [k \in 1 .. n + 1 |-> Current(batch'[w][k], Dev(w)).rows]
    <3>1. \A m : RowsOf(w, m) = SumTo(r, m)
      BY DEF RowsOf
    <3>2. \A m : RowsOf(w, m)' = SumTo(s, m)
      BY <1>1, <1>2, <2>6 DEF RowsOf
    <3>3. \A k \in 1 .. n : r[k] = s[k]
      BY <2>4, <2>6
    <3>4. n + 1 \in 1 .. n + 1
      BY <2>4
    <3>5. s[n + 1] = Current(e, Dev(w)).rows
      BY <2>6, <3>4
    <3> HIDE DEF r, s
    <3>6. SumTo(r, n) = SumTo(s, n)
      BY <2>4, <3>3, SumSame
    <3>7. SumTo(s, n + 1) = SumTo(s, n) + s[n + 1]
      BY <2>4, SumSteps
    <3> QED BY <3>1, <3>2, <3>5, <3>6, <3>7
  <2>11. /\ batchRows[w] \in Nat /\ batchRows[w] = RowsOf(w, n)
         /\ RowsOf(w, n) < Options(d, Dev(w)).batchsize
    <3>1. batchRows[w] \in Nat /\ batchRows[w] = RowsOf(w, n)
      BY <2>2, <2>3 DEF Collected
    <3>2. Options(d, Dev(w)).batchsize \in Nat
      BY <1>6, <2>2, <2>3
    <3> QED BY <2>3, <3>1, <3>2
  <2>12. (n + 1) - 1 = n /\ batchRows'[w] \in Nat /\ batchRows'[w] = RowsOf(w, n + 1)'
    BY <2>3, <2>4, <2>8, <2>10, <2>11
  <2>13. /\ Current(d, Dev(w))'.inkeys # <<>>
         /\ \A x \in InBatch(w)' : Joins(w, x)'
    BY <1>1, <1>2, <2>2, <2>3, <2>6, <2>9 DEF Collected
  <2>14. CASE pc'[w] = "scan"
    <3>1. Collected(w)'
      BY <1>1, <1>2, <2>6, <2>7, <2>10, <2>11, <2>12, <2>13 DEF Collected
    <3> QED BY <2>14, <3>1 DEF BatchKnown
  <2>15. CASE pc'[w] = "run"
    <3>1. MinBatchTimedOut(d, Dev(w))
      BY <2>3, <2>15
    <3>2. \A x \in InBatch(w)' : /\ Ready(x, Dev(w))'
                                 /\ Current(x, Dev(w))'.model = Current(d, Dev(w))'.model
                                 /\ Current(x, Dev(w))'.shape = Current(d, Dev(w))'.shape
      BY <2>7, <2>13 DEF Joins, SameModel, SameShape
    <3>3. BatchFits(w)'
      BY <1>1, <1>2, <2>6, <2>7, <2>10, <2>11, <2>12, <3>1, <3>2 DEF BatchFits
    <3> QED BY <2>15, <3>3 DEF BatchKnown
  <2> QED BY <2>3, <2>14, <2>15
<1>9. CASE Wake(w) \/ Sleep(w) \/ NotReady(w) \/ ReturnBatch(w) \/ Reinsert(w) \/ RunNothing(w)
  <2>1. pc'[w] \in {"wait", "loop", "finish"}
    <3>1. CASE Wake(w) \/ Sleep(w) \/ RunNothing(w)
      BY <1>1, <3>1 DEF Wake, Sleep, RunNothing
    <3>2. CASE NotReady(w)
      BY <1>1, <3>2 DEF NotReady
    <3>3. CASE ReturnBatch(w)
      BY <1>1, <3>3 DEF ReturnBatch
    <3>4. CASE Reinsert(w)
      BY <1>1, <3>4 DEF Reinsert
    <3> QED BY <1>9, <3>1, <3>2, <3>3, <3>4
  <2> QED BY <1>4, <2>1
<1> QED BY <1>5, <1>7, <1>8, <1>9 DEF Moves, Scan

LEMMA InitBatch == Init => BatchInv
BY DEF Init, BatchInv, Domains, BatchKnown

LEMMA StepBatch ==
  ASSUME IInv, BatchInv, [Next]_vars
  PROVE  BatchInv'
<1>1. IInv'
  BY StepIInv
<1>2. Domains /\ \A w \in Workers : BatchKnown(w)
  BY DEF BatchInv
<1>3. ASSUME NEW w \in Workers, Worker(w) PROVE BatchInv'
  <2>1. \A v \in Workers : v # w => BatchKnown(v)'
    BY <1>2, <1>3, OthersKept, KeptBatch
  <2>2. BatchKnown(w)'
    <3>1. CASE Moves(w)
      BY <1>1, <1>2, <3>1, MovesBatch
    <3>2. CASE pc'[w] \notin {"scan", "run"}
      BY <3>2 DEF BatchKnown
    <3> QED BY <1>2, <1>3, <3>1, <3>2, OthersKept
  <2>3. Domains'
    BY <1>2, <1>3, OthersKept
  <2> QED BY <2>1, <2>2, <2>3 DEF BatchInv
<1>4. ASSUME NEW d \in Dags, Outside(d) PROVE BatchInv'
  <2>1. Domains' /\ \A v \in Workers : Kept(v)
    BY <1>2, <1>4, OutsideKept
  <2> QED BY <1>2, <2>1, KeptBatch DEF BatchInv
<1>5. ASSUME UNCHANGED vars PROVE BatchInv'
  <2> USE DEF requestVars, copyVars, queueVars, workerVars
  <2>1. UNCHANGED <<tensors, firstError, answer, outputs, batchRows, pc, batch, opsDone, elapsed>>
    BY <1>5 DEF vars
  <2>2. Domains' /\ \A v \in Workers : Kept(v)
    BY <1>2, <2>1 DEF Domains, Kept
  <2> QED BY <1>2, <2>2, KeptBatch DEF BatchInv
<1> QED BY <1>3, <1>4, <1>5 DEF Next, Request, Clock, Idle, Outside

(* What a worker runs in one call of the backend: operations that are ready, of one     *)
(* model and one shape, in a batch that never took a copy when it was full and that has  *)
(* fewer rows than MINBATCHSIZE only for a reason (_BGThread_BatchOperations).           *)
THEOREM DagBatchWithinOptions == Spec => []BatchWithinOptions
<1>1. IInv /\ BatchInv /\ [Next]_vars => BatchInv'
  BY StepBatch
<1>2. BatchInv => BatchWithinOptions
  BY DEF BatchInv, BatchKnown, BatchWithinOptions
<1> QED BY <1>1, <1>2, DagInvariant, InitBatch, PTL DEF Spec
=============================================================================
