---------------------------- MODULE DagRun_proofs ----------------------------
(***************************************************************************)
(* Proofs about DagRun: the copies of a request are never lost, duplicated   *)
(* or counted wrong, whatever the requests, the models, the devices and the  *)
(* workers.  The argument is the inductive invariant IInv of DagRun; each    *)
(* step of a worker moves copies between the queue of its device, its batch  *)
(* and its unfinished copies, or frees one, and MoveOnDevice says once what  *)
(* such a step does to the copies of all requests.                           *)
(***************************************************************************)
EXTENDS DagRun, SequenceFacts, FiniteSetTheorems, TLAPS

(* A worker serves a device of the instance.                                  *)
LEMMA DevFacts == \A w \in Workers : Dev(w) \in Devices
BY WorkerAssumption DEF Dev

(* A request uses a device or more, each for an operation or more, and finitely *)
(* many of them.                                                              *)
LEMMA ProgramFacts ==
  ASSUME NEW d \in Dags
  PROVE  /\ DevicesOf(d) \subseteq Devices
         /\ DevicesOf(d) # {}
         /\ \A dev \in Devices : IsFiniteSet(OpsOn(d, dev))
         /\ \A dev \in Devices : Cardinality(OpsOn(d, dev)) \in Nat
         /\ \A dev \in DevicesOf(d) : Cardinality(OpsOn(d, dev)) > 0
<1>1. /\ Program[d] \in Seq(Operation) /\ Len(Program[d]) \in Nat /\ Len(Program[d]) > 0
      /\ \A i \in OpIds(d) : Program[d][i] \in Operation
  BY ProgramAssumption DEF OpIds
<1>2. \A i \in OpIds(d) : Program[d][i].device \in Devices
  BY <1>1 DEF Operation
<1>3. DevicesOf(d) \subseteq Devices
  BY <1>2 DEF DevicesOf
<1>4. DevicesOf(d) # {}
  <2>1. 1 \in OpIds(d)
    BY <1>1 DEF OpIds
  <2> QED BY <2>1 DEF DevicesOf
<1>5. IsFiniteSet(OpIds(d))
  BY <1>1, FS_Interval DEF OpIds
<1>6. ASSUME NEW dev \in Devices
      PROVE  IsFiniteSet(OpsOn(d, dev)) /\ Cardinality(OpsOn(d, dev)) \in Nat
  <2>1. OpsOn(d, dev) \in SUBSET OpIds(d)
    BY DEF OpsOn
  <2>2. IsFiniteSet(OpsOn(d, dev))
    BY <1>5, <2>1, FS_Subset
  <2> QED BY <2>2, FS_CardinalityType
<1>7. ASSUME NEW dev \in DevicesOf(d) PROVE Cardinality(OpsOn(d, dev)) > 0
  <2>1. OpsOn(d, dev) # {}
    BY DEF OpsOn, DevicesOf
  <2>2. Cardinality(OpsOn(d, dev)) # 0
    BY <1>3, <1>6, <2>1, FS_EmptySet
  <2> QED BY <1>3, <1>6, <2>2
<1> QED BY <1>3, <1>4, <1>6, <1>7

(* The copies of a request are finitely many, so they can be counted.          *)
LEMMA CopiesFinite ==
  \A d \in Dags : IsFiniteSet(Copies(d)) /\ Cardinality(Copies(d)) \in Nat
<1> SUFFICES ASSUME NEW d \in Dags
             PROVE  IsFiniteSet(Copies(d)) /\ Cardinality(Copies(d)) \in Nat
  OBVIOUS
<1>1. Copies(d) \in SUBSET Devices
  BY DEF Copies
<1>2. IsFiniteSet(Copies(d))
  BY <1>1, ProgramAssumption, FS_Subset
<1> QED BY <1>2, FS_CardinalityType

-----------------------------------------------------------------------------
(* The copies in the queue of a worker's device and in its hands.              *)
Here(w) == ToSet(queue[Dev(w)]) \cup Held(w)

(* What a step does that changes only the queue of one device and the hands of *)
(* one worker of it: copies stay in one place, and those that were in that     *)
(* queue or in those hands and no longer are, are the only ones gone.          *)
LEMMA MoveOnDevice ==
  ASSUME NEW w \in Workers,
         TypeOK, CopyInOnePlace,
         toPush' = toPush,
         \A dev \in Devices : dev # Dev(w) => queue'[dev] = queue[dev],
         \A v \in Workers : v # w => batch'[v] = batch[v] /\ unfinished'[v] = unfinished[v],
         IsInjective(queue'[Dev(w)]), IsInjective(batch'[w]), IsInjective(unfinished'[w]),
         ToSet(batch'[w]) \cap ToSet(unfinished'[w]) = {},
         ToSet(queue'[Dev(w)]) \cap (ToSet(batch'[w]) \cup ToSet(unfinished'[w])) = {},
         Here(w)' \subseteq Here(w)
  PROVE  /\ CopyInOnePlace'
         /\ \A d \in Dags, dev \in Devices :
              HasCopy(d, dev)' <=>
                HasCopy(d, dev) /\ ~(dev = Dev(w) /\ d \in Here(w) \ Here(w)')
<1>1. /\ Here(w)' = ToSet(queue'[Dev(w)]) \cup Held(w)'
      /\ Held(w)' = ToSet(batch'[w]) \cup ToSet(unfinished'[w])
      /\ Here(w) = ToSet(queue[Dev(w)]) \cup Held(w)
      /\ \A v \in Workers : v # w => Held(v)' = Held(v)
  BY DEF Here, Held, Dev
<1>2. Dev(w) \in Devices /\ \A v \in Workers : Dev(v) \in Devices
  BY DevFacts
<1>3. \A v \in Workers : v # w /\ Dev(v) = Dev(w) => Held(v) \cap Here(w) = {}
  BY <1>1 DEF CopyInOnePlace
<1>4. \A dev \in Devices : IsInjective(queue'[dev])
  BY DEF CopyInOnePlace
<1>5. ASSUME NEW v \in Workers
      PROVE  /\ IsInjective(batch'[v])
             /\ IsInjective(unfinished'[v])
             /\ ToSet(batch'[v]) \cap ToSet(unfinished'[v]) = {}
             /\ ToSet(queue'[Dev(v)]) \cap Held(v)' = {}
  <2>1. CASE v = w
    BY <1>1, <2>1
  <2>2. CASE v # w /\ Dev(v) = Dev(w)
    BY <1>1, <1>3, <2>2 DEF CopyInOnePlace
  <2>3. CASE v # w /\ Dev(v) # Dev(w)
    BY <1>1, <1>2, <2>3 DEF CopyInOnePlace
  <2> QED BY <2>1, <2>2, <2>3
<1>6. ASSUME NEW v \in Workers, NEW u \in Workers, v # u, Dev(v) = Dev(u)
      PROVE  Held(v)' \cap Held(u)' = {}
  <2>1. CASE v = w
    BY <1>1, <1>3, <1>6, <2>1
  <2>2. CASE u = w
    BY <1>1, <1>3, <1>6, <2>2
  <2>3. CASE v # w /\ u # w
    BY <1>1, <1>6, <2>3 DEF CopyInOnePlace
  <2> QED BY <2>1, <2>2, <2>3
<1>7. ASSUME NEW d \in Dags, NEW dev \in toPush[d], dev \in Devices
      PROVE  /\ d \notin ToSet(queue'[dev])
             /\ \A v \in Workers : Dev(v) = dev => d \notin Held(v)'
  <2>1. CASE dev = Dev(w)
    <3>1. d \notin Here(w)
      BY <1>1, <1>7, <2>1 DEF CopyInOnePlace
    <3> QED BY <1>1, <3>1, <2>1, <1>7 DEF CopyInOnePlace
  <2>2. CASE dev # Dev(w)
    BY <1>1, <1>7, <2>2 DEF CopyInOnePlace
  <2> QED BY <2>1, <2>2
<1>8. \A d \in Dags : toPush[d] \subseteq Devices
  BY DEF TypeOK
<1>9. CopyInOnePlace'
  BY <1>4, <1>5, <1>6, <1>7, <1>8 DEF CopyInOnePlace, Dev
<1>10. ASSUME NEW d \in Dags, NEW dev \in Devices
       PROVE  HasCopy(d, dev)' <=>
                HasCopy(d, dev) /\ ~(dev = Dev(w) /\ d \in Here(w) \ Here(w)')
  <2>1. /\ HasCopy(d, dev) <=> \/ dev \in toPush[d]
                               \/ d \in ToSet(queue[dev])
                               \/ \E v \in Workers : Dev(v) = dev /\ d \in Held(v)
        /\ HasCopy(d, dev)' <=> \/ dev \in toPush[d]
                                \/ d \in ToSet(queue'[dev])
                                \/ \E v \in Workers : Dev(v) = dev /\ d \in Held(v)'
    BY DEF HasCopy, Dev
  <2>2. CASE dev # Dev(w)
    BY <1>1, <2>1, <2>2
  <2>3. CASE dev = Dev(w) /\ d \in Here(w)
    <3>1. HasCopy(d, dev)
      BY <1>1, <2>1, <2>3
    <3>2. dev \notin toPush[d] /\ \A v \in Workers : v # w /\ Dev(v) = dev => d \notin Held(v)'
      BY <1>1, <1>3, <2>3 DEF CopyInOnePlace
    <3>3. HasCopy(d, dev)' <=> d \in Here(w)'
      BY <1>1, <2>1, <2>3, <3>2
    <3> QED BY <2>3, <3>1, <3>3
  <2>4. CASE dev = Dev(w) /\ d \notin Here(w)
    BY <1>1, <2>1, <2>4
  <2> QED BY <2>2, <2>3, <2>4
<1> QED BY <1>9, <1>10

-----------------------------------------------------------------------------
(* The copies after a step: the same ones, each still in one place.             *)
CopiesKept ==
  /\ CopyInOnePlace'
  /\ \A d \in Dags, dev \in Devices : HasCopy(d, dev)' <=> HasCopy(d, dev)

(* A step that moves no copy.                                                   *)
LEMMA NoMove ==
  ASSUME CopyInOnePlace, UNCHANGED <<toPush, queue, batch, unfinished>>
  PROVE  CopiesKept
<1>1. \A w \in Workers : Held(w)' = Held(w)
  BY DEF Held
<1> QED BY <1>1 DEF CopiesKept, CopyInOnePlace, HasCopy, Dev

(* A step of a worker that moves copies around without freeing any.             *)
LEMMA Shuffle ==
  ASSUME NEW w \in Workers,
         TypeOK, CopyInOnePlace,
         toPush' = toPush,
         \A dev \in Devices : dev # Dev(w) => queue'[dev] = queue[dev],
         \A v \in Workers : v # w => batch'[v] = batch[v] /\ unfinished'[v] = unfinished[v],
         IsInjective(queue'[Dev(w)]), IsInjective(batch'[w]), IsInjective(unfinished'[w]),
         ToSet(batch'[w]) \cap ToSet(unfinished'[w]) = {},
         ToSet(queue'[Dev(w)]) \cap (ToSet(batch'[w]) \cup ToSet(unfinished'[w])) = {},
         Here(w)' = Here(w)
  PROVE  CopiesKept
<1>1. Here(w)' \subseteq Here(w) /\ Here(w) \ Here(w)' = {}
  OBVIOUS
<1>2. /\ CopyInOnePlace'
      /\ \A d \in Dags, dev \in Devices :
           HasCopy(d, dev)' <=> HasCopy(d, dev) /\ ~(dev = Dev(w) /\ d \in Here(w) \ Here(w)')
  BY <1>1, MoveOnDevice
<1> QED BY <1>1, <1>2 DEF CopiesKept

(* What is at hand when a worker moves copies.                                  *)
LEMMA AtHand ==
  ASSUME NEW w \in Workers, TypeOK, CopyInOnePlace
  PROVE  /\ Dev(w) \in Devices
         /\ queue[Dev(w)] \in Seq(Dags) /\ IsInjective(queue[Dev(w)])
         /\ batch[w] \in Seq(Dags) /\ IsInjective(batch[w])
         /\ unfinished[w] \in Seq(Dags) /\ IsInjective(unfinished[w])
         /\ ToSet(batch[w]) \cap ToSet(unfinished[w]) = {}
         /\ ToSet(queue[Dev(w)]) \cap ToSet(batch[w]) = {}
         /\ ToSet(queue[Dev(w)]) \cap ToSet(unfinished[w]) = {}
         /\ Here(w) = ToSet(queue[Dev(w)]) \cup ToSet(batch[w]) \cup ToSet(unfinished[w])
         /\ Here(w)' = ToSet(queue'[Dev(w)]) \cup ToSet(batch'[w]) \cup ToSet(unfinished'[w])
<1>1. Dev(w) \in Devices /\ Dev(w)' = Dev(w)
  BY DevFacts DEF Dev
<1> QED BY <1>1 DEF TypeOK, CopyInOnePlace, Here, Held

(* Pop takes the copy at the front of the queue.                                *)
LEMMA PopMoves ==
  ASSUME NEW w \in Workers, TypeOK, CopyInOnePlace, BatchMatchesPlace, Pop(w)
  PROVE  CopiesKept /\ Head(queue[Dev(w)]) \in Dags /\ Tail(queue[Dev(w)]) \in Seq(Dags)
<1> DEFINE q == queue[Dev(w)]
<1>1. /\ q \in Seq(Dags) /\ q # <<>> /\ IsInjective(q)
      /\ unfinished[w] \in Seq(Dags) /\ IsInjective(unfinished[w])
      /\ ToSet(q) \cap ToSet(unfinished[w]) = {}
      /\ batch[w] = <<>>
      /\ Dev(w) \in Devices
  BY AtHand DEF Pop, BatchMatchesPlace
<1>2. /\ queue'[Dev(w)] = Tail(q) /\ batch'[w] = <<Head(q)>> /\ unfinished' = unfinished
      /\ toPush' = toPush
      /\ \A dev \in Devices : dev # Dev(w) => queue'[dev] = queue[dev]
      /\ \A v \in Workers : v # w => batch'[v] = batch[v]
  BY <1>1 DEF Pop, TypeOK, copyVars
<1>3. /\ Head(q) \in Dags /\ Tail(q) \in Seq(Dags)
      /\ ToSet(q) = ToSet(Tail(q)) \cup {Head(q)}
      /\ IsInjective(Tail(q)) /\ Head(q) \notin ToSet(Tail(q))
  BY <1>1, TailElements
<1> HIDE DEF q
<1>4. ToSet(<<Head(q)>>) = {Head(q)} /\ IsInjective(<<Head(q)>>)
  BY <1>3, SingleElement
<1>5. /\ Here(w) = ToSet(q) \cup ToSet(<<>>) \cup ToSet(unfinished[w])
      /\ Here(w)' = ToSet(queue'[Dev(w)]) \cup ToSet(batch'[w]) \cup ToSet(unfinished'[w])
  BY <1>1, AtHand DEF q
<1>6. Here(w)' = Here(w)
  BY <1>2, <1>3, <1>4, <1>5, EmptyElements
<1>7. CopiesKept
  BY <1>1, <1>2, <1>3, <1>4, <1>6, Shuffle
<1> QED BY <1>3, <1>7 DEF q

(* NotReady puts the copy at the back of the queue.                             *)
LEMMA NotReadyMoves ==
  ASSUME NEW w \in Workers, TypeOK, CopyInOnePlace, BatchMatchesPlace, NotReady(w)
  PROVE  CopiesKept /\ Append(queue[Dev(w)], HeadOf(w)) \in Seq(Dags)
<1> DEFINE q == queue[Dev(w)]
           e == HeadOf(w)
<1>1. /\ Dev(w) \in Devices
      /\ q \in Seq(Dags) /\ IsInjective(q)
      /\ batch[w] \in Seq(Dags) /\ Len(batch[w]) = 1
      /\ unfinished[w] \in Seq(Dags) /\ IsInjective(unfinished[w])
      /\ ToSet(q) \cap ToSet(unfinished[w]) = {}
      /\ ToSet(q) \cap ToSet(batch[w]) = {}
  BY AtHand DEF NotReady, BatchMatchesPlace
<1>2. e \in Dags /\ batch[w] = <<e>>
  BY <1>1 DEF HeadOf
<1>3. ToSet(batch[w]) = {e}
  BY <1>2, SingleElement
<1>4. /\ queue'[Dev(w)] = Append(q, e) /\ batch'[w] = <<>> /\ unfinished' = unfinished
      /\ toPush' = toPush
      /\ \A dev \in Devices : dev # Dev(w) => queue'[dev] = queue[dev]
      /\ \A v \in Workers : v # w => batch'[v] = batch[v]
  BY <1>1 DEF NotReady, TypeOK, copyVars
<1>5. /\ Here(w) = ToSet(q) \cup ToSet(batch[w]) \cup ToSet(unfinished[w])
      /\ Here(w)' = ToSet(queue'[Dev(w)]) \cup ToSet(batch'[w]) \cup ToSet(unfinished'[w])
  BY AtHand
<1>6. ToSet(batch[w]) \cap ToSet(unfinished[w]) = {}
  BY AtHand
<1> HIDE DEF q, e
<1>7. /\ Append(q, e) \in Seq(Dags)
      /\ ToSet(Append(q, e)) = ToSet(q) \cup {e}
      /\ IsInjective(Append(q, e))
  BY <1>1, <1>2, <1>3, AppendElements
<1>8. Here(w)' = Here(w)
  BY <1>3, <1>4, <1>5, <1>7, EmptyElements
<1>9. CopiesKept
  BY <1>1, <1>3, <1>4, <1>6, <1>7, <1>8, EmptyElements, Shuffle
<1> QED BY <1>7, <1>9 DEF q, e

(* ScanTake moves the copy it looks at from the queue to the batch.             *)
LEMMA ScanTakeMoves ==
  ASSUME NEW w \in Workers, TypeOK, CopyInOnePlace, ScanTake(w)
  PROVE  /\ CopiesKept
         /\ Evicted(queue[Dev(w)], position[w]) \in Seq(Dags)
         /\ Append(batch[w], queue[Dev(w)][position[w]]) \in Seq(Dags)
<1> DEFINE q == queue[Dev(w)]
           n == position[w]
           e == q[n]
<1>1. /\ Dev(w) \in Devices
      /\ q \in Seq(Dags) /\ IsInjective(q)
      /\ batch[w] \in Seq(Dags) /\ IsInjective(batch[w])
      /\ unfinished[w] \in Seq(Dags) /\ IsInjective(unfinished[w])
      /\ ToSet(q) \cap ToSet(unfinished[w]) = {}
      /\ ToSet(q) \cap ToSet(batch[w]) = {}
      /\ ToSet(batch[w]) \cap ToSet(unfinished[w]) = {}
      /\ Here(w) = ToSet(q) \cup ToSet(batch[w]) \cup ToSet(unfinished[w])
      /\ Here(w)' = ToSet(queue'[Dev(w)]) \cup ToSet(batch'[w]) \cup ToSet(unfinished'[w])
  BY AtHand
<1>2. n \in 1..Len(q)
  <2>1. n \in Nat \ {0} /\ Len(q) \in Nat
    BY <1>1 DEF TypeOK
  <2>2. ~(n > Len(q))
    BY DEF ScanTake, ScanEnded
  <2> HIDE DEF n, q
  <2> QED BY <2>1, <2>2
<1>3. /\ queue'[Dev(w)] = RemoveAt(q, n) /\ batch'[w] = Append(batch[w], e)
      /\ unfinished' = unfinished /\ toPush' = toPush
      /\ \A dev \in Devices : dev # Dev(w) => queue'[dev] = queue[dev]
      /\ \A v \in Workers : v # w => batch'[v] = batch[v]
  BY <1>1 DEF ScanTake, TypeOK, copyVars, Evicted
<1> HIDE DEF q, n
<1>4. /\ e \in Dags
      /\ RemoveAt(q, n) \in Seq(Dags)
      /\ ToSet(q) = ToSet(RemoveAt(q, n)) \cup {e}
      /\ IsInjective(RemoveAt(q, n)) /\ e \notin ToSet(RemoveAt(q, n))
  BY <1>1, <1>2, RemoveAtElements
<1> HIDE DEF e
<1>5. e \notin ToSet(batch[w])
  BY <1>1, <1>4
<1>6. /\ Append(batch[w], e) \in Seq(Dags)
      /\ ToSet(Append(batch[w], e)) = ToSet(batch[w]) \cup {e}
      /\ IsInjective(Append(batch[w], e))
  BY <1>1, <1>4, <1>5, AppendElements
<1>7. Here(w)' = Here(w)
  BY <1>1, <1>3, <1>4, <1>6
<1>8. /\ ToSet(batch'[w]) \cap ToSet(unfinished'[w]) = {}
      /\ ToSet(queue'[Dev(w)]) \cap (ToSet(batch'[w]) \cup ToSet(unfinished'[w])) = {}
  BY <1>1, <1>3, <1>4, <1>6
<1>9. CopiesKept
  BY <1>1, <1>3, <1>4, <1>6, <1>7, <1>8, Shuffle
<1> QED BY <1>4, <1>6, <1>9 DEF q, n, e, Evicted

(* ReturnBatch puts the batch at the back of the queue.                         *)
LEMMA ReturnBatchMoves ==
  ASSUME NEW w \in Workers, TypeOK, CopyInOnePlace, ReturnBatch(w)
  PROVE  CopiesKept /\ queue[Dev(w)] \o Reverse(batch[w]) \in Seq(Dags)
<1> DEFINE q == queue[Dev(w)]
           r == Reverse(batch[w])
<1>1. /\ Dev(w) \in Devices
      /\ q \in Seq(Dags) /\ IsInjective(q)
      /\ batch[w] \in Seq(Dags) /\ IsInjective(batch[w])
      /\ unfinished[w] \in Seq(Dags) /\ IsInjective(unfinished[w])
      /\ ToSet(q) \cap ToSet(unfinished[w]) = {}
      /\ ToSet(q) \cap ToSet(batch[w]) = {}
      /\ ToSet(batch[w]) \cap ToSet(unfinished[w]) = {}
      /\ Here(w) = ToSet(q) \cup ToSet(batch[w]) \cup ToSet(unfinished[w])
      /\ Here(w)' = ToSet(queue'[Dev(w)]) \cup ToSet(batch'[w]) \cup ToSet(unfinished'[w])
  BY AtHand
<1>2. /\ queue'[Dev(w)] = q \o r /\ batch'[w] = <<>>
      /\ unfinished' = unfinished /\ toPush' = toPush
      /\ \A dev \in Devices : dev # Dev(w) => queue'[dev] = queue[dev]
      /\ \A v \in Workers : v # w => batch'[v] = batch[v]
  BY <1>1 DEF ReturnBatch, TypeOK, copyVars
<1>3. r \in Seq(Dags) /\ ToSet(r) = ToSet(batch[w]) /\ IsInjective(r)
  BY <1>1, ReverseElements
<1> HIDE DEF q, r
<1>4. q \o r \in Seq(Dags) /\ ToSet(q \o r) = ToSet(q) \cup ToSet(r) /\ IsInjective(q \o r)
  BY <1>1, <1>3, ConcatElements
<1>5. Here(w)' = Here(w)
  BY <1>1, <1>2, <1>3, <1>4, EmptyElements
<1>6. CopiesKept
  BY <1>1, <1>2, <1>3, <1>4, <1>5, EmptyElements, Shuffle
<1> QED BY <1>4, <1>6 DEF q, r

(* Reinsert puts the unfinished copies at the front of the queue.               *)
LEMMA ReinsertMoves ==
  ASSUME NEW w \in Workers, TypeOK, CopyInOnePlace, BatchMatchesPlace, Reinsert(w)
  PROVE  CopiesKept /\ unfinished[w] \o queue[Dev(w)] \in Seq(Dags)
<1> DEFINE q == queue[Dev(w)]
           u == unfinished[w]
<1>1. /\ Dev(w) \in Devices
      /\ q \in Seq(Dags) /\ IsInjective(q)
      /\ u \in Seq(Dags) /\ IsInjective(u)
      /\ ToSet(q) \cap ToSet(u) = {}
      /\ batch[w] = <<>>
      /\ Here(w) = ToSet(q) \cup ToSet(batch[w]) \cup ToSet(u)
      /\ Here(w)' = ToSet(queue'[Dev(w)]) \cup ToSet(batch'[w]) \cup ToSet(unfinished'[w])
  BY AtHand DEF Reinsert, BatchMatchesPlace
<1>2. /\ queue'[Dev(w)] = u \o q /\ unfinished'[w] = <<>>
      /\ batch' = batch /\ toPush' = toPush
      /\ \A dev \in Devices : dev # Dev(w) => queue'[dev] = queue[dev]
      /\ \A v \in Workers : v # w => unfinished'[v] = unfinished[v]
  BY <1>1 DEF Reinsert, TypeOK, copyVars
<1> HIDE DEF q, u
<1>3. u \o q \in Seq(Dags) /\ ToSet(u \o q) = ToSet(u) \cup ToSet(q) /\ IsInjective(u \o q)
  BY <1>1, ConcatElements
<1>4. Here(w)' = Here(w)
  BY <1>1, <1>2, <1>3, EmptyElements
<1>5. CopiesKept
  BY <1>1, <1>2, <1>3, <1>4, EmptyElements, Shuffle
<1> QED BY <1>3, <1>5 DEF q, u

(* FinishOne takes the last copy out of the batch; it keeps it with the         *)
(* unfinished ones or frees it.                                                 *)
LEMMA FinishTakesLast ==
  ASSUME NEW w \in Workers, TypeOK, CopyInOnePlace, BatchMatchesPlace, FinishOne(w)
  PROVE  LET d == Last(batch[w])
         IN  /\ d \in Dags /\ d \in ToSet(batch[w])
             /\ batch'[w] \in Seq(Dags) /\ batch' = [batch EXCEPT ![w] = Front(@)]
             /\ IsInjective(batch'[w])
             /\ Len(batch'[w]) = Len(batch[w]) - 1 /\ Len(batch[w]) \in Nat \ {0}
             /\ ToSet(batch'[w]) = ToSet(batch[w]) \ {d}
             /\ \A v \in Workers : v # w => batch'[v] = batch[v]
             /\ UNCHANGED <<toPush, queue>>
<1>1. /\ batch[w] \in Seq(Dags) /\ IsInjective(batch[w])
      /\ batch[w] # <<>>
  BY AtHand DEF FinishOne, BatchMatchesPlace
<1>2. /\ batch' = [batch EXCEPT ![w] = Front(@)] /\ batch'[w] = Front(batch[w])
      /\ toPush' = toPush /\ queue' = queue
      /\ \A v \in Workers : v # w => batch'[v] = batch[v]
  BY <1>1 DEF FinishOne, TypeOK, queueVars
<1>3. Len(batch[w]) \in Nat \ {0}
  BY <1>1
<1>4. /\ Last(batch[w]) \in Dags
      /\ Front(batch[w]) \in Seq(Dags)
      /\ Len(Front(batch[w])) = Len(batch[w]) - 1
      /\ ToSet(batch[w]) = ToSet(Front(batch[w])) \cup {Last(batch[w])}
      /\ IsInjective(Front(batch[w])) /\ Last(batch[w]) \notin ToSet(Front(batch[w]))
  BY <1>1, FrontElements
<1> QED BY <1>2, <1>3, <1>4

(* The copy is kept.                                                            *)
LEMMA FinishKeeps ==
  ASSUME NEW w \in Workers, TypeOK, CopyInOnePlace, BatchMatchesPlace, FinishOne(w),
         unfinished' = [unfinished EXCEPT ![w] = Cons(Last(batch[w]), @)]
  PROVE  CopiesKept /\ Cons(Last(batch[w]), unfinished[w]) \in Seq(Dags)
<1> DEFINE d == Last(batch[w])
           u == unfinished[w]
<1>1. /\ Dev(w) \in Devices
      /\ IsInjective(queue[Dev(w)])
      /\ u \in Seq(Dags) /\ IsInjective(u)
      /\ ToSet(queue[Dev(w)]) \cap ToSet(u) = {}
      /\ ToSet(queue[Dev(w)]) \cap ToSet(batch[w]) = {}
      /\ ToSet(batch[w]) \cap ToSet(u) = {}
      /\ Here(w) = ToSet(queue[Dev(w)]) \cup ToSet(batch[w]) \cup ToSet(u)
      /\ Here(w)' = ToSet(queue'[Dev(w)]) \cup ToSet(batch'[w]) \cup ToSet(unfinished'[w])
  BY AtHand
<1>2. /\ d \in Dags /\ d \in ToSet(batch[w])
      /\ IsInjective(batch'[w])
      /\ ToSet(batch'[w]) = ToSet(batch[w]) \ {d}
      /\ \A v \in Workers : v # w => batch'[v] = batch[v]
      /\ toPush' = toPush /\ queue' = queue
  BY FinishTakesLast
<1>3. unfinished'[w] = Cons(d, u) /\ \A v \in Workers : v # w => unfinished'[v] = unfinished[v]
  BY DEF TypeOK
<1> HIDE DEF d, u
<1>4. /\ Cons(d, u) \in Seq(Dags)
      /\ ToSet(Cons(d, u)) = ToSet(u) \cup {d}
      /\ IsInjective(Cons(d, u))
  BY <1>1, <1>2, ConsElements
<1>5. Here(w)' = Here(w)
  BY <1>1, <1>2, <1>3, <1>4
<1>6. /\ ToSet(batch'[w]) \cap ToSet(unfinished'[w]) = {}
      /\ ToSet(queue'[Dev(w)]) \cap (ToSet(batch'[w]) \cup ToSet(unfinished'[w])) = {}
  BY <1>1, <1>2, <1>3, <1>4
<1>7. CopiesKept
  BY <1>1, <1>2, <1>3, <1>4, <1>5, <1>6, Shuffle
<1> QED BY <1>4, <1>7 DEF d, u

(* The copy is freed: it is the only one that is gone.                          *)
LEMMA FinishFrees ==
  ASSUME NEW w \in Workers, TypeOK, CopyInOnePlace, BatchMatchesPlace, FinishOne(w),
         UNCHANGED unfinished
  PROVE  /\ CopyInOnePlace'
         /\ HasCopy(Last(batch[w]), Dev(w))
         /\ \A d \in Dags, dev \in Devices :
              HasCopy(d, dev)' <=> HasCopy(d, dev) /\ ~(d = Last(batch[w]) /\ dev = Dev(w))
<1> DEFINE e == Last(batch[w])
<1>1. /\ Dev(w) \in Devices
      /\ IsInjective(queue[Dev(w)])
      /\ IsInjective(unfinished[w])
      /\ ToSet(queue[Dev(w)]) \cap ToSet(unfinished[w]) = {}
      /\ ToSet(queue[Dev(w)]) \cap ToSet(batch[w]) = {}
      /\ ToSet(batch[w]) \cap ToSet(unfinished[w]) = {}
      /\ Here(w) = ToSet(queue[Dev(w)]) \cup ToSet(batch[w]) \cup ToSet(unfinished[w])
      /\ Here(w)' = ToSet(queue'[Dev(w)]) \cup ToSet(batch'[w]) \cup ToSet(unfinished'[w])
  BY AtHand
<1>2. /\ e \in Dags /\ e \in ToSet(batch[w])
      /\ IsInjective(batch'[w])
      /\ ToSet(batch'[w]) = ToSet(batch[w]) \ {e}
      /\ \A v \in Workers : v # w => batch'[v] = batch[v]
      /\ toPush' = toPush /\ queue' = queue
  BY FinishTakesLast
<1> HIDE DEF e
<1>3. Here(w)' = Here(w) \ {e} /\ e \in Here(w)
  BY <1>1, <1>2
<1>4. Here(w) \ Here(w)' = {e} /\ Here(w)' \subseteq Here(w)
  BY <1>3
<1>5. /\ ToSet(batch'[w]) \cap ToSet(unfinished'[w]) = {}
      /\ ToSet(queue'[Dev(w)]) \cap (ToSet(batch'[w]) \cup ToSet(unfinished'[w])) = {}
  BY <1>1, <1>2
<1>6. /\ CopyInOnePlace'
      /\ \A d \in Dags, dev \in Devices :
           HasCopy(d, dev)' <=> HasCopy(d, dev) /\ ~(dev = Dev(w) /\ d \in Here(w) \ Here(w)')
  BY <1>1, <1>2, <1>4, <1>5, MoveOnDevice
<1>7. HasCopy(e, Dev(w))
  BY <1>2 DEF HasCopy, Held
<1> QED BY <1>4, <1>6, <1>7 DEF e

(* A copy is pushed: it leaves the main thread and is in one queue.             *)
LEMMA PushMoves ==
  ASSUME NEW r \in Dags, NEW at \in Devices, TypeOK, CopyInOnePlace, Push(r, at)
  PROVE  CopiesKept /\ Append(queue[at], r) \in Seq(Dags)
<1>1. /\ queue[at] \in Seq(Dags) /\ IsInjective(queue[at])
      /\ at \in toPush[r]
      /\ r \notin ToSet(queue[at])
      /\ \A w \in Workers : Dev(w) = at => r \notin Held(w)
  BY DEF Push, TypeOK, CopyInOnePlace
<1>2. /\ Append(queue[at], r) \in Seq(Dags)
      /\ ToSet(Append(queue[at], r)) = ToSet(queue[at]) \cup {r}
      /\ IsInjective(Append(queue[at], r))
  BY <1>1, AppendElements
<1>3. /\ queue' = [queue EXCEPT ![at] = Append(@, r)]
      /\ queue'[at] = Append(queue[at], r)
      /\ \A dev \in Devices : dev # at => queue'[dev] = queue[dev]
      /\ toPush'[r] = toPush[r] \ {at}
      /\ \A d \in Dags : d # r => toPush'[d] = toPush[d]
      /\ batch' = batch /\ unfinished' = unfinished
  BY DEF Push, TypeOK, workerVars
<1>4. \A w \in Workers : Held(w)' = Held(w) /\ Dev(w)' = Dev(w) /\ Dev(w) \in Devices
  BY <1>3, DevFacts DEF Held, Dev
<1>5. \A dev \in Devices : IsInjective(queue'[dev])
  BY <1>2, <1>3 DEF CopyInOnePlace
<1>6. \A w \in Workers : ToSet(queue'[Dev(w)]) \cap Held(w) = {}
  BY <1>1, <1>2, <1>3, <1>4 DEF CopyInOnePlace
<1>7. ASSUME NEW d \in Dags, NEW dev \in toPush'[d]
      PROVE  /\ dev \in Devices
             /\ d \notin ToSet(queue'[dev])
             /\ \A w \in Workers : Dev(w) = dev => d \notin Held(w)
  <2>1. dev \in toPush[d] /\ dev \in Devices /\ ~(d = r /\ dev = at)
    BY <1>3 DEF TypeOK
  <2> QED BY <1>2, <1>3, <2>1 DEF CopyInOnePlace
<1>8. CopyInOnePlace'
  BY <1>3, <1>4, <1>5, <1>6, <1>7 DEF CopyInOnePlace
<1>9. ASSUME NEW d \in Dags, NEW dev \in Devices PROVE HasCopy(d, dev)' <=> HasCopy(d, dev)
  <2>1. \/ dev \in toPush'[d]
        \/ d \in ToSet(queue'[dev])
        <=>
        \/ dev \in toPush[d]
        \/ d \in ToSet(queue[dev])
    BY <1>1, <1>2, <1>3
  <2> QED BY <1>4, <2>1 DEF HasCopy
<1> QED BY <1>2, <1>8, <1>9 DEF CopiesKept

(* A request is submitted: it had no copy and has one for each of its devices.   *)
LEMMA SubmitMoves ==
  ASSUME NEW r \in Dags, TypeOK, CopyInOnePlace, FinishedOnce, Submit(r)
  PROVE  /\ CopyInOnePlace'
         /\ Copies(r)' = DevicesOf(r)
         /\ \A d \in Dags : d # r => Copies(d)' = Copies(d)
<1>1. Copies(r) = {}
  BY DEF Submit, FinishedOnce
<1>2. /\ toPush'[r] = DevicesOf(r)
      /\ \A d \in Dags : d # r => toPush'[d] = toPush[d]
      /\ queue' = queue /\ batch' = batch /\ unfinished' = unfinished
  BY DEF Submit, TypeOK, queueVars, workerVars
<1>3. \A w \in Workers : Held(w)' = Held(w) /\ Dev(w)' = Dev(w) /\ Dev(w) \in Devices
  BY <1>2, DevFacts DEF Held, Dev
<1>4. DevicesOf(r) \subseteq Devices
  BY ProgramFacts
<1>5. \A dev \in Devices : /\ r \notin ToSet(queue[dev])
                           /\ \A w \in Workers : Dev(w) = dev => r \notin Held(w)
  BY <1>1 DEF Copies, HasCopy
<1>6. ASSUME NEW d \in Dags, NEW dev \in toPush'[d]
      PROVE  /\ d \notin ToSet(queue[dev])
             /\ \A w \in Workers : Dev(w) = dev => d \notin Held(w)
  <2>1. CASE d = r
    BY <1>2, <1>4, <1>5, <2>1
  <2>2. CASE d # r
    BY <1>2, <2>2 DEF CopyInOnePlace
  <2> QED BY <2>1, <2>2
<1>7. CopyInOnePlace'
  <2>1. \A dev \in Devices : IsInjective(queue'[dev])
    BY <1>2 DEF CopyInOnePlace
  <2>2. \A w \in Workers : /\ IsInjective(batch'[w])
                           /\ IsInjective(unfinished'[w])
                           /\ ToSet(batch'[w]) \cap ToSet(unfinished'[w]) = {}
                           /\ ToSet(queue'[Dev(w)]) \cap Held(w)' = {}
    BY <1>2, <1>3 DEF CopyInOnePlace
  <2>3. \A v, w \in Workers : v # w /\ Dev(v) = Dev(w) => Held(v)' \cap Held(w)' = {}
    BY <1>3 DEF CopyInOnePlace
  <2>4. \A d \in Dags : \A dev \in toPush'[d] :
          /\ d \notin ToSet(queue'[dev])
          /\ \A w \in Workers : Dev(w) = dev => d \notin Held(w)'
    BY <1>2, <1>3, <1>6
  <2> QED BY <1>3, <2>1, <2>2, <2>3, <2>4 DEF CopyInOnePlace
<1>8. \A d \in Dags, dev \in Devices :
        HasCopy(d, dev)' <=> \/ dev \in toPush'[d]
                             \/ d \in ToSet(queue[dev])
                             \/ \E w \in Workers : Dev(w) = dev /\ d \in Held(w)
  BY <1>2, <1>3 DEF HasCopy
<1>9. Copies(r)' = DevicesOf(r)
  BY <1>2, <1>4, <1>5, <1>8 DEF Copies
<1>10. ASSUME NEW d \in Dags, d # r PROVE Copies(d)' = Copies(d)
  <2>1. \A dev \in Devices : HasCopy(d, dev)' <=> HasCopy(d, dev)
    BY <1>2, <1>8, <1>10 DEF HasCopy
  <2> QED BY <2>1 DEF Copies
<1> QED BY <1>7, <1>9, <1>10

-----------------------------------------------------------------------------
(* What the copies are counted by and what they have left to do.                *)
Bookkeeping == RefCountIsCopies /\ FinishedOnce /\ CopyHasOperation /\ NewIsUntouched

(* A step that keeps the copies, the counts and the operations done.            *)
LEMMA KeptBookkeeping ==
  ASSUME Bookkeeping, CopiesKept, UNCHANGED <<phase, refCount, finishes, opsDone>>
  PROVE  Bookkeeping' /\ CopyInOnePlace'
<1>1. \A d \in Dags : Copies(d)' = Copies(d)
  BY DEF Copies, CopiesKept
<1>2. RefCountIsCopies'
  BY <1>1 DEF Bookkeeping, RefCountIsCopies
<1>3. FinishedOnce'
  BY <1>1 DEF Bookkeeping, FinishedOnce
<1>4. CopyHasOperation' /\ NewIsUntouched'
  BY DEF Bookkeeping, CopiesKept, CopyHasOperation, NewIsUntouched
<1> QED BY <1>2, <1>3, <1>4 DEF Bookkeeping, CopiesKept

(* A request is submitted.                                                      *)
LEMMA SubmitBookkeeping ==
  ASSUME NEW r \in Dags, TypeOK, CopyInOnePlace, Bookkeeping, Submit(r)
  PROVE  Bookkeeping' /\ CopyInOnePlace' /\ refCount'[r] \in Nat
<1>1. /\ CopyInOnePlace'
      /\ Copies(r)' = DevicesOf(r)
      /\ \A d \in Dags : d # r => Copies(d)' = Copies(d)
  BY SubmitMoves DEF Bookkeeping
<1>2. /\ phase[r] = "new" /\ phase'[r] = "running" /\ refCount'[r] = Cardinality(DevicesOf(r))
      /\ \A d \in Dags : d # r => phase'[d] = phase[d] /\ refCount'[d] = refCount[d]
      /\ finishes' = finishes /\ opsDone' = opsDone
  BY DEF Submit, TypeOK, CopiesMade
<1>3. RefCountIsCopies'
  BY <1>1, <1>2 DEF Bookkeeping, RefCountIsCopies
<1>4. DevicesOf(r) # {} /\ DevicesOf(r) \subseteq Devices
      /\ \A dev \in DevicesOf(r) : Cardinality(OpsOn(r, dev)) > 0
  BY ProgramFacts
<1>5. FinishedOnce'
  BY <1>1, <1>2, <1>4 DEF Bookkeeping, FinishedOnce
<1>6. NewIsUntouched'
  BY <1>2 DEF Bookkeeping, NewIsUntouched
<1>7. ASSUME NEW d \in Dags, NEW dev \in Devices, HasCopy(d, dev)'
      PROVE  opsDone[d][dev] < Cardinality(OpsOn(d, dev))
  <2>1. dev \in Copies(d)'
    BY <1>7 DEF Copies
  <2>2. CASE d = r
    <3>1. opsDone[r][dev] = 0 /\ Cardinality(OpsOn(r, dev)) > 0
      BY <1>1, <1>2, <1>4, <2>1, <2>2 DEF Bookkeeping, NewIsUntouched
    <3> QED BY <2>2, <3>1
  <2>3. CASE d # r
    <3>1. HasCopy(d, dev)
      BY <1>1, <2>1, <2>3 DEF Copies
    <3> QED BY <3>1 DEF Bookkeeping, CopyHasOperation
  <2> QED BY <2>2, <2>3
<1>8. CopyHasOperation'
  BY <1>2, <1>7 DEF CopyHasOperation
<1>9. refCount'[r] \in Nat
  <2>1. IsFiniteSet(DevicesOf(r))
    BY <1>4, ProgramAssumption, FS_Subset
  <2> QED BY <1>2, <2>1, FS_CardinalityType
<1> QED BY <1>1, <1>3, <1>5, <1>6, <1>8, <1>9 DEF Bookkeeping

(* A request is rejected or answered: it has no copies.                         *)
LEMMA NoCopiesBookkeeping ==
  ASSUME NEW r \in Dags, TypeOK, CopyInOnePlace, Bookkeeping, Reject(r) \/ Reply(r)
  PROVE  Bookkeeping' /\ CopyInOnePlace'
<1>1. UNCHANGED <<toPush, queue, batch, unfinished, refCount, finishes, opsDone>>
  BY DEF Reject, Reply, copyVars, queueVars, workerVars
<1>2. CopiesKept
  BY <1>1, NoMove
<1>3. \A d \in Dags : Copies(d)' = Copies(d)
  BY <1>2 DEF Copies, CopiesKept
<1>4. /\ \/ phase[r] = "new" /\ phase'[r] = "rejected"
         \/ phase[r] = "finished" /\ phase'[r] = "replied"
      /\ \A d \in Dags : d # r => phase'[d] = phase[d]
  BY DEF Reject, Reply, TypeOK
<1>5. FinishedOnce'
  BY <1>1, <1>3, <1>4 DEF Bookkeeping, FinishedOnce
<1>6. RefCountIsCopies'
  BY <1>1, <1>3 DEF Bookkeeping, RefCountIsCopies
<1>7. CopyHasOperation' /\ NewIsUntouched'
  BY <1>1, <1>2, <1>4 DEF Bookkeeping, CopiesKept, CopyHasOperation, NewIsUntouched
<1> QED BY <1>2, <1>5, <1>6, <1>7 DEF Bookkeeping, CopiesKept

(* A worker finishes an operation of a copy: the operation counts as done, and   *)
(* when the copy is freed the counts go down with it.                           *)
LEMMA FinishBookkeeping ==
  ASSUME NEW w \in Workers, TypeOK, CopyInOnePlace, BatchMatchesPlace, Bookkeeping, FinishOne(w)
  PROVE  /\ Bookkeeping'
         /\ CopyInOnePlace'
         /\ phase' \in [Dags -> Phases] /\ refCount' \in [Dags -> Nat] /\ finishes' \in [Dags -> Nat]
         /\ opsDone' \in [Dags -> [Devices -> Nat]]
         /\ unfinished' \in [Workers -> Seq(Dags)]
<1>0. PICK r \in Dags : r = Last(batch[w]) /\ r \in ToSet(batch[w])
  BY FinishTakesLast
<1> DEFINE at == Dev(w)
           n == opsDone[r][at] + 1
<1>1. at \in Devices
  BY DevFacts
<1>2. HasCopy(r, at)
  BY <1>0, <1>1 DEF HasCopy, Held
<1>3. /\ opsDone' = [opsDone EXCEPT ![r][at] = n]
      /\ \/ Free(r) /\ UNCHANGED unfinished
         \/ /\ ~DeviceComplete(r, at, n)
            /\ unfinished' = [unfinished EXCEPT ![w] = Cons(r, @)]
            /\ UNCHANGED <<refCount, finishes, phase>>
  BY <1>0 DEF FinishOne
<1> HIDE DEF at
<1>4. /\ opsDone[r][at] \in Nat /\ n \in Nat
      /\ Cardinality(OpsOn(r, at)) \in Nat
      /\ opsDone[r][at] < Cardinality(OpsOn(r, at))
  <2>1. Cardinality(OpsOn(r, at)) \in Nat
    BY <1>1, ProgramFacts
  <2>2. opsDone[r][at] \in Nat /\ n \in Nat
    BY <1>1 DEF TypeOK
  <2>3. opsDone[r][at] < Cardinality(OpsOn(r, at))
    BY <1>1, <1>2 DEF Bookkeeping, CopyHasOperation
  <2> QED BY <2>1, <2>2, <2>3
<1>5. /\ at \in Copies(r)
      /\ phase[r] = "running" /\ finishes[r] = 0
      /\ refCount[r] = Cardinality(Copies(r)) /\ refCount[r] \in Nat
      /\ IsFiniteSet(Copies(r))
  BY <1>1, <1>2, CopiesFinite DEF Bookkeeping, RefCountIsCopies, FinishedOnce, Copies, TypeOK
<1> HIDE DEF n
<1>6. /\ opsDone' \in [Dags -> [Devices -> Nat]]
      /\ opsDone'[r][at] = n
      /\ \A d \in Dags, dev \in Devices : ~(d = r /\ dev = at) => opsDone'[d][dev] = opsDone[d][dev]
  BY <1>1, <1>3, <1>4 DEF TypeOK
<1>7. phase'[r] # "new" /\ \A d \in Dags : d # r => phase'[d] = phase[d]
  BY <1>1, <1>3, <1>5 DEF Free, TypeOK
<1>8. NewIsUntouched'
  BY <1>1, <1>6, <1>7 DEF NewIsUntouched, Bookkeeping
<1>9. CASE Free(r) /\ UNCHANGED unfinished
  <2>1. /\ CopyInOnePlace'
        /\ \A d \in Dags, dev \in Devices :
             HasCopy(d, dev)' <=> HasCopy(d, dev) /\ ~(d = r /\ dev = at)
    BY <1>0, <1>9, FinishFrees DEF at
  <2>2. Copies(r)' = Copies(r) \ {at} /\ \A d \in Dags : d # r => Copies(d)' = Copies(d)
    BY <1>1, <2>1 DEF Copies
  <2>3. Cardinality(Copies(r) \ {at}) = refCount[r] - 1 /\ IsFiniteSet(Copies(r) \ {at})
    BY <1>5, FS_RemoveElement
  <2>4. Cardinality(Copies(r) \ {at}) \in Nat
    BY <2>3, FS_CardinalityType
  <2>5. refCount[r] = 1 <=> Copies(r) \ {at} = {}
    BY <1>5, <2>3, FS_EmptySet
  <2>6. /\ refCount' \in [Dags -> Nat] /\ refCount'[r] = refCount[r] - 1
        /\ \A d \in Dags : d # r => refCount'[d] = refCount[d]
    BY <1>1, <1>9, <2>3, <2>4 DEF Free, TypeOK
  <2>7. /\ finishes' \in [Dags -> Nat] /\ phase' \in [Dags -> Phases]
        /\ refCount[r] = 1 => phase'[r] = "finished" /\ finishes'[r] = 1
        /\ refCount[r] # 1 => phase'[r] = "running" /\ finishes'[r] = 0
        /\ \A d \in Dags : d # r => finishes'[d] = finishes[d]
    <3>1. CASE refCount[r] = 1
      <4>1. /\ finishes' = [finishes EXCEPT ![r] = finishes[r] + 1]
            /\ phase' = [phase EXCEPT ![r] = "finished"]
        BY <1>9, <3>1 DEF Free
      <4>2. finishes \in [Dags -> Nat] /\ phase \in [Dags -> Phases]
        BY DEF TypeOK
      <4>3. finishes' \in [Dags -> Nat] /\ finishes'[r] = 1
        BY <1>5, <4>1, <4>2
      <4>4. phase' \in [Dags -> Phases] /\ phase'[r] = "finished"
        BY <4>1, <4>2 DEF Phases
      <4> QED BY <3>1, <4>1, <4>2, <4>3, <4>4
    <3>2. CASE refCount[r] # 1
      BY <1>5, <1>9, <3>2 DEF Free, TypeOK
    <3> QED BY <3>1, <3>2
  <2>8. RefCountIsCopies'
    BY <2>2, <2>3, <2>6 DEF RefCountIsCopies, Bookkeeping
  <2>9. FinishedOnce'
    BY <1>7, <2>2, <2>5, <2>7 DEF FinishedOnce, Bookkeeping
  <2>10. CopyHasOperation'
    BY <1>6, <2>1 DEF CopyHasOperation, Bookkeeping
  <2>11. unfinished' \in [Workers -> Seq(Dags)]
    BY <1>9 DEF TypeOK
  <2> QED BY <1>6, <1>8, <2>1, <2>6, <2>7, <2>8, <2>9, <2>10, <2>11 DEF Bookkeeping
<1>10. CASE /\ ~DeviceComplete(r, at, n)
            /\ unfinished' = [unfinished EXCEPT ![w] = Cons(r, @)]
            /\ UNCHANGED <<refCount, finishes, phase>>
  <2>1. CopiesKept /\ Cons(r, unfinished[w]) \in Seq(Dags)
    BY <1>0, <1>10, FinishKeeps
  <2>2. \A d \in Dags : Copies(d)' = Copies(d)
    BY <2>1 DEF Copies, CopiesKept
  <2>3. RefCountIsCopies' /\ FinishedOnce'
    BY <1>10, <2>2 DEF RefCountIsCopies, FinishedOnce, Bookkeeping
  <2>4. n < Cardinality(OpsOn(r, at))
    BY <1>4, <1>10 DEF DeviceComplete, n
  <2>5. CopyHasOperation'
    BY <1>6, <2>1, <2>4 DEF CopyHasOperation, CopiesKept, Bookkeeping
  <2>6. unfinished' \in [Workers -> Seq(Dags)]
    BY <1>10, <2>1 DEF TypeOK
  <2>7. phase' \in [Dags -> Phases] /\ refCount' \in [Dags -> Nat] /\ finishes' \in [Dags -> Nat]
    BY <1>10 DEF TypeOK
  <2> QED BY <1>6, <1>8, <2>1, <2>3, <2>5, <2>6, <2>7 DEF Bookkeeping, CopiesKept
<1> QED BY <1>3, <1>9, <1>10

-----------------------------------------------------------------------------
(* The invariant holds at the start.                                            *)
LEMMA InitIInv == Init => IInv
<1> SUFFICES ASSUME Init PROVE IInv
  OBVIOUS
<1>1. /\ \A dev \in Devices : queue[dev] = <<>>
      /\ \A w \in Workers : batch[w] = <<>> /\ unfinished[w] = <<>> /\ pc[w] = "wait"
      /\ \A d \in Dags : /\ toPush[d] = {} /\ phase[d] = "new" /\ refCount[d] = 0
                         /\ finishes[d] = 0
                         /\ \A dev \in Devices : opsDone[d][dev] = 0
  BY DEF Init
<1>2. ToSet(<<>>) = {} /\ IsInjective(<<>>)
  BY EmptyElements
<1>3. \A w \in Workers : Held(w) = {} /\ Dev(w) \in Devices
  BY <1>1, <1>2, DevFacts DEF Held
<1>4. CopyInOnePlace
  BY <1>1, <1>2, <1>3 DEF CopyInOnePlace
<1>5. \A d \in Dags : Copies(d) = {}
  BY <1>1, <1>2, <1>3 DEF Copies, HasCopy
<1>6. Cardinality({}) = 0
  BY FS_EmptySet
<1>7. RefCountIsCopies /\ FinishedOnce
  BY <1>1, <1>5, <1>6 DEF RefCountIsCopies, FinishedOnce
<1>8. CopyHasOperation
  BY <1>5 DEF CopyHasOperation, Copies
<1>9. BatchMatchesPlace /\ NewIsUntouched
  BY <1>1 DEF BatchMatchesPlace, NewIsUntouched
<1>10. TypeOK
  BY DEF Init, TypeOK, Phases, Places, NoAnswer
<1> QED BY <1>4, <1>7, <1>8, <1>9, <1>10 DEF IInv

-----------------------------------------------------------------------------
(* Each step keeps the types and what a worker has in its batch at each place.   *)
Shapes == TypeOK /\ BatchMatchesPlace

(* A worker has a last copy in its batch, or none left: what FinishOne leaves.   *)
LEMMA FinishShapes ==
  ASSUME NEW w \in Workers, TypeOK, CopyInOnePlace, BatchMatchesPlace, Bookkeeping, FinishOne(w)
  PROVE  Shapes'
<1>1. /\ phase' \in [Dags -> Phases] /\ refCount' \in [Dags -> Nat] /\ finishes' \in [Dags -> Nat]
      /\ opsDone' \in [Dags -> [Devices -> Nat]]
      /\ unfinished' \in [Workers -> Seq(Dags)]
  BY FinishBookkeeping
<1>2. /\ batch'[w] \in Seq(Dags) /\ batch' = [batch EXCEPT ![w] = Front(@)]
      /\ Len(batch'[w]) = Len(batch[w]) - 1 /\ Len(batch[w]) \in Nat \ {0}
      /\ \A v \in Workers : v # w => batch'[v] = batch[v]
  BY FinishTakesLast
<1>3. batch' \in [Workers -> Seq(Dags)]
  BY <1>2 DEF TypeOK
<1>4. /\ pc' = [pc EXCEPT ![w] = IF Len(batch[w]) = 1 THEN "reinsert" ELSE "finish"]
      /\ UNCHANGED <<tensors, result, dagError, timedOut, readLocks, toPush, elapsed,
                     queue, mutex, position>>
  BY DEF FinishOne, queueVars
<1>5. pc' \in [Workers -> Places]
  BY <1>4 DEF TypeOK, Places
<1>6. TypeOK'
  BY <1>1, <1>3, <1>4, <1>5 DEF TypeOK
<1>7. ASSUME NEW v \in Workers
      PROVE  /\ pc'[v] \in {"wait", "loop", "reinsert"} => batch'[v] = <<>>
             /\ pc'[v] = "prepare" => Len(batch'[v]) = 1
             /\ pc'[v] \in {"scan", "run", "store", "finish"} => batch'[v] # <<>>
  <2>1. CASE v # w
    BY <1>2, <1>4, <2>1 DEF TypeOK, BatchMatchesPlace
  <2>2. CASE v = w /\ Len(batch[w]) = 1
    BY <1>2, <1>4, <2>2 DEF TypeOK
  <2>3. CASE v = w /\ Len(batch[w]) # 1
    BY <1>2, <1>4, <2>3 DEF TypeOK
  <2> QED BY <2>1, <2>2, <2>3
<1>8. BatchMatchesPlace'
  BY <1>7 DEF BatchMatchesPlace
<1> QED BY <1>6, <1>8 DEF Shapes

(* The steps of a worker that move a copy: what they move it to is typed.         *)
LEMMA MoveShapes ==
  ASSUME NEW w \in Workers, TypeOK, CopyInOnePlace, BatchMatchesPlace,
         Pop(w) \/ NotReady(w) \/ ScanTake(w) \/ ReturnBatch(w) \/ Reinsert(w)
  PROVE  Shapes' /\ CopiesKept
<1>1. CASE Pop(w)
  <2>1. CopiesKept /\ Head(queue[Dev(w)]) \in Dags /\ Tail(queue[Dev(w)]) \in Seq(Dags)
    BY <1>1, PopMoves
  <2>2. <<Head(queue[Dev(w)])>> \in Seq(Dags) /\ Len(<<Head(queue[Dev(w)])>>) = 1
    BY <2>1
  <2>3. /\ queue' = [queue EXCEPT ![Dev(w)] = Tail(queue[Dev(w)])]
        /\ batch' = [batch EXCEPT ![w] = <<Head(queue[Dev(w)])>>]
        /\ \/ pc' = [pc EXCEPT ![w] = "finish"] /\ mutex' = [mutex EXCEPT ![Dev(w)] = NoWorker]
           \/ pc' = [pc EXCEPT ![w] = "prepare"] /\ mutex' = mutex
        /\ UNCHANGED <<phase, refCount, finishes, result, dagError, readLocks, toPush, opsDone,
                       elapsed, position, unfinished>>
    BY <1>1, DevFacts DEF Pop, copyVars, TypeOK
  <2>4. queue' \in [Devices -> Seq(Dags)] /\ batch' \in [Workers -> Seq(Dags)]
    BY <2>1, <2>2, <2>3 DEF TypeOK
  <2>5. pc' \in [Workers -> Places] /\ mutex' \in [Devices -> Workers \cup {NoWorker}]
    BY <2>3 DEF TypeOK, Places
  <2>6. timedOut' \in [Dags -> BOOLEAN]
    <3>1. PICK flag : timedOut' = [timedOut EXCEPT ![Head(queue[Dev(w)])] =
                        @ \/ (~flag /\ "timeout" \in elapsed[Head(queue[Dev(w)])][Dev(w)])]
      BY <1>1 DEF Pop
    <3> QED BY <3>1 DEF TypeOK
  <2>7. TypeOK'
    BY <2>3, <2>4, <2>5, <2>6 DEF TypeOK
  <2>8. /\ batch'[w] # <<>> /\ Len(batch'[w]) = 1 /\ pc'[w] \in {"finish", "prepare"}
        /\ \A v \in Workers : v # w => batch'[v] = batch[v] /\ pc'[v] = pc[v]
    <3>1. batch'[w] = <<Head(queue[Dev(w)])>> /\ <<Head(queue[Dev(w)])>> # <<>>
      BY <2>2, <2>3 DEF TypeOK
    <3>2. pc'[w] \in {"finish", "prepare"}
      BY <2>3 DEF TypeOK
    <3>3. \A v \in Workers : v # w => batch'[v] = batch[v] /\ pc'[v] = pc[v]
      BY <2>3 DEF TypeOK
    <3> QED BY <2>2, <3>1, <3>2, <3>3
  <2>9. BatchMatchesPlace'
    BY <2>8 DEF BatchMatchesPlace
  <2> QED BY <2>1, <2>7, <2>9 DEF Shapes
<1>2. CASE NotReady(w)
  <2>1. CopiesKept /\ Append(queue[Dev(w)], HeadOf(w)) \in Seq(Dags)
    BY <1>2, NotReadyMoves
  <2>2. TypeOK'
    BY <1>2, <2>1, DevFacts DEF TypeOK, NotReady, requestVars, copyVars, Places
  <2>3. BatchMatchesPlace'
    BY <1>2 DEF TypeOK, NotReady, BatchMatchesPlace
  <2> QED BY <2>1, <2>2, <2>3 DEF Shapes
<1>3. CASE ScanTake(w)
  <2>1. /\ CopiesKept
        /\ Evicted(queue[Dev(w)], position[w]) \in Seq(Dags)
        /\ Append(batch[w], queue[Dev(w)][position[w]]) \in Seq(Dags)
    BY <1>3, ScanTakeMoves
  <2>2. Append(batch[w], queue[Dev(w)][position[w]]) # <<>>
    <3>1. batch[w] \in Seq(Dags)
      BY DEF TypeOK
    <3>2. \A e : Len(Append(batch[w], e)) = Len(batch[w]) + 1 /\ Len(batch[w]) \in Nat
      BY <3>1
    <3>3. \A e : Len(Append(batch[w], e)) # Len(<<>>)
      BY <3>2
    <3> QED BY <3>3, Zenon
  <2>3. TypeOK'
    BY <1>3, <2>1, DevFacts DEF TypeOK, ScanTake, requestVars, copyVars, Places
  <2>4. BatchMatchesPlace'
    BY <1>3, <2>2 DEF TypeOK, ScanTake, BatchMatchesPlace
  <2> QED BY <2>1, <2>3, <2>4 DEF Shapes
<1>4. CASE ReturnBatch(w)
  <2>1. CopiesKept /\ queue[Dev(w)] \o Reverse(batch[w]) \in Seq(Dags)
    BY <1>4, ReturnBatchMoves
  <2>2. TypeOK'
    <3>1. queue' = [queue EXCEPT ![Dev(w)] = queue[Dev(w)] \o Reverse(batch[w])]
      BY <1>4, DevFacts DEF ReturnBatch, TypeOK
    <3>2. queue' \in [Devices -> Seq(Dags)]
      BY <2>1, <3>1 DEF TypeOK
    <3>3. /\ batch' = [batch EXCEPT ![w] = <<>>]
          /\ mutex' = [mutex EXCEPT ![Dev(w)] = NoWorker]
          /\ pc' = [pc EXCEPT ![w] = "wait"]
          /\ UNCHANGED <<requestVars, copyVars, position, unfinished>>
      BY <1>4 DEF ReturnBatch
    <3>4. /\ batch' \in [Workers -> Seq(Dags)]
          /\ mutex' \in [Devices -> Workers \cup {NoWorker}]
          /\ pc' \in [Workers -> Places]
      <4>1. /\ batch \in [Workers -> Seq(Dags)] /\ <<>> \in Seq(Dags)
            /\ mutex \in [Devices -> Workers \cup {NoWorker}]
            /\ pc \in [Workers -> Places]
        BY DEF TypeOK
      <4> QED BY <3>3, <4>1 DEF Places
    <3> QED BY <3>2, <3>3, <3>4 DEF TypeOK, requestVars, copyVars
  <2>3. BatchMatchesPlace'
    BY <1>4 DEF TypeOK, ReturnBatch, BatchMatchesPlace
  <2> QED BY <2>1, <2>2, <2>3 DEF Shapes
<1>5. CASE Reinsert(w)
  <2>1. CopiesKept /\ unfinished[w] \o queue[Dev(w)] \in Seq(Dags)
    BY <1>5, ReinsertMoves
  <2>2. TypeOK'
    BY <1>5, <2>1, DevFacts DEF TypeOK, Reinsert, requestVars, copyVars, Places
  <2>3. BatchMatchesPlace'
    BY <1>5 DEF TypeOK, Reinsert, BatchMatchesPlace
  <2> QED BY <2>1, <2>2, <2>3 DEF Shapes
<1> QED BY <1>1, <1>2, <1>3, <1>4, <1>5

(* The steps of a worker that move no copy.                                       *)
Stays(w) ==
  \/ Wake(w) \/ Sleep(w) \/ RunAlone(w) \/ StartScan(w) \/ ScanSkip(w) \/ LaunchBatch(w)
  \/ Run(w) \/ Store(w)

(* They keep the types and what goes with each place.                             *)
LEMMA StayShapes ==
  ASSUME NEW w \in Workers, TypeOK, BatchMatchesPlace, Stays(w)
  PROVE  /\ Shapes'
         /\ UNCHANGED <<toPush, queue, batch, unfinished, phase, refCount, finishes, opsDone>>
<1> USE DEF requestVars, copyVars, queueVars
<1>1. CASE Wake(w)
  <2>1. TypeOK'
    BY <1>1, DevFacts DEF TypeOK, Wake, Places
  <2>2. BatchMatchesPlace'
    BY <1>1 DEF TypeOK, Wake, BatchMatchesPlace
  <2> QED BY <1>1, <2>1, <2>2 DEF Shapes, Wake
<1>2. CASE Sleep(w)
  <2>1. TypeOK'
    BY <1>2, DevFacts DEF TypeOK, Sleep, Places
  <2>2. BatchMatchesPlace'
    BY <1>2 DEF TypeOK, Sleep, BatchMatchesPlace
  <2> QED BY <1>2, <2>1, <2>2 DEF Shapes, Sleep
<1>3. CASE RunAlone(w)
  <2>1. TypeOK'
    BY <1>3, DevFacts DEF TypeOK, RunAlone, Places
  <2>2. BatchMatchesPlace'
    <3>1. batch[w] # <<>>
      <4>1. Len(batch[w]) = 1
        BY <1>3 DEF RunAlone, BatchMatchesPlace
      <4>2. Len(<<>>) # 1
        OBVIOUS
      <4> QED BY <4>1, <4>2, Zenon
    <3> QED BY <1>3, <3>1 DEF TypeOK, RunAlone, BatchMatchesPlace
  <2> QED BY <1>3, <2>1, <2>2 DEF Shapes, RunAlone
<1>4. CASE StartScan(w)
  <2>1. TypeOK'
    BY <1>4, DevFacts DEF TypeOK, StartScan, Places
  <2>2. BatchMatchesPlace'
    <3>1. batch[w] # <<>>
      <4>1. Len(batch[w]) = 1
        BY <1>4 DEF StartScan, BatchMatchesPlace
      <4>2. Len(<<>>) # 1
        OBVIOUS
      <4> QED BY <4>1, <4>2, Zenon
    <3> QED BY <1>4, <3>1 DEF TypeOK, StartScan, BatchMatchesPlace
  <2> QED BY <1>4, <2>1, <2>2 DEF Shapes, StartScan
<1>5. CASE ScanSkip(w)
  <2>1. readLocks' \in [Dags -> Nat]
    BY <1>5 DEF TypeOK, ScanSkip
  <2>2. position' \in [Workers -> Nat \ {0}]
    BY <1>5 DEF TypeOK, ScanSkip
  <2>3. UNCHANGED <<phase, refCount, finishes, result, dagError, timedOut, copyVars, queueVars,
                    pc, batch, unfinished>>
    BY <1>5 DEF ScanSkip
  <2> QED BY <2>1, <2>2, <2>3 DEF Shapes, TypeOK, BatchMatchesPlace
<1>6. CASE LaunchBatch(w)
  <2>1. TypeOK'
    BY <1>6, DevFacts DEF TypeOK, LaunchBatch, Places
  <2>2. BatchMatchesPlace'
    BY <1>6 DEF TypeOK, LaunchBatch, BatchMatchesPlace
  <2> QED BY <1>6, <2>1, <2>2 DEF Shapes, LaunchBatch
<1>7. CASE Run(w)
  <2>1. /\ pc[w] = "run"
        /\ \/ pc' = [pc EXCEPT ![w] = "finish"]
           \/ pc' = [pc EXCEPT ![w] = "store"]
        /\ position' = position \/ position' = [position EXCEPT ![w] = 1]
        /\ UNCHANGED <<phase, refCount, finishes, timedOut, readLocks, copyVars, queueVars,
                       batch, unfinished>>
    BY <1>7 DEF Run, RunNothing, RunSucceeds, RunFails
  <2>2. DOMAIN result' = Dags /\ \A d \in Dags : result'[d] \in [OpIds(d) -> {"none", "ok", "err"}]
    <3>1. CASE RunNothing(w)
      BY <3>1 DEF RunNothing, TypeOK
    <3>2. ASSUME NEW outcome \in {"ok", "err"},
                 result' = [d \in Dags |-> IF d \in InBatch(w)
                                           THEN [result[d] EXCEPT ![OpOf(d, w)] = outcome]
                                           ELSE result[d]]
          PROVE  /\ DOMAIN result' = Dags
                 /\ \A d \in Dags : result'[d] \in [OpIds(d) -> {"none", "ok", "err"}]
      <4>1. \A d \in Dags : result[d] \in [OpIds(d) -> {"none", "ok", "err"}]
        BY DEF TypeOK
      <4> QED BY <3>2, <4>1
    <3>3. CASE RunSucceeds(w)
      BY <3>2, <3>3 DEF RunSucceeds
    <3>4. CASE RunFails(w)
      BY <3>2, <3>4 DEF RunFails
    <3> QED BY <1>7, <3>1, <3>3, <3>4 DEF Run
  <2>3. dagError' \in [Dags -> BOOLEAN]
    BY <1>7 DEF Run, RunNothing, RunSucceeds, RunFails, TypeOK
  <2>4. pc' \in [Workers -> Places] /\ position' \in [Workers -> Nat \ {0}]
    <3>1. pc \in [Workers -> Places] /\ position \in [Workers -> Nat \ {0}]
      BY DEF TypeOK
    <3>2. pc' \in [Workers -> Places]
      BY <2>1, <3>1 DEF Places
    <3>3. position' \in [Workers -> Nat \ {0}]
      BY <2>1, <3>1
    <3> QED BY <3>2, <3>3
  <2>5. TypeOK'
    BY <2>1, <2>2, <2>3, <2>4 DEF TypeOK
  <2>6. BatchMatchesPlace'
    BY <2>1 DEF TypeOK, BatchMatchesPlace
  <2> QED BY <2>1, <2>5, <2>6 DEF Shapes
<1>8. CASE Store(w)
  <2>1. /\ pc[w] = "store" /\ pc'[w] \in {"store", "finish"}
        /\ \A v \in Workers : v # w => pc'[v] = pc[v]
        /\ position' = [position EXCEPT ![w] = @ + 1]
        /\ UNCHANGED <<phase, refCount, finishes, result, dagError, timedOut, readLocks,
                       copyVars, queueVars, batch, unfinished>>
    BY <1>8 DEF Store, TypeOK
  <2>2. pc' \in [Workers -> Places]
    BY <1>8 DEF Store, TypeOK, Places
  <2>3. position' \in [Workers -> Nat \ {0}]
    BY <2>1 DEF TypeOK
  <2>4. TypeOK'
    BY <2>1, <2>2, <2>3 DEF TypeOK
  <2>5. BatchMatchesPlace'
    BY <2>1 DEF BatchMatchesPlace
  <2> QED BY <2>1, <2>4, <2>5 DEF Shapes
<1> QED BY <1>1, <1>2, <1>3, <1>4, <1>5, <1>6, <1>7, <1>8 DEF Stays

(* The steps of the main thread, and of time.                                     *)
LEMMA RequestShapes ==
  ASSUME NEW d \in Dags, TypeOK, CopyInOnePlace, BatchMatchesPlace, Bookkeeping,
         \/ Submit(d) \/ Reject(d) \/ Reply(d)
         \/ \E dev \in Devices : Push(d, dev)
         \/ \E dev \in Devices, delay \in {"timeout", "minbatch"} : Tick(d, dev, delay)
  PROVE  Shapes'
<1> USE DEF requestVars, copyVars, queueVars, workerVars
<1>1. CASE Submit(d)
  <2>1. refCount'[d] \in Nat
    BY <1>1, SubmitBookkeeping
  <2>2. phase' \in [Dags -> Phases] /\ refCount' \in [Dags -> Nat]
    BY <1>1, <2>1 DEF Submit, TypeOK, Phases
  <2>3. toPush' \in [Dags -> SUBSET Devices]
    BY <1>1, ProgramFacts DEF Submit, TypeOK
  <2>4. DOMAIN result' = Dags /\ \A e \in Dags : result'[e] \in [OpIds(e) -> {"none", "ok", "err"}]
    BY <1>1 DEF Submit, TypeOK
  <2>5. UNCHANGED <<finishes, dagError, timedOut, readLocks, opsDone, elapsed, queue, mutex,
                    pc, batch, position, unfinished>>
    BY <1>1 DEF Submit
  <2> QED BY <2>2, <2>3, <2>4, <2>5 DEF Shapes, TypeOK, BatchMatchesPlace
<1>2. CASE Reject(d) \/ Reply(d)
  <2>1. phase' \in [Dags -> Phases]
    BY <1>2 DEF Reject, Reply, TypeOK, Phases
  <2>2. UNCHANGED <<refCount, finishes, result, dagError, timedOut, readLocks, copyVars,
                    queueVars, workerVars>>
    BY <1>2 DEF Reject, Reply
  <2> QED BY <2>1, <2>2 DEF Shapes, TypeOK, BatchMatchesPlace
<1>3. CASE \E dev \in Devices : Push(d, dev)
  <2>1. PICK dev \in Devices : Push(d, dev)
    BY <1>3
  <2>2. Append(queue[dev], d) \in Seq(Dags)
    BY <2>1, PushMoves
  <2>3. queue' \in [Devices -> Seq(Dags)]
    BY <2>1, <2>2 DEF Push, TypeOK
  <2>4. toPush' \in [Dags -> SUBSET Devices]
    BY <2>1 DEF Push, TypeOK
  <2>5. UNCHANGED <<requestVars, opsDone, elapsed, mutex, workerVars>>
    BY <2>1 DEF Push
  <2> QED BY <2>3, <2>4, <2>5 DEF Shapes, TypeOK, BatchMatchesPlace
<1>4. CASE \E dev \in Devices, delay \in {"timeout", "minbatch"} : Tick(d, dev, delay)
  <2>1. PICK dev \in Devices, delay \in {"timeout", "minbatch"} : Tick(d, dev, delay)
    BY <1>4
  <2>2. elapsed' \in [Dags -> [Devices -> SUBSET {"timeout", "minbatch"}]]
    BY <2>1 DEF Tick, TypeOK
  <2>3. UNCHANGED <<requestVars, toPush, opsDone, queueVars, workerVars>>
    BY <2>1 DEF Tick
  <2> QED BY <2>2, <2>3 DEF Shapes, TypeOK, BatchMatchesPlace
<1> QED BY <1>1, <1>2, <1>3, <1>4

-----------------------------------------------------------------------------
(* Every step keeps the invariant.                                                *)
LEMMA StepIInv == IInv /\ [Next]_vars => IInv'
<1> SUFFICES ASSUME IInv, [Next]_vars PROVE IInv'
  OBVIOUS
<1>1. TypeOK /\ CopyInOnePlace /\ BatchMatchesPlace /\ Bookkeeping
  BY DEF IInv, Bookkeeping
<1>2. SUFFICES Shapes' /\ CopyInOnePlace' /\ Bookkeeping'
  BY DEF IInv, Shapes, Bookkeeping
<1>3. ASSUME CopiesKept, UNCHANGED <<phase, refCount, finishes, opsDone>>
      PROVE  CopyInOnePlace' /\ Bookkeeping'
  BY <1>1, <1>3, KeptBookkeeping
<1>4. ASSUME NEW d \in Dags, Submit(d) PROVE Shapes' /\ CopyInOnePlace' /\ Bookkeeping'
  BY <1>1, <1>4, SubmitBookkeeping, RequestShapes
<1>5. ASSUME NEW d \in Dags, Reject(d) \/ Reply(d)
      PROVE  Shapes' /\ CopyInOnePlace' /\ Bookkeeping'
  BY <1>1, <1>5, NoCopiesBookkeeping, RequestShapes
<1>6. ASSUME NEW d \in Dags, NEW dev \in Devices, Push(d, dev)
      PROVE  Shapes' /\ CopyInOnePlace' /\ Bookkeeping'
  <2>1. CopiesKept
    BY <1>1, <1>6, PushMoves
  <2>2. UNCHANGED <<phase, refCount, finishes, opsDone>>
    BY <1>6 DEF Push, requestVars
  <2> QED BY <1>1, <1>3, <1>6, <2>1, <2>2, RequestShapes
<1>7. ASSUME NEW d \in Dags, NEW dev \in Devices, NEW delay \in {"timeout", "minbatch"},
             Tick(d, dev, delay)
      PROVE  Shapes' /\ CopyInOnePlace' /\ Bookkeeping'
  <2>1. UNCHANGED <<toPush, queue, batch, unfinished, phase, refCount, finishes, opsDone>>
    BY <1>7 DEF Tick, requestVars, queueVars, workerVars
  <2>2. CopiesKept
    BY <1>1, <2>1, NoMove
  <2> QED BY <1>1, <1>3, <1>7, <2>1, <2>2, RequestShapes
<1>8. ASSUME NEW w \in Workers, Stays(w) PROVE Shapes' /\ CopyInOnePlace' /\ Bookkeeping'
  <2>1. /\ Shapes'
        /\ UNCHANGED <<toPush, queue, batch, unfinished, phase, refCount, finishes, opsDone>>
    BY <1>1, <1>8, StayShapes
  <2>2. CopiesKept
    BY <1>1, <2>1, NoMove
  <2> QED BY <1>3, <2>1, <2>2
<1>9. ASSUME NEW w \in Workers,
             Pop(w) \/ NotReady(w) \/ ScanTake(w) \/ ReturnBatch(w) \/ Reinsert(w)
      PROVE  Shapes' /\ CopyInOnePlace' /\ Bookkeeping'
  <2>1. Shapes' /\ CopiesKept
    BY <1>1, <1>9, MoveShapes
  <2>2. UNCHANGED <<phase, refCount, finishes, opsDone>>
    BY <1>9 DEF Pop, NotReady, ScanTake, ReturnBatch, Reinsert, requestVars, copyVars
  <2> QED BY <1>3, <2>1, <2>2
<1>10. ASSUME NEW w \in Workers, FinishOne(w) PROVE Shapes' /\ CopyInOnePlace' /\ Bookkeeping'
  BY <1>1, <1>10, FinishShapes, FinishBookkeeping
<1>11. CASE UNCHANGED vars
  <2>1. UNCHANGED <<toPush, queue, batch, unfinished, phase, refCount, finishes, opsDone>>
    BY <1>11 DEF vars, requestVars, copyVars, queueVars, workerVars
  <2>2. CopiesKept
    BY <1>1, <2>1, NoMove
  <2>3. Shapes'
    BY <1>1, <1>11 DEF Shapes, TypeOK, BatchMatchesPlace,
                       vars, requestVars, copyVars, queueVars, workerVars
  <2> QED BY <1>3, <2>1, <2>2, <2>3
<1>12. CASE Next
  <2>1. CASE \E d \in Dags : Request(d)
    BY <1>4, <1>5, <1>6, <2>1 DEF Request
  <2>2. CASE \E w \in Workers : Worker(w)
    BY <1>8, <1>9, <1>10, <2>2 DEF Worker, Scan, Stays
  <2>3. CASE Clock
    BY <1>7, <2>3 DEF Clock
  <2>4. CASE Idle
    BY <1>11, <2>4 DEF Idle
  <2> QED BY <1>12, <2>1, <2>2, <2>3, <2>4 DEF Next
<1> QED BY <1>11, <1>12

(* In every behaviour the copies are where IInv says, and counted as it says.      *)
THEOREM DagInvariant == Spec => []IInv
BY InitIInv, StepIInv, PTL DEF Spec

(* The state of requests, copies, queues and workers keeps its types.               *)
THEOREM DagTypes == Spec => []TypeOK
<1>1. IInv => TypeOK
  BY DEF IInv
<1> QED BY <1>1, DagInvariant, PTL

(* A copy of a request is never twice in a queue, with two workers, or in a queue    *)
(* and with a worker, for any number of workers on a device.                        *)
THEOREM DagCopyInOnePlace == Spec => []CopyInOnePlace
<1>1. IInv => CopyInOnePlace
  BY DEF IInv
<1> QED BY <1>1, DagInvariant, PTL

(* dagRefCount is the number of copies that exist.                                   *)
THEOREM DagRefCount == Spec => []RefCountIsCopies
<1>1. IInv => RefCountIsCopies
  BY DEF IInv
<1> QED BY <1>1, DagInvariant, PTL

(* OnFinish is called once for a request, when its last copy is freed, and no worker *)
(* or queue holds a copy of it afterwards.                                          *)
THEOREM DagFinishedOnce == Spec => []FinishedOnce
<1>1. IInv => FinishedOnce
  BY DEF IInv
<1> QED BY <1>1, DagInvariant, PTL

(* A copy that is in a queue or with a worker has an operation left to run.          *)
THEOREM DagCopyHasOperation == Spec => []CopyHasOperation
<1>1. IInv => CopyHasOperation
  BY DEF IInv
<1> QED BY <1>1, DagInvariant, PTL
=============================================================================
