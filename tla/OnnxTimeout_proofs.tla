------------------------- MODULE OnnxTimeout_proofs -------------------------
(***************************************************************************)
(* Proofs about OnnxTimeout, for any workers and devices and any bound on    *)
(* the runs.                                                                *)
(***************************************************************************)
EXTENDS OnnxTimeout, FiniteSetTheorems, TLAPS

(* There is an entry number for each worker, and at least one.                 *)
LEMMA NumbersFact ==
  /\ Cardinality(Workers) \in Nat
  /\ 1 \in Numbers
  /\ Numbers \subseteq Nat \ {0}
<1>1. Cardinality(Workers) \in Nat
  BY OnnxAssumption, FS_CardinalityType
<1>2. Cardinality(Workers) # 0
  BY OnnxAssumption, FS_EmptySet
<1> QED BY <1>1, <1>2 DEF Numbers

(* The array has at most an entry per worker.                                  *)
LEMMA EntriesBound ==
  ASSUME TypeOK, EntriesWithinThreads
  PROVE  \A n \in 1..entries : n \in Numbers
<1>1. Cardinality({w \in Workers : DeviceOf[w] \in devices}) <= Cardinality(Workers)
  BY OnnxAssumption, FS_Subset
<1> QED BY <1>1, NumbersFact DEF TypeOK, EntriesWithinThreads, Numbers

(* The walk of the cron keeps to the entries of the array.                      *)
LEMMA AdvanceTypes ==
  ASSUME TypeOK, EntriesWithinThreads, CronAtEntry, cronPc # "idle", Advance
  PROVE  /\ cronPc' \in {"idle", "check"}
         /\ cronAt' \in Numbers
         /\ cronLate' \subseteq cronLate
         /\ cronPc' = "idle" => cronAt' = 1
         /\ cronPc' # "idle" => cronAt' <= entries
<1>1. cronAt \in Nat /\ entries \in Nat /\ cronAt <= entries
  BY NumbersFact DEF TypeOK, CronAtEntry
<1>2. CASE LastEntry(cronAt)
  BY <1>2, NumbersFact DEF Advance
<1>3. CASE ~LastEntry(cronAt)
  <2>1. cronAt + 1 \in 1..entries
    BY <1>1, <1>3 DEF LastEntry
  <2> QED BY <1>3, <2>1, EntriesBound DEF Advance
<1> QED BY <1>2, <1>3

(* A session is one of Sessions; NoSession is none.                             *)
LEMMA SessionType ==
  ASSUME TypeOK, NEW w \in Workers
  PROVE  Session(w) \in Sessions /\ Session(w) # NoSession
BY OnnxAssumption DEF TypeOK, Session, Sessions

(* The types of the threads, the entries and the cron.                           *)
LEMMA TypesKept ==
  ASSUME OnnxInv, [Next]_vars
  PROVE  TypeOK'
<1> USE DEF OnnxInv
<1>0. TypeOK /\ NoSession \notin Sessions
  BY OnnxAssumption DEF Sessions
<1>1. CASE Command
  <2>1. CASE LoadBackend
    BY <1>0, <2>1 DEF TypeOK, LoadBackend, MainFree, entryVars, cronVars
  <2>2. CASE AddNewDevice
    <3>1. IsFiniteSet(WorkersOf(creating))
      BY OnnxAssumption, FS_Subset DEF WorkersOf
    <3>2. Cardinality(WorkersOf(creating)) \in Nat
      BY <3>1, FS_CardinalityType
    <3> QED BY <1>0, <2>2, <3>2 DEF TypeOK, AddNewDevice, entryVars, cronVars
  <2>3. ASSUME NEW dev \in Devices, CreateQueue(dev) PROVE TypeOK'
    BY <1>0, <2>3 DEF TypeOK, CreateQueue, entryVars, cronVars
  <2>4. ASSUME NEW w \in Workers, Spawn(w) PROVE TypeOK'
    BY <1>0, <2>4 DEF TypeOK, Spawn, entryVars, cronVars
  <2> QED BY <1>1, <2>1, <2>2, <2>3, <2>4 DEF Command
<1>2. ASSUME NEW w \in Workers, Worker(w) PROVE TypeOK'
  <2> DEFINE s == Session(w)
  <2>0. s \in Sessions
    BY SessionType
  <2>1. CASE Start(w)
    BY <1>0, <2>1 DEF TypeOK, Start, entryVars, cronVars
  <2>2. CASE Take(w)
    BY <1>0, <2>0, <2>2 DEF TypeOK, Take, threadVars, cronVars
  <2>3. CASE SetTime(w)
    BY <1>0, <2>0, <2>3 DEF TypeOK, SetTime, threadVars, cronVars
  <2>4. CASE SetActive(w)
    BY <1>0, <2>4 DEF TypeOK, SetActive, threadVars, cronVars, States
  <2>5. CASE BecomeLate(w)
    BY <1>0, <2>0, <2>5 DEF TypeOK, BecomeLate, threadVars, entryVars, cronVars
  <2>6. CASE EndRun(w)
    BY <1>0, <2>6 DEF TypeOK, EndRun, threadVars, entryVars, cronVars
  <2>7. CASE Reset(w)
    BY <1>0, <2>7 DEF TypeOK, Reset, threadVars, cronVars, States
  <2>8. CASE ClearTime(w)
    BY <1>0, <2>8 DEF TypeOK, ClearTime, threadVars, cronVars
  <2>9. CASE Release(w)
    BY <1>0, <2>9 DEF TypeOK, Release, threadVars, entryVars, cronVars
  <2> QED BY <1>2, <2>1, <2>2, <2>3, <2>4, <2>5, <2>6, <2>7, <2>8, <2>9 DEF Worker
<1>3. CASE Cron
  <2>1. CASE CronStart
    BY <1>0, <2>1 DEF TypeOK, CronStart, threadVars, entryVars
  <2>2. CASE CronCheck
    <3>1. CASE Expired(cronAt)
      BY <1>0, <2>2, <3>1 DEF TypeOK, CronCheck, threadVars, entryVars
    <3>2. CASE ~Expired(cronAt)
      BY <1>0, <2>2, <3>2, AdvanceTypes DEF TypeOK, CronCheck, threadVars, entryVars
    <3> QED BY <3>1, <3>2
  <2>3. CASE CronSwap
    <3>1. CASE Terminable(runState[cronAt])
      BY <1>0, <2>3, <3>1 DEF TypeOK, CronSwap, threadVars, entryVars, States
    <3>2. CASE ~Terminable(runState[cronAt])
      BY <1>0, <2>3, <3>2, AdvanceTypes DEF TypeOK, CronSwap, threadVars, entryVars
    <3> QED BY <3>1, <3>2
  <2>4. CASE CronTerminate
    <3>1. runOptions[cronAt] \in Sessions
      <4>1. runState[cronAt] = "INVALID" /\ cronAt \in Numbers
        BY <2>4 DEF CronTerminate, CronAtEntry, TypeOK
      <4>2. cronAt \in 1..lastId
        BY <4>1, NumbersFact DEF EntriesMatchPlaces, TypeOK
      <4>3. PICK w \in Workers : threadId[w] = cronAt
        BY <4>2 DEF NumbersAreDistinct
      <4>4. runOptions[cronAt] = Session(w)
        BY <4>1, <4>3 DEF EntriesMatchPlaces, EntryMatchesPlace, InUse
      <4> QED BY <4>4, SessionType
    <3> QED BY <1>0, <2>4, <3>1 DEF TypeOK, CronTerminate, threadVars, entryVars
  <2>5. CASE CronStore
    BY <1>0, <2>5, AdvanceTypes DEF TypeOK, CronStore, threadVars, States
  <2> QED BY <1>3, <2>1, <2>2, <2>3, <2>4, <2>5 DEF Cron
<1>4. CASE UNCHANGED vars
  BY <1>0, <1>4 DEF TypeOK, vars, threadVars, entryVars, cronVars
<1> QED BY <1>1, <1>2, <1>3, <1>4 DEF Next

(* The array is extended by the threads of one new device at a time.               *)
LEMMA EntriesWithinThreadsKept ==
  ASSUME OnnxInv, [Next]_vars
  PROVE  EntriesWithinThreads'
<1> DEFINE Counted(D) == {w \in Workers : DeviceOf[w] \in D}
<1>0. TypeOK /\ EntriesWithinThreads /\ NoDevice \notin Devices
  BY OnnxAssumption DEF OnnxInv
<1>1. CASE UNCHANGED <<counted, devices, creating, entries>>
  BY <1>0, <1>1 DEF EntriesWithinThreads
<1>2. CASE LoadBackend
  BY <1>0, <1>2 DEF LoadBackend, EntriesWithinThreads, TypeOK
<1>3. CASE AddNewDevice
  <2> DEFINE added == Cardinality(WorkersOf(creating))
  <2>1. Counted(devices \cup {creating}) = Counted(devices) \cup WorkersOf(creating)
    BY DEF WorkersOf
  <2>2. IsFiniteSet(Counted(devices)) /\ IsFiniteSet(WorkersOf(creating))
    BY OnnxAssumption, FS_Subset DEF WorkersOf
  <2>3. Counted(devices) \cap WorkersOf(creating) = {}
    BY <1>0 DEF WorkersOf, EntriesWithinThreads
  <2>4. added \in Nat /\ Cardinality(Counted(devices)) \in Nat
    BY <2>2, FS_CardinalityType
  <2>5. Cardinality(Counted(devices) \cap WorkersOf(creating)) = 0
    BY <2>3, FS_EmptySet
  <2>6. Cardinality(Counted(devices) \cup WorkersOf(creating)) = counted + added
    <3>1. counted = Cardinality(Counted(devices))
      BY <1>0 DEF EntriesWithinThreads
    <3>2. Cardinality(Counted(devices) \cup WorkersOf(creating))
            = Cardinality(Counted(devices)) + added
                - Cardinality(Counted(devices) \cap WorkersOf(creating))
      <4> HIDE DEF Counted
      <4> QED BY <2>2, FS_Union
    <3> HIDE DEF Counted, added
    <3> QED BY <2>4, <2>5, <3>1, <3>2
  <2>7. counted' = Cardinality(Counted(devices'))
    BY <1>3, <2>1, <2>6 DEF AddNewDevice
  <2>8. entries' <= counted'
    BY <1>0, <1>3, <2>4 DEF AddNewDevice, EntriesWithinThreads, TypeOK
  <2>9. creating' \notin devices'
    BY <1>0, <1>3 DEF AddNewDevice, TypeOK
  <2> QED BY <2>7, <2>8, <2>9 DEF EntriesWithinThreads
<1>4. ASSUME NEW dev \in Devices, CreateQueue(dev) PROVE EntriesWithinThreads'
  BY <1>0, <1>4 DEF CreateQueue, EntriesWithinThreads
<1>5. ASSUME NEW w \in Workers, Spawn(w) PROVE EntriesWithinThreads'
  BY <1>1, <1>5 DEF Spawn
<1>6. ASSUME NEW w \in Workers, Worker(w) PROVE EntriesWithinThreads'
  BY <1>1, <1>6 DEF Worker, Start, Take, SetTime, SetActive, BecomeLate, EndRun, Reset, ClearTime,
                    Release, threadVars
<1>7. CASE Cron
  BY <1>1, <1>7 DEF Cron, CronStart, CronCheck, CronSwap, CronTerminate, CronStore, threadVars
<1> QED BY <1>1, <1>2, <1>3, <1>4, <1>5, <1>6, <1>7 DEF Next, Command, vars, threadVars

(* Each thread takes the next number.                                              *)
LEMMA NumbersKept ==
  ASSUME OnnxInv, [Next]_vars
  PROVE  NumbersAreDistinct'
<1>0. TypeOK /\ NumbersAreDistinct
  BY DEF OnnxInv
<1>1. CASE UNCHANGED <<lastId, threadId>>
  BY <1>0, <1>1 DEF NumbersAreDistinct
<1>2. ASSUME NEW w \in Workers, Start(w) PROVE NumbersAreDistinct'
  <2>1. /\ lastId' = lastId + 1
        /\ lastId \in Nat
        /\ \A v \in Workers : /\ threadId[v] \in Nat
                              /\ threadId'[v] = IF v = w THEN lastId + 1 ELSE threadId[v]
    BY <1>0, <1>2 DEF Start, TypeOK
  <2>2. \A v \in Workers : threadId'[v] <= lastId'
    BY <1>0, <2>1 DEF NumbersAreDistinct
  <2>3. \A u, v \in Workers : threadId'[u] = threadId'[v] /\ u # v => threadId'[u] = 0
    BY <1>0, <2>1 DEF NumbersAreDistinct
  <2>4. ASSUME NEW n \in 1..lastId' PROVE \E v \in Workers : threadId'[v] = n
    <3>1. CASE n = lastId + 1
      BY <2>1, <3>1
    <3>2. CASE n # lastId + 1
      <4>1. n \in 1..lastId /\ n # 0
        BY <2>1, <3>2
      <4>2. PICK v \in Workers : threadId[v] = n
        BY <1>0, <4>1 DEF NumbersAreDistinct
      <4>3. v # w
        BY <1>2, <4>1, <4>2 DEF Start
      <4> QED BY <2>1, <4>2, <4>3
    <3> QED BY <3>1, <3>2
  <2> QED BY <2>2, <2>3, <2>4 DEF NumbersAreDistinct
<1>3. CASE Command
  BY <1>1, <1>3 DEF Command, LoadBackend, AddNewDevice, CreateQueue, Spawn
<1>4. ASSUME NEW w \in Workers, Worker(w) PROVE NumbersAreDistinct'
  BY <1>1, <1>2, <1>4 DEF Worker, Take, SetTime, SetActive, BecomeLate, EndRun, Reset, ClearTime,
                         Release, threadVars
<1>5. CASE Cron
  BY <1>1, <1>5 DEF Cron, CronStart, CronCheck, CronSwap, CronTerminate, CronStore, threadVars
<1> QED BY <1>1, <1>3, <1>4, <1>5 DEF Next, vars, threadVars

(* A step of the worker w changes nothing of an entry but the one whose number it    *)
(* has.                                                                              *)
LEMMA OthersKeepTheirEntries ==
  ASSUME OnnxInv, NEW w \in Workers, threadId[w] \in Numbers,
         UNCHANGED <<lastId, threadId>>,
         \A v \in Workers : v # w => pc'[v] = pc[v] /\ runs'[v] = runs[v],
         \A n \in Numbers : n # threadId[w] =>
           /\ runState'[n] = runState[n]
           /\ queuingTime'[n] = queuingTime[n]
           /\ runOptions'[n] = runOptions[n],
         EntryMatchesPlace(w, threadId[w])'
  PROVE  EntriesMatchPlaces'
<1> USE DEF OnnxInv
<1>0. NumbersAreDistinct /\ EntriesMatchPlaces /\ TypeOK
  OBVIOUS
<1>1. threadId[w] # 0 /\ threadId[w] <= lastId /\ threadId[w] \in Nat /\ lastId \in Nat
  BY <1>0, NumbersFact DEF NumbersAreDistinct, TypeOK
<1>2. ASSUME NEW v \in Workers PROVE /\ (InUse(v) => threadId[v] \in Numbers)'
                                     /\ (threadId[v] = 0 => pc[v] = "idle")'
  BY <1>0, <1>1 DEF EntriesMatchPlaces, InUse
<1>3. ASSUME NEW v \in Workers, threadId[v] \in Numbers, v # w
      PROVE  EntryMatchesPlace(v, threadId[v])'
  <2>1. threadId[v] # threadId[w]
    BY <1>0, <1>1, <1>3 DEF NumbersAreDistinct
  <2> QED BY <1>0, <1>3, <2>1 DEF EntriesMatchPlaces, EntryMatchesPlace, InUse, Session
<1>4. ASSUME NEW n \in Numbers, n > lastId
      PROVE  runState'[n] = "AVAILABLE" /\ queuingTime'[n] = NoSession
  <2>1. n # threadId[w]
    BY <1>1, <1>4, NumbersFact
  <2> QED BY <1>0, <1>4, <2>1 DEF EntriesMatchPlaces
<1> QED BY <1>2, <1>3, <1>4 DEF EntriesMatchPlaces, EntryMatchesPlace, Numbers

(* A worker resets its entry between its runs and the cron only changes the entry of   *)
(* a worker that runs.                                                                 *)
LEMMA EntriesMatchPlacesKept ==
  ASSUME OnnxInv, [Next]_vars
  PROVE  EntriesMatchPlaces'
<1>0. TypeOK /\ NumbersAreDistinct /\ EntriesMatchPlaces /\ CronAtEntry /\ EntriesWithinThreads
  BY DEF OnnxInv
<1>1. CASE UNCHANGED <<lastId, threadId, entryVars, pc, runs>>
  BY <1>0, <1>1 DEF EntriesMatchPlaces, EntryMatchesPlace, InUse, Session, entryVars
<1>2. CASE Command
  BY <1>1, <1>2 DEF Command, LoadBackend, AddNewDevice, CreateQueue, Spawn
<1>3. ASSUME NEW w \in Workers, Worker(w) PROVE EntriesMatchPlaces'
  <2> DEFINE n == threadId[w]
  <2>1. CASE Start(w)
    <3>1. /\ lastId \in Nat /\ lastId' = lastId + 1
          /\ threadId[w] = 0
          /\ \A v \in Workers : threadId'[v] = IF v = w THEN lastId + 1 ELSE threadId[v]
          /\ UNCHANGED <<entryVars, pc, runs>>
      BY <1>0, <2>1 DEF Start, TypeOK
    <3>2. pc[w] = "idle"
      BY <1>0, <3>1 DEF EntriesMatchPlaces
    <3>3. lastId + 1 \in Numbers =>
            runState[lastId + 1] = "AVAILABLE" /\ queuingTime[lastId + 1] = NoSession
      BY <1>0, <3>1 DEF EntriesMatchPlaces
    <3>4. \A v \in Workers : InUse(v)' => threadId'[v] \in Numbers
      BY <1>0, <3>1, <3>2 DEF EntriesMatchPlaces, InUse
    <3>5. ASSUME NEW v \in Workers, threadId'[v] \in Numbers
          PROVE  EntryMatchesPlace(v, threadId[v])'
      <4>1. CASE v = w
        BY <3>1, <3>2, <3>3, <3>5, <4>1 DEF EntryMatchesPlace, InUse, entryVars
      <4>2. CASE v # w
        BY <1>0, <3>1, <3>5, <4>2
           DEF EntriesMatchPlaces, EntryMatchesPlace, InUse, Session, entryVars
      <4> QED BY <4>1, <4>2
    <3>6. \A v \in Workers : threadId'[v] = 0 => pc'[v] = "idle"
      BY <1>0, <3>1, <3>2 DEF EntriesMatchPlaces
    <3>7. ASSUME NEW k \in Numbers, k > lastId'
          PROVE  runState'[k] = "AVAILABLE" /\ queuingTime'[k] = NoSession
      <4>1. k > lastId
        BY <3>1, <3>7, NumbersFact
      <4> QED BY <1>0, <3>1, <4>1 DEF EntriesMatchPlaces, entryVars
    <3> QED BY <3>4, <3>5, <3>6, <3>7 DEF EntriesMatchPlaces, Numbers
  <2>2. CASE Take(w)
    <3>1. CASE threadId[w] <= entries
      <4>1. n \in Numbers
        BY <1>0, <2>2, <3>1, EntriesBound DEF Take, TypeOK
      <4>2. EntryMatchesPlace(w, n)'
        BY <1>0, <2>2, <3>1, <4>1
           DEF Take, TypeOK, EntriesMatchPlaces, EntryMatchesPlace, Session, threadVars
      <4> QED BY <1>0, <2>2, <3>1, <4>1, <4>2, OthersKeepTheirEntries DEF Take, TypeOK, threadVars
    <3>2. CASE ~(threadId[w] <= entries)
      <4>1. /\ UNCHANGED <<lastId, threadId, entryVars, runs>>
            /\ pc[w] = "idle" /\ threadId[w] # 0
            /\ pc' = [pc EXCEPT ![w] = "outside"]
        BY <2>2, <3>2 DEF Take, threadVars, entryVars
      <4>2. \A v \in Workers : pc'[v] = IF v = w THEN "outside" ELSE pc[v]
        BY <1>0, <4>1 DEF TypeOK
      <4> QED BY <1>0, <4>1, <4>2
              DEF EntriesMatchPlaces, EntryMatchesPlace, InUse, Session, entryVars
    <3> QED BY <3>1, <3>2
  <2>3. CASE SetTime(w)
    <3>1. n \in Numbers
      BY <1>0, <2>3 DEF SetTime, EntriesMatchPlaces, InUse
    <3>2. EntryMatchesPlace(w, n)'
      BY <1>0, <2>3, <3>1
         DEF SetTime, TypeOK, EntriesMatchPlaces, EntryMatchesPlace, InUse, Session, threadVars
    <3> QED BY <1>0, <2>3, <3>1, <3>2, OthersKeepTheirEntries DEF SetTime, TypeOK, threadVars
  <2>4. CASE SetActive(w)
    <3>1. n \in Numbers
      BY <1>0, <2>4 DEF SetActive, EntriesMatchPlaces, InUse
    <3>2. EntryMatchesPlace(w, n)'
      BY <1>0, <2>4, <3>1
         DEF SetActive, TypeOK, EntriesMatchPlaces, EntryMatchesPlace, InUse, Session, threadVars
    <3> QED BY <1>0, <2>4, <3>1, <3>2, OthersKeepTheirEntries DEF SetActive, TypeOK, threadVars
  <2>5. CASE BecomeLate(w)
    BY <1>1, <2>5 DEF BecomeLate, threadVars
  <2>6. CASE EndRun(w)
    <3>1. n \in Numbers
      BY <1>0, <2>6 DEF EndRun, EntriesMatchPlaces, InUse
    <3>2. EntryMatchesPlace(w, n)'
      BY <1>0, <2>6, <3>1
         DEF EndRun, TypeOK, EntriesMatchPlaces, EntryMatchesPlace, InUse, Session, threadVars,
             entryVars
    <3> QED BY <1>0, <2>6, <3>1, <3>2, OthersKeepTheirEntries
            DEF EndRun, TypeOK, threadVars, entryVars
  <2>7. CASE Reset(w)
    <3>1. n \in Numbers
      BY <1>0, <2>7 DEF Reset, EntriesMatchPlaces, InUse
    <3>2. EntryMatchesPlace(w, n)'
      BY <1>0, <2>7, <3>1
         DEF Reset, TypeOK, EntriesMatchPlaces, EntryMatchesPlace, InUse, Session, threadVars
    <3> QED BY <1>0, <2>7, <3>1, <3>2, OthersKeepTheirEntries DEF Reset, TypeOK, threadVars
  <2>8. CASE ClearTime(w)
    <3>1. n \in Numbers
      BY <1>0, <2>8 DEF ClearTime, EntriesMatchPlaces, InUse
    <3>2. EntryMatchesPlace(w, n)'
      BY <1>0, <2>8, <3>1
         DEF ClearTime, TypeOK, EntriesMatchPlaces, EntryMatchesPlace, InUse, Session, threadVars
    <3> QED BY <1>0, <2>8, <3>1, <3>2, OthersKeepTheirEntries DEF ClearTime, TypeOK, threadVars
  <2>9. CASE Release(w)
    <3>1. n \in Numbers
      BY <1>0, <2>9 DEF Release, EntriesMatchPlaces, InUse
    <3>2. EntryMatchesPlace(w, n)'
      BY <1>0, <2>9, <3>1
         DEF Release, TypeOK, EntriesMatchPlaces, EntryMatchesPlace, InUse, Session, threadVars,
             entryVars
    <3> QED BY <1>0, <2>9, <3>1, <3>2, OthersKeepTheirEntries
            DEF Release, TypeOK, threadVars, entryVars
  <2> QED BY <1>3, <2>1, <2>2, <2>3, <2>4, <2>5, <2>6, <2>7, <2>8, <2>9 DEF Worker
<1>4. CASE (CronSwap /\ Terminable(runState[cronAt])) \/ CronStore
  <2>1. cronAt \in Numbers /\ runState[cronAt] # "AVAILABLE"
    BY <1>0, <1>4 DEF CronSwap, CronStore, Terminable, CronAtEntry, TypeOK
  <2>2. cronAt \in 1..lastId
    BY <1>0, <2>1, NumbersFact DEF EntriesMatchPlaces, TypeOK
  <2>3. PICK w \in Workers : threadId[w] = cronAt
    BY <1>0, <2>2 DEF NumbersAreDistinct
  <2>4. /\ UNCHANGED <<lastId, threadId, queuingTime, runOptions, pc, runs>>
        /\ runState' \in {[runState EXCEPT ![cronAt] = "INVALID"],
                          [runState EXCEPT ![cronAt] = "TERMINATED"]}
    BY <1>4 DEF CronSwap, CronStore, threadVars
  <2>5. EntryMatchesPlace(w, threadId[w])'
    BY <1>0, <2>1, <2>3, <2>4
       DEF TypeOK, EntriesMatchPlaces, EntryMatchesPlace, InUse, Session
  <2> QED BY <1>0, <2>1, <2>3, <2>4, <2>5, OthersKeepTheirEntries DEF TypeOK
<1>5. CASE Cron /\ ~((CronSwap /\ Terminable(runState[cronAt])) \/ CronStore)
  BY <1>1, <1>5 DEF Cron, CronStart, CronCheck, CronSwap, CronTerminate, threadVars, entryVars
<1> QED BY <1>1, <1>2, <1>3, <1>4, <1>5 DEF Next, vars, threadVars

(* An entry is INVALID only while the cron is between its two stores to it, and the    *)
(* cron stays within the array, which is not extended meanwhile.                        *)
LEMMA CronAtEntryKept ==
  ASSUME OnnxInv, [Next]_vars
  PROVE  CronAtEntry'
<1>0. TypeOK /\ CronAtEntry /\ EntriesWithinThreads
  BY DEF OnnxInv
<1>1. CASE UNCHANGED <<runState, cronVars, entries, creating>>
  BY <1>0, <1>1 DEF CronAtEntry, cronVars
<1>2. CASE Command
  BY <1>0, <1>2 DEF Command, LoadBackend, AddNewDevice, CreateQueue, Spawn, MainFree, CronAtEntry,
                    entryVars, cronVars, TypeOK
<1>3. ASSUME NEW w \in Workers, Worker(w) PROVE CronAtEntry'
  <2>1. CASE Start(w) \/ Take(w) \/ SetTime(w) \/ BecomeLate(w) \/ EndRun(w) \/ ClearTime(w)
             \/ Release(w)
    BY <1>1, <2>1 DEF Start, Take, SetTime, BecomeLate, EndRun, ClearTime, Release, threadVars,
                      entryVars
  <2>2. CASE SetActive(w) \/ Reset(w)
    <3> DEFINE n == threadId[w]
    <3>1. runState[n] # "INVALID" /\ n \in Numbers
      BY <1>0, <2>2 DEF SetActive, Reset, Resettable, OnnxInv, EntriesMatchPlaces,
                        EntryMatchesPlace, InUse
    <3>2. /\ \A k \in Numbers : k # n => runState'[k] = runState[k]
          /\ runState'[n] # "INVALID"
          /\ UNCHANGED <<cronVars, entries, creating>>
      BY <1>0, <2>2, <3>1 DEF SetActive, Reset, TypeOK, threadVars
    <3> QED BY <1>0, <3>1, <3>2 DEF CronAtEntry, cronVars, Numbers
  <2> QED BY <1>3, <2>1, <2>2 DEF Worker
<1>4. CASE Cron
  <2>1. CASE CronStart
    BY <1>0, <2>1 DEF CronStart, MainFree, CronAtEntry, TypeOK, threadVars, entryVars
  <2>2. CASE CronCheck
    <3>1. CASE Expired(cronAt)
      BY <1>0, <2>2, <3>1 DEF CronCheck, CronAtEntry, threadVars, entryVars
    <3>2. CASE ~Expired(cronAt)
      BY <1>0, <2>2, <3>2, AdvanceTypes DEF CronCheck, CronAtEntry, threadVars, entryVars
    <3> QED BY <3>1, <3>2
  <2>3. CASE CronSwap
    <3>1. CASE Terminable(runState[cronAt])
      <4>1. /\ cronAt \in Numbers /\ cronAt' = cronAt /\ cronPc' = "terminate"
            /\ \A k \in Numbers : runState'[k] = IF k = cronAt THEN "INVALID" ELSE runState[k]
            /\ UNCHANGED <<entries, creating>>
            /\ cronPc = "swap"
        BY <1>0, <2>3, <3>1 DEF CronSwap, TypeOK, threadVars
      <4> QED BY <1>0, <4>1 DEF CronAtEntry, Numbers
    <3>2. CASE ~Terminable(runState[cronAt])
      BY <1>0, <2>3, <3>2, AdvanceTypes DEF CronSwap, CronAtEntry, threadVars
    <3> QED BY <3>1, <3>2
  <2>4. CASE CronTerminate
    BY <1>0, <2>4 DEF CronTerminate, CronAtEntry, threadVars, entryVars
  <2>5. CASE CronStore
    <3>1. /\ cronAt \in Numbers /\ cronPc = "store"
          /\ \A k \in Numbers : runState'[k] = IF k = cronAt THEN "TERMINATED" ELSE runState[k]
          /\ UNCHANGED <<entries, creating>>
          /\ Advance
      BY <1>0, <2>5 DEF CronStore, TypeOK, threadVars
    <3>2. cronPc' \in {"idle", "check"} /\ (cronPc' = "idle" => cronAt' = 1)
          /\ (cronPc' # "idle" => cronAt' <= entries)
      BY <1>0, <3>1, AdvanceTypes
    <3> QED BY <1>0, <3>1, <3>2 DEF CronAtEntry, Numbers
  <2> QED BY <1>4, <2>1, <2>2, <2>3, <2>4, <2>5 DEF Cron
<1> QED BY <1>1, <1>2, <1>3, <1>4 DEF Next, vars, entryVars, threadVars

(* The cron swaps the state of an entry only when its worker had a late session.        *)
LEMMA LateKnownKept ==
  ASSUME OnnxInv, [Next]_vars
  PROVE  LateKnown'
<1>0. TypeOK /\ LateKnown /\ CronAtEntry /\ EntriesWithinThreads
  BY DEF OnnxInv
<1> DEFINE Known == \E w \in Workers : threadId[w] = cronAt /\ \E k \in 0..runs[w] : <<w, k>> \in late
<1>1. CASE UNCHANGED <<threadId, runs, late, cronVars>>
  BY <1>0, <1>1 DEF LateKnown, cronVars
<1>2. CASE Command
  BY <1>1, <1>2 DEF Command, LoadBackend, AddNewDevice, CreateQueue, Spawn
<1>3. ASSUME NEW w \in Workers, Worker(w) PROVE LateKnown'
  <2>1. CASE Take(w) \/ SetTime(w) \/ SetActive(w) \/ EndRun(w) \/ Reset(w) \/ ClearTime(w)
    BY <1>1, <2>1 DEF Take, SetTime, SetActive, EndRun, Reset, ClearTime, threadVars
  <2>2. CASE Start(w) \/ BecomeLate(w) \/ Release(w)
    <3>1. /\ UNCHANGED cronVars
          /\ late \subseteq late'
          /\ \A v \in Workers : threadId[v] # 0 => threadId'[v] = threadId[v]
          /\ \A v \in Workers : runs[v] \in Nat /\ runs'[v] \in Nat /\ runs[v] <= runs'[v]
      BY <1>0, <2>2 DEF Start, BecomeLate, Release, TypeOK, threadVars
    <3>2. cronAt \in Nat \ {0}
      BY <1>0, NumbersFact DEF TypeOK
    <3>3. ASSUME cronPc \in {"swap", "terminate"}
          PROVE \E v \in Workers : threadId'[v] = cronAt /\ \E k \in 0..runs'[v] : <<v, k>> \in late'
      <4>1. PICK v \in Workers : threadId[v] = cronAt /\ \E k \in 0..runs[v] : <<v, k>> \in late
        BY <1>0, <3>3 DEF LateKnown
      <4>2. PICK k \in 0..runs[v] : <<v, k>> \in late
        BY <4>1
      <4>3. k \in 0..runs'[v]
        BY <3>1, <4>2
      <4> QED BY <3>1, <3>2, <4>1, <4>2, <4>3
    <3> QED BY <1>0, <3>1, <3>3 DEF LateKnown, cronVars
  <2> QED BY <1>3, <2>1, <2>2 DEF Worker
<1>4. CASE CronCheck /\ Expired(cronAt)
  <2>1. cronAt \in Numbers /\ queuingTime[cronAt] \in cronLate /\ queuingTime[cronAt] # NoSession
    BY <1>0, <1>4, OnnxAssumption DEF CronCheck, Expired, TypeOK, Sessions
  <2>2. cronAt \in 1..lastId
    BY <1>0, <2>1, NumbersFact DEF OnnxInv, EntriesMatchPlaces, TypeOK
  <2>3. PICK w \in Workers : threadId[w] = cronAt
    BY <2>2 DEF OnnxInv, NumbersAreDistinct
  <2>4. Session(w) \in late
    BY <1>0, <2>1, <2>3 DEF OnnxInv, EntriesMatchPlaces, EntryMatchesPlace, LateKnown
  <2>5. runs[w] \in 0..runs[w]
    BY <1>0 DEF TypeOK
  <2> QED BY <1>0, <1>4, <2>3, <2>4, <2>5 DEF CronCheck, LateKnown, Session, threadVars
<1>5. CASE CronSwap /\ Terminable(runState[cronAt])
  BY <1>0, <1>5 DEF CronSwap, LateKnown, threadVars
<1>6. CASE CronStart
  BY <1>0, <1>6 DEF CronStart, LateKnown, threadVars
<1>7. CASE CronTerminate
  BY <1>0, <1>7 DEF CronTerminate, LateKnown, threadVars
<1>8. CASE \/ CronCheck /\ ~Expired(cronAt)
           \/ CronSwap /\ ~Terminable(runState[cronAt])
           \/ CronStore
  <2>1. Advance /\ cronPc # "idle" /\ UNCHANGED late
    BY <1>8 DEF CronCheck, CronSwap, CronStore
  <2> QED BY <1>0, <2>1, AdvanceTypes DEF LateKnown
<1> QED BY <1>1, <1>2, <1>3, <1>4, <1>5, <1>6, <1>7, <1>8 DEF Next, Cron, vars, threadVars

(* A session that the cron terminates is late, or comes after a late one of its worker.  *)
LEMMA LateInItsEntryKept ==
  ASSUME OnnxInv, [Next]_vars
  PROVE  LateInItsEntry'
<1>0. TypeOK /\ LateInItsEntry /\ CronAtEntry /\ LateKnown
  BY DEF OnnxInv
<1>1. CASE UNCHANGED <<late, terminated>>
  BY <1>0, <1>1 DEF LateInItsEntry
<1>2. CASE Command
  BY <1>1, <1>2 DEF Command, LoadBackend, AddNewDevice, CreateQueue, Spawn
<1>3. ASSUME NEW w \in Workers, Worker(w) PROVE LateInItsEntry'
  <2>1. CASE BecomeLate(w)
    BY <1>0, <2>1 DEF LateInItsEntry, BecomeLate
  <2> QED BY <1>1, <1>3, <2>1 DEF Worker, Start, Take, SetTime, SetActive, EndRun, Reset, ClearTime,
                                Release
<1>4. CASE CronTerminate
  <2>1. runState[cronAt] = "INVALID" /\ cronAt \in Numbers
    BY <1>0, <1>4 DEF CronTerminate, CronAtEntry, TypeOK
  <2>2. PICK w \in Workers : threadId[w] = cronAt /\ \E k \in 0..runs[w] : <<w, k>> \in late
    BY <1>0, <1>4 DEF CronTerminate, LateKnown
  <2>3. PICK k \in 0..runs[w] : <<w, k>> \in late
    BY <2>2
  <2>4. runOptions[cronAt] = <<w, runs[w]>>
    BY <2>1, <2>2 DEF OnnxInv, EntriesMatchPlaces, EntryMatchesPlace, InUse, Session
  <2>5. k <= runs[w]
    BY <1>0, <2>3 DEF TypeOK
  <2>6. ASSUME NEW s \in terminated' PROVE \E r \in late' : r[1] = s[1] /\ r[2] <= s[2]
    <3>1. CASE s \in terminated
      BY <1>0, <1>4, <3>1 DEF LateInItsEntry, CronTerminate
    <3>2. CASE s = <<w, runs[w]>>
      BY <1>4, <2>5, <2>3, <3>2 DEF CronTerminate
    <3> QED BY <1>4, <2>4, <2>6, <3>1, <3>2 DEF CronTerminate
  <2> QED BY <2>6 DEF LateInItsEntry
<1>5. CASE Cron /\ ~CronTerminate
  BY <1>1, <1>5 DEF Cron, CronStart, CronCheck, CronSwap, CronStore
<1> QED BY <1>1, <1>2, <1>3, <1>4, <1>5 DEF Next, vars

(* The invariant that ties the entries to the workers and the cron.                       *)
THEOREM OnnxInvariant == Spec => []OnnxInv
<1>1. Init => OnnxInv
  <2> SUFFICES ASSUME Init PROVE OnnxInv
    OBVIOUS
  <2> USE NumbersFact, OnnxAssumption
  <2>1. TypeOK
    BY DEF Init, TypeOK, States, Sessions
  <2>2. EntriesWithinThreads
    <3>1. {w \in Workers : DeviceOf[w] \in {}} = {}
      OBVIOUS
    <3>2. Cardinality({w \in Workers : DeviceOf[w] \in {}}) = 0
      BY <3>1, FS_EmptySet
    <3> QED BY <3>2 DEF Init, EntriesWithinThreads
  <2>3. NumbersAreDistinct
    BY DEF Init, NumbersAreDistinct
  <2>4. EntriesMatchPlaces
    BY DEF Init, EntriesMatchPlaces, EntryMatchesPlace, InUse
  <2>5. CronAtEntry /\ LateKnown /\ LateInItsEntry
    BY DEF Init, CronAtEntry, LateKnown, LateInItsEntry
  <2> QED BY <2>1, <2>2, <2>3, <2>4, <2>5 DEF OnnxInv
<1>2. OnnxInv /\ [Next]_vars => OnnxInv'
  BY TypesKept, EntriesWithinThreadsKept, NumbersKept, EntriesMatchPlacesKept, CronAtEntryKept,
     LateKnownKept, LateInItsEntryKept DEF OnnxInv
<1> QED BY <1>1, <1>2, PTL DEF Spec

(* Types.                                                                                  *)
THEOREM OnnxTypes == Spec => []TypeOK
<1>1. OnnxInv => TypeOK
  BY DEF OnnxInv
<1> QED BY <1>1, OnnxInvariant, PTL

(* The cron never touches the options of a session that was released.                      *)
THEOREM OnnxTerminatesLive == Spec => []TerminatesLiveSession
<1>1. OnnxInv => TerminatesLiveSession
  <2> SUFFICES ASSUME OnnxInv, cronPc = "terminate"
               PROVE  \E w \in Workers : /\ Owns(w, cronAt)
                                         /\ pc[w] \in {"run", "swap"}
                                         /\ runOptions[cronAt] = Session(w)
    BY DEF TerminatesLiveSession
  <2>1. runState[cronAt] = "INVALID" /\ cronAt \in Numbers
    BY DEF OnnxInv, CronAtEntry, TypeOK
  <2>2. cronAt \in 1..lastId /\ cronAt # 0
    BY <2>1, NumbersFact DEF OnnxInv, EntriesMatchPlaces, TypeOK
  <2>3. PICK w \in Workers : threadId[w] = cronAt
    BY <2>2 DEF OnnxInv, NumbersAreDistinct
  <2>4. pc[w] \in {"run", "swap"} /\ runOptions[cronAt] = Session(w)
    BY <2>1, <2>3 DEF OnnxInv, EntriesMatchPlaces, EntryMatchesPlace, InUse
  <2> QED BY <2>2, <2>3, <2>4 DEF Owns
<1> QED BY <1>1, OnnxInvariant, PTL

(* A worker finds its entry available: the assertions of RAI_ActivateRunSessionCtxORT.      *)
THEOREM OnnxEntryIsFree == Spec => []EntryIsFree
<1>1. OnnxInv => EntryIsFree
  BY DEF OnnxInv, EntryIsFree, EntriesMatchPlaces, EntryMatchesPlace
<1> QED BY <1>1, OnnxInvariant, PTL

(* A terminated session is late or follows a late one of its worker.                         *)
THEOREM OnnxLateInItsEntry == Spec => []LateInItsEntry
<1>1. OnnxInv => LateInItsEntry
  BY DEF OnnxInv
<1> QED BY <1>1, OnnxInvariant, PTL
=============================================================================
