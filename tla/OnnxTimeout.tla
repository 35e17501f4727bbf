----------------------------- MODULE OnnxTimeout -----------------------------
(***************************************************************************)
(* The timeout of ONNX runs in RedisAI (backends/onnx_timeout.c).            *)
(*                                                                         *)
(* Each worker thread takes a number when it starts, and with it an entry    *)
(* of the array OnnxRunSessions.  Around each run of a model it stores the   *)
(* run options of the session and the time in its entry and sets its state   *)
(* to ACTIVE, and resets it afterwards.  The cron of the main thread walks   *)
(* over the entries and terminates the sessions that run for too long.  No   *)
(* lock excludes the two: they synchronise by compare-and-swap on the state. *)
(* The main thread extends the array when a command names a new device.      *)
(*                                                                         *)
(* A session is the pair of its worker and how many runs of it came before;  *)
(* it stands for its OrtRunOptions.  Time is what has become late.  The      *)
(* stores are seen in the order in which they are made.                      *)
(***************************************************************************)
EXTENDS Naturals, FiniteSets

CONSTANTS
  Workers,     \* worker threads
  Devices,     \* devices
  DeviceOf,    \* DeviceOf[w]: the device whose queue w serves
  NoDevice,
  NoSession,
  MaxRuns      \* bound: the runs of a worker

ASSUME OnnxAssumption ==
  /\ Workers # {} /\ IsFiniteSet(Workers)
  /\ DeviceOf \in [Workers -> Devices]
  /\ NoDevice \notin Devices
  /\ MaxRuns \in Nat
  /\ NoSession \notin Workers \X Nat

VARIABLES
  \* the worker threads and the array
  lastId,      \* LastThreadId
  threadId,    \* the number of each worker, 0 before it starts
  spawned,     \* the workers created by pthread_create
  counted,     \* BGWorkersCount
  devices,     \* the devices whose run queue is complete
  creating,    \* the device for which RunQueue_Create runs
  loaded,      \* whether the ONNX backend is loaded
  entries,     \* the length of OnnxRunSessions
  \* an entry, by its number
  runState,    \* runState
  queuingTime, \* queuingTime, as the session whose time it is, or NoSession (LLONG_MAX)
  runOptions,  \* runOptions
  \* a worker
  pc,          \* "idle", "time", "activate", "run", "swap", "clear", "release", "outside"
  runs,        \* how many runs it has ended
  \* sessions
  late,        \* those that have run for longer than MODEL_EXECUTION_TIMEOUT
  terminated,  \* those on which RunOptionsSetTerminate was called
  \* the cron
  cronPc,      \* "idle", "check", "swap", "terminate", "store"
  cronAt,      \* the entry it looks at
  cronLate     \* the sessions that are late at curr_time

threadVars == <<lastId, threadId, spawned, counted, devices, creating, loaded, entries>>
entryVars == <<runState, queuingTime, runOptions>>
cronVars == <<cronPc, cronAt, cronLate>>
vars == <<threadVars, entryVars, pc, runs, late, terminated, cronVars>>

Numbers == 1..Cardinality(Workers)
WorkersOf(dev) == {w \in Workers : DeviceOf[w] = dev}
Session(w) == <<w, runs[w]>>

Init ==
  /\ lastId = 0
  /\ threadId = [w \in Workers |-> 0]
  /\ spawned = {}
  /\ counted = 0
  /\ devices = {}
  /\ creating = NoDevice
  /\ loaded = FALSE
  /\ entries = 0
  /\ runState = [n \in Numbers |-> "AVAILABLE"]
  /\ queuingTime = [n \in Numbers |-> NoSession]
  /\ runOptions = [n \in Numbers |-> NoSession]
  /\ pc = [w \in Workers |-> "idle"]
  /\ runs = [w \in Workers |-> 0]
  /\ late = {}
  /\ terminated = {}
  /\ cronPc = "idle"
  /\ cronAt = 1
  /\ cronLate = {}

-----------------------------------------------------------------------------
(* The main thread between two turns of the cron: commands.                   *)

MainFree == creating = NoDevice /\ cronPc = "idle"

(* RAI_InitGlobalRunSessionsORT: an entry for each thread counted so far.      *)
LoadBackend ==
  /\ MainFree
  /\ ~loaded
  /\ loaded' = TRUE
  /\ entries' = counted
  /\ UNCHANGED <<lastId, threadId, spawned, counted, devices, creating, entryVars, pc, runs,
                 late, terminated, cronVars>>

(* RunQueue_Create: the threads are created one by one, then counted, and the  *)
(* array is extended under its write lock when the backend is loaded.          *)
CreateQueue(dev) ==
  /\ MainFree
  /\ dev \notin devices
  /\ creating' = dev
  /\ UNCHANGED <<lastId, threadId, spawned, counted, devices, loaded, entries, entryVars, pc,
                 runs, late, terminated, cronVars>>

Spawn(w) ==
  /\ creating = DeviceOf[w]
  /\ w \notin spawned
  /\ spawned' = spawned \cup {w}
  /\ UNCHANGED <<lastId, threadId, counted, devices, creating, loaded, entries, entryVars, pc,
                 runs, late, terminated, cronVars>>

(* The workers that hold the read lock; one that spins for the cron does too, but *)
(* the cron and the writer are one thread.                                      *)
ReadLocked == \E w \in Workers : pc[w] \in {"time", "activate", "clear", "release"}

AddNewDevice ==
  LET added == Cardinality(WorkersOf(creating))
  IN  /\ creating # NoDevice
      /\ WorkersOf(creating) \subseteq spawned
      /\ loaded => ~ReadLocked
      /\ counted' = counted + added
      /\ entries' = IF loaded THEN entries + added ELSE entries
      /\ devices' = devices \cup {creating}
      /\ creating' = NoDevice
      /\ UNCHANGED <<lastId, threadId, spawned, loaded, entryVars, pc, runs, late, terminated,
                     cronVars>>

(* _BGWorker_SaveThreadId: a thread takes its number when it runs for the      *)
(* first time.                                                                 *)
Start(w) ==
  /\ w \in spawned
  /\ threadId[w] = 0
  /\ lastId' = lastId + 1
  /\ threadId' = [threadId EXCEPT ![w] = lastId + 1]
  /\ UNCHANGED <<spawned, counted, devices, creating, loaded, entries, entryVars, pc, runs,
                 late, terminated, cronVars>>

-----------------------------------------------------------------------------
(* A worker runs an ONNX model: RAI_ModelRunORT.                                *)

(* RAI_ActivateRunSessionCtxORT, under the read lock; an entry past the end of   *)
(* the array is memory of something else, and nothing is said of what follows.   *)
Take(w) ==
  /\ pc[w] = "idle"
  /\ threadId[w] # 0
  /\ loaded
  /\ DeviceOf[w] \in devices
  /\ runs[w] < MaxRuns
  /\ IF threadId[w] <= entries
     THEN /\ pc' = [pc EXCEPT ![w] = "time"]
          /\ runOptions' = [runOptions EXCEPT ![threadId[w]] = Session(w)]
     ELSE /\ pc' = [pc EXCEPT ![w] = "outside"]
          /\ UNCHANGED runOptions
  /\ UNCHANGED <<threadVars, runState, queuingTime, runs, late, terminated, cronVars>>

SetTime(w) ==
  /\ pc[w] = "time"
  /\ queuingTime' = [queuingTime EXCEPT ![threadId[w]] = Session(w)]
  /\ pc' = [pc EXCEPT ![w] = "activate"]
  /\ UNCHANGED <<threadVars, runState, runOptions, runs, late, terminated, cronVars>>

SetActive(w) ==
  /\ pc[w] = "activate"
  /\ runState' = [runState EXCEPT ![threadId[w]] = "ACTIVE"]
  /\ pc' = [pc EXCEPT ![w] = "run"]
  /\ UNCHANGED <<threadVars, queuingTime, runOptions, runs, late, terminated, cronVars>>

(* Time passes for the session whose time is in the entry.                       *)
BecomeLate(w) ==
  /\ pc[w] \in {"activate", "run", "swap", "clear"}
  /\ Session(w) \notin late
  /\ late' = late \cup {Session(w)}
  /\ UNCHANGED <<threadVars, entryVars, pc, runs, terminated, cronVars>>

(* Run returns, with a result, an error, or because it was terminated.           *)
EndRun(w) ==
  /\ pc[w] = "run"
  /\ pc' = [pc EXCEPT ![w] = "swap"]
  /\ UNCHANGED <<threadVars, entryVars, runs, late, terminated, cronVars>>

(* Mutant of Reset: the worker does not wait for the cron to be done with it.     *)
ResetAnyway(state) == TRUE

(* The compare-and-swaps of RAI_ResetRunSessionCtxORT succeed: the worker spins    *)
(* while the cron terminates its session.                                         *)
Resettable(state) == state \in {"ACTIVE", "TERMINATED"}

Reset(w) ==
  /\ pc[w] = "swap"
  /\ Resettable(runState[threadId[w]])
  /\ runState' = [runState EXCEPT ![threadId[w]] = "AVAILABLE"]
  /\ pc' = [pc EXCEPT ![w] = "clear"]
  /\ UNCHANGED <<threadVars, queuingTime, runOptions, runs, late, terminated, cronVars>>

ClearTime(w) ==
  /\ pc[w] = "clear"
  /\ queuingTime' = [queuingTime EXCEPT ![threadId[w]] = NoSession]
  /\ pc' = [pc EXCEPT ![w] = "release"]
  /\ UNCHANGED <<threadVars, runState, runOptions, runs, late, terminated, cronVars>>

(* ReleaseRunOptions: the session is over.                                        *)
Release(w) ==
  /\ pc[w] = "release"
  /\ runs' = [runs EXCEPT ![w] = @ + 1]
  /\ pc' = [pc EXCEPT ![w] = "idle"]
  /\ UNCHANGED <<threadVars, entryVars, late, terminated, cronVars>>

-----------------------------------------------------------------------------
(* The cron, RAI_EnforceTimeoutORT.                                               *)

(* Mutants of LastEntry: the walk stops one entry early, or one too late.          *)
LastEntrySkipped(n) == n + 1 >= entries
LastEntryPassed(n) == n > entries

LastEntry(n) == n = entries

Advance ==
  IF LastEntry(cronAt)
  THEN cronPc' = "idle" /\ cronAt' = 1 /\ cronLate' = {}
  ELSE cronPc' = "check" /\ cronAt' = cronAt + 1 /\ UNCHANGED cronLate

CronStart ==
  /\ MainFree
  /\ loaded
  /\ entries > 0
  /\ cronPc' = "check"
  /\ cronLate' = late
  /\ UNCHANGED <<threadVars, entryVars, pc, runs, late, terminated, cronAt>>

(* Mutant of Expired: every entry with a time in it is expired.                   *)
Occupied(n) == queuingTime[n] # NoSession

Expired(n) == queuingTime[n] \in cronLate

CronCheck ==
  /\ cronPc = "check"
  /\ IF Expired(cronAt) THEN cronPc' = "swap" /\ UNCHANGED <<cronAt, cronLate>> ELSE Advance
  /\ UNCHANGED <<threadVars, entryVars, pc, runs, late, terminated>>

(* Mutant of Terminable: the state is stored without being compared.              *)
TerminableAnyway(state) == TRUE

Terminable(state) == state = "ACTIVE"

CronSwap ==
  /\ cronPc = "swap"
  /\ IF Terminable(runState[cronAt])
     THEN /\ runState' = [runState EXCEPT ![cronAt] = "INVALID"]
          /\ cronPc' = "terminate"
          /\ UNCHANGED <<cronAt, cronLate>>
     ELSE Advance /\ UNCHANGED runState
  /\ UNCHANGED <<threadVars, queuingTime, runOptions, pc, runs, late, terminated>>

CronTerminate ==
  /\ cronPc = "terminate"
  /\ terminated' = terminated \cup {runOptions[cronAt]}
  /\ cronPc' = "store"
  /\ UNCHANGED <<threadVars, entryVars, pc, runs, late, cronAt, cronLate>>

CronStore ==
  /\ cronPc = "store"
  /\ runState' = [runState EXCEPT ![cronAt] = "TERMINATED"]
  /\ Advance
  /\ UNCHANGED <<threadVars, queuingTime, runOptions, pc, runs, late, terminated>>

-----------------------------------------------------------------------------
Command ==
  \/ LoadBackend \/ AddNewDevice
  \/ \E dev \in Devices : CreateQueue(dev)
  \/ \E w \in Workers : Spawn(w)

Worker(w) ==
  \/ Start(w) \/ Take(w) \/ SetTime(w) \/ SetActive(w) \/ BecomeLate(w)
  \/ EndRun(w) \/ Reset(w) \/ ClearTime(w) \/ Release(w)

Cron == CronStart \/ CronCheck \/ CronSwap \/ CronTerminate \/ CronStore

Next == Command \/ (\E w \in Workers : Worker(w)) \/ Cron

(* The main thread runs its cron and ends its commands, threads start, time        *)
(* passes, and a worker goes on, but for Run, which is only sure to return when    *)
(* it is terminated.                                                               *)
Fairness ==
  /\ WF_vars(Cron) /\ WF_vars(AddNewDevice)
  /\ \A w \in Workers :
       /\ WF_vars(Spawn(w)) /\ WF_vars(BecomeLate(w))
       /\ WF_vars(SetTime(w) \/ SetActive(w) \/ ClearTime(w) \/ Release(w))
       /\ WF_vars(Reset(w))
       /\ WF_vars(EndRun(w) /\ Session(w) \in terminated)

Spec == Init /\ [][Next]_vars
FairSpec == Spec /\ Fairness

-----------------------------------------------------------------------------
(* Properties.                                                                     *)

States == {"AVAILABLE", "ACTIVE", "INVALID", "TERMINATED"}
Sessions == Workers \X Nat

(* Types of the state of the threads, the entries, the workers and the cron.        *)
TypeOK ==
  /\ lastId \in Nat
  /\ threadId \in [Workers -> Nat]
  /\ spawned \subseteq Workers
  /\ counted \in Nat
  /\ devices \subseteq Devices
  /\ creating \in Devices \cup {NoDevice}
  /\ loaded \in BOOLEAN
  /\ entries \in Nat
  /\ runState \in [Numbers -> States]
  /\ queuingTime \in [Numbers -> Sessions \cup {NoSession}]
  /\ runOptions \in [Numbers -> Sessions \cup {NoSession}]
  /\ pc \in [Workers -> {"idle", "time", "activate", "run", "swap", "clear", "release", "outside"}]
  /\ runs \in [Workers -> Nat]
  /\ late \subseteq Sessions
  /\ terminated \subseteq Sessions
  /\ cronPc \in {"idle", "check", "swap", "terminate", "store"}
  /\ cronAt \in Numbers
  /\ cronLate \subseteq Sessions

(* When the cron terminates a session, the worker of that entry is still in it and   *)
(* has not released its run options: "BG thread cannot reset run session while main  *)
(* thread is setting it as terminated" (onnx_timeout.h).                             *)
Owns(w, n) == threadId[w] = n /\ n # 0
TerminatesLiveSession ==
  cronPc = "terminate" =>
    \E w \in Workers : /\ Owns(w, cronAt)
                       /\ pc[w] \in {"run", "swap"}
                       /\ runOptions[cronAt] = Session(w)

(* The assertions of RAI_ActivateRunSessionCtxORT: the entry a worker takes is        *)
(* available and has no time, whatever the cron did to the run before.               *)
EntryIsFree ==
  \A w \in Workers : pc[w] = "idle" /\ threadId[w] \in Numbers =>
    runState[threadId[w]] = "AVAILABLE" /\ queuingTime[threadId[w]] = NoSession

(* A session is terminated only when it, or a session of the same worker before it,   *)
(* was late.                                                                         *)
LateInItsEntry ==
  \A s \in terminated : \E r \in late : r[1] = s[1] /\ r[2] <= s[2]

(* What the number of a thread, the contents of its entry and the place of the cron    *)
(* have to do with each other: the inductive invariant of OnnxTimeout_proofs.          *)
EntriesWithinThreads ==
  /\ entries <= counted
  /\ counted = Cardinality({w \in Workers : DeviceOf[w] \in devices})
  /\ creating \notin devices
NumbersAreDistinct ==
  /\ \A w \in Workers : threadId[w] <= lastId
  /\ \A v, w \in Workers : threadId[v] = threadId[w] /\ v # w => threadId[v] = 0
  /\ \A n \in 1..lastId : \E w \in Workers : threadId[w] = n

InUse(w) == pc[w] \notin {"idle", "outside"}
EntryMatchesPlace(w, n) ==
  /\ runState[n] = "AVAILABLE" <=> pc[w] \notin {"run", "swap"}
  /\ queuingTime[n] = IF pc[w] \in {"activate", "run", "swap", "clear"}
                      THEN Session(w) ELSE NoSession
  /\ InUse(w) => runOptions[n] = Session(w)
EntriesMatchPlaces ==
  /\ \A w \in Workers : InUse(w) => threadId[w] \in Numbers
  /\ \A w \in Workers : threadId[w] \in Numbers => EntryMatchesPlace(w, threadId[w])
  /\ \A w \in Workers : threadId[w] = 0 => pc[w] = "idle"
  /\ \A n \in Numbers : n > lastId => runState[n] = "AVAILABLE" /\ queuingTime[n] = NoSession

CronAtEntry ==
  /\ \A n \in Numbers :
       runState[n] = "INVALID" <=> cronPc \in {"terminate", "store"} /\ cronAt = n
  /\ cronPc = "idle" => cronAt = 1
  /\ cronPc # "idle" => cronAt <= entries /\ creating = NoDevice
LateKnown ==
  /\ cronLate \subseteq late
  /\ cronPc \in {"swap", "terminate"} =>
       \E w \in Workers : threadId[w] = cronAt /\ \E k \in 0..runs[w] : <<w, k>> \in late

OnnxInv ==
  /\ TypeOK
  /\ EntriesWithinThreads
  /\ NumbersAreDistinct
  /\ EntriesMatchPlaces
  /\ CronAtEntry
  /\ LateKnown
  /\ LateInItsEntry

(* Run may never return by itself; every run ends all the same.                        *)
EveryRunEnds ==
  \A w \in Workers : \A k \in 0..MaxRuns : pc[w] = "run" /\ runs[w] = k ~> runs[w] > k
=============================================================================
