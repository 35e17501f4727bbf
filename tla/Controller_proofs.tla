-------------------------- MODULE Controller_proofs ---------------------------
(***************************************************************************)
(* Proofs about experiments on the local launcher: for any entities, any      *)
(* calls of the user, and any number of monitor threads.                     *)
(***************************************************************************)
EXTENDS Controller, SequenceFacts

(***************************************************************************)
(* The inductive invariant.                                                *)
(***************************************************************************)
TaskPlaces == {"off", "start", "loop", "look", "record", "remove", "clear"}
JobPlaces == {"off", "start", "loop", "check", "look", "move", "clear"}
MainPlaces == {"idle", "launch", "spawn", "register", "monitor", "wait", "hosts", "begin", "poll", "abort"}

ProcessTypes ==
  /\ proc \in [Steps -> {"none", "running", "zombie", "gone"}]
  /\ code \in [Steps -> Codes \cup {"none"}]
  /\ tasks \in Seq(Steps)
  /\ history \in [Steps -> Codes \cup {"absent", "none"}]
WatchTypes ==
  /\ watching \in BOOLEAN /\ tm \in [Threads -> TaskPlaces]
  /\ at \in [Threads -> Nat \ {0}]
  /\ held \in [Threads -> Steps \cup {NoStep}]
StartTypes == starting \in Steps \cup {NoStep} /\ dropped \in SUBSET Steps
TaskTypes == ProcessTypes /\ WatchTypes /\ StartTypes

Histories == UNION {[K -> Statuses \X (Codes \cup {"none"})] : K \in SUBSET (0 .. MaxRuns)}
TableTypes ==
  /\ active \in SUBSET Jobs /\ monitored \in SUBSET Entities /\ completed \in SUBSET Jobs
  /\ run \in [Jobs -> 0 .. MaxRuns]
  /\ status \in [Jobs -> Statuses]
  /\ returncode \in [Jobs -> Codes \cup {"none"}]
  /\ recorded \in [Jobs -> Histories] /\ overtaken \in SUBSET Entities
ManagerTypes ==
  /\ monitoring \in BOOLEAN /\ jm \in [Threads -> JobPlaces]
  /\ toLook \in [Threads -> SUBSET Jobs]
  /\ moving \in [Threads -> Jobs \cup {NoJob}]
JobTypes == TableTypes /\ ManagerTypes

MainTypes ==
  /\ script \in Scripts
  /\ main \in MainPlaces
  /\ queue \in Seq(Entities)
  /\ launched \in [Entities -> 0 .. MaxRuns]
  /\ signalled \in BOOLEAN

TypeOK == TaskTypes /\ JobTypes /\ MainTypes

(* The tasks.  What is listed and runs has no return code, and a return code is the one *)
(* of the process, which has one when it ends.                                        *)
RunsWithoutCode == \A s \in ToSet(tasks) : proc[s] = "running" => history[s] = "none"
CodeIsOfProcess == \A s \in Steps : Owned(s) /\ history[s] \in Codes => history[s] = code[s]
NoCodeYet == \A s \in Steps : proc[s] \in {"none", "running"} => code[s] = "none"
Accounted == RunsWithoutCode /\ CodeIsOfProcess /\ NoCodeYet
HeldHasEnded ==
  \A t \in Threads : tm[t] \in {"record", "remove"} => held[t] \in Steps /\ proc[held[t]] # "running"
TasksInOrder == TaskListComplete /\ Accounted /\ HeldHasEnded

(* A step that was not launched is not known, and one that was not listed is not known  *)
(* to the threads.                                                                    *)
WasLaunched(s) == s[2] <= launched[s[1]]
Unlisted(s) ==
  /\ Owned(s) /\ WasLaunched(s) /\ history[s] = "absent"
  /\ s \notin ToSet(tasks) /\ \A t \in Threads : held[t] # s
NoneAhead ==
  /\ \A s \in ToSet(tasks) : WasLaunched(s)
  /\ \A t \in Threads : held[t] \in Steps => WasLaunched(held[t])
  /\ \A s \in Steps : history[s] # "absent" \/ (Owned(s) /\ proc[s] # "none") => WasLaunched(s)
  /\ \A s \in Steps : s = starting \/ s \in dropped => Unlisted(s)
  /\ starting \notin dropped
  /\ \A j \in Jobs : run[j] <= launched[j[1]] /\ (run[j] > 0 => history[Step(j)] # "absent")

(* The tables of jobs: at most one job of a name is in each, an active one beside a      *)
(* completed one was loaded later, and a name that has a job is known.                  *)
Known == active \cup completed
IsOneOfName(S) == \A i, j \in S : i[1] = j[1] => i = j
TablesInOrder ==
  /\ \A j \in Known : Made(j)
  /\ \A j \in Jobs : Made(j) => \E i \in Known : i[1] = j[1]
  /\ \A j \in Jobs : ~Made(j) => DOMAIN recorded[j] = {}
  /\ IsOneOfName(active) /\ IsOneOfName(completed)
  /\ \A i \in active, j \in completed : i[1] = j[1] => run[i] = 0 /\ i[2] > j[2]
  /\ \A t \in Threads : \A j \in toLook[t] : Made(j)
  /\ \A t \in Threads : jm[t] = "move" => moving[t] \in Jobs /\ Made(moving[t])

(* The jobs.                                                                          *)
Tracked(s) == proc[s] = "running" => s \in ToSet(tasks)
JobIsTrue(j) ==
  /\ Tracked(Step(j))
  /\ status[j] \in TerminalStatuses => proc[Step(j)] # "running"
  /\ Owned(Step(j)) /\ returncode[j] # "none" =>
       /\ status[j] = "completed" => code[Step(j)] = "ok"
       /\ status[j] = "failed" => code[Step(j)] \in {"error", "killed"}
HasOutcome(j) == status[j] \in TerminalStatuses /\ (status[j] = "cancelled" \/ returncode[j] # "none")
JobsTrue ==
  /\ \A j \in Known : j[1] \notin overtaken => JobIsTrue(j)
  /\ \A j \in completed : j[1] \notin overtaken => HasOutcome(j)

(* The histories of the jobs.                                                         *)
RecordedRight ==
  /\ \A j \in Jobs : \A k \in DOMAIN recorded[j] : k <= run[j]
  /\ \A j \in Jobs : j[1] \notin overtaken /\ run[j] \in DOMAIN recorded[j] =>
       j \notin active /\ recorded[j][run[j]] = <<status[j], returncode[j]>>

(* The main thread.                                                                   *)
ManifestFits(q) == \A e \in ToSet(q) : launched[e] + Occurrences(e, q) <= script.runs[e]
MainInOrder ==
  /\ main \notin {"idle", "begin", "poll"} => queue # <<>>
  /\ main = "launch" \/ (main = "spawn" /\ starting = NoStep) => ManifestFits(queue)
  /\ main \in {"register", "monitor", "wait", "hosts"} \/ (main = "spawn" /\ starting # NoStep) =>
       ManifestFits(Tail(queue))
  /\ starting # NoStep =>
       /\ main = "spawn" /\ starting = <<Head(queue), launched[Head(queue)]>>
       /\ \A j \in Of(Head(queue), Jobs) : run[j] < launched[Head(queue)]
  /\ main = "register" =>
       /\ history[<<Head(queue), launched[Head(queue)]>>] # "absent"
       /\ \A j \in Of(Head(queue), Jobs) : run[j] < launched[Head(queue)]
  /\ main \in {"spawn", "register"} =>
       (Of(Head(queue), active) = {} \/ Of(Head(queue), completed) # {})

(* A process that a server of its name may be runs for an active job, is being started, *)
(* or was just started.                                                               *)
OwnProcess(s) ==
  \/ s = starting
  \/ main = "register" /\ s = <<Head(queue), launched[Head(queue)]>>
  \/ \E j \in active : s = Step(j)
OneAtATime ==
  \A s \in Steps : s[1] \notin overtaken /\ s \in Servers(s[1]) /\ proc[s] = "running" => OwnProcess(s)

ControlInv ==
  /\ TypeOK /\ TasksInOrder /\ NoneAhead
  /\ TablesInOrder /\ JobsTrue /\ RecordedRight /\ MainInOrder /\ OneAtATime

-----------------------------------------------------------------------------
(* What happens to processes and tasks.                                            *)

(* A step does not begin to run, stays listed while it lives, keeps the code with which  *)
(* it ended, and stays known to the manager.                                          *)
Declines(s) ==
  /\ proc'[s] = "running" => proc[s] = "running"
  /\ proc'[s] \in {"running", "zombie"} =>
       proc[s] \in {"running", "zombie"} /\ (s \in ToSet(tasks) => s \in ToSet(tasks'))
  /\ proc'[s] # "none" => proc[s] # "none" \/ s \in ToSet(tasks)
  /\ code'[s] = code[s] \/ proc[s] = "running"
  /\ history[s] # "absent" => history'[s] # "absent"
  /\ history'[s] = history[s] \/ s \in ToSet(tasks) \/ (\E t \in Threads : held[t] = s)

LEMMA ListKept ==
  ASSUME TaskListComplete, \A s \in Steps : Declines(s),
         \A s \in Steps : s = starting \/ s \in dropped => s = starting' \/ s \in dropped'
  PROVE  TaskListComplete'
BY DEF TaskListComplete, Declines, IsAlive

(* Tasks that are removed are killed first.                                            *)
LEMMA RemoveFacts ==
  ASSUME TypeOK, TasksInOrder, NEW S \in SUBSET Steps, RemoveTasks(S)
  PROVE  /\ ProcessTypes' /\ Accounted'
         /\ \A s \in Steps : Declines(s)
         /\ ToSet(tasks') \subseteq ToSet(tasks)
         /\ \A s \in S : Tracked(s) => proc'[s] # "running"
<1> DEFINE killed == {s \in Listed(S) : IsAlive(s)}
<1>1. /\ proc' = [s \in Steps |-> IF s \in killed THEN "gone" ELSE proc[s]]
      /\ code' = [s \in Steps |-> IF s \in killed /\ proc[s] = "running" THEN "killed" ELSE code[s]]
      /\ history' = [s \in Steps |-> IF s \in killed THEN EndCode(s) ELSE history[s]]
      /\ tasks' = WithoutFirst(tasks, S)
  BY DEF RemoveTasks
<1>2. /\ proc \in [Steps -> {"none", "running", "zombie", "gone"}]
      /\ code \in [Steps -> Codes \cup {"none"}]
      /\ tasks \in Seq(Steps)
      /\ history \in [Steps -> Codes \cup {"absent", "none"}]
  BY DEF TypeOK, TaskTypes, ProcessTypes
<1>3. /\ tasks' \in Seq(Steps) /\ ToSet(tasks') \subseteq ToSet(tasks)
      /\ \A s \in ToSet(tasks) : s \notin S => s \in ToSet(tasks')
  <2>1. /\ WithoutFirst(tasks, S) \in Seq(Steps)
        /\ ToSet(WithoutFirst(tasks, S)) \subseteq ToSet(tasks)
        /\ \A s \in ToSet(tasks) : s \notin S => s \in ToSet(WithoutFirst(tasks, S))
    BY <1>2, WithoutFirstElements
  <2> QED BY <1>1, <2>1
<1>4. \A s \in Steps : s \in killed <=> s \in S /\ s \in ToSet(tasks) /\ IsAlive(s)
  BY DEF Listed
<1> HIDE DEF killed
<1>5. \A s \in Steps : EndCode(s) \in Codes \cup {"none"}
  BY <1>2 DEF EndCode, Codes
<1>6. ProcessTypes'
  BY <1>1, <1>2, <1>3, <1>5 DEF ProcessTypes, Codes
<1>7. \A s \in Steps : IsAlive(s) <=> proc[s] \in {"running", "zombie"}
  BY DEF IsAlive
<1>8. RunsWithoutCode'
  <2>1. ToSet(tasks) \subseteq Steps
    BY <1>2, ElementPositions
  <2> QED BY <1>1, <1>3, <2>1 DEF RunsWithoutCode, TasksInOrder, Accounted
<1>9. CodeIsOfProcess'
  <2> SUFFICES ASSUME NEW s \in Steps, Owned(s), history'[s] \in Codes PROVE history'[s] = code'[s]
    BY DEF CodeIsOfProcess
  <2>1. CASE s \in killed
    BY <1>1, <2>1 DEF EndCode
  <2>2. CASE s \notin killed
    BY <1>1, <2>2 DEF CodeIsOfProcess, TasksInOrder, Accounted
  <2> QED BY <2>1, <2>2
<1>10. NoCodeYet'
  BY <1>1 DEF NoCodeYet, TasksInOrder, Accounted
<1>11. ASSUME NEW s \in Steps PROVE Declines(s)
  <2>1. proc'[s] \in {"running", "zombie"} =>
          proc'[s] = proc[s] /\ (s \in ToSet(tasks) => s \in ToSet(tasks'))
    BY <1>1, <1>3, <1>4, <1>7
  <2>2. proc'[s] = proc[s] \/ s \in ToSet(tasks)
    BY <1>1, <1>4
  <2>3. code'[s] = code[s] \/ proc[s] = "running"
    BY <1>1
  <2>4. /\ history[s] # "absent" => history'[s] # "absent"
        /\ history'[s] = history[s] \/ s \in ToSet(tasks)
    BY <1>1, <1>4, <1>5 DEF Codes
  <2> QED BY <2>1, <2>2, <2>3, <2>4 DEF Declines
<1>12. ASSUME NEW s \in S, Tracked(s) PROVE proc'[s] # "running"
  BY <1>1, <1>4, <1>7, <1>12 DEF Tracked
<1> QED BY <1>3, <1>6, <1>8, <1>9, <1>10, <1>11, <1>12 DEF Accounted

(* A process ends by itself, or the server of a database is told to.                     *)
LEMMA EndFacts ==
  ASSUME TypeOK, TasksInOrder, NoneAhead, NEW s \in Steps, NEW c \in Codes, proc[s] = "running",
         proc' = [proc EXCEPT ![s] = IF Owned(s) THEN "zombie" ELSE "gone"],
         code' = [code EXCEPT ![s] = c],
         UNCHANGED <<tasks, history>>
  PROVE  /\ ProcessTypes' /\ Accounted'
         /\ \A r \in Steps : Declines(r)
         /\ proc'[s] # "running"
<1>1. ProcessTypes'
  BY DEF TypeOK, TaskTypes, ProcessTypes
<1>2. /\ proc'[s] = (IF Owned(s) THEN "zombie" ELSE "gone") /\ code'[s] = c
      /\ \A r \in Steps : r # s => proc'[r] = proc[r] /\ code'[r] = code[r]
  BY DEF TypeOK, TaskTypes, ProcessTypes
<1>3. RunsWithoutCode'
  <2>1. ToSet(tasks) \subseteq Steps
    BY ElementPositions DEF TypeOK, TaskTypes, ProcessTypes
  <2> QED BY <1>2, <2>1 DEF RunsWithoutCode, TasksInOrder, Accounted
<1>4. CodeIsOfProcess'
  <2>1. Owned(s) => history[s] \notin Codes
    <3>1. CASE s \in ToSet(tasks)
      BY <3>1 DEF TasksInOrder, Accounted, RunsWithoutCode, Codes
    <3>2. CASE s = starting \/ s \in dropped
      BY <3>2 DEF NoneAhead, Unlisted, Codes
    <3> QED BY <3>1, <3>2 DEF TasksInOrder, TaskListComplete, IsAlive
  <2> QED BY <1>2, <2>1 DEF CodeIsOfProcess, TasksInOrder, Accounted
<1>5. NoCodeYet'
  BY <1>2 DEF NoCodeYet, TasksInOrder, Accounted
<1>6. \A r \in Steps : Declines(r)
  BY <1>2 DEF Declines
<1> QED BY <1>1, <1>2, <1>3, <1>4, <1>5, <1>6 DEF Accounted

LEMMA ExitFacts ==
  ASSUME TypeOK, TasksInOrder, NoneAhead, NEW s \in Steps, Exit(s)
  PROVE  /\ TaskTypes' /\ TasksInOrder' /\ (\A r \in Steps : Declines(r))
         /\ ToSet(tasks') \subseteq ToSet(tasks) /\ UNCHANGED <<held, starting, dropped>>
<1>1. PICK c \in {"ok", "error"} : code' = [code EXCEPT ![s] = c]
  BY DEF Exit
<1>2. c \in Codes
  BY DEF Codes
<1>3. /\ proc[s] = "running"
      /\ proc' = [proc EXCEPT ![s] = IF Owned(s) THEN "zombie" ELSE "gone"]
      /\ UNCHANGED <<tasks, history>> /\ UNCHANGED <<watching, tm, at, held, starting, dropped>>
  BY DEF Exit, threadVars, startVars
<1>4. ProcessTypes' /\ Accounted' /\ \A r \in Steps : Declines(r)
  BY <1>1, <1>2, <1>3, EndFacts
<1>5. HeldHasEnded'
  BY <1>3, <1>4 DEF HeldHasEnded, TasksInOrder, Declines
<1>6. TaskTypes'
  BY <1>3, <1>4 DEF TypeOK, TaskTypes, WatchTypes, StartTypes
<1>7. TaskListComplete'
  BY <1>3, <1>4, ListKept DEF TasksInOrder
<1> QED BY <1>3, <1>4, <1>5, <1>6, <1>7 DEF TasksInOrder

LEMMA TasksStay ==
  ASSUME TasksInOrder, UNCHANGED <<proc, code, tasks, history>>,
         \A s \in Steps : s = starting \/ s \in dropped => s = starting' \/ s \in dropped',
         \A t \in Threads : tm'[t] \in {"record", "remove"} => tm'[t] = tm[t] /\ held'[t] = held[t]
  PROVE  TasksInOrder' /\ \A s \in Steps : Declines(s)
<1>1. Accounted' /\ HeldHasEnded'
  BY DEF TasksInOrder, Accounted, RunsWithoutCode, CodeIsOfProcess, NoCodeYet, HeldHasEnded
<1>2. \A s \in Steps : Declines(s)
  BY DEF Declines
<1>3. TaskListComplete'
  BY <1>2, ListKept DEF TasksInOrder
<1> QED BY <1>1, <1>2, <1>3 DEF TasksInOrder

(* The thread that watches the tasks.                                                   *)
LEMMA WatchFacts ==
  ASSUME TypeOK, TasksInOrder, NEW t \in Threads, TaskMonitor(t)
  PROVE  /\ TaskTypes' /\ TasksInOrder' /\ \A s \in Steps : Declines(s)
         /\ ToSet(tasks') \subseteq ToSet(tasks) /\ UNCHANGED <<starting, dropped>>
         /\ \A u \in Threads : held'[u] \in {held[u], NoStep} \cup ToSet(tasks)
<1> USE DEF processVars, threadVars, startVars
<1>1. /\ ProcessTypes /\ Accounted /\ HeldHasEnded /\ ToSet(tasks) \subseteq Steps
      /\ TaskListComplete /\ StartTypes
  BY ElementPositions DEF TypeOK, TaskTypes, ProcessTypes, TasksInOrder
<1>2. /\ watching \in BOOLEAN /\ tm \in [Threads -> TaskPlaces]
      /\ at \in [Threads -> Nat \ {0}]
      /\ held \in [Threads -> Steps \cup {NoStep}]
  BY DEF TypeOK, TaskTypes, WatchTypes
<1>3. UNCHANGED <<starting, dropped>>
  BY DEF TaskMonitor, Begin, Loop, Look, Record, TakeOff, Empty, Clear
<1>4. ASSUME ProcessTypes', WatchTypes', Accounted', HeldHasEnded', \A s \in Steps : Declines(s)
      PROVE  TaskTypes' /\ TasksInOrder'
  <2>1. StartTypes'
    BY <1>1, <1>3 DEF StartTypes
  <2>2. TaskListComplete'
    BY <1>1, <1>3, <1>4, ListKept
  <2> QED BY <1>4, <2>1, <2>2 DEF TaskTypes, TasksInOrder
<1>5. ASSUME UNCHANGED <<proc, code, tasks, history>>
      PROVE  ProcessTypes' /\ Accounted' /\ (\A s \in Steps : Declines(s)) /\ tasks' = tasks
  <2>1. ProcessTypes'
    BY <1>1, <1>5 DEF ProcessTypes
  <2>2. Accounted'
    BY <1>1, <1>5 DEF Accounted, RunsWithoutCode, CodeIsOfProcess, NoCodeYet
  <2>3. \A s \in Steps : Declines(s)
    BY <1>5 DEF Declines
  <2> QED BY <1>5, <2>1, <2>2, <2>3
<1>6. CASE Begin(t) \/ Loop(t) \/ Empty(t) \/ Clear(t)
  <2>1. /\ UNCHANGED <<proc, code, tasks, history>> /\ held' = held
        /\ watching' \in BOOLEAN /\ tm' \in [Threads -> TaskPlaces]
        /\ at' \in [Threads -> Nat \ {0}]
        /\ \A u \in Threads : tm'[u] \in {"record", "remove"} => tm[u] = tm'[u]
    <3>1. CASE Begin(t)
      BY <1>2, <3>1 DEF Begin, TaskPlaces
    <3>2. CASE Loop(t)
      BY <1>2, <3>2 DEF Loop, TaskPlaces
    <3>3. CASE Empty(t)
      BY <1>2, <3>3 DEF Empty, TaskPlaces
    <3>4. CASE Clear(t)
      BY <1>2, <3>4 DEF Clear, TaskPlaces
    <3> QED BY <1>6, <3>1, <3>2, <3>3, <3>4
  <2>2. HeldHasEnded' /\ WatchTypes'
    BY <1>1, <1>2, <2>1 DEF HeldHasEnded, WatchTypes
  <2>3. ProcessTypes' /\ Accounted' /\ (\A s \in Steps : Declines(s)) /\ tasks' = tasks
    BY <1>5, <2>1
  <2> QED BY <1>3, <1>4, <2>1, <2>2, <2>3
<1>7. CASE Look(t)
  <2> DEFINE s == tasks[at[t]]
  <2>1. s \in ToSet(tasks) /\ s \in Steps
    <3>1. at[t] \in 1 .. Len(tasks)
      <4>1. at[t] \in Nat \ {0} /\ at[t] <= Len(tasks) /\ Len(tasks) \in Nat
        BY <1>1, <1>2, <1>7 DEF Look, ProcessTypes
      <4> QED BY <4>1
    <3>2. \A i \in 1 .. Len(tasks) : tasks[i] \in ToSet(tasks) /\ tasks[i] \in Steps
      BY <1>1, ElementPositions DEF ProcessTypes
    <3> QED BY <3>1, <3>2
  <2>2. /\ tm[t] = "look" /\ UNCHANGED <<code, tasks, history, watching>>
        /\ IF CheckStatus(s) = "none"
           THEN at' = [at EXCEPT ![t] = @ + 1] /\ UNCHANGED <<proc, tm, held>>
           ELSE /\ proc' = [proc EXCEPT ![s] = "gone"]
                /\ held' = [held EXCEPT ![t] = s]
                /\ tm' = [tm EXCEPT ![t] = "record"]
                /\ UNCHANGED at
    BY <1>7 DEF Look
  <2> HIDE DEF s
  <2>3. CASE CheckStatus(s) = "none"
    <3>1. /\ UNCHANGED <<proc, code, tasks, history>> /\ UNCHANGED <<watching, tm, held>>
          /\ at' \in [Threads -> Nat \ {0}]
      BY <1>2, <2>2, <2>3
    <3>2. HeldHasEnded' /\ WatchTypes'
      BY <1>1, <1>2, <3>1 DEF HeldHasEnded, WatchTypes
    <3>3. ProcessTypes' /\ Accounted' /\ (\A r \in Steps : Declines(r)) /\ tasks' = tasks
      BY <1>5, <3>1
    <3> QED BY <1>3, <1>4, <3>1, <3>2, <3>3
  <2>4. CASE CheckStatus(s) # "none"
    <3>1. /\ proc' = [proc EXCEPT ![s] = "gone"] /\ held' = [held EXCEPT ![t] = s]
          /\ tm' = [tm EXCEPT ![t] = "record"] /\ UNCHANGED <<code, tasks, history, watching, at>>
      BY <2>2, <2>4
    <3>2. /\ proc'[s] = "gone" /\ \A r \in Steps : r # s => proc'[r] = proc[r]
          /\ proc' \in [Steps -> {"none", "running", "zombie", "gone"}]
      BY <1>1, <2>1, <3>1 DEF ProcessTypes
    <3>3. /\ held'[t] = s /\ tm'[t] = "record"
          /\ \A u \in Threads : u # t => held'[u] = held[u] /\ tm'[u] = tm[u]
          /\ held' \in [Threads -> Steps \cup {NoStep}] /\ tm' \in [Threads -> TaskPlaces]
      BY <1>2, <2>1, <3>1 DEF TaskPlaces
    <3>4. Accounted'
      BY <1>1, <3>1, <3>2 DEF Accounted, RunsWithoutCode, CodeIsOfProcess, NoCodeYet
    <3>5. HeldHasEnded'
      BY <1>1, <2>1, <3>2, <3>3 DEF HeldHasEnded
    <3>6. \A r \in Steps : Declines(r)
      BY <2>1, <3>1, <3>2 DEF Declines
    <3>7. ProcessTypes' /\ WatchTypes'
      BY <1>1, <1>2, <3>1, <3>2, <3>3 DEF ProcessTypes, WatchTypes
    <3>8. \A u \in Threads : held'[u] \in {held[u], NoStep} \cup ToSet(tasks)
      BY <2>1, <3>3
    <3> QED BY <1>3, <1>4, <3>1, <3>4, <3>5, <3>6, <3>7, <3>8
  <2> QED BY <2>3, <2>4
<1>8. CASE Record(t)
  <2> DEFINE s == held[t]
  <2>1. /\ tm[t] = "record" /\ history' = [history EXCEPT ![s] = CheckStatus(s)]
        /\ tm' = [tm EXCEPT ![t] = "remove"] /\ UNCHANGED <<proc, code, tasks, watching, at, held>>
    BY <1>8 DEF Record
  <2>2. s \in Steps /\ proc[s] # "running" /\ held[t] = s
    BY <1>1, <2>1 DEF HeldHasEnded
  <2> HIDE DEF s
  <2>3. CheckStatus(s) \in Codes \cup {"none"} /\ (Owned(s) => CheckStatus(s) = code[s])
    BY <1>1, <2>2 DEF CheckStatus, ProcessTypes, Codes
  <2>4. /\ history'[s] = CheckStatus(s) /\ \A r \in Steps : r # s => history'[r] = history[r]
        /\ history' \in [Steps -> Codes \cup {"absent", "none"}]
    BY <1>1, <2>1, <2>2, <2>3 DEF ProcessTypes
  <2>5. /\ \A u \in Threads : tm'[u] \in {"record", "remove"} => tm[u] \in {"record", "remove"}
        /\ tm' \in [Threads -> TaskPlaces]
    BY <1>2, <2>1 DEF TaskPlaces
  <2>6. Accounted'
    BY <1>1, <2>1, <2>2, <2>3, <2>4 DEF Accounted, RunsWithoutCode, CodeIsOfProcess, NoCodeYet
  <2>7. HeldHasEnded'
    BY <1>1, <2>1, <2>5 DEF HeldHasEnded
  <2>8. \A r \in Steps : Declines(r)
    BY <2>1, <2>2, <2>3, <2>4 DEF Declines, Codes
  <2>9. ProcessTypes' /\ WatchTypes'
    BY <1>1, <1>2, <2>1, <2>4, <2>5 DEF ProcessTypes, WatchTypes
  <2> QED BY <1>3, <1>4, <2>1, <2>6, <2>7, <2>8, <2>9
<1>9. CASE TakeOff(t)
  <2>1. /\ tm[t] = "remove" /\ RemoveTasks({held[t]}) /\ UNCHANGED watching
        /\ at' = [at EXCEPT ![t] = @ + 1] /\ held' = [held EXCEPT ![t] = NoStep]
        /\ tm' = [tm EXCEPT ![t] = "look"]
    BY <1>9 DEF TakeOff
  <2>2. {held[t]} \in SUBSET Steps
    BY <1>1, <2>1 DEF HeldHasEnded
  <2>3. ProcessTypes' /\ Accounted' /\ (\A s \in Steps : Declines(s)) /\ ToSet(tasks') \subseteq ToSet(tasks)
    BY <2>1, <2>2, RemoveFacts
  <2>4. /\ at' \in [Threads -> Nat \ {0}] /\ held' \in [Threads -> Steps \cup {NoStep}]
        /\ tm' \in [Threads -> TaskPlaces]
        /\ \A u \in Threads : /\ held'[u] = IF u = t THEN NoStep ELSE held[u]
                              /\ tm'[u] = IF u = t THEN "look" ELSE tm[u]
    BY <1>2, <2>1 DEF TaskPlaces
  <2>5. HeldHasEnded'
    BY <1>1, <2>3, <2>4 DEF HeldHasEnded, Declines
  <2>6. WatchTypes'
    BY <1>2, <2>1, <2>4 DEF WatchTypes
  <2> QED BY <1>3, <1>4, <2>3, <2>4, <2>5, <2>6
<1> QED BY <1>6, <1>7, <1>8, <1>9 DEF TaskMonitor

-----------------------------------------------------------------------------
(* What stays true of jobs, histories and the main thread.                          *)

LEMMA StepOfJob ==
  ASSUME TypeOK, NEW j \in Jobs
  PROVE  Step(j) \in Steps /\ Step(j)[1] = j[1] /\ Step(j)[2] = run[j] /\ j[1] \in Entities
BY DEF TypeOK, JobTypes, TableTypes, Step, Steps, Jobs

LEMMA KnownJobs == ASSUME TypeOK PROVE Known \subseteq Jobs
BY DEF TypeOK, JobTypes, TableTypes, Known

LEMMA JobStays ==
  ASSUME NEW j \in Jobs, JobIsTrue(j), Declines(Step(j)),
         run'[j] = run[j], status'[j] = status[j], returncode'[j] = returncode[j]
  PROVE  JobIsTrue(j)'
<1>1. Step(j)' = Step(j)
  BY DEF Step
<1>2. Tracked(Step(j))'
  BY <1>1 DEF Declines, Tracked, JobIsTrue
<1>3. status'[j] \in TerminalStatuses =>
        proc'[Step(j)] # "running" /\ code'[Step(j)] = code[Step(j)]
  BY DEF JobIsTrue, Declines
<1>4. status'[j] \in {"completed", "failed"} => status'[j] \in TerminalStatuses
  BY DEF TerminalStatuses
<1> QED BY <1>1, <1>2, <1>3, <1>4 DEF JobIsTrue, Owned

LEMMA KnownStay ==
  ASSUME TypeOK, JobsTrue, \A j \in Known : Declines(Step(j)),
         UNCHANGED <<active, completed, run, status, returncode>>, overtaken \subseteq overtaken'
  PROVE  JobsTrue'
<1>1. Known' = Known /\ Known \subseteq Jobs
  BY KnownJobs DEF Known
<1>2. ASSUME NEW j \in Known, j[1] \notin overtaken' PROVE JobIsTrue(j)'
  <2>1. j \in Jobs /\ JobIsTrue(j) /\ Declines(Step(j))
    BY <1>1, <1>2 DEF JobsTrue
  <2> QED BY <2>1, JobStays
<1>3. \A j \in completed' : j[1] \notin overtaken' => HasOutcome(j)'
  BY DEF JobsTrue, HasOutcome
<1> QED BY <1>1, <1>2, <1>3 DEF JobsTrue

LEMMA JobsStay ==
  ASSUME TypeOK, JobsTrue, \A s \in Steps : Declines(s),
         UNCHANGED <<active, completed, run, status, returncode>>, overtaken \subseteq overtaken'
  PROVE  JobsTrue'
<1>1. \A j \in Known : Declines(Step(j))
  BY KnownJobs, StepOfJob
<1> QED BY <1>1, KnownStay

(* Whether a job was made is asked of its run and status.                              *)
AreMade(t) == \A j \in toLook'[t] : j \in Jobs /\ Made(j)
LEMMA TablesStay ==
  ASSUME TypeOK, TablesInOrder, UNCHANGED <<active, completed, run, recorded>>,
         \A j \in Jobs : Made(j) <=> run'[j] > 0 \/ status'[j] # "new",
         \A t \in Threads : AreMade(t),
         \A t \in Threads : jm'[t] = "move" => moving'[t] \in Jobs /\ Made(moving'[t])
  PROVE  TablesInOrder'
<1>1. Known' = Known /\ Known \subseteq Jobs
  BY KnownJobs DEF Known
<1>2. \A j \in Jobs : Made(j) <=> Made(j)'
  BY DEF Made
<1>3. \A t \in Threads : \A j \in toLook'[t] : Made(j)'
  BY <1>2 DEF AreMade
<1>4. \A t \in Threads : jm'[t] = "move" => moving'[t] \in Jobs /\ Made(moving[t])'
  BY DEF Made
<1>5. (\A j \in Known : Made(j))' /\ (\A j \in Jobs : Made(j) => \E i \in Known : i[1] = j[1])'
  BY <1>1, <1>2 DEF TablesInOrder
<1>6. (\A j \in Jobs : ~Made(j) => DOMAIN recorded[j] = {})'
  BY <1>2 DEF TablesInOrder
<1>7. /\ (IsOneOfName(active) /\ IsOneOfName(completed))'
      /\ (\A i \in active, j \in completed : i[1] = j[1] => run[i] = 0 /\ i[2] > j[2])'
  BY DEF TablesInOrder, IsOneOfName
<1> QED BY <1>3, <1>4, <1>5, <1>6, <1>7 DEF TablesInOrder

LEMMA NoneAheadStays ==
  ASSUME TypeOK, NoneAhead, UNCHANGED <<run, launched>>, ToSet(tasks') \subseteq ToSet(tasks),
         \A t \in Threads : held'[t] \in {held[t], NoStep} \cup ToSet(tasks),
         \A s \in Steps : Declines(s),
         \A s \in Steps : s = starting' \/ s \in dropped' => s = starting \/ s \in dropped,
         starting' \notin dropped'
  PROVE  NoneAhead'
<1>1. NoStep \notin Steps
  BY TaskAssumption DEF NoStep, Steps
<1>2. \A j \in Jobs : Step(j)' = Step(j) /\ Step(j) \in Steps
  BY StepOfJob DEF Step
<1>3. \A s \in ToSet(tasks') : WasLaunched(s)'
  BY DEF NoneAhead, WasLaunched
<1>4. ASSUME NEW t \in Threads, held'[t] \in Steps PROVE WasLaunched(held[t])'
  BY <1>1, <1>4 DEF NoneAhead, WasLaunched
<1>5. ASSUME NEW s \in Steps, history'[s] # "absent" \/ (Owned(s) /\ proc'[s] # "none")
      PROVE  WasLaunched(s)'
  BY <1>5 DEF NoneAhead, WasLaunched, Declines
<1>6. ASSUME NEW s \in Steps, s = starting' \/ s \in dropped' PROVE Unlisted(s)'
  <2>1. Unlisted(s)
    BY <1>6 DEF NoneAhead
  <2>2. history'[s] = history[s]
    BY <2>1 DEF Unlisted, Declines
  <2>3. s \notin ToSet(tasks') /\ \A t \in Threads : held'[t] # s
    BY <1>1, <2>1 DEF Unlisted
  <2> QED BY <2>1, <2>2, <2>3 DEF Unlisted, WasLaunched
<1>7. \A j \in Jobs : run'[j] <= launched'[j[1]] /\ (run'[j] > 0 => history'[Step(j)'] # "absent")
  BY <1>2 DEF NoneAhead, Declines
<1> QED BY <1>3, <1>4, <1>5, <1>6, <1>7 DEF NoneAhead, WasLaunched

LEMMA HistoriesStay ==
  ASSUME RecordedRight, UNCHANGED <<recorded, run>>, overtaken \subseteq overtaken', active' \subseteq active,
         \A j \in Jobs : j \notin active => status'[j] = status[j] /\ returncode'[j] = returncode[j]
  PROVE  RecordedRight'
BY DEF RecordedRight

LEMMA MainStays ==
  ASSUME TypeOK, MainInOrder, UNCHANGED <<script, main, queue, launched, starting, run>>,
         active' \subseteq active, \A j \in completed : \E i \in completed' : i[1] = j[1],
         \A s \in Steps : history[s] # "absent" => history'[s] # "absent"
  PROVE  MainInOrder'
<1>1. \A e : Of(e, active) = {} \/ Of(e, completed) # {} => Of(e, active') = {} \/ Of(e, completed') # {}
  BY DEF Of
<1>2. \A q : ManifestFits(q) => ManifestFits(q)'
  BY DEF ManifestFits
<1>3. ASSUME main = "register" PROVE history'[<<Head(queue), launched[Head(queue)]>>] # "absent"
  <2>1. queue # <<>> /\ queue \in Seq(Entities) /\ launched \in [Entities -> 0 .. MaxRuns]
    BY <1>3 DEF MainInOrder, TypeOK, MainTypes
  <2>2. Head(queue) \in Entities
    BY <2>1
  <2>3. <<Head(queue), launched[Head(queue)]>> \in Steps
    BY <2>1, <2>2 DEF Steps
  <2> QED BY <1>3, <2>3 DEF MainInOrder
<1> QED BY <1>1, <1>2, <1>3 DEF MainInOrder, ManifestFits

LEMMA ProcessStays ==
  ASSUME TypeOK, OneAtATime, UNCHANGED <<run, launched, starting>>, overtaken \subseteq overtaken',
         main = "register" => main' = main /\ queue' = queue,
         \A s \in Steps : proc'[s] = "running" => proc[s] = "running",
         \A j \in active \ active' : j[1] \in overtaken' \/ proc'[Step(j)] # "running",
         \A j \in Jobs : run'[j] > 0 \/ status'[j] # "new" => Made(j)
  PROVE  OneAtATime'
<1> SUFFICES ASSUME NEW s \in Steps, s[1] \notin overtaken', s \in Servers(s[1])', proc'[s] = "running"
             PROVE  OwnProcess(s)'
  BY DEF OneAtATime
<1>1. s[1] \in Entities
  BY DEF Steps
<1>2. Owned(s) \/ \E k \in 1 .. MaxLoads : run'[<<s[1], k>>] > 0 \/ status'[<<s[1], k>>] # "new"
  BY DEF Servers, Made
<1>3. \A k \in 1 .. MaxLoads : <<s[1], k>> \in Jobs
  BY <1>1, LoadsAssumption DEF Jobs
<1>4. Owned(s) \/ \E k \in 1 .. MaxLoads : Made(<<s[1], k>>)
  BY <1>2, <1>3
<1>5. s \in Servers(s[1])
  BY <1>4 DEF Servers
<1>6. OwnProcess(s)
  BY <1>5 DEF OneAtATime
<1>7. CASE s = starting \/ (main = "register" /\ s = <<Head(queue), launched[Head(queue)]>>)
  BY <1>7 DEF OwnProcess
<1>8. CASE \E j \in active : s = Step(j)
  <2>1. PICK j \in active : s = Step(j)
    BY <1>8
  <2>2. j[1] = s[1] /\ Step(j)' = s
    BY <2>1 DEF Step
  <2>3. j \in active'
    BY <2>1, <2>2
  <2> QED BY <2>2, <2>3 DEF OwnProcess
<1> QED BY <1>6, <1>7, <1>8 DEF OwnProcess

(* The processes and the thread that watches the tasks change nothing of the jobs.     *)
LEMMA ProcessesKeep ==
  ASSUME TypeOK, TasksInOrder, NoneAhead, TablesInOrder, JobsTrue, RecordedRight, MainInOrder, OneAtATime,
         UNCHANGED <<managerVars, mainVars>>, \A s \in Steps : Declines(s),
         ToSet(tasks') \subseteq ToSet(tasks), UNCHANGED <<starting, dropped>>,
         \A t \in Threads : held'[t] \in {held[t], NoStep} \cup ToSet(tasks)
  PROVE  NoneAhead' /\ TablesInOrder' /\ JobsTrue' /\ RecordedRight' /\ MainInOrder' /\ OneAtATime'
<1>1. /\ \A s \in Steps : history[s] # "absent" => history'[s] # "absent"
      /\ \A s \in Steps : proc'[s] = "running" => proc[s] = "running"
  BY DEF Declines
<1>2. /\ UNCHANGED <<run, launched>> /\ UNCHANGED <<run, launched, starting>>
      /\ UNCHANGED <<active, completed, run, status, returncode>>
      /\ UNCHANGED <<recorded, status>>
      /\ UNCHANGED <<recorded, run>>
      /\ UNCHANGED <<script, main, queue, launched, starting, run>>
      /\ UNCHANGED <<toLook, jm, moving, overtaken, signalled>>
  BY DEF managerVars, tableVars, jobVars, watchVars, mainVars
<1>3. NoneAhead'
  <2>1. /\ \A s \in Steps : s = starting' \/ s \in dropped' => s = starting \/ s \in dropped
        /\ starting' \notin dropped'
    BY DEF NoneAhead
  <2> QED BY <1>2, <2>1, NoneAheadStays
<1>4. TablesInOrder'
  <2>1. /\ \A t \in Threads : AreMade(t)
        /\ \A t \in Threads : jm'[t] = "move" => moving'[t] \in Jobs /\ Made(moving'[t])
        /\ \A j \in Jobs : Made(j) <=> run'[j] > 0 \/ status'[j] # "new"
        /\ UNCHANGED <<active, completed, run, recorded>>
    BY <1>2 DEF TablesInOrder, AreMade, Made, TypeOK, JobTypes, ManagerTypes
  <2> QED BY <2>1, TablesStay
<1>5. JobsTrue'
  <2>1. overtaken \subseteq overtaken'
    BY <1>2
  <2> QED BY <1>2, <2>1, JobsStay
<1>6. RecordedRight'
  BY <1>2, HistoriesStay
<1>7. MainInOrder'
  <2>1. active' \subseteq active /\ \A j \in completed : \E i \in completed' : i[1] = j[1]
    BY <1>2
  <2> QED BY <1>1, <1>2, <2>1, MainStays
<1>8. OneAtATime'
  <2>1. /\ overtaken \subseteq overtaken'
        /\ main = "register" => main' = main /\ queue' = queue
        /\ \A j \in active \ active' : j[1] \in overtaken' \/ proc'[Step(j)] # "running"
        /\ \A j \in Jobs : run'[j] > 0 \/ status'[j] # "new" => Made(j)
    BY <1>2 DEF Made
  <2> QED BY <1>1, <1>2, <2>1, ProcessStays
<1> QED BY <1>3, <1>4, <1>5, <1>6, <1>7, <1>8

(* A job is moved to completed.                                                         *)
LEMMA MoveFacts ==
  ASSUME TypeOK, TablesInOrder, JobsTrue, RecordedRight, NEW j \in Jobs, Made(j),
         NEW stat \in Statuses, NEW rc \in Codes \cup {"none"}, stat = status[j] \/ stat # "new",
         MoveToCompleted(j, stat, rc), run' = run,
         status' = [status EXCEPT ![j] = stat], returncode' = [returncode EXCEPT ![j] = rc],
         \A t \in Threads : AreMade(t),
         \A t \in Threads : jm'[t] = "move" => moving'[t] \in Jobs /\ Made(moving'[t]),
         overtaken' \in SUBSET Entities, overtaken \subseteq overtaken',
         j[1] \in overtaken' \/ (stat \in TerminalStatuses /\ (stat = "cancelled" \/ rc # "none"))
  PROVE  /\ TableTypes' /\ TablesInOrder' /\ RecordedRight'
         /\ \A i \in completed' : i[1] \notin overtaken' => HasOutcome(i)'
         /\ active' = {i \in active : i[1] # j[1]} /\ Known' \subseteq Known \cup {j}
         /\ completed' = {i \in completed : i[1] # j[1]} \cup {j}
         /\ \A i \in Jobs : Made(i) <=> run'[i] > 0 \/ status'[i] # "new"
<1>1. TableTypes /\ j[1] \in Entities /\ Known \subseteq Jobs
  BY KnownJobs, StepOfJob DEF TypeOK, JobTypes
<1>2. /\ completed' = {i \in completed : i[1] # j[1]} \cup {j}
      /\ active' = {i \in active : i[1] # j[1]} /\ monitored' \subseteq monitored
      /\ recorded' = [recorded EXCEPT ![j] = [k \in (DOMAIN recorded[j]) \cup {run[j]} |->
                                                IF k = run[j] THEN <<stat, rc>> ELSE recorded[j][k]]]
  BY DEF MoveToCompleted, Put, Of
<1>3. /\ active \in SUBSET Jobs /\ monitored \in SUBSET Entities /\ completed \in SUBSET Jobs
      /\ run \in [Jobs -> 0 .. MaxRuns] /\ recorded \in [Jobs -> Histories]
      /\ status \in [Jobs -> Statuses] /\ returncode \in [Jobs -> Codes \cup {"none"}]
  BY <1>1 DEF TableTypes
<1>4. /\ status' \in [Jobs -> Statuses] /\ returncode' \in [Jobs -> Codes \cup {"none"}]
      /\ status'[j] = stat /\ returncode'[j] = rc
      /\ \A i \in Jobs : i # j => status'[i] = status[i] /\ returncode'[i] = returncode[i]
  BY <1>3
<1> DEFINE h == [k \in (DOMAIN recorded[j]) \cup {run[j]} |->
                   IF k = run[j] THEN <<stat, rc>> ELSE recorded[j][k]]
<1>5. h \in Histories
  <2>1. PICK K \in SUBSET (0 .. MaxRuns) : recorded[j] \in [K -> Statuses \X (Codes \cup {"none"})]
    BY <1>3 DEF Histories
  <2>2. run[j] \in 0 .. MaxRuns
    BY <1>3
  <2>3. h \in [K \cup {run[j]} -> Statuses \X (Codes \cup {"none"})]
    BY <2>1
  <2>4. K \cup {run[j]} \in SUBSET (0 .. MaxRuns)
    BY <2>1, <2>2
  <2> HIDE DEF h
  <2> QED BY <2>3, <2>4 DEF Histories
<1>6. DOMAIN h = (DOMAIN recorded[j]) \cup {run[j]} /\ h[run[j]] = <<stat, rc>>
  OBVIOUS
<1>7. recorded' = [recorded EXCEPT ![j] = h]
  BY <1>2
<1> HIDE DEF h
<1>8. /\ recorded' \in [Jobs -> Histories] /\ recorded'[j] = h
      /\ \A i \in Jobs : i # j => recorded'[i] = recorded[i]
  BY <1>3, <1>5, <1>7
<1>9. TableTypes'
  BY <1>1, <1>2, <1>3, <1>4, <1>8 DEF TableTypes
<1>10. \A i \in Jobs : Made(i) <=> run'[i] > 0 \/ status'[i] # "new"
  BY <1>4 DEF Made
<1>11. \A i \in Jobs : Made(i) <=> Made(i)'
  BY <1>10 DEF Made
<1>12. Known' \subseteq Known \cup {j}
  BY <1>2 DEF Known
<1>13. ASSUME NEW i \in completed', i[1] \notin overtaken' PROVE HasOutcome(i)'
  <2>1. CASE i = j
    BY <1>4, <1>13, <2>1 DEF HasOutcome
  <2>2. CASE i # j
    BY <1>2, <1>3, <1>4, <1>13, <2>2 DEF JobsTrue, HasOutcome
  <2> QED BY <2>1, <2>2
<1>14. RecordedRight'
  <2>1. ASSUME NEW i \in Jobs, NEW k \in DOMAIN recorded'[i] PROVE k <= run'[i]
    <3>1. run[i] \in Nat
      BY <1>3
    <3>2. CASE i = j
      BY <1>6, <1>8, <2>1, <3>1, <3>2 DEF RecordedRight
    <3>3. CASE i # j
      BY <1>8, <2>1, <3>3 DEF RecordedRight
    <3> QED BY <3>2, <3>3
  <2>2. ASSUME NEW i \in Jobs, i[1] \notin overtaken', run'[i] \in DOMAIN recorded'[i]
        PROVE  i \notin active' /\ recorded'[i][run'[i]] = <<status'[i], returncode'[i]>>
    <3>1. CASE i = j
      BY <1>2, <1>4, <1>6, <1>8, <3>1
    <3>2. CASE i # j
      BY <1>2, <1>4, <1>8, <2>2, <3>2 DEF RecordedRight
    <3> QED BY <3>1, <3>2
  <2> QED BY <2>1, <2>2 DEF RecordedRight
<1>15. TablesInOrder'
  <2>1. \A i \in Known' : Made(i)'
    BY <1>1, <1>11, <1>12 DEF TablesInOrder
  <2>2. ASSUME NEW i \in Jobs, Made(i)' PROVE \E k \in Known' : k[1] = i[1]
    <3>1. PICK k \in Known : k[1] = i[1]
      BY <1>11, <2>2 DEF TablesInOrder
    <3>2. CASE k[1] = j[1]
      BY <1>2, <3>1, <3>2 DEF Known
    <3>3. CASE k[1] # j[1]
      BY <1>2, <3>1, <3>3 DEF Known
    <3> QED BY <3>2, <3>3
  <2>3. ASSUME NEW i \in Jobs, ~Made(i)' PROVE DOMAIN recorded'[i] = {}
    BY <1>8, <1>11, <2>3 DEF TablesInOrder
  <2>4. IsOneOfName(active)' /\ IsOneOfName(completed)'
    BY <1>2 DEF TablesInOrder, IsOneOfName
  <2>5. \A i \in active', k \in completed' : i[1] = k[1] => run'[i] = 0 /\ i[2] > k[2]
    BY <1>2 DEF TablesInOrder
  <2>6. \A t \in Threads : \A i \in toLook'[t] : Made(i)'
    BY <1>11 DEF AreMade
  <2>7. \A t \in Threads : jm'[t] = "move" => moving'[t] \in Jobs /\ Made(moving[t])'
    BY <1>10 DEF Made
  <2> QED BY <2>1, <2>2, <2>3, <2>4, <2>5, <2>6, <2>7 DEF TablesInOrder
<1> QED BY <1>2, <1>9, <1>10, <1>12, <1>13, <1>14, <1>15

(* The statuses and return codes that the launcher tells of the active jobs.              *)
LEMMA CheckFacts ==
  ASSUME TypeOK, TasksInOrder, NoneAhead, TablesInOrder, JobsTrue, RecordedRight, CheckJobs,
         UNCHANGED <<proc, code, tasks, history, active, completed, run, overtaken>>,
         UNCHANGED <<recorded, monitored>>,
         \A t \in Threads : AreMade(t),
         \A t \in Threads : jm'[t] = "move" => moving'[t] \in Jobs /\ Made(moving'[t])
  PROVE  /\ TableTypes' /\ TablesInOrder' /\ JobsTrue' /\ RecordedRight'
         /\ \A j \in Jobs : Made(j) <=> run'[j] > 0 \/ status'[j] # "new"
<1>1. /\ status' = [j \in Jobs |-> IF j \in active THEN TaskStatus(Step(j)) ELSE status[j]]
      /\ returncode' = [j \in Jobs |-> IF j \in active THEN TaskCode(Step(j)) ELSE returncode[j]]
  BY DEF CheckJobs
<1>2. /\ status \in [Jobs -> Statuses] /\ returncode \in [Jobs -> Codes \cup {"none"}]
      /\ history \in [Steps -> Codes \cup {"absent", "none"}]
      /\ active \subseteq Jobs /\ completed \subseteq Jobs /\ TableTypes
  BY DEF TypeOK, JobTypes, TableTypes, TaskTypes, ProcessTypes
<1>3. \A j \in Jobs : Step(j) \in Steps
  BY StepOfJob
<1>4. \A s \in Steps :
        /\ history[s] = "absent" => TaskStatus(s) = "failed" /\ TaskCode(s) = "error"
        /\ history[s] = "none" => TaskStatus(s) \in {"running", "completed"} /\ TaskCode(s) = "none"
        /\ history[s] = "none" /\ s \in ToSet(tasks) /\ proc[s] = "running" => TaskStatus(s) = "running"
        /\ history[s] = "ok" => TaskStatus(s) = "completed" /\ TaskCode(s) = "ok"
        /\ history[s] \in {"error", "killed"} =>
             TaskStatus(s) = "failed" /\ TaskCode(s) = history[s]
  BY DEF TaskStatus, TaskCode
<1>5. \A s \in Steps : TaskStatus(s) \in Statuses \ {"new"} /\ TaskCode(s) \in Codes \cup {"none"}
  BY <1>2, <1>4 DEF Codes, Statuses
<1>6. TableTypes'
  <2>1. status' \in [Jobs -> Statuses] /\ returncode' \in [Jobs -> Codes \cup {"none"}]
    BY <1>1, <1>2, <1>3, <1>5
  <2> QED BY <1>2, <2>1 DEF TableTypes
<1>7. \A j \in Jobs : j \notin active => status'[j] = status[j] /\ returncode'[j] = returncode[j]
  BY <1>1
<1>8. \A j \in active : status'[j] = TaskStatus(Step(j)) /\ returncode'[j] = TaskCode(Step(j))
  BY <1>1, <1>2
<1>9. \A j \in Jobs : Made(j) <=> run'[j] > 0 \/ status'[j] # "new"
  <2> SUFFICES ASSUME NEW j \in Jobs PROVE Made(j) <=> run'[j] > 0 \/ status'[j] # "new"
    OBVIOUS
  <2>1. CASE j \in active
    <3>1. Made(j)
      BY <2>1 DEF TablesInOrder, Known
    <3>2. status'[j] # "new"
      BY <1>3, <1>5, <1>8, <2>1
    <3> QED BY <3>1, <3>2
  <2>2. CASE j \notin active
    BY <1>7, <2>2 DEF Made
  <2> QED BY <2>1, <2>2
<1>10. TablesInOrder'
  BY <1>9, TablesStay
<1>11. RecordedRight'
  BY <1>7, HistoriesStay
<1>12. ASSUME NEW j \in active, j[1] \notin overtaken PROVE JobIsTrue(j)'
  <2>1. /\ status'[j] = TaskStatus(Step(j)) /\ returncode'[j] = TaskCode(Step(j))
        /\ Step(j)' = Step(j) /\ Step(j) \in Steps /\ j \in Jobs
    BY <1>2, <1>3, <1>8 DEF Step
  <2>2. Tracked(Step(j))
    BY <1>12 DEF JobsTrue, Known, JobIsTrue
  <2>3. proc[Step(j)] = "running" => status'[j] = "running"
    BY <1>4, <2>1, <2>2 DEF Tracked, TasksInOrder, Accounted, RunsWithoutCode
  <2>4. Owned(Step(j)) => history[Step(j)] # "absent"
    BY <2>1 DEF NoneAhead, Owned, Step
  <2>5. Owned(Step(j)) /\ history[Step(j)] \in Codes => history[Step(j)] = code[Step(j)]
    BY <2>1 DEF TasksInOrder, Accounted, CodeIsOfProcess
  <2>6. /\ Tracked(Step(j))'
        /\ status'[j] \in TerminalStatuses => proc'[Step(j)] # "running"
    BY <2>1, <2>2, <2>3 DEF Tracked, TerminalStatuses
  <2>7. ASSUME Owned(Step(j)), returncode'[j] # "none"
        PROVE  /\ status'[j] = "completed" => code[Step(j)] = "ok"
               /\ status'[j] = "failed" => code[Step(j)] \in {"error", "killed"}
    <3>1. history[Step(j)] \in Codes
      BY <1>2, <1>4, <2>1, <2>4, <2>7
    <3>2. history[Step(j)] = code[Step(j)]
      BY <2>5, <2>7, <3>1
    <3> QED BY <1>4, <2>1, <3>1, <3>2 DEF Codes
  <2> QED BY <2>1, <2>6, <2>7 DEF JobIsTrue, Owned
<1>13. ASSUME NEW j \in Known \ active, j[1] \notin overtaken PROVE JobIsTrue(j)'
  <2>1. JobIsTrue(j) /\ j \in Jobs
    BY <1>2, <1>13 DEF JobsTrue, Known
  <2>2. Declines(Step(j))
    <3>1. Step(j) \in Steps
      BY <2>1, StepOfJob
    <3> QED BY <3>1 DEF Declines
  <2>3. run'[j] = run[j] /\ status'[j] = status[j] /\ returncode'[j] = returncode[j]
    BY <1>7, <1>13, <2>1
  <2> QED BY <2>1, <2>2, <2>3, JobStays
<1>14. Known' = Known
  BY DEF Known
<1>15. \A j \in completed' : j[1] \notin overtaken' => HasOutcome(j)'
  <2>1. active \cap completed = {}
    BY <1>2, LoadsAssumption DEF TablesInOrder, Jobs
  <2> QED BY <1>2, <1>7, <2>1 DEF JobsTrue, HasOutcome
<1>16. JobsTrue'
  BY <1>12, <1>13, <1>14, <1>15 DEF JobsTrue
<1> QED BY <1>6, <1>9, <1>10, <1>11, <1>16

(* The thread that watches the jobs.                                                    *)
LEMMA ManagerKeeps ==
  ASSUME ControlInv, NEW t \in Threads, JobMonitor(t), UNCHANGED <<taskVars, mainVars>>
  PROVE  ControlInv'
<1>1. /\ TypeOK /\ TasksInOrder /\ NoneAhead /\ TablesInOrder /\ JobsTrue /\ RecordedRight
      /\ MainInOrder /\ OneAtATime
      /\ TaskTypes /\ TableTypes /\ ManagerTypes /\ MainTypes /\ Known \subseteq Jobs
  BY KnownJobs DEF ControlInv, TypeOK, JobTypes
<1>2. /\ UNCHANGED <<proc, code, tasks, history>> /\ UNCHANGED <<watching, tm, at, held, starting, dropped>>
      /\ UNCHANGED <<script, main, queue, launched, signalled>>
  BY DEF taskVars, processVars, threadVars, startVars, mainVars
<1>3. TaskTypes' /\ MainTypes'
  BY <1>1, <1>2 DEF TaskTypes, ProcessTypes, WatchTypes, StartTypes, MainTypes
<1>4. TasksInOrder' /\ \A s \in Steps : Declines(s)
  <2>1. /\ \A s \in Steps : s = starting \/ s \in dropped => s = starting' \/ s \in dropped'
        /\ \A u \in Threads : tm'[u] \in {"record", "remove"} => tm'[u] = tm[u] /\ held'[u] = held[u]
    BY <1>2
  <2> QED BY <1>1, <1>2, <2>1, TasksStay
<1>5. ASSUME run' = run, active' \subseteq active, \A j \in completed : \E i \in completed' : i[1] = j[1],
             overtaken \subseteq overtaken',
             \A j \in active \ active' : j[1] \in overtaken' \/ proc[Step(j)] # "running",
             \A j \in Jobs : Made(j) <=> run'[j] > 0 \/ status'[j] # "new",
             TableTypes', ManagerTypes', TablesInOrder', JobsTrue', RecordedRight'
      PROVE  ControlInv'
  <2>1. NoneAhead'
    <3>1. /\ UNCHANGED <<run, launched>> /\ ToSet(tasks') \subseteq ToSet(tasks)
          /\ \A u \in Threads : held'[u] \in {held[u], NoStep} \cup ToSet(tasks)
          /\ \A s \in Steps : s = starting' \/ s \in dropped' => s = starting \/ s \in dropped
          /\ starting' \notin dropped'
      BY <1>1, <1>2, <1>5 DEF NoneAhead
    <3> QED BY <1>1, <1>4, <3>1, NoneAheadStays
  <2>2. MainInOrder'
    <3>1. /\ UNCHANGED <<script, main, queue, launched, starting, run>>
          /\ \A s \in Steps : history[s] # "absent" => history'[s] # "absent"
      BY <1>2, <1>5
    <3> QED BY <1>1, <1>5, <3>1, MainStays
  <2>3. OneAtATime'
    <3>1. /\ UNCHANGED <<run, launched, starting>>
          /\ main = "register" => main' = main /\ queue' = queue
          /\ \A s \in Steps : proc'[s] = "running" => proc[s] = "running"
          /\ \A j \in active \ active' : j[1] \in overtaken' \/ proc'[Step(j)] # "running"
          /\ \A j \in Jobs : run'[j] > 0 \/ status'[j] # "new" => Made(j)
      BY <1>2, <1>5
    <3> QED BY <1>1, <1>5, <3>1, ProcessStays
  <2> QED BY <1>3, <1>4, <1>5, <2>1, <2>2, <2>3 DEF ControlInv, TypeOK, JobTypes
<1>6. ASSUME UNCHANGED <<tableVars, jobVars, overtaken>>, ManagerTypes',
             \A u \in Threads : AreMade(u),
             \A u \in Threads : jm'[u] = "move" => moving'[u] \in Jobs /\ Made(moving'[u])
      PROVE  ControlInv'
  <2>1. /\ UNCHANGED <<active, completed, run, status, returncode>> /\ UNCHANGED <<recorded, run>>
        /\ UNCHANGED <<monitored, overtaken>> /\ UNCHANGED <<active, completed, run, recorded>>
    BY <1>6 DEF tableVars, jobVars
  <2>2. TableTypes'
    BY <1>1, <1>6, <2>1 DEF TableTypes
  <2>3. \A j \in Jobs : Made(j) <=> run'[j] > 0 \/ status'[j] # "new"
    BY <2>1 DEF Made
  <2>4. TablesInOrder'
    BY <1>1, <1>6, <2>1, <2>3, TablesStay
  <2>5. JobsTrue'
    <3>1. overtaken \subseteq overtaken'
      BY <2>1
    <3> QED BY <1>1, <1>4, <2>1, <3>1, JobsStay
  <2>6. RecordedRight'
    BY <1>1, <2>1, HistoriesStay
  <2> QED BY <1>5, <1>6, <2>1, <2>2, <2>3, <2>4, <2>5, <2>6
<1>7. \A u \in Threads : toLook[u] \subseteq Jobs /\ \A j \in toLook[u] : j \in Jobs /\ Made(j)
  BY <1>1 DEF ManagerTypes, TablesInOrder
<1>8. CASE ManagerBegin(t) \/ ManagerLoop(t) \/ ManagerEmpty(t) \/ ManagerClear(t)
  <2>1. /\ UNCHANGED <<tableVars, jobVars, toLook, moving, overtaken>> /\ monitoring' \in BOOLEAN
        /\ jm' \in [Threads -> JobPlaces] /\ \A u \in Threads : jm'[u] = "move" => jm[u] = "move"
    <3>1. CASE ManagerBegin(t)
      BY <1>1, <3>1 DEF ManagerBegin, ManagerTypes, JobPlaces
    <3>2. CASE ManagerLoop(t)
      BY <1>1, <3>2 DEF ManagerLoop, ManagerTypes, JobPlaces
    <3>3. CASE ManagerEmpty(t)
      BY <1>1, <3>3 DEF ManagerEmpty, ManagerTypes, JobPlaces
    <3>4. CASE ManagerClear(t)
      BY <1>1, <3>4 DEF ManagerClear, ManagerTypes, JobPlaces
    <3> QED BY <1>8, <3>1, <3>2, <3>3, <3>4
  <2>2. /\ \A u \in Threads : AreMade(u)
        /\ \A u \in Threads : jm'[u] = "move" => moving'[u] \in Jobs /\ Made(moving'[u])
    BY <1>1, <1>7, <2>1 DEF TablesInOrder, AreMade
  <2>3. ManagerTypes'
    BY <1>1, <2>1 DEF ManagerTypes
  <2> QED BY <1>6, <2>1, <2>2, <2>3
<1>9. CASE ManagerLook(t)
  <2>1. /\ UNCHANGED <<tableVars, jobVars, monitoring, overtaken>>
        /\ \E j \in toLook[t] :
             /\ toLook' = [toLook EXCEPT ![t] = @ \ {j}]
             /\ \/ moving' = [moving EXCEPT ![t] = j] /\ jm' = [jm EXCEPT ![t] = "move"]
                \/ UNCHANGED <<moving, jm>>
    BY <1>9 DEF ManagerLook
  <2>2. PICK j \in toLook[t] :
             /\ toLook' = [toLook EXCEPT ![t] = @ \ {j}]
             /\ \/ moving' = [moving EXCEPT ![t] = j] /\ jm' = [jm EXCEPT ![t] = "move"]
                \/ UNCHANGED <<moving, jm>>
    BY <2>1
  <2>3. j \in Jobs /\ Made(j)
    BY <1>7
  <2>4. /\ toLook' \in [Threads -> SUBSET Jobs]
        /\ \A u \in Threads : toLook'[u] \subseteq toLook[u]
    BY <1>1, <2>2 DEF ManagerTypes
  <2>5. /\ moving' \in [Threads -> Jobs \cup {NoJob}] /\ jm' \in [Threads -> JobPlaces]
        /\ \A u \in Threads : \/ moving'[u] = j
                              \/ moving'[u] = moving[u] /\ jm'[u] = jm[u]
    BY <1>1, <2>2, <2>3 DEF ManagerTypes, JobPlaces
  <2>6. /\ \A u \in Threads : AreMade(u)
        /\ \A u \in Threads : jm'[u] = "move" => moving'[u] \in Jobs /\ Made(moving'[u])
    BY <1>1, <1>7, <2>3, <2>4, <2>5 DEF TablesInOrder, AreMade
  <2>7. ManagerTypes' /\ UNCHANGED <<tableVars, jobVars, overtaken>>
    BY <1>1, <2>1, <2>4, <2>5 DEF ManagerTypes
  <2> QED BY <1>6, <2>6, <2>7
<1>10. CASE ManagerCheck(t)
  <2>1. /\ CheckJobs /\ UNCHANGED <<active, completed, monitored, run, recorded, monitoring, moving, overtaken>>
        /\ toLook' = [toLook EXCEPT ![t] = active] /\ jm' = [jm EXCEPT ![t] = "look"]
    BY <1>10 DEF ManagerCheck, tableVars
  <2>2. /\ jm' \in [Threads -> JobPlaces] /\ toLook' \in [Threads -> SUBSET Jobs]
        /\ \A u \in Threads : /\ toLook'[u] = IF u = t THEN active ELSE toLook[u]
                              /\ jm'[u] = "move" => jm[u] = "move"
    BY <1>1, <2>1 DEF ManagerTypes, TableTypes, JobPlaces
  <2>3. \A j \in active : j \in Jobs /\ Made(j)
    BY <1>1 DEF TablesInOrder, Known
  <2>4. /\ \A u \in Threads : AreMade(u)
        /\ \A u \in Threads : jm'[u] = "move" => moving'[u] \in Jobs /\ Made(moving'[u])
    BY <1>1, <1>7, <2>1, <2>2, <2>3 DEF TablesInOrder, AreMade
  <2>5. /\ UNCHANGED <<proc, code, tasks, history, active, completed, run, overtaken>>
        /\ UNCHANGED <<recorded, monitored>>
    BY <1>2, <2>1
  <2>6. /\ TableTypes' /\ TablesInOrder' /\ JobsTrue' /\ RecordedRight'
        /\ \A j \in Jobs : Made(j) <=> run'[j] > 0 \/ status'[j] # "new"
    BY <1>1, <2>1, <2>4, <2>5, CheckFacts
  <2>7. ManagerTypes'
    BY <1>1, <2>1, <2>2 DEF ManagerTypes
  <2>8. /\ run' = run /\ active' \subseteq active /\ overtaken \subseteq overtaken'
        /\ \A j \in completed : \E i \in completed' : i[1] = j[1]
        /\ \A j \in active \ active' : j[1] \in overtaken' \/ proc[Step(j)] # "running"
    BY <2>1
  <2> QED BY <1>5, <2>6, <2>7, <2>8
<1>11. CASE ManagerMove(t)
  <2> DEFINE j == moving[t]
  <2>1. /\ MoveToCompleted(j, status[j], returncode[j])
        /\ overtaken' = IF IsOver(j) /\ j \in Found(j[1]) THEN overtaken ELSE overtaken \cup {j[1]}
        /\ moving' = [moving EXCEPT ![t] = NoJob] /\ jm' = [jm EXCEPT ![t] = "look"]
        /\ jm[t] = "move" /\ UNCHANGED <<run, status, returncode, monitoring, toLook>>
    BY <1>11 DEF ManagerMove
  <2>2. j \in Jobs /\ Made(j) /\ j[1] \in Entities
    BY <1>1, <2>1, StepOfJob DEF TablesInOrder
  <2> HIDE DEF j
  <2>3. /\ status[j] \in Statuses /\ returncode[j] \in Codes \cup {"none"}
        /\ status' = [status EXCEPT ![j] = status[j]]
        /\ returncode' = [returncode EXCEPT ![j] = returncode[j]]
    BY <1>1, <2>1, <2>2 DEF TableTypes
  <2>4. /\ overtaken' \in SUBSET Entities /\ overtaken \subseteq overtaken'
        /\ j[1] \in overtaken' \/ (IsOver(j) /\ j \in Found(j[1]))
    BY <1>1, <2>1, <2>2 DEF TableTypes
  <2>5. j[1] \in overtaken' \/ (status[j] \in TerminalStatuses /\ (status[j] = "cancelled" \/ returncode[j] # "none"))
    BY <2>4 DEF IsOver
  <2>6. /\ jm' \in [Threads -> JobPlaces] /\ moving' \in [Threads -> Jobs \cup {NoJob}]
        /\ \A u \in Threads : jm'[u] = "move" => jm[u] = "move" /\ moving'[u] = moving[u]
    BY <1>1, <2>1 DEF ManagerTypes, JobPlaces
  <2>7. /\ \A u \in Threads : AreMade(u)
        /\ \A u \in Threads : jm'[u] = "move" => moving'[u] \in Jobs /\ Made(moving'[u])
    BY <1>1, <1>7, <2>1, <2>6 DEF TablesInOrder, AreMade
  <2>8. status[j] = status[j] \/ status[j] # "new"
    OBVIOUS
  <2>9. run' = run
    BY <2>1
  <2>10. /\ TableTypes' /\ TablesInOrder' /\ RecordedRight'
         /\ \A i \in completed' : i[1] \notin overtaken' => HasOutcome(i)'
         /\ active' = {i \in active : i[1] # j[1]} /\ Known' \subseteq Known \cup {j}
         /\ completed' = {i \in completed : i[1] # j[1]} \cup {j}
         /\ \A i \in Jobs : Made(i) <=> run'[i] > 0 \/ status'[i] # "new"
    BY <1>1, <2>1, <2>2, <2>3, <2>4, <2>5, <2>7, <2>8, <2>9, MoveFacts
  <2>11. ManagerTypes'
    BY <1>1, <2>1, <2>6 DEF ManagerTypes
  <2>12. j[1] \notin overtaken' => j \in Known /\ (\A i \in active : i[1] = j[1] => i = j)
    BY <1>1, <2>4 DEF Found, Of, Known, TablesInOrder, IsOneOfName
  <2>13. ASSUME NEW i \in Known', i[1] \notin overtaken' PROVE JobIsTrue(i)'
    <3>1. i \in Known /\ i[1] \notin overtaken
      BY <2>4, <2>10, <2>12, <2>13
    <3>2. i \in Jobs /\ JobIsTrue(i)
      BY <1>1, <3>1 DEF JobsTrue
    <3>3. Declines(Step(i))
      BY <1>1, <1>4, <3>2, StepOfJob
    <3>4. run'[i] = run[i] /\ status'[i] = status[i] /\ returncode'[i] = returncode[i]
      BY <2>1
    <3> QED BY <3>2, <3>3, <3>4, JobStays
  <2>14. JobsTrue'
    BY <2>10, <2>13 DEF JobsTrue
  <2>15. ASSUME NEW i \in active \ active', i[1] \notin overtaken' PROVE proc[Step(i)] # "running"
    <3>1. i = j /\ i \in Known /\ i[1] \notin overtaken
      BY <2>4, <2>10, <2>12, <2>15
    <3> QED BY <1>1, <2>4, <2>15, <3>1 DEF JobsTrue, JobIsTrue, IsOver
  <2>16. active' \subseteq active /\ \A i \in completed : \E k \in completed' : k[1] = i[1]
    <3> SUFFICES ASSUME NEW i \in completed PROVE \E k \in completed' : k[1] = i[1]
      BY <2>10
    <3>1. CASE i[1] = j[1]
      BY <2>10, <3>1
    <3>2. CASE i[1] # j[1]
      BY <2>10, <3>2
    <3> QED BY <3>1, <3>2
  <2> QED BY <1>5, <2>4, <2>9, <2>10, <2>11, <2>14, <2>15, <2>16
<1> QED BY <1>8, <1>9, <1>10, <1>11 DEF JobMonitor

-----------------------------------------------------------------------------
(* The main thread: what changes neither tasks nor jobs.                             *)
LEMMA MainKeeps ==
  ASSUME ControlInv, main # "register",
         UNCHANGED <<proc, code, tasks, history, watching, at, held>>, UNCHANGED <<starting, dropped>>,
         UNCHANGED <<active, completed, run, status, returncode, recorded, overtaken>>,
         UNCHANGED <<monitoring, toLook, moving, script, launched, signalled>>,
         tm' \in [Threads -> TaskPlaces], \A u \in Threads : tm'[u] \in {tm[u], "start"},
         jm' \in [Threads -> JobPlaces], \A u \in Threads : jm'[u] \in {jm[u], "start"},
         monitored' \in SUBSET Entities,
         main' \in MainPlaces, queue' \in Seq(Entities), MainInOrder'
  PROVE  ControlInv'
<1>1. /\ TypeOK /\ TasksInOrder /\ NoneAhead /\ TablesInOrder /\ JobsTrue /\ RecordedRight /\ OneAtATime
      /\ TaskTypes /\ JobTypes /\ MainTypes
  BY DEF ControlInv, TypeOK
<1>2. TaskTypes' /\ JobTypes' /\ MainTypes'
  <2>1. TaskTypes'
    BY <1>1 DEF TaskTypes, ProcessTypes, WatchTypes, StartTypes
  <2>2. JobTypes'
    BY <1>1 DEF JobTypes, TableTypes, ManagerTypes
  <2>3. MainTypes'
    BY <1>1 DEF MainTypes
  <2> QED BY <2>1, <2>2, <2>3
<1>3. TasksInOrder' /\ \A s \in Steps : Declines(s)
  <2>1. /\ UNCHANGED <<proc, code, tasks, history>>
        /\ \A s \in Steps : s = starting \/ s \in dropped => s = starting' \/ s \in dropped'
        /\ \A u \in Threads : tm'[u] \in {"record", "remove"} => tm'[u] = tm[u] /\ held'[u] = held[u]
    OBVIOUS
  <2> QED BY <1>1, <2>1, TasksStay
<1>4. NoneAhead'
  <2>1. /\ UNCHANGED <<run, launched>> /\ ToSet(tasks') \subseteq ToSet(tasks)
        /\ \A u \in Threads : held'[u] \in {held[u], NoStep} \cup ToSet(tasks)
        /\ \A s \in Steps : s = starting' \/ s \in dropped' => s = starting \/ s \in dropped
        /\ starting' \notin dropped'
    BY <1>1 DEF NoneAhead
  <2> QED BY <1>1, <1>3, <2>1, NoneAheadStays
<1>5. TablesInOrder'
  <2>1. /\ \A u \in Threads : AreMade(u)
        /\ \A u \in Threads : jm'[u] = "move" => moving'[u] \in Jobs /\ Made(moving'[u])
        /\ \A j \in Jobs : Made(j) <=> run'[j] > 0 \/ status'[j] # "new"
        /\ UNCHANGED <<active, completed, run, recorded>>
    BY <1>1 DEF TablesInOrder, AreMade, Made, JobTypes, ManagerTypes
  <2> QED BY <1>1, <2>1, TablesStay
<1>6. JobsTrue'
  <2>1. UNCHANGED <<active, completed, run, status, returncode>> /\ overtaken \subseteq overtaken'
    OBVIOUS
  <2> QED BY <1>1, <1>3, <2>1, JobsStay
<1>7. RecordedRight'
  BY <1>1, HistoriesStay
<1>8. OneAtATime'
  <2>1. /\ UNCHANGED <<run, launched, starting>> /\ overtaken \subseteq overtaken'
        /\ main = "register" => main' = main /\ queue' = queue
        /\ \A s \in Steps : proc'[s] = "running" => proc[s] = "running"
        /\ \A j \in active \ active' : j[1] \in overtaken' \/ proc'[Step(j)] # "running"
        /\ \A j \in Jobs : run'[j] > 0 \/ status'[j] # "new" => Made(j)
    BY DEF Made
  <2> QED BY <1>1, <2>1, ProcessStays
<1> QED BY <1>2, <1>3, <1>4, <1>5, <1>6, <1>7, <1>8 DEF ControlInv, TypeOK

LEMMA MainCallsKeep ==
  ASSUME ControlInv, Start \/ LaunchStep \/ AddMonitor \/ BeginManager \/ DBRuns \/ SetHosts \/ Poll \/ EndPoll
  PROVE  ControlInv'
<1> USE DEF taskVars, processVars, threadVars, startVars, managerVars, tableVars, jobVars, watchVars, mainVars
<1>1. /\ MainInOrder /\ MainTypes
      /\ tm \in [Threads -> TaskPlaces] /\ jm \in [Threads -> JobPlaces]
      /\ monitored \in SUBSET Entities /\ queue \in Seq(Entities)
  BY DEF ControlInv, TypeOK, TaskTypes, WatchTypes, JobTypes, TableTypes, ManagerTypes, MainTypes
<1>2. ASSUME queue # <<>>
      PROVE  Tail(queue) \in Seq(Entities) /\ Head(queue) \in Entities
  BY <1>1, <1>2, TailElements
<1>3. starting # NoStep => main = "spawn"
  BY <1>1 DEF MainInOrder
<1>4. ASSUME main \in {"monitor", "hosts"}, Launched, UNCHANGED <<launched, script, starting>>
      PROVE  main' \in MainPlaces /\ queue' \in Seq(Entities) /\ MainInOrder'
  <2>1. queue # <<>> /\ ManifestFits(Tail(queue))
    BY <1>1, <1>4 DEF MainInOrder
  <2>2. queue' = Tail(queue) /\ main' = IF queue' = <<>> THEN "begin" ELSE "launch"
    BY <1>4 DEF Launched
  <2> QED BY <1>2, <1>3, <1>4, <2>1, <2>2 DEF MainInOrder, ManifestFits, MainPlaces
<1>5. CASE Start
  <2>1. PICK m \in script.manifests :
          /\ \A e \in ToSet(m) : launched[e] + Occurrences(e, m) <= script.runs[e]
          /\ queue' = m /\ main' = IF m = <<>> THEN "begin" ELSE "launch"
    BY <1>5 DEF Start
  <2>2. m \in Seq(Entities)
    BY <1>1, ControllerAssumption DEF MainTypes
  <2>3. /\ main = "idle"
        /\ UNCHANGED <<proc, code, tasks, history, watching, at, held>> /\ UNCHANGED <<starting, dropped>>
        /\ UNCHANGED <<active, completed, run, status, returncode, recorded, overtaken>>
        /\ UNCHANGED <<monitoring, toLook, moving, script, launched, signalled>>
        /\ UNCHANGED <<tm, jm, monitored>>
    BY <1>5 DEF Start
  <2>4. MainInOrder' /\ main' \in MainPlaces
    BY <1>3, <2>1, <2>3 DEF MainInOrder, ManifestFits, MainPlaces
  <2> QED BY <1>1, <2>1, <2>2, <2>3, <2>4, MainKeeps
<1>6. CASE LaunchStep
  <2>1. /\ main = "launch"
        /\ UNCHANGED <<proc, code, tasks, history, watching, at, held>> /\ UNCHANGED <<starting, dropped>>
        /\ UNCHANGED <<active, completed, run, status, returncode, recorded, overtaken>>
        /\ UNCHANGED <<monitoring, toLook, moving, script, launched, signalled>>
        /\ UNCHANGED <<jm, monitored, queue>>
        /\ \/ main' = "idle" /\ tm' = tm
           \/ /\ Of(Head(queue), active) = {} \/ Of(Head(queue), completed) # {}
              /\ main' = "spawn" /\ StartMonitor(script.threads)
    BY <1>6 DEF LaunchStep
  <2>2. tm' = tm \/ \E k : tm' = [tm EXCEPT ![k] = "start"]
    BY <2>1 DEF StartMonitor
  <2>3. tm' \in [Threads -> TaskPlaces] /\ \A u \in Threads : tm'[u] \in {tm[u], "start"}
    BY <1>1, <2>2 DEF TaskPlaces
  <2>4. MainInOrder' /\ main' \in MainPlaces
    BY <1>1, <1>3, <2>1 DEF MainInOrder, ManifestFits, MainPlaces
  <2> QED BY <1>1, <2>1, <2>3, <2>4, MainKeeps
<1>7. CASE AddMonitor
  <2>1. /\ main = "monitor" /\ Launched /\ monitored' = monitored \cup {Head(queue)}
        /\ UNCHANGED <<proc, code, tasks, history, watching, at, held>> /\ UNCHANGED <<starting, dropped>>
        /\ UNCHANGED <<active, completed, run, status, returncode, recorded, overtaken>>
        /\ UNCHANGED <<monitoring, toLook, moving, script, launched, signalled>>
        /\ UNCHANGED <<tm, jm>>
    BY <1>7 DEF AddMonitor
  <2>2. main' \in MainPlaces /\ queue' \in Seq(Entities) /\ MainInOrder'
    BY <1>4, <2>1
  <2>3. monitored' \in SUBSET Entities
    BY <1>1, <1>2, <2>1 DEF MainInOrder
  <2> QED BY <1>1, <2>1, <2>2, <2>3, MainKeeps
<1>8. CASE BeginManager
  <2>1. /\ main = "begin" /\ main' \in {"idle", "poll"} /\ StartManager(script.threads)
        /\ UNCHANGED <<proc, code, tasks, history, watching, at, held>> /\ UNCHANGED <<starting, dropped>>
        /\ UNCHANGED <<active, completed, run, status, returncode, recorded, overtaken>>
        /\ UNCHANGED <<monitoring, toLook, moving, script, launched, signalled>>
        /\ UNCHANGED <<tm, monitored, queue>>
    BY <1>8 DEF BeginManager
  <2>2. jm' = jm \/ \E k : jm' = [jm EXCEPT ![k] = "start"]
    BY <2>1 DEF StartManager
  <2>3. jm' \in [Threads -> JobPlaces] /\ \A u \in Threads : jm'[u] \in {jm[u], "start"}
    BY <1>1, <2>2 DEF JobPlaces
  <2>4. MainInOrder' /\ main' \in MainPlaces
    BY <1>3, <2>1 DEF MainInOrder, MainPlaces
  <2> QED BY <1>1, <2>1, <2>3, <2>4, MainKeeps
<1>9. CASE SetHosts
  <2>1. /\ main = "hosts"
        /\ UNCHANGED <<proc, code, tasks, history, watching, at, held>> /\ UNCHANGED <<starting, dropped>>
        /\ UNCHANGED <<active, completed, run, status, returncode, recorded, overtaken>>
        /\ UNCHANGED <<monitoring, toLook, moving, script, launched, signalled>>
        /\ UNCHANGED <<tm, jm, monitored>>
        /\ Launched \/ (main' = "idle" /\ queue' = queue)
    BY <1>9 DEF SetHosts
  <2>2. main' \in MainPlaces /\ queue' \in Seq(Entities) /\ MainInOrder'
    <3>1. CASE Launched
      BY <1>4, <2>1, <3>1
    <3>2. CASE main' = "idle" /\ queue' = queue
      BY <1>1, <1>3, <2>1, <3>2 DEF MainInOrder, MainPlaces
    <3> QED BY <2>1, <3>1, <3>2
  <2> QED BY <1>1, <2>1, <2>2, MainKeeps
<1>10. CASE DBRuns \/ Poll \/ EndPoll
  <2>1. /\ UNCHANGED <<proc, code, tasks, history, watching, at, held>> /\ UNCHANGED <<starting, dropped>>
        /\ UNCHANGED <<active, completed, run, status, returncode, recorded, overtaken>>
        /\ UNCHANGED <<monitoring, toLook, moving, script, launched, signalled>>
        /\ UNCHANGED <<tm, jm, monitored, queue>>
        /\ main \notin {"register", "spawn"}
        /\ (main = "wait" /\ main' = "hosts") \/ main' \in {"idle", "poll"}
    BY <1>10 DEF DBRuns, Poll, EndPoll
  <2>2. MainInOrder' /\ main' \in MainPlaces
    <3>1. CASE main = "wait" /\ main' = "hosts"
      BY <1>1, <1>3, <2>1, <3>1 DEF MainInOrder, ManifestFits, MainPlaces
    <3>2. CASE main' \in {"idle", "poll"}
      BY <1>3, <2>1, <3>2 DEF MainInOrder, MainPlaces
    <3> QED BY <2>1, <3>1, <3>2
  <2> QED BY <1>1, <2>1, <2>2, MainKeeps
<1> QED BY <1>5, <1>6, <1>7, <1>8, <1>9, <1>10

(* A launch changes no table of jobs and no step but the one that it starts, which no   *)
(* job has yet.                                                                     *)
LEMMA LaunchLeavesJobs ==
  ASSUME ControlInv, NEW f \in Steps, \A s \in Steps : s # f => Declines(s),
         \A j \in Jobs : Step(j) # f, UNCHANGED managerVars
  PROVE  JobTypes' /\ TablesInOrder' /\ JobsTrue' /\ RecordedRight'
<1>1. /\ TypeOK /\ TablesInOrder /\ JobsTrue /\ RecordedRight /\ JobTypes
  BY DEF ControlInv, TypeOK
<1>2. /\ UNCHANGED <<active, completed, run, status, returncode>> /\ UNCHANGED <<recorded, run>>
      /\ UNCHANGED <<monitored, monitoring, jm, toLook, moving, overtaken>>
      /\ UNCHANGED <<active, completed, run, recorded>>
  BY DEF managerVars, tableVars, jobVars, watchVars
<1>3. JobTypes'
  BY <1>1, <1>2 DEF JobTypes, TableTypes, ManagerTypes
<1>4. TablesInOrder'
  <2>1. /\ \A t \in Threads : AreMade(t)
        /\ \A t \in Threads : jm'[t] = "move" => moving'[t] \in Jobs /\ Made(moving'[t])
        /\ \A j \in Jobs : Made(j) <=> run'[j] > 0 \/ status'[j] # "new"
    BY <1>1, <1>2 DEF TablesInOrder, AreMade, Made, JobTypes, ManagerTypes
  <2> QED BY <1>1, <1>2, <2>1, TablesStay
<1>5. JobsTrue'
  <2>1. \A j \in Known : Declines(Step(j))
    BY <1>1, KnownJobs, StepOfJob
  <2>2. overtaken \subseteq overtaken'
    BY <1>2
  <2> QED BY <1>1, <1>2, <2>1, <2>2, KnownStay
<1>6. RecordedRight'
  BY <1>1, <1>2, HistoriesStay
<1> QED BY <1>3, <1>4, <1>5, <1>6

(* A step that starts was not known before.                                           *)
LEMMA SpawnKeeps == ASSUME ControlInv, Spawn PROVE ControlInv'
<1> DEFINE e == Head(queue)
           f == NextStep(e)
<1>1. /\ TypeOK /\ TasksInOrder /\ NoneAhead /\ TablesInOrder /\ MainInOrder /\ OneAtATime
      /\ TaskTypes /\ JobTypes /\ MainTypes /\ Accounted
  BY DEF ControlInv, TypeOK, TasksInOrder
<1>2. /\ main = "spawn" /\ starting = NoStep /\ launched' = [launched EXCEPT ![e] = @ + 1]
      /\ UNCHANGED <<code, tasks, history, dropped>>
      /\ \/ proc' = [proc EXCEPT ![f] = "running"] /\ starting' = f /\ main' = main
         \/ main' = "idle" /\ UNCHANGED <<proc, starting>>
      /\ UNCHANGED <<watching, tm, at, held>> /\ UNCHANGED managerVars
      /\ UNCHANGED <<script, queue, signalled>>
  BY DEF Spawn, StartTask, processVars, startVars, threadVars
<1>3. /\ UNCHANGED <<active, completed, run, status>> /\ overtaken' = overtaken
  BY <1>2 DEF managerVars, tableVars, jobVars
<1>4. queue # <<>> /\ queue \in Seq(Entities) /\ ManifestFits(queue)
  BY <1>1, <1>2 DEF MainInOrder, MainTypes
<1>5. /\ e \in Entities /\ Tail(queue) \in Seq(Entities)
      /\ ToSet(queue) = ToSet(Tail(queue)) \cup {e}
  BY <1>4, TailElements
<1>6. /\ launched \in [Entities -> 0 .. MaxRuns] /\ launched[e] \in Nat /\ MaxRuns \in Nat
      /\ script.runs \in [Entities -> 0 .. MaxRuns] /\ script.runs[e] \in Nat /\ script.runs[e] <= MaxRuns
  <2>1. script.runs \in [Entities -> 0 .. MaxRuns]
    BY <1>1, ControllerAssumption DEF MainTypes
  <2> QED BY <1>1, <1>5, <2>1, TaskAssumption DEF MainTypes
<1>7. \A x : /\ Occurrences(x, queue) \in Nat /\ Occurrences(x, Tail(queue)) \in Nat
             /\ Occurrences(x, queue) = Occurrences(x, Tail(queue)) + (IF e = x THEN 1 ELSE 0)
  BY <1>4, TailOccurrences
<1>8. launched[e] + 1 <= MaxRuns
  <2>1. launched[e] + Occurrences(e, queue) <= script.runs[e]
    BY <1>4, <1>5 DEF ManifestFits
  <2>2. Occurrences(e, queue) \in Nat /\ Occurrences(e, queue) >= 1
    BY <1>7
  <2> QED BY <1>6, <2>1, <2>2
<1>9. f \in Steps /\ f[1] = e /\ f[2] = launched[e] + 1 /\ f = <<e, launched[e] + 1>> /\ Owned(f)
  BY <1>5, <1>6, <1>8 DEF NextStep, Steps, Owned
<1>10. /\ launched' \in [Entities -> 0 .. MaxRuns] /\ launched'[e] = launched[e] + 1
       /\ \A x \in Entities : x # e => launched'[x] = launched[x]
       /\ \A x \in Entities : launched[x] \in Nat /\ launched'[x] \in Nat /\ launched[x] <= launched'[x]
  BY <1>2, <1>5, <1>6, <1>8
<1>11. /\ ToSet(tasks) \subseteq Steps /\ \A s \in Steps : s[1] \in Entities /\ s[2] \in Nat
       /\ NoStep \notin Steps
  BY <1>1, ElementPositions, TaskAssumption DEF TaskTypes, ProcessTypes, Steps, NoStep
<1>12. /\ f \notin ToSet(tasks) /\ history[f] = "absent" /\ (\A t \in Threads : held[t] # f)
       /\ f \notin dropped /\ proc[f] = "none" /\ code[f] = "none"
  <2>1. ~WasLaunched(f)
    BY <1>6, <1>9 DEF WasLaunched
  <2>2. proc[f] = "none"
    BY <1>1, <1>9, <2>1 DEF NoneAhead
  <2> QED BY <1>1, <1>9, <2>1, <2>2 DEF NoneAhead, Unlisted, Accounted, NoCodeYet
<1>13. \A j \in Jobs : Step(j) # f /\ Step(j) \in Steps /\ Step(j)' = Step(j)
  <2> SUFFICES ASSUME NEW j \in Jobs PROVE Step(j) # f /\ Step(j) \in Steps /\ Step(j)' = Step(j)
    OBVIOUS
  <2>1. Step(j) \in Steps /\ Step(j)' = Step(j) /\ Step(j)[1] = j[1] /\ Step(j)[2] = run[j]
    BY <1>1, <1>3, StepOfJob DEF Step
  <2>2. run[j] <= launched[j[1]] /\ run[j] \in Nat
    BY <1>1, <1>6 DEF NoneAhead, JobTypes, TableTypes
  <2> QED BY <1>6, <1>9, <2>1, <2>2
<1> HIDE DEF f
<1>14. /\ proc' \in [Steps -> {"none", "running", "zombie", "gone"}]
       /\ \A s \in Steps : s # f => proc'[s] = proc[s]
       /\ proc'[f] # "none" => proc'[f] = "running" /\ starting' = f /\ main' = "spawn"
       /\ starting' \in {f, NoStep} /\ main' \in {"spawn", "idle"}
       /\ main' = "spawn" => starting' = f
       /\ starting' # NoStep => main' = "spawn"
  BY <1>1, <1>2, <1>9, <1>12 DEF TaskTypes, ProcessTypes
<1>15. \A s \in Steps : s # f => Declines(s)
  BY <1>2, <1>14 DEF Declines
<1>16. TypeOK' /\ TablesInOrder' /\ JobsTrue' /\ RecordedRight'
  <2>1. JobTypes' /\ TablesInOrder' /\ JobsTrue' /\ RecordedRight'
    BY <1>2, <1>9, <1>13, <1>15, LaunchLeavesJobs
  <2>2. TaskTypes'
    BY <1>1, <1>2, <1>9, <1>14 DEF TaskTypes, ProcessTypes, WatchTypes, StartTypes
  <2>3. MainTypes'
    BY <1>1, <1>2, <1>10, <1>14 DEF MainTypes, MainPlaces
  <2> QED BY <2>1, <2>2, <2>3 DEF TypeOK
<1>17. TasksInOrder'
  <2>1. TaskListComplete'
    BY <1>1, <1>2, <1>11, <1>14 DEF TasksInOrder, TaskListComplete, IsAlive
  <2>2. RunsWithoutCode'
    BY <1>1, <1>2, <1>11, <1>12, <1>14 DEF Accounted, RunsWithoutCode
  <2>3. CodeIsOfProcess' /\ NoCodeYet'
    BY <1>1, <1>2, <1>12, <1>14 DEF Accounted, CodeIsOfProcess, NoCodeYet
  <2>4. HeldHasEnded'
    BY <1>1, <1>2, <1>12, <1>14 DEF TasksInOrder, HeldHasEnded
  <2> QED BY <2>1, <2>2, <2>3, <2>4 DEF TasksInOrder, Accounted
<1>18. NoneAhead'
  <2>1. \A s \in Steps : WasLaunched(s) => s[2] <= launched'[s[1]]
    BY <1>10, <1>11 DEF WasLaunched
  <2>2. f[2] <= launched'[f[1]]
    BY <1>5, <1>9, <1>10
  <2>3. \A s \in ToSet(tasks') : s[2] <= launched'[s[1]]
    BY <1>1, <1>2, <1>11, <2>1 DEF NoneAhead
  <2>4. \A t \in Threads : held'[t] \in Steps => held'[t][2] <= launched'[held'[t][1]]
    BY <1>1, <1>2, <2>1 DEF NoneAhead
  <2>5. \A s \in Steps : history'[s] # "absent" \/ (Owned(s) /\ proc'[s] # "none") => s[2] <= launched'[s[1]]
    BY <1>1, <1>2, <1>14, <2>1, <2>2 DEF NoneAhead
  <2>6. ASSUME NEW s \in Steps, s = starting' \/ s \in dropped' PROVE Unlisted(s)'
    <3>1. CASE s = f
      BY <1>2, <1>9, <1>12, <2>2, <3>1 DEF Unlisted, WasLaunched, Owned
    <3>2. CASE s # f
      <4>1. Unlisted(s)
        BY <1>1, <1>2, <1>11, <1>14, <2>6, <3>2 DEF NoneAhead
      <4> QED BY <1>2, <2>1, <4>1 DEF Unlisted, WasLaunched, Owned
    <3> QED BY <3>1, <3>2
  <2>7. starting' \notin dropped'
    BY <1>1, <1>2, <1>11, <1>12, <1>14 DEF TaskTypes, StartTypes
  <2>8. \A j \in Jobs : run'[j] <= launched'[j[1]] /\ (run'[j] > 0 => history'[Step(j)'] # "absent")
    <3> SUFFICES ASSUME NEW j \in Jobs
                 PROVE  run'[j] <= launched'[j[1]] /\ (run'[j] > 0 => history'[Step(j)'] # "absent")
      OBVIOUS
    <3>1. run'[j] = run[j] /\ run[j] \in Nat /\ run[j] <= launched[j[1]] /\ j[1] \in Entities
      BY <1>1, <1>3, StepOfJob DEF JobTypes, TableTypes, NoneAhead
    <3>2. Step(j)' = Step(j) /\ history'[Step(j)] = history[Step(j)]
      BY <1>2, <1>13
    <3> QED BY <1>1, <1>10, <3>1, <3>2 DEF NoneAhead
  <2> QED BY <2>3, <2>4, <2>5, <2>6, <2>7, <2>8 DEF NoneAhead, WasLaunched
<1>19. MainInOrder'
  <2>1. CASE main' = "spawn"
    <3>1. \A x \in ToSet(Tail(queue)) : launched'[x] + Occurrences(x, Tail(queue)) <= script.runs[x]
      <4> SUFFICES ASSUME NEW x \in ToSet(Tail(queue))
                   PROVE  launched'[x] + Occurrences(x, Tail(queue)) <= script.runs[x]
        OBVIOUS
      <4>1. x \in ToSet(queue) /\ x \in Entities
        BY <1>4, <1>5, ElementPositions
      <4>2. launched[x] + Occurrences(x, queue) <= script.runs[x]
        BY <1>4, <4>1 DEF ManifestFits
      <4>3. launched'[x] = launched[x] + (IF e = x THEN 1 ELSE 0)
        BY <1>6, <1>10, <4>1
      <4>4. launched[x] \in Nat /\ Occurrences(x, Tail(queue)) \in Nat
        BY <1>7, <1>10, <4>1
      <4> QED BY <1>7, <4>2, <4>3, <4>4
    <3>2. starting' = <<e, launched'[e]>> /\ starting' # NoStep
      BY <1>9, <1>10, <1>11, <1>14, <2>1
    <3>3. \A j \in Of(e, Jobs) : run'[j] < launched'[e]
      <4> SUFFICES ASSUME NEW j \in Jobs, j[1] = e PROVE run'[j] < launched'[e]
        BY DEF Of
      <4>1. run[j] <= launched[e] /\ run[j] \in Nat
        BY <1>1 DEF NoneAhead, JobTypes, TableTypes
      <4> QED BY <1>3, <1>6, <1>10, <4>1
    <3>4. Of(e, active') = {} \/ Of(e, completed') # {}
      BY <1>1, <1>2, <1>3 DEF MainInOrder
    <3> QED BY <1>2, <1>4, <2>1, <3>1, <3>2, <3>3, <3>4 DEF MainInOrder, ManifestFits
  <2>2. CASE main' = "idle"
    BY <1>14, <2>2 DEF MainInOrder
  <2> QED BY <1>14, <2>1, <2>2
<1>20. OneAtATime'
  <2> SUFFICES ASSUME NEW s \in Steps, s[1] \notin overtaken', s \in Servers(s[1])', proc'[s] = "running"
               PROVE  OwnProcess(s)'
    BY DEF OneAtATime
  <2>1. CASE s = f
    BY <1>14, <2>1 DEF OwnProcess
  <2>2. CASE s # f
    <3>1. s \in Servers(s[1])
      BY <1>3 DEF Servers, Made
    <3>2. OwnProcess(s)
      BY <1>1, <1>3, <1>14, <2>2, <3>1 DEF OneAtATime
    <3>3. PICK j \in active : s = Step(j)
      BY <1>2, <1>11, <3>2 DEF OwnProcess
    <3> QED BY <1>3, <3>3 DEF OwnProcess, Step
  <2> QED BY <2>1, <2>2
<1> QED BY <1>16, <1>17, <1>18, <1>19, <1>20 DEF ControlInv

(* When it is listed, no job has it yet.                                                *)
LEMMA SpawnedKeeps == ASSUME ControlInv, Spawned PROVE ControlInv'
<1> DEFINE e == Head(queue)
           f == starting
<1>1. /\ TypeOK /\ TasksInOrder /\ NoneAhead /\ TablesInOrder /\ MainInOrder /\ OneAtATime
      /\ TaskTypes /\ JobTypes /\ MainTypes /\ Accounted
  BY DEF ControlInv, TypeOK, TasksInOrder
<1>2. /\ main = "spawn" /\ f # NoStep /\ starting' = NoStep
      /\ proc' = [proc EXCEPT ![f] = IF @ = "zombie" THEN "gone" ELSE @]
      /\ UNCHANGED <<code, dropped>>
      /\ \/ code[f] = "error" /\ main' = "idle" /\ UNCHANGED <<tasks, history>>
         \/ /\ code[f] # "error" /\ main' = "register"
            /\ tasks' = Append(tasks, f) /\ history' = [history EXCEPT ![f] = "none"]
      /\ UNCHANGED <<watching, tm, at, held>> /\ UNCHANGED managerVars
      /\ UNCHANGED <<script, queue, launched, signalled>>
  BY DEF Spawned, ListTask, FailedAtOnce, threadVars
<1>3. /\ UNCHANGED <<active, completed, run, status>> /\ overtaken' = overtaken
  BY <1>2 DEF managerVars, tableVars, jobVars
<1>4. /\ queue # <<>> /\ queue \in Seq(Entities) /\ ManifestFits(Tail(queue))
      /\ f = <<e, launched[e]>> /\ \A j \in Of(e, Jobs) : run[j] < launched[e]
  BY <1>1, <1>2 DEF MainInOrder, MainTypes
<1>5. f \in Steps /\ f \notin dropped /\ NoStep \notin Steps /\ ToSet(tasks) \subseteq Steps
  BY <1>1, <1>2, ElementPositions, TaskAssumption
  DEF TaskTypes, ProcessTypes, StartTypes, NoneAhead, NoStep, Steps
<1>6. /\ Owned(f) /\ WasLaunched(f) /\ history[f] = "absent"
      /\ f \notin ToSet(tasks) /\ \A t \in Threads : held[t] # f
  BY <1>1, <1>5 DEF NoneAhead, Unlisted
<1>7. \A j \in Jobs : Step(j) # f /\ Step(j) \in Steps /\ Step(j)' = Step(j)
  <2> SUFFICES ASSUME NEW j \in Jobs PROVE Step(j) # f /\ Step(j) \in Steps /\ Step(j)' = Step(j)
    OBVIOUS
  <2>1. Step(j) \in Steps /\ Step(j)' = Step(j) /\ Step(j)[1] = j[1] /\ Step(j)[2] = run[j] /\ run[j] \in Nat
    BY <1>1, <1>3, StepOfJob DEF Step, JobTypes, TableTypes
  <2>2. j[1] = e => run[j] < launched[e]
    BY <1>4 DEF Of
  <2> QED BY <1>4, <2>1, <2>2
<1> HIDE DEF f
<1>8. /\ proc' \in [Steps -> {"none", "running", "zombie", "gone"}]
      /\ \A s \in Steps : s # f => proc'[s] = proc[s]
      /\ proc'[f] = (IF proc[f] = "zombie" THEN "gone" ELSE proc[f])
  BY <1>1, <1>2, <1>5 DEF TaskTypes, ProcessTypes
<1>9. /\ tasks' \in Seq(Steps) /\ ToSet(tasks') \subseteq ToSet(tasks) \cup {f}
      /\ ToSet(tasks) \subseteq ToSet(tasks')
      /\ history' \in [Steps -> Codes \cup {"absent", "none"}]
      /\ \A s \in Steps : s # f => history'[s] = history[s]
      /\ history'[f] \in {"absent", "none"} /\ (f \in ToSet(tasks') => history'[f] = "none")
      /\ main' \in {"idle", "register"}
      /\ main' = "register" => history'[f] = "none" /\ f \in ToSet(tasks')
      /\ main' = "idle" => proc'[f] = "gone"
  <2>1. tasks \in Seq(Steps) /\ history \in [Steps -> Codes \cup {"absent", "none"}]
    BY <1>1 DEF TaskTypes, ProcessTypes
  <2>2. CASE main' = "idle"
    <3>1. code[f] = "error" /\ UNCHANGED <<tasks, history>>
      BY <1>2, <2>2
    <3>2. proc[f] \notin {"none", "running"}
      BY <1>1, <1>5, <3>1 DEF Accounted, NoCodeYet
    <3>3. proc'[f] = "gone"
      BY <1>1, <1>5, <1>8, <3>2 DEF TaskTypes, ProcessTypes
    <3> QED BY <1>6, <2>1, <2>2, <3>1, <3>3
  <2>3. CASE main' = "register"
    <3>1. tasks' = Append(tasks, f) /\ history' = [history EXCEPT ![f] = "none"]
      BY <1>2, <2>3
    <3>2. Append(tasks, f) \in Seq(Steps) /\ ToSet(Append(tasks, f)) = ToSet(tasks) \cup {f}
      BY <1>5, <2>1, AppendElements
    <3>3. /\ history'[f] = "none" /\ \A s \in Steps : s # f => history'[s] = history[s]
          /\ history' \in [Steps -> Codes \cup {"absent", "none"}]
      BY <1>5, <2>1, <3>1
    <3> QED BY <2>3, <3>1, <3>2, <3>3
  <2> QED BY <1>2, <2>2, <2>3
<1>10. \A s \in Steps : s # f => Declines(s)
  BY <1>2, <1>8, <1>9 DEF Declines
<1>11. TypeOK' /\ TablesInOrder' /\ JobsTrue' /\ RecordedRight'
  <2>1. JobTypes' /\ TablesInOrder' /\ JobsTrue' /\ RecordedRight'
    BY <1>2, <1>5, <1>7, <1>10, LaunchLeavesJobs
  <2>2. TaskTypes'
    BY <1>1, <1>2, <1>8, <1>9 DEF TaskTypes, ProcessTypes, WatchTypes, StartTypes
  <2>3. MainTypes'
    BY <1>1, <1>2, <1>9 DEF MainTypes, MainPlaces
  <2> QED BY <2>1, <2>2, <2>3 DEF TypeOK
<1>12. TasksInOrder'
  <2>1. TaskListComplete'
    <3> SUFFICES ASSUME NEW s \in Steps, Owned(s), proc'[s] \in {"running", "zombie"}
                 PROVE  s \in ToSet(tasks') \cup {starting'} \cup dropped'
      BY DEF TaskListComplete, IsAlive
    <3>1. CASE s = f
      BY <1>8, <1>9, <3>1
    <3>2. CASE s # f
      BY <1>1, <1>2, <1>8, <1>9, <3>2 DEF TasksInOrder, TaskListComplete, IsAlive, f
    <3> QED BY <3>1, <3>2
  <2>2. RunsWithoutCode'
    BY <1>1, <1>5, <1>8, <1>9 DEF Accounted, RunsWithoutCode
  <2>3. CodeIsOfProcess'
    BY <1>1, <1>2, <1>9 DEF Accounted, CodeIsOfProcess, Codes
  <2>4. NoCodeYet'
    BY <1>1, <1>2, <1>8 DEF Accounted, NoCodeYet
  <2>5. HeldHasEnded'
    BY <1>1, <1>2, <1>6, <1>8 DEF TasksInOrder, HeldHasEnded
  <2> QED BY <2>1, <2>2, <2>3, <2>4, <2>5 DEF TasksInOrder, Accounted
<1>13. NoneAhead'
  <2>1. \A s \in ToSet(tasks') : WasLaunched(s)
    BY <1>1, <1>6, <1>9 DEF NoneAhead
  <2>2. \A t \in Threads : held'[t] \in Steps => WasLaunched(held'[t])
    BY <1>1, <1>2 DEF NoneAhead
  <2>3. \A s \in Steps : history'[s] # "absent" \/ (Owned(s) /\ proc'[s] # "none") => WasLaunched(s)
    BY <1>1, <1>6, <1>8, <1>9 DEF NoneAhead
  <2>4. ASSUME NEW s \in Steps, s = starting' \/ s \in dropped' PROVE Unlisted(s)'
    <3>1. s # f /\ Unlisted(s)
      BY <1>1, <1>2, <1>5, <2>4 DEF NoneAhead
    <3> QED BY <1>2, <1>9, <3>1 DEF Unlisted, WasLaunched, Owned
  <2>5. starting' \notin dropped'
    BY <1>1, <1>2, <1>5 DEF TaskTypes, StartTypes
  <2>6. \A j \in Jobs : run'[j] <= launched'[j[1]] /\ (run'[j] > 0 => history'[Step(j)'] # "absent")
    BY <1>1, <1>2, <1>3, <1>7, <1>9 DEF NoneAhead
  <2> QED BY <1>2, <2>1, <2>2, <2>3, <2>4, <2>5, <2>6 DEF NoneAhead, WasLaunched
<1>14. MainInOrder'
  <2>1. CASE main' = "register"
    <3>1. Of(e, active') = {} \/ Of(e, completed') # {}
      BY <1>1, <1>2, <1>3 DEF MainInOrder
    <3>2. history'[<<e, launched'[e]>>] # "absent"
      BY <1>2, <1>4, <1>9, <2>1
    <3> QED BY <1>2, <1>3, <1>4, <2>1, <3>1, <3>2 DEF MainInOrder, ManifestFits
  <2>2. CASE main' = "idle"
    BY <1>2, <2>2 DEF MainInOrder
  <2> QED BY <1>9, <2>1, <2>2
<1>15. OneAtATime'
  <2> SUFFICES ASSUME NEW s \in Steps, s[1] \notin overtaken', s \in Servers(s[1])', proc'[s] = "running"
               PROVE  OwnProcess(s)'
    BY DEF OneAtATime
  <2>1. CASE s = f
    BY <1>2, <1>4, <1>9, <2>1 DEF OwnProcess
  <2>2. CASE s # f
    <3>1. s \in Servers(s[1])
      BY <1>3 DEF Servers, Made
    <3>2. OwnProcess(s)
      BY <1>1, <1>3, <1>8, <2>2, <3>1 DEF OneAtATime
    <3>3. PICK j \in active : s = Step(j)
      BY <1>2, <2>2, <3>2 DEF OwnProcess, f
    <3> QED BY <1>3, <3>3 DEF OwnProcess, Step
  <2> QED BY <2>1, <2>2
<1> QED BY <1>11, <1>12, <1>13, <1>14, <1>15 DEF ControlInv


(* A job is made, or made anew, for the step that was launched.                         *)
LEMMA NewRunKeeps ==
  ASSUME ControlInv, main = "register", NEW j \in Jobs, j[1] = Head(queue),
         active' = Put(j, active), completed' = completed \ {j}, monitored' \in SUBSET Entities,
         \A i \in completed : i[1] = j[1] => i = j, j[2] = 0 \/ j \in completed,
         overtaken' = Replaced(j[1]),
         run' = [run EXCEPT ![j] = launched[j[1]]],
         status' = [status EXCEPT ![j] = "new"], returncode' = [returncode EXCEPT ![j] = "none"],
         UNCHANGED <<taskVars, recorded, watchVars, script, launched, signalled>>,
         main' \in MainPlaces, queue' \in Seq(Entities), MainInOrder'
  PROVE  ControlInv'
<1> DEFINE e == j[1]
           f == <<e, launched[e]>>
<1>1. /\ TypeOK /\ TasksInOrder /\ NoneAhead /\ TablesInOrder /\ JobsTrue /\ RecordedRight
      /\ MainInOrder /\ OneAtATime
      /\ TaskTypes /\ TableTypes /\ ManagerTypes /\ MainTypes /\ Known \subseteq Jobs
  BY KnownJobs DEF ControlInv, TypeOK, JobTypes
<1>2. /\ UNCHANGED <<proc, code, tasks, history>> /\ UNCHANGED <<watching, tm, at, held, starting, dropped>>
      /\ UNCHANGED <<monitoring, jm, toLook, moving>>
  BY DEF taskVars, processVars, threadVars, startVars, watchVars
<1>3. /\ history[f] # "absent" /\ starting = NoStep
      /\ \A i \in Jobs : i[1] = e => run[i] < launched[e]
  BY <1>1 DEF MainInOrder, Of
<1>4. e \in Entities
  BY <1>1, StepOfJob
<1>5. /\ run[j] \in Nat /\ launched[e] \in 0 .. MaxRuns /\ launched[e] \in Nat /\ launched[e] > 0
      /\ run[j] < launched[e] /\ f \in Steps /\ Owned(f)
  <2>1. run[j] \in Nat /\ launched[e] \in 0 .. MaxRuns /\ launched[e] \in Nat
    BY <1>1, <1>4, TaskAssumption DEF TableTypes, MainTypes
  <2>2. run[j] < launched[e] /\ launched[e] > 0
    BY <1>3, <2>1
  <2> QED BY <1>4, <2>1, <2>2 DEF Steps, Owned
<1>6. /\ run' \in [Jobs -> 0 .. MaxRuns] /\ run'[j] = launched[e]
      /\ status' \in [Jobs -> Statuses] /\ status'[j] = "new"
      /\ returncode' \in [Jobs -> Codes \cup {"none"}] /\ returncode'[j] = "none"
      /\ \A i \in Jobs : i # j => run'[i] = run[i] /\ status'[i] = status[i] /\ returncode'[i] = returncode[i]
  BY <1>1, <1>5 DEF TableTypes, Statuses
<1>7. Step(j)' = f /\ \A i \in Jobs : i # j => Step(i)' = Step(i)
  BY <1>6 DEF Step
<1>8. /\ active' = {i \in active : i[1] # e} \cup {j}
      /\ overtaken \subseteq overtaken' /\ overtaken' \in SUBSET Entities
      /\ \A i \in active : i[1] = e => e \in overtaken'
  BY <1>1, <1>4 DEF Put, Of, Replaced, TableTypes
<1>9. /\ active' \in SUBSET Jobs /\ completed' \in SUBSET Jobs /\ Known' \subseteq Known \cup {j}
      /\ \A i \in Known' : i # j => i[1] # e
      /\ \A i \in Known : i[1] # e => i \in Known'
  BY <1>1, <1>8 DEF TableTypes, Known
<1>10. \A i \in Jobs : Made(i) => Made(i)'
  BY <1>5, <1>6 DEF Made
<1>11. \A i \in Jobs : i # j /\ Made(i)' => Made(i)
  BY <1>6 DEF Made
<1>12. \A t \in Threads : toLook[t] \subseteq Jobs
  BY <1>1 DEF ManagerTypes
<1> HIDE DEF f
<1>13. TypeOK'
  <2>1. TaskTypes'
    BY <1>1, <1>2 DEF TaskTypes, ProcessTypes, WatchTypes, StartTypes
  <2>2. JobTypes'
    BY <1>1, <1>2, <1>6, <1>8, <1>9 DEF JobTypes, TableTypes, ManagerTypes
  <2>3. MainTypes'
    BY <1>1 DEF MainTypes
  <2> QED BY <2>1, <2>2, <2>3 DEF TypeOK
<1>14. TasksInOrder' /\ \A s \in Steps : Declines(s)
  <2>1. /\ \A s \in Steps : s = starting \/ s \in dropped => s = starting' \/ s \in dropped'
        /\ \A t \in Threads : tm'[t] \in {"record", "remove"} => tm'[t] = tm[t] /\ held'[t] = held[t]
    BY <1>2
  <2> QED BY <1>1, <1>2, <2>1, TasksStay
<1>15. NoneAhead'
  <2>1. /\ \A s \in ToSet(tasks') : WasLaunched(s)'
        /\ \A t \in Threads : held'[t] \in Steps => WasLaunched(held[t])'
        /\ \A s \in Steps : history'[s] # "absent" \/ (Owned(s) /\ proc'[s] # "none") => WasLaunched(s)'
        /\ \A s \in Steps : s = starting' \/ s \in dropped' => Unlisted(s)'
        /\ starting' \notin dropped'
    BY <1>1, <1>2 DEF NoneAhead, WasLaunched, Unlisted, Owned
  <2>2. \A i \in Jobs : run'[i] <= launched'[i[1]] /\ (run'[i] > 0 => history'[Step(i)'] # "absent")
    <3> SUFFICES ASSUME NEW i \in Jobs
                 PROVE  run'[i] <= launched'[i[1]] /\ (run'[i] > 0 => history'[Step(i)'] # "absent")
      OBVIOUS
    <3>1. CASE i = j
      BY <1>2, <1>3, <1>5, <1>6, <1>7, <3>1
    <3>2. CASE i # j
      BY <1>1, <1>2, <1>6, <1>7, <3>2 DEF NoneAhead
    <3> QED BY <3>1, <3>2
  <2> QED BY <1>2, <2>1, <2>2 DEF NoneAhead, WasLaunched, Owned
<1>16. TablesInOrder'
  <2>1. \A i \in Known' : Made(i)'
    <3>1. Made(j)'
      BY <1>5, <1>6 DEF Made
    <3> QED BY <1>1, <1>9, <1>10, <3>1 DEF TablesInOrder
  <2>2. ASSUME NEW i \in Jobs, Made(i)' PROVE \E k \in Known' : k[1] = i[1]
    <3>1. CASE i[1] = e
      BY <1>8, <3>1 DEF Known
    <3>2. CASE i[1] # e
      <4>1. PICK k \in Known : k[1] = i[1]
        BY <1>1, <1>11, <2>2, <3>2 DEF TablesInOrder
      <4> QED BY <1>9, <3>2, <4>1
    <3> QED BY <3>1, <3>2
  <2>3. ASSUME NEW i \in Jobs, ~Made(i)' PROVE DOMAIN recorded'[i] = {}
    BY <1>1, <1>10, <2>3 DEF TablesInOrder
  <2>4. IsOneOfName(active)' /\ IsOneOfName(completed)'
    BY <1>1, <1>8 DEF TablesInOrder, IsOneOfName
  <2>5. ASSUME NEW i \in active', NEW k \in completed', i[1] = k[1] PROVE run'[i] = 0 /\ i[2] > k[2]
    <3>1. k \in completed /\ k[1] # e
      BY <2>5
    <3>2. i \in active /\ i # j /\ i \in Jobs
      BY <1>8, <1>9, <2>5, <3>1
    <3> QED BY <1>1, <1>6, <2>5, <3>1, <3>2 DEF TablesInOrder
  <2>6. \A t \in Threads : \A i \in toLook'[t] : Made(i)'
    BY <1>1, <1>2, <1>10, <1>12 DEF TablesInOrder
  <2>7. \A t \in Threads : jm'[t] = "move" => moving'[t] \in Jobs /\ Made(moving[t])'
    BY <1>1, <1>2, <1>10 DEF TablesInOrder
  <2>8. \A t \in Threads : (Made(moving[t]))' <=> run'[moving'[t]] > 0 \/ status'[moving'[t]] # "new"
    BY DEF Made
  <2> QED BY <2>1, <2>2, <2>3, <2>4, <2>5, <2>6, <2>7, <2>8 DEF TablesInOrder
<1>17. JobsTrue'
  <2>1. JobIsTrue(j)'
    <3>1. Tracked(f)
      BY <1>1, <1>3, <1>5 DEF TasksInOrder, TaskListComplete, Tracked, IsAlive, NoneAhead, Unlisted
    <3>2. Tracked(Step(j))'
      BY <1>2, <1>7, <3>1 DEF Tracked
    <3> QED BY <1>6, <3>2 DEF JobIsTrue, TerminalStatuses
  <2>2. ASSUME NEW i \in Known', i # j, i[1] \notin overtaken' PROVE JobIsTrue(i)'
    <3>1. i \in Jobs /\ JobIsTrue(i)
      BY <1>1, <1>8, <1>9, <2>2 DEF JobsTrue
    <3>2. Declines(Step(i))
      BY <1>1, <1>14, <3>1, StepOfJob
    <3>3. run'[i] = run[i] /\ status'[i] = status[i] /\ returncode'[i] = returncode[i]
      BY <1>6, <2>2, <3>1
    <3> QED BY <3>1, <3>2, <3>3, JobStays
  <2>3. ASSUME NEW i \in completed', i[1] \notin overtaken' PROVE HasOutcome(i)'
    <3>1. i \in Jobs /\ i # j /\ HasOutcome(i)
      BY <1>1, <1>8, <2>3 DEF JobsTrue, TableTypes
    <3> QED BY <1>6, <3>1 DEF HasOutcome
  <2> QED BY <2>1, <2>2, <2>3 DEF JobsTrue
<1>18. RecordedRight'
  <2>1. \A k \in DOMAIN recorded[j] : k \in Nat /\ k <= run[j]
    <3>1. recorded[j] \in Histories
      BY <1>1 DEF TableTypes
    <3>2. DOMAIN recorded[j] \subseteq 0 .. MaxRuns
      BY <3>1 DEF Histories
    <3> QED BY <1>1, <3>2 DEF RecordedRight
  <2>2. /\ \A k \in DOMAIN recorded[j] : k <= launched[e]
        /\ launched[e] \notin DOMAIN recorded[j]
    BY <1>5, <2>1
  <2>3. \A i \in Jobs : \A k \in DOMAIN recorded'[i] : k <= run'[i]
    BY <1>1, <1>6, <2>2 DEF RecordedRight
  <2>4. ASSUME NEW i \in Jobs, i[1] \notin overtaken', run'[i] \in DOMAIN recorded'[i]
        PROVE  i \notin active' /\ recorded'[i][run'[i]] = <<status'[i], returncode'[i]>>
    <3>1. i # j
      BY <1>6, <2>2, <2>4
    <3> QED BY <1>1, <1>6, <1>8, <2>4, <3>1 DEF RecordedRight
  <2> QED BY <2>3, <2>4 DEF RecordedRight
<1>19. OneAtATime'
  <2> SUFFICES ASSUME NEW s \in Steps, s[1] \notin overtaken', s \in Servers(s[1])', proc'[s] = "running"
               PROVE  OwnProcess(s)'
    BY DEF OneAtATime
  <2>1. s[1] \in Entities /\ \A k \in 1 .. MaxLoads : <<s[1], k>> \in Jobs /\ k # 0
    BY LoadsAssumption DEF Steps, Jobs
  <2>2. Owned(s) \/ \E k \in 1 .. MaxLoads : (Made(<<s[1], k>>))'
    BY DEF Servers, Made
  <2>3. \A i \in Jobs : i[2] # 0 /\ Made(i)' => Made(i)
    BY <1>1, <1>11 DEF TablesInOrder, Known
  <2>4. s \in Servers(s[1])
    <3>1. ASSUME NEW k \in 1 .. MaxLoads, (Made(<<s[1], k>>))' PROVE Made(<<s[1], k>>)
      <4>1. <<s[1], k>> \in Jobs /\ <<s[1], k>>[2] # 0
        BY <2>1
      <4> QED BY <2>3, <3>1, <4>1
    <3> QED BY <2>2, <3>1 DEF Servers
  <2>5. OwnProcess(s) /\ s # starting
    BY <1>1, <1>2, <1>3, <1>8, <2>4, TaskAssumption DEF OneAtATime, NoStep, Steps
  <2>6. CASE \E i \in active : s = Step(i)
    <3>1. PICK i \in active : s = Step(i)
      BY <2>6
    <3>2. i \in Jobs /\ i[1] = s[1]
      BY <1>1, <3>1 DEF TableTypes, Step
    <3>3. i[1] # e
      BY <1>8, <3>1, <3>2
    <3>4. i \in active' /\ Step(i)' = s
      BY <1>7, <1>8, <3>1, <3>2, <3>3
    <3> QED BY <3>4 DEF OwnProcess
  <2>7. CASE s = <<Head(queue), launched[Head(queue)]>>
    <3>1. j \in active' /\ Step(j)' = s
      BY <1>7, <1>8, <2>7 DEF f
    <3> QED BY <3>1 DEF OwnProcess
  <2> QED BY <2>5, <2>6, <2>7 DEF OwnProcess
<1> QED BY <1>13, <1>14, <1>15, <1>16, <1>17, <1>18, <1>19 DEF ControlInv

LEMMA RelaunchKeeps == ASSUME ControlInv, Relaunch PROVE ControlInv'
<1> DEFINE e == Head(queue)
<1>1. /\ MainInOrder /\ TablesInOrder /\ TableTypes /\ MainTypes
  BY DEF ControlInv, TypeOK, JobTypes
<1>2. /\ main = "register"
      /\ \E j \in Of(e, completed) : RestartJob(j, launched[e], e \notin Nodes)
      /\ overtaken' = Replaced(e)
      /\ \/ main' = "wait" /\ queue' = queue
         \/ queue' = Tail(queue) /\ main' = IF Tail(queue) = <<>> THEN "begin" ELSE "launch"
      /\ UNCHANGED <<taskVars, recorded, watchVars, script, launched, signalled>>
  BY DEF Relaunch, Launched
<1>3. PICK j \in Of(e, completed) : RestartJob(j, launched[e], e \notin Nodes)
  BY <1>2
<1>4. /\ queue # <<>> /\ queue \in Seq(Entities) /\ ManifestFits(Tail(queue))
      /\ starting = NoStep /\ starting' = starting
  BY <1>1, <1>2 DEF MainInOrder, MainTypes, taskVars, startVars
<1>5. e \in Entities /\ Tail(queue) \in Seq(Entities)
  BY <1>4, TailElements
<1>6. j \in completed /\ j \in Jobs /\ j[1] = e /\ \A i \in completed : i[1] = j[1] => i = j
  BY <1>1, <1>3 DEF Of, TablesInOrder, IsOneOfName, TableTypes
<1>7. /\ active' = Put(j, active) /\ completed' = completed \ {j} /\ monitored' \in SUBSET Entities
      /\ run' = [run EXCEPT ![j] = launched[e]]
      /\ status' = [status EXCEPT ![j] = "new"] /\ returncode' = [returncode EXCEPT ![j] = "none"]
  BY <1>1, <1>3, <1>5, <1>6 DEF RestartJob, TableTypes
<1>8. main' \in MainPlaces /\ queue' \in Seq(Entities)
  BY <1>2, <1>4, <1>5 DEF MainPlaces
<1>9. MainInOrder'
  <2>1. CASE main' = "wait" /\ queue' = queue
    BY <1>2, <1>4, <2>1 DEF MainInOrder, ManifestFits
  <2>2. CASE queue' = Tail(queue) /\ main' = IF Tail(queue) = <<>> THEN "begin" ELSE "launch"
    BY <1>2, <1>4, <2>2 DEF MainInOrder, ManifestFits
  <2> QED BY <1>2, <2>1, <2>2
<1>10. e = Head(queue)
  OBVIOUS
<1> HIDE DEF e
<1> QED BY <1>2, <1>6, <1>7, <1>8, <1>9, <1>10, NewRunKeeps

LEMMA AddJobKeeps == ASSUME ControlInv, AddJob PROVE ControlInv'
<1> DEFINE e == Head(queue)
           j == <<e, 0>>
<1>1. /\ MainInOrder /\ TableTypes /\ MainTypes
  BY DEF ControlInv, TypeOK, JobTypes
<1>2. /\ main = "register" /\ Of(e, completed) = {} /\ active' = Put(j, active)
      /\ run' = [run EXCEPT ![j] = launched[e]]
      /\ status' = [status EXCEPT ![j] = "new"] /\ returncode' = [returncode EXCEPT ![j] = "none"]
      /\ main' \in {"wait", "monitor"} /\ UNCHANGED <<completed, monitored, queue, overtaken>>
      /\ UNCHANGED <<taskVars, recorded, watchVars, script, launched, signalled>>
  BY DEF AddJob
<1>3. /\ queue # <<>> /\ queue \in Seq(Entities) /\ ManifestFits(Tail(queue)) /\ Of(e, active) = {}
      /\ starting = NoStep /\ starting' = starting
  BY <1>1, <1>2 DEF MainInOrder, MainTypes, taskVars, startVars
<1>4. e \in Entities
  BY <1>3, TailElements
<1>5. j \in Jobs /\ j[1] = e /\ j[2] = 0 /\ j \notin completed
  BY <1>2, <1>4, LoadsAssumption DEF Jobs, Of
<1>6. /\ completed' = completed \ {j} /\ monitored' \in SUBSET Entities /\ overtaken' = Replaced(e)
      /\ \A i \in completed : i[1] = j[1] => i = j
  BY <1>1, <1>2, <1>3, <1>5 DEF TableTypes, Replaced, Of
<1>7. main' \in MainPlaces /\ queue' \in Seq(Entities)
  BY <1>2, <1>3 DEF MainPlaces
<1>8. MainInOrder'
  BY <1>2, <1>3 DEF MainInOrder, ManifestFits
<1>9. e = Head(queue)
  OBVIOUS
<1> HIDE DEF e, j
<1> QED BY <1>2, <1>5, <1>6, <1>7, <1>8, <1>9, NewRunKeeps

-----------------------------------------------------------------------------
(* A job is stopped: its process has ended when it is moved.                            *)
LEMMA CancelKeeps ==
  ASSUME ControlInv, NEW j \in Jobs, j \in Found(j[1]), NEW rc \in Codes \cup {"none"},
         ProcessTypes', Accounted', \A s \in Steps : Declines(s), ToSet(tasks') \subseteq ToSet(tasks),
         j[1] \notin overtaken => proc'[Step(j)] # "running",
         MoveToCompleted(j, "cancelled", rc), run' = run,
         status' = [status EXCEPT ![j] = "cancelled"], returncode' = [returncode EXCEPT ![j] = rc],
         UNCHANGED <<startVars, threadVars, watchVars, overtaken, script, launched, signalled, queue>>,
         main \notin {"spawn", "register"}, main' = "idle"
  PROVE  ControlInv'
<1>1. /\ TypeOK /\ TasksInOrder /\ NoneAhead /\ TablesInOrder /\ JobsTrue /\ RecordedRight
      /\ MainInOrder /\ OneAtATime
      /\ TaskTypes /\ TableTypes /\ ManagerTypes /\ MainTypes /\ Known \subseteq Jobs
  BY KnownJobs DEF ControlInv, TypeOK, JobTypes
<1>2. /\ UNCHANGED <<watching, tm, at, held, starting, dropped>> /\ UNCHANGED <<starting, dropped>>
      /\ UNCHANGED <<monitoring, jm, toLook, moving>> /\ UNCHANGED <<script, queue, launched, signalled>>
      /\ UNCHANGED <<run, launched, starting>> /\ UNCHANGED <<run, launched>>
  BY DEF threadVars, startVars, watchVars
<1>3. /\ Step(j) \in Steps /\ Made(j) /\ starting = NoStep /\ j \in Known
      /\ \A i \in active : i[1] = j[1] => i = j
  BY <1>1, StepOfJob DEF TablesInOrder, IsOneOfName, Found, Of, Known, MainInOrder
<1>4. \A i \in Jobs : Step(i)' = Step(i)
  BY DEF Step
<1>5. TaskTypes' /\ TasksInOrder'
  <2>1. TaskTypes'
    BY <1>1, <1>2 DEF TaskTypes, WatchTypes, StartTypes
  <2>2. HeldHasEnded'
    BY <1>1, <1>2 DEF HeldHasEnded, TasksInOrder, Declines
  <2>3. TaskListComplete'
    BY <1>1, <1>2, ListKept DEF TasksInOrder
  <2> QED BY <2>1, <2>2, <2>3 DEF TasksInOrder
<1>6. /\ TableTypes' /\ TablesInOrder' /\ RecordedRight'
      /\ \A i \in completed' : i[1] \notin overtaken' => HasOutcome(i)'
      /\ active' = {i \in active : i[1] # j[1]} /\ Known' \subseteq Known \cup {j}
      /\ completed' = {i \in completed : i[1] # j[1]} \cup {j}
      /\ \A i \in Jobs : Made(i) <=> run'[i] > 0 \/ status'[i] # "new"
  <2>1. /\ "cancelled" \in Statuses /\ ("cancelled" = status[j] \/ "cancelled" # "new")
        /\ j[1] \in overtaken' \/ ("cancelled" \in TerminalStatuses /\ ("cancelled" = "cancelled" \/ rc # "none"))
        /\ overtaken' \in SUBSET Entities /\ overtaken \subseteq overtaken'
    BY <1>1 DEF Statuses, TerminalStatuses, TableTypes
  <2>2. /\ \A t \in Threads : AreMade(t)
        /\ \A t \in Threads : jm'[t] = "move" => moving'[t] \in Jobs /\ Made(moving'[t])
    BY <1>1, <1>2 DEF TablesInOrder, AreMade, ManagerTypes
  <2> QED BY <1>1, <1>3, <2>1, <2>2, MoveFacts
<1>7. JobTypes' /\ MainTypes'
  BY <1>1, <1>2, <1>6 DEF JobTypes, ManagerTypes, MainTypes, MainPlaces
<1>8. NoneAhead'
  <2>1. /\ \A t \in Threads : held'[t] \in {held[t], NoStep} \cup ToSet(tasks)
        /\ \A s \in Steps : s = starting' \/ s \in dropped' => s = starting \/ s \in dropped
        /\ starting' \notin dropped'
    BY <1>1, <1>2 DEF NoneAhead
  <2> QED BY <1>1, <1>2, <2>1, NoneAheadStays
<1>9. JobsTrue'
  <2>1. ASSUME j[1] \notin overtaken' PROVE JobIsTrue(j)'
    <3>1. status'[j] = "cancelled" /\ proc'[Step(j)] # "running"
      BY <1>1, <2>1 DEF TableTypes
    <3>2. Tracked(Step(j))'
      BY <1>4, <3>1 DEF Tracked
    <3> QED BY <1>4, <3>1, <3>2 DEF JobIsTrue
  <2>2. ASSUME NEW i \in Known', i # j, i[1] \notin overtaken' PROVE JobIsTrue(i)'
    <3>1. i \in Jobs /\ JobIsTrue(i)
      BY <1>1, <1>6, <2>2 DEF JobsTrue
    <3>2. Declines(Step(i))
      BY <1>1, <3>1, StepOfJob
    <3>3. run'[i] = run[i] /\ status'[i] = status[i] /\ returncode'[i] = returncode[i]
      BY <1>1, <2>2, <3>1 DEF TableTypes
    <3> QED BY <3>1, <3>2, <3>3, JobStays
  <2> QED BY <1>6, <2>1, <2>2 DEF JobsTrue
<1>10. MainInOrder'
  BY <1>2, <1>3 DEF MainInOrder
<1>11. OneAtATime'
  <2>1. /\ overtaken \subseteq overtaken' /\ (main = "register" => main' = main /\ queue' = queue)
        /\ \A s \in Steps : proc'[s] = "running" => proc[s] = "running"
        /\ \A i \in active \ active' : i[1] \in overtaken' \/ proc'[Step(i)] # "running"
        /\ \A i \in Jobs : run'[i] > 0 \/ status'[i] # "new" => Made(i)
    BY <1>3, <1>6 DEF Declines
  <2> QED BY <1>1, <1>2, <2>1, ProcessStays
<1> QED BY <1>5, <1>6, <1>7, <1>8, <1>9, <1>10, <1>11 DEF ControlInv, TypeOK

(* The one server of the name that runs is that of the job, with the exceptions made.     *)
LEMMA ServerOfJob ==
  ASSUME ControlInv, NEW j \in Jobs, j \in Found(j[1]), j[1] \notin overtaken,
         NEW s \in Servers(j[1]), proc[s] = "running", main \notin {"spawn", "register"}
  PROVE  s = Step(j)
<1>1. TypeOK /\ TablesInOrder /\ MainInOrder /\ OneAtATime /\ active \subseteq Jobs
  BY DEF ControlInv, TypeOK, JobTypes, TableTypes
<1>2. s \in Steps /\ s[1] = j[1] /\ s # NoStep
  BY TaskAssumption DEF Servers, NoStep, Steps
<1>3. OwnProcess(s) /\ s # starting
  BY <1>1, <1>2 DEF OneAtATime, MainInOrder
<1>4. PICK i \in active : s = Step(i)
  BY <1>3 DEF OwnProcess
<1>5. i[1] = j[1] /\ i \in Found(j[1])
  BY <1>2, <1>4 DEF Step, Found, Of
<1>6. i = j
  BY <1>1, <1>5 DEF Found, Of, TablesInOrder, IsOneOfName
<1> QED BY <1>4, <1>6

LEMMA ShutdownKeeps ==
  ASSUME ControlInv, NEW j \in Jobs, j \in Found(j[1]), ShutdownNode(j),
         UNCHANGED <<startVars, threadVars, watchVars, overtaken, script, launched, signalled, queue>>,
         main \notin {"spawn", "register"}, main' = "idle"
  PROVE  ControlInv'
<1>1. TypeOK /\ TasksInOrder /\ NoneAhead
  BY DEF ControlInv
<1>2. PICK s \in Servers(j[1]) :
        /\ proc[s] = "running"
        /\ proc' = [proc EXCEPT ![s] = IF Owned(s) THEN "zombie" ELSE "gone"]
        /\ code' = [code EXCEPT ![s] = "ok"]
  BY DEF ShutdownNode
<1>3. /\ status' = [status EXCEPT ![j] = "cancelled"] /\ returncode' = [returncode EXCEPT ![j] = "ok"]
      /\ MoveToCompleted(j, "cancelled", "ok") /\ UNCHANGED <<tasks, history>> /\ run' = run
  BY DEF ShutdownNode
<1>4. s \in Steps /\ "ok" \in Codes
  BY DEF Servers, Codes
<1>5. ProcessTypes' /\ Accounted' /\ (\A r \in Steps : Declines(r)) /\ proc'[s] # "running"
  BY <1>1, <1>2, <1>3, <1>4, EndFacts
<1>6. /\ "ok" \in Codes \cup {"none"} /\ ToSet(tasks') \subseteq ToSet(tasks)
      /\ j[1] \notin overtaken => proc'[Step(j)] # "running"
  <2>1. j[1] \notin overtaken => s = Step(j)
    BY <1>2, ServerOfJob
  <2> QED BY <1>3, <1>4, <1>5, <2>1
<1> QED BY <1>3, <1>5, <1>6, CancelKeeps

LEMMA StopEntityKeeps ==
  ASSUME ControlInv, NEW j \in Jobs, j \in Found(j[1]), StopEntity(j),
         UNCHANGED <<startVars, threadVars, watchVars, overtaken, script, launched, signalled, queue>>,
         main \notin {"spawn", "register"}, main' = "idle"
  PROVE  ControlInv'
<1>1. /\ TypeOK /\ TasksInOrder /\ JobsTrue /\ MainInOrder
      /\ TaskTypes /\ TableTypes /\ ManagerTypes /\ MainTypes /\ Step(j) \in Steps /\ j \in Known
  BY StepOfJob DEF ControlInv, TypeOK, JobTypes, Found, Of, Known
<1>2. CASE status[j] \in TerminalStatuses
  <2>1. UNCHANGED <<processVars, tasks, history, tableVars, jobVars>>
    BY <1>2 DEF StopEntity
  <2>2. /\ UNCHANGED <<proc, code, tasks, history, watching, at, held>> /\ UNCHANGED <<starting, dropped>>
        /\ UNCHANGED <<active, completed, run, status, returncode, recorded, overtaken>>
        /\ UNCHANGED <<monitoring, toLook, moving, script, launched, signalled>>
        /\ UNCHANGED <<tm, jm, monitored, queue>>
    BY <2>1 DEF processVars, tableVars, jobVars, threadVars, startVars, watchVars
  <2>3. /\ tm' \in [Threads -> TaskPlaces] /\ \A u \in Threads : tm'[u] \in {tm[u], "start"}
        /\ jm' \in [Threads -> JobPlaces] /\ \A u \in Threads : jm'[u] \in {jm[u], "start"}
        /\ monitored' \in SUBSET Entities /\ main' \in MainPlaces /\ queue' \in Seq(Entities)
        /\ main # "register"
    BY <1>1, <2>2 DEF TaskTypes, WatchTypes, TableTypes, ManagerTypes, MainTypes, MainPlaces
  <2>4. MainInOrder'
    BY <1>1, <2>2 DEF MainInOrder
  <2> QED BY <2>2, <2>3, <2>4, MainKeeps
<1>3. CASE status[j] \notin TerminalStatuses
  <2> DEFINE rc == IF history[Step(j)] = "absent" THEN "error" ELSE history'[Step(j)]
  <2>1. /\ RemoveTasks({Step(j)}) /\ run' = run
        /\ status' = [status EXCEPT ![j] = "cancelled"] /\ returncode' = [returncode EXCEPT ![j] = rc]
        /\ MoveToCompleted(j, "cancelled", rc)
    BY <1>3 DEF StopEntity
  <2>2. {Step(j)} \in SUBSET Steps
    BY <1>1
  <2>3. /\ ProcessTypes' /\ Accounted'
        /\ \A s \in Steps : Declines(s)
        /\ ToSet(tasks') \subseteq ToSet(tasks)
        /\ \A s \in {Step(j)} : Tracked(s) => proc'[s] # "running"
    BY <1>1, <2>1, <2>2, RemoveFacts
  <2>4. rc \in Codes \cup {"none"}
    <3>1. history'[Step(j)] \in Codes \cup {"absent", "none"}
      BY <1>1, <2>3 DEF ProcessTypes
    <3>2. history[Step(j)] # "absent" => history'[Step(j)] # "absent"
      BY <1>1, <2>3 DEF Declines
    <3> QED BY <3>1, <3>2 DEF Codes
  <2>5. j[1] \notin overtaken => proc'[Step(j)] # "running"
    BY <1>1, <2>3 DEF JobsTrue, JobIsTrue
  <2> HIDE DEF rc
  <2> QED BY <2>1, <2>3, <2>4, <2>5, CancelKeeps
<1> QED BY <1>2, <1>3

LEMMA StopDBKeeps ==
  ASSUME ControlInv, NEW e, StopDB(e),
         UNCHANGED <<startVars, threadVars, watchVars, overtaken, script, launched, signalled, queue>>,
         main \notin {"spawn", "register"}, main' = "idle"
  PROVE  ControlInv'
<1>1. PICK j \in Found(e) : ShutdownNode(j) \/ StopEntity(j)
  BY DEF StopDB
<1>2. j \in Jobs /\ j[1] = e
  BY DEF Found, Of, ControlInv, TypeOK, JobTypes, TableTypes
<1>3. j \in Found(j[1])
  BY <1>2
<1> QED BY <1>1, <1>2, <1>3, ShutdownKeeps, StopEntityKeeps

LEMMA StopKeeps == ASSUME ControlInv, Stop PROVE ControlInv'
<1>1. /\ UNCHANGED <<startVars, threadVars, watchVars, overtaken, script, launched, signalled, queue>>
      /\ main \notin {"spawn", "register"} /\ main' = "idle"
  BY DEF Stop, mainVars
<1>2. PICK e \in Entities : IF e \in Nodes THEN StopDB(e) ELSE \E j \in Found(e) : StopEntity(j)
  BY DEF Stop
<1>3. CASE e \in Nodes
  BY <1>1, <1>2, <1>3, StopDBKeeps
<1>4. CASE e \notin Nodes
  <2>1. PICK j \in Found(e) : StopEntity(j)
    BY <1>2, <1>4
  <2>2. j \in Jobs /\ j[1] = e
    BY DEF Found, Of, ControlInv, TypeOK, JobTypes, TableTypes
  <2>3. j \in Found(j[1])
    BY <2>2
  <2> QED BY <1>1, <2>1, <2>2, <2>3, StopEntityKeeps
<1> QED BY <1>3, <1>4

-----------------------------------------------------------------------------
(* The other calls of the user.                                                        *)
LEMMA LookKeeps == ASSUME ControlInv, LookAtDB PROVE ControlInv'
<1>1. /\ TypeOK /\ TasksInOrder /\ NoneAhead /\ TablesInOrder /\ JobsTrue /\ RecordedRight
      /\ MainInOrder /\ OneAtATime
      /\ TaskTypes /\ ManagerTypes /\ MainTypes
  BY DEF ControlInv, TypeOK, JobTypes
<1>2. /\ CheckJobs
      /\ UNCHANGED <<taskVars, tableVars, run, recorded, watchVars, overtaken, mainVars>>
  BY DEF LookAtDB
<1>3. /\ UNCHANGED <<proc, code, tasks, history, watching, tm, at, held, starting, dropped>>
      /\ UNCHANGED <<active, completed, monitored, run, recorded, overtaken>>
      /\ UNCHANGED <<monitoring, jm, toLook, moving>>
      /\ UNCHANGED <<script, main, queue, launched, signalled>>
  BY <1>2 DEF taskVars, processVars, threadVars, startVars, tableVars, watchVars, mainVars
<1>4. /\ TableTypes' /\ TablesInOrder' /\ JobsTrue' /\ RecordedRight'
      /\ \A j \in Jobs : Made(j) <=> run'[j] > 0 \/ status'[j] # "new"
  <2>1. /\ UNCHANGED <<proc, code, tasks, history, active, completed, run, overtaken>>
        /\ UNCHANGED <<recorded, monitored>>
        /\ \A t \in Threads : AreMade(t)
        /\ \A t \in Threads : jm'[t] = "move" => moving'[t] \in Jobs /\ Made(moving'[t])
    BY <1>1, <1>3 DEF TablesInOrder, AreMade, ManagerTypes
  <2> QED BY <1>1, <1>2, <2>1, CheckFacts
<1>5. TypeOK'
  <2>1. TaskTypes' /\ MainTypes' /\ ManagerTypes'
    BY <1>1, <1>3 DEF TaskTypes, ProcessTypes, WatchTypes, StartTypes, MainTypes, ManagerTypes
  <2> QED BY <1>4, <2>1 DEF TypeOK, JobTypes
<1>6. TasksInOrder' /\ \A s \in Steps : Declines(s)
  <2>1. /\ UNCHANGED <<proc, code, tasks, history>>
        /\ \A s \in Steps : s = starting \/ s \in dropped => s = starting' \/ s \in dropped'
        /\ \A t \in Threads : tm'[t] \in {"record", "remove"} => tm'[t] = tm[t] /\ held'[t] = held[t]
    BY <1>3
  <2> QED BY <1>1, <2>1, TasksStay
<1>7. NoneAhead'
  <2>1. /\ UNCHANGED <<run, launched>> /\ ToSet(tasks') \subseteq ToSet(tasks)
        /\ \A u \in Threads : held'[u] \in {held[u], NoStep} \cup ToSet(tasks)
        /\ \A s \in Steps : s = starting' \/ s \in dropped' => s = starting \/ s \in dropped
        /\ starting' \notin dropped'
    BY <1>1, <1>3 DEF NoneAhead
  <2> QED BY <1>1, <1>6, <2>1, NoneAheadStays
<1>8. MainInOrder'
  <2>1. /\ UNCHANGED <<script, main, queue, launched, starting, run>> /\ active' \subseteq active
        /\ \A j \in completed : \E i \in completed' : i[1] = j[1]
        /\ \A s \in Steps : history[s] # "absent" => history'[s] # "absent"
    BY <1>3
  <2> QED BY <1>1, <2>1, MainStays
<1>9. OneAtATime'
  <2>1. /\ UNCHANGED <<run, launched, starting>> /\ overtaken \subseteq overtaken'
        /\ main = "register" => main' = main /\ queue' = queue
        /\ \A s \in Steps : proc'[s] = "running" => proc[s] = "running"
        /\ \A j \in active \ active' : j[1] \in overtaken' \/ proc'[Step(j)] # "running"
        /\ \A j \in Jobs : run'[j] > 0 \/ status'[j] # "new" => Made(j)
    BY <1>3, <1>4
  <2> QED BY <1>1, <2>1, ProcessStays
<1> QED BY <1>4, <1>5, <1>6, <1>7, <1>8, <1>9 DEF ControlInv

LEMMA ReconnectKeeps == ASSUME ControlInv, Reconnect PROVE ControlInv'
<1>1. /\ TypeOK /\ TasksInOrder /\ NoneAhead /\ TablesInOrder /\ JobsTrue /\ RecordedRight
      /\ MainInOrder /\ OneAtATime /\ Accounted
      /\ TaskTypes /\ TableTypes /\ ManagerTypes /\ MainTypes /\ Known \subseteq Jobs
  BY KnownJobs DEF ControlInv, TypeOK, JobTypes, TasksInOrder
<1>2. PICK e \in script.saved : \E n \in 1 .. script.loads :
        LET j == <<e, n>> IN
        /\ \A k \in 1 .. MaxLoads : Made(<<e, k>>) <=> k < n
        /\ active' = Put(j, active)
        /\ status' = [status EXCEPT ![j] = "running"]
        /\ overtaken' = Replaced(e)
        /\ AddExisting(Step(j))
        /\ IF proc[Step(j)] = "running" THEN StartManager(script.threads) ELSE UNCHANGED jm
  BY DEF Reconnect
<1>3. PICK n \in 1 .. script.loads :
        LET j == <<e, n>> IN
        /\ \A k \in 1 .. MaxLoads : Made(<<e, k>>) <=> k < n
        /\ active' = Put(j, active)
        /\ status' = [status EXCEPT ![j] = "running"]
        /\ overtaken' = Replaced(e)
        /\ AddExisting(Step(j))
        /\ IF proc[Step(j)] = "running" THEN StartManager(script.threads) ELSE UNCHANGED jm
  BY <1>2
<1> DEFINE j == <<e, n>>
           f == <<e, 0>>
<1>4. /\ main = "idle"
      /\ UNCHANGED <<watching, tm, at, held>> /\ UNCHANGED <<monitored, completed, run, returncode, recorded>>
      /\ UNCHANGED <<monitoring, toLook, moving>>
      /\ UNCHANGED <<script, main, queue, launched, signalled>>
  BY DEF Reconnect, threadVars, mainVars
<1>5. e \in Entities /\ n \in 1 .. MaxLoads
  <2>1. script.saved \subseteq Nodes /\ Nodes \subseteq Entities /\ script.loads \in 0 .. MaxLoads
    BY <1>1, ControllerAssumption DEF MainTypes
  <2> QED BY <2>1, LoadsAssumption
<1>6. j \in Jobs /\ ~Made(j) /\ j \notin Known /\ DOMAIN recorded[j] = {}
  <2>1. j \in Jobs
    BY <1>5, LoadsAssumption DEF Jobs
  <2>2. ~Made(j)
    BY <1>3, <1>5
  <2> QED BY <1>1, <2>1, <2>2 DEF TablesInOrder
<1>7. run[j] = 0 /\ Step(j) = f /\ f \in Steps /\ ~Owned(f)
  <2>1. run[j] = 0
    BY <1>1, <1>6, TaskAssumption DEF Made, TableTypes
  <2>2. f \in Steps
    BY <1>5, TaskAssumption DEF Steps
  <2> QED BY <2>1, <2>2 DEF Step, Owned
<1>8. /\ \A i \in Jobs : Step(i)' = Step(i) /\ Step(i) \in Steps
      /\ starting = NoStep /\ NoStep \notin Steps
  BY <1>1, <1>4, StepOfJob, TaskAssumption DEF Step, MainInOrder, NoStep, Steps
<1>9. WasLaunched(f)
  BY <1>1, <1>5, TaskAssumption DEF WasLaunched, MainTypes
<1>10. /\ UNCHANGED <<proc, code>> /\ UNCHANGED <<starting, dropped>>
       /\ \/ proc[f] = "running" /\ tasks' = Append(tasks, f) /\ history' = [history EXCEPT ![f] = "none"]
          \/ proc[f] # "running" /\ UNCHANGED <<tasks, history>>
  BY <1>3, <1>7 DEF AddExisting, processVars, startVars
<1>11. /\ active' = {i \in active : i[1] # e} \cup {j}
       /\ overtaken \subseteq overtaken' /\ overtaken' \in SUBSET Entities
       /\ \A i \in active : i[1] = e => e \in overtaken'
  BY <1>1, <1>3, <1>5 DEF Put, Of, Replaced, TableTypes
<1>12. /\ status' \in [Jobs -> Statuses] /\ status'[j] = "running"
       /\ \A i \in Jobs : i # j => status'[i] = status[i]
  BY <1>1, <1>3, <1>6 DEF TableTypes, Statuses
<1>13. /\ jm' \in [Threads -> JobPlaces] /\ \A u \in Threads : jm'[u] \in {jm[u], "start"}
  <2>1. jm' = jm \/ \E k : jm' = [jm EXCEPT ![k] = "start"]
    BY <1>3 DEF StartManager
  <2> QED BY <1>1, <2>1 DEF ManagerTypes, JobPlaces
<1>14. \A i \in completed : i[1] = e => i[2] < n
  <2> SUFFICES ASSUME NEW i \in completed, i[1] = e PROVE i[2] < n
    OBVIOUS
  <2>1. Made(i) /\ i \in Jobs
    BY <1>1 DEF TablesInOrder, Known
  <2>2. i[2] \in 0 .. MaxLoads /\ i = <<e, i[2]>>
    BY <2>1 DEF Jobs
  <2>3. CASE i[2] = 0
    BY <1>5, <2>3
  <2>4. CASE i[2] # 0
    <3>1. i[2] \in 1 .. MaxLoads
      BY <2>2, <2>4, LoadsAssumption
    <3> QED BY <1>3, <2>1, <2>2, <3>1
  <2> QED BY <2>3, <2>4
<1> HIDE DEF j, f
<1>15. /\ tasks' \in Seq(Steps) /\ ToSet(tasks) \subseteq ToSet(tasks') /\ ToSet(tasks') \subseteq ToSet(tasks) \cup {f}
       /\ proc[f] = "running" => f \in ToSet(tasks') /\ history'[f] = "none"
       /\ history' \in [Steps -> Codes \cup {"absent", "none"}]
       /\ \A s \in Steps : s # f => history'[s] = history[s]
       /\ history'[f] \in {history[f], "none"}
       /\ f \in ToSet(tasks') => f \in ToSet(tasks) \/ proc[f] = "running"
  <2>1. CASE proc[f] = "running" /\ tasks' = Append(tasks, f) /\ history' = [history EXCEPT ![f] = "none"]
    <3>1. tasks \in Seq(Steps)
      BY <1>1 DEF TaskTypes, ProcessTypes
    <3>2. Append(tasks, f) \in Seq(Steps) /\ ToSet(Append(tasks, f)) = ToSet(tasks) \cup {f}
      BY <1>7, <3>1, AppendElements
    <3>3. /\ history' \in [Steps -> Codes \cup {"absent", "none"}] /\ history'[f] = "none"
          /\ \A s \in Steps : s # f => history'[s] = history[s]
      BY <1>1, <1>7, <2>1 DEF TaskTypes, ProcessTypes
    <3> QED BY <2>1, <3>2, <3>3
  <2>2. CASE proc[f] # "running" /\ UNCHANGED <<tasks, history>>
    BY <1>1, <2>2 DEF TaskTypes, ProcessTypes
  <2> QED BY <1>10, <2>1, <2>2
<1>16. TypeOK'
  <2>1. TaskTypes'
    BY <1>1, <1>4, <1>10, <1>15 DEF TaskTypes, ProcessTypes, WatchTypes, StartTypes
  <2>2. JobTypes'
    BY <1>1, <1>4, <1>6, <1>11, <1>12, <1>13 DEF JobTypes, TableTypes, ManagerTypes
  <2>3. MainTypes'
    BY <1>1, <1>4 DEF MainTypes
  <2> QED BY <2>1, <2>2, <2>3 DEF TypeOK
<1>17. TasksInOrder'
  <2>1. TaskListComplete'
    BY <1>1, <1>10, <1>15 DEF TasksInOrder, TaskListComplete, IsAlive
  <2>2. RunsWithoutCode'
    <3>1. ToSet(tasks) \subseteq Steps
      BY <1>1, ElementPositions DEF TaskTypes, ProcessTypes
    <3> QED BY <1>1, <1>10, <1>15, <3>1 DEF Accounted, RunsWithoutCode
  <2>3. CodeIsOfProcess'
    BY <1>1, <1>7, <1>10, <1>15 DEF Accounted, CodeIsOfProcess
  <2>4. HeldHasEnded' /\ NoCodeYet'
    BY <1>1, <1>4, <1>10 DEF TasksInOrder, HeldHasEnded, Accounted, NoCodeYet
  <2> QED BY <2>1, <2>2, <2>3, <2>4 DEF TasksInOrder, Accounted
<1>18. NoneAhead'
  <2>1. /\ \A s \in ToSet(tasks') : WasLaunched(s)
        /\ \A t \in Threads : held'[t] \in Steps => WasLaunched(held'[t])
        /\ \A s \in Steps : history'[s] # "absent" \/ (Owned(s) /\ proc'[s] # "none") => WasLaunched(s)
    BY <1>1, <1>4, <1>9, <1>10, <1>15 DEF NoneAhead
  <2>2. ASSUME NEW s \in Steps, s = starting' \/ s \in dropped' PROVE Unlisted(s)'
    <3>1. Unlisted(s) /\ s # f
      BY <1>1, <1>7, <1>10, <2>2 DEF NoneAhead, Unlisted
    <3> QED BY <1>4, <1>15, <3>1 DEF Unlisted, WasLaunched, Owned
  <2>3. starting' \notin dropped'
    BY <1>1, <1>10 DEF NoneAhead
  <2>4. \A i \in Jobs : run'[i] <= launched'[i[1]] /\ (run'[i] > 0 => history'[Step(i)'] # "absent")
    BY <1>1, <1>4, <1>8, <1>15 DEF NoneAhead
  <2> QED BY <1>4, <2>1, <2>2, <2>3, <2>4 DEF NoneAhead, WasLaunched, Owned
<1>19. \A i \in Jobs : i # j => (Made(i) <=> Made(i)')
  BY <1>4, <1>12 DEF Made
<1>20. j[1] = e /\ j[2] = n /\ Made(j)' /\ Known' = {i \in active : i[1] # e} \cup {j} \cup completed
  BY <1>4, <1>11, <1>12 DEF j, Known, Made
<1>21. TablesInOrder'
  <2>1. \A i \in Known' : Made(i)'
    BY <1>1, <1>19, <1>20 DEF TablesInOrder, Known
  <2>2. ASSUME NEW i \in Jobs, Made(i)' PROVE \E k \in Known' : k[1] = i[1]
    <3>1. CASE i[1] = e
      BY <1>20, <3>1
    <3>2. CASE i[1] # e
      <4>1. PICK k \in Known : k[1] = i[1]
        BY <1>1, <1>19, <1>20, <2>2, <3>2 DEF TablesInOrder
      <4> QED BY <1>20, <3>2, <4>1 DEF Known
    <3> QED BY <3>1, <3>2
  <2>3. ASSUME NEW i \in Jobs, ~Made(i)' PROVE DOMAIN recorded'[i] = {}
    BY <1>1, <1>4, <1>19, <1>20, <2>3 DEF TablesInOrder
  <2>4. IsOneOfName(active)' /\ IsOneOfName(completed)'
    BY <1>1, <1>4, <1>11, <1>20 DEF TablesInOrder, IsOneOfName
  <2>5. ASSUME NEW i \in active', NEW k \in completed', i[1] = k[1] PROVE run'[i] = 0 /\ i[2] > k[2]
    <3>1. CASE i = j
      <4>1. k[2] < n
        BY <1>4, <1>14, <1>20, <2>5, <3>1
      <4>2. k \in Jobs
        BY <1>1, <1>4 DEF TableTypes
      <4>3. k[2] \in 0 .. MaxLoads
        BY <4>2 DEF Jobs
      <4> QED BY <1>4, <1>5, <1>7, <1>20, <3>1, <4>1, <4>3, LoadsAssumption
    <3>2. CASE i # j
      BY <1>1, <1>4, <1>11, <2>5, <3>2 DEF TablesInOrder
    <3> QED BY <3>1, <3>2
  <2>6. \A t \in Threads : \A i \in toLook'[t] : Made(i)'
    BY <1>1, <1>4, <1>19, <1>20 DEF TablesInOrder, ManagerTypes
  <2>7. \A t \in Threads : jm'[t] = "move" => moving'[t] \in Jobs /\ Made(moving[t])'
    BY <1>1, <1>4, <1>13, <1>19, <1>20 DEF TablesInOrder
  <2>8. \A t \in Threads : (Made(moving[t]))' <=> run'[moving'[t]] > 0 \/ status'[moving'[t]] # "new"
    BY DEF Made
  <2> QED BY <2>1, <2>2, <2>3, <2>4, <2>5, <2>6, <2>7, <2>8 DEF TablesInOrder
<1>22. JobsTrue'
  <2>1. JobIsTrue(j)'
    <3>1. Step(j)' = f
      BY <1>6, <1>7, <1>8
    <3>2. Tracked(Step(j))'
      BY <1>10, <1>15, <3>1 DEF Tracked
    <3>3. ~Owned(Step(j))' /\ status'[j] \notin TerminalStatuses
      BY <1>7, <1>12, <3>1 DEF Owned, TerminalStatuses
    <3> QED BY <3>2, <3>3 DEF JobIsTrue
  <2>2. ASSUME NEW i \in Known', i # j, i[1] \notin overtaken' PROVE JobIsTrue(i)'
    <3>1. i \in Jobs /\ JobIsTrue(i)
      BY <1>1, <1>11, <1>20, <2>2 DEF JobsTrue, Known
    <3>2. /\ Step(i)' = Step(i) /\ status'[i] = status[i] /\ returncode'[i] = returncode[i]
      BY <1>4, <1>8, <1>12, <2>2, <3>1
    <3>3. Tracked(Step(i))'
      BY <1>10, <1>15, <3>1, <3>2 DEF Tracked, JobIsTrue
    <3> QED BY <1>10, <3>1, <3>2, <3>3 DEF JobIsTrue, Owned
  <2>3. ASSUME NEW i \in completed', i[1] \notin overtaken' PROVE HasOutcome(i)'
    <3>1. i \in Jobs /\ i # j /\ HasOutcome(i)
      BY <1>1, <1>4, <1>6, <1>11, <2>3 DEF JobsTrue, TableTypes, Known
    <3> QED BY <1>4, <1>12, <3>1 DEF HasOutcome
  <2> QED BY <2>1, <2>2, <2>3 DEF JobsTrue
<1>23. RecordedRight'
  <2>1. \A i \in Jobs : \A k \in DOMAIN recorded'[i] : k <= run'[i]
    BY <1>1, <1>4 DEF RecordedRight
  <2>2. ASSUME NEW i \in Jobs, i[1] \notin overtaken', run'[i] \in DOMAIN recorded'[i]
        PROVE  i \notin active' /\ recorded'[i][run'[i]] = <<status'[i], returncode'[i]>>
    <3>1. i # j
      BY <1>4, <1>6, <2>2
    <3> QED BY <1>1, <1>4, <1>11, <1>12, <2>2, <3>1 DEF RecordedRight
  <2> QED BY <2>1, <2>2 DEF RecordedRight
<1>24. MainInOrder'
  BY <1>4, <1>8, <1>10 DEF MainInOrder
<1>25. OneAtATime'
  <2> SUFFICES ASSUME NEW s \in Steps, s[1] \notin overtaken', s \in Servers(s[1])', proc'[s] = "running"
               PROVE  OwnProcess(s)'
    BY DEF OneAtATime
  <2>1. ASSUME s \in Servers(s[1]) PROVE OwnProcess(s)'
    <3>1. PICK i \in active : s = Step(i)
      BY <1>1, <1>4, <1>8, <1>10, <1>11, <2>1 DEF OneAtATime, OwnProcess
    <3>2. i \in Jobs /\ i[1] = s[1]
      BY <1>1, <3>1 DEF TableTypes, Step
    <3>3. i \in active' /\ Step(i)' = s
      BY <1>8, <1>11, <3>1, <3>2
    <3> QED BY <3>3 DEF OwnProcess
  <2>2. CASE Owned(s)
    BY <2>1, <2>2 DEF Servers
  <2>3. CASE ~Owned(s) /\ s[1] = e
    <3>1. s = f
      BY <2>3, TaskAssumption DEF Steps, Owned, f
    <3> QED BY <1>6, <1>7, <1>8, <1>11, <3>1 DEF OwnProcess
  <2>4. CASE ~Owned(s) /\ s[1] # e
    <3>1. PICK k \in 1 .. MaxLoads : run'[<<s[1], k>>] > 0 \/ status'[<<s[1], k>>] # "new"
      BY <2>4 DEF Servers, Made, Owned
    <3>2. <<s[1], k>> \in Jobs /\ <<s[1], k>> # j
      BY <2>4, LoadsAssumption DEF Jobs, Steps, j
    <3>3. Made(<<s[1], k>>)
      BY <1>4, <1>12, <3>1, <3>2 DEF Made
    <3> QED BY <2>1, <3>3 DEF Servers
  <2> QED BY <2>2, <2>3, <2>4
<1> QED BY <1>16, <1>17, <1>18, <1>21, <1>22, <1>23, <1>24, <1>25 DEF ControlInv

LEMMA InterruptKeeps == ASSUME ControlInv, SignalInterrupt PROVE ControlInv'
<1>1. /\ TypeOK /\ TasksInOrder /\ NoneAhead /\ TablesInOrder /\ JobsTrue /\ RecordedRight
      /\ MainInOrder /\ OneAtATime
      /\ TaskTypes /\ TableTypes /\ ManagerTypes /\ MainTypes
  BY DEF ControlInv, TypeOK, JobTypes
<1> DEFINE S == {Step(j) : j \in {i \in active : status[i] \notin TerminalStatuses}}
           broken == starting # NoStep \/ main = "register"
<1>2. /\ signalled' = TRUE
      /\ RemoveTasks(S) \/ UNCHANGED <<processVars, tasks, history>>
      /\ dropped' = dropped \cup ({starting} \ {NoStep}) /\ starting' = NoStep
      /\ overtaken' = IF broken THEN overtaken \cup {Head(queue)} ELSE overtaken
      /\ main' = IF main = "wait" THEN "abort" ELSE "idle"
      /\ UNCHANGED <<threadVars, tableVars, jobVars, watchVars, script, queue, launched>>
  BY DEF SignalInterrupt, DropTask
<1>3. S \in SUBSET Steps
  BY <1>1, StepOfJob DEF TableTypes
<1>4. broken => queue # <<>> /\ Head(queue) \in Entities
  BY <1>1, TailElements DEF MainInOrder, MainTypes
<1>5. NoStep \notin Steps /\ dropped \subseteq Steps /\ starting \in Steps \cup {NoStep}
  BY <1>1, TaskAssumption DEF NoStep, Steps, TaskTypes, StartTypes
<1>6. /\ overtaken \subseteq overtaken' /\ overtaken' \in SUBSET Entities
      /\ broken => Head(queue) \in overtaken'
  BY <1>1, <1>2, <1>4 DEF TableTypes
<1> HIDE DEF S
<1>7. /\ UNCHANGED <<watching, tm, at, held>> /\ UNCHANGED <<active, completed, run, status, returncode>>
      /\ UNCHANGED <<recorded, run>> /\ UNCHANGED <<monitored, monitoring, jm, toLook, moving>>
      /\ UNCHANGED <<run, launched>> /\ UNCHANGED <<active, completed, run, recorded>>
  BY <1>2 DEF threadVars, tableVars, jobVars, watchVars
<1>8. /\ ProcessTypes' /\ Accounted' /\ (\A s \in Steps : Declines(s)) /\ ToSet(tasks') \subseteq ToSet(tasks)
  <2>1. CASE RemoveTasks(S)
    BY <1>1, <1>3, <2>1, RemoveFacts
  <2>2. CASE UNCHANGED <<processVars, tasks, history>>
    <3>1. UNCHANGED <<proc, code, tasks, history>>
      BY <2>2 DEF processVars
    <3>2. ProcessTypes' /\ ToSet(tasks') \subseteq ToSet(tasks)
      BY <1>1, <3>1 DEF ProcessTypes, TaskTypes
    <3>3. Accounted'
      BY <1>1, <3>1 DEF TasksInOrder, Accounted, RunsWithoutCode, CodeIsOfProcess, NoCodeYet
    <3>4. \A s \in Steps : Declines(s)
      BY <3>1 DEF Declines
    <3> QED BY <3>2, <3>3, <3>4
  <2> QED BY <1>2, <2>1, <2>2
<1>9. TypeOK'
  <2>1. TaskTypes'
    BY <1>1, <1>2, <1>5, <1>7, <1>8 DEF TaskTypes, WatchTypes, StartTypes
  <2>2. JobTypes'
    BY <1>1, <1>6, <1>7 DEF JobTypes, TableTypes, ManagerTypes
  <2>3. MainTypes'
    BY <1>1, <1>2 DEF MainTypes, MainPlaces
  <2> QED BY <2>1, <2>2, <2>3 DEF TypeOK
<1>10. TasksInOrder'
  <2>1. HeldHasEnded'
    BY <1>1, <1>7, <1>8 DEF HeldHasEnded, TasksInOrder, Declines
  <2>2. \A s \in Steps : s = starting \/ s \in dropped => s = starting' \/ s \in dropped'
    BY <1>2, <1>5
  <2>3. TaskListComplete'
    BY <1>1, <1>8, <2>2, ListKept DEF TasksInOrder
  <2> QED BY <1>8, <2>1, <2>3 DEF TasksInOrder
<1>11. NoneAhead'
  <2>1. /\ \A t \in Threads : held'[t] \in {held[t], NoStep} \cup ToSet(tasks)
        /\ \A s \in Steps : s = starting' \/ s \in dropped' => s = starting \/ s \in dropped
        /\ starting' \notin dropped'
    BY <1>2, <1>5, <1>7
  <2> QED BY <1>1, <1>7, <1>8, <2>1, NoneAheadStays
<1>12. TablesInOrder'
  <2>1. /\ \A t \in Threads : AreMade(t)
        /\ \A t \in Threads : jm'[t] = "move" => moving'[t] \in Jobs /\ Made(moving'[t])
        /\ \A j \in Jobs : Made(j) <=> run'[j] > 0 \/ status'[j] # "new"
    BY <1>1, <1>7 DEF TablesInOrder, AreMade, Made, ManagerTypes
  <2> QED BY <1>1, <1>7, <2>1, TablesStay
<1>13. JobsTrue'
  BY <1>1, <1>6, <1>7, <1>8, JobsStay
<1>14. RecordedRight'
  BY <1>1, <1>6, <1>7, HistoriesStay
<1>15. MainInOrder'
  BY <1>1, <1>2 DEF MainInOrder
<1>16. OneAtATime'
  <2> SUFFICES ASSUME NEW s \in Steps, s[1] \notin overtaken', s \in Servers(s[1])', proc'[s] = "running"
               PROVE  OwnProcess(s)'
    BY DEF OneAtATime
  <2>1. s \in Servers(s[1]) /\ proc[s] = "running"
    BY <1>7, <1>8 DEF Servers, Made, Declines
  <2>2. OwnProcess(s)
    BY <1>1, <1>6, <2>1 DEF OneAtATime
  <2>3. s # starting
    BY <1>1, <1>5, <1>6 DEF MainInOrder
  <2>4. main = "register" => s # <<Head(queue), launched[Head(queue)]>>
    BY <1>6
  <2>5. PICK j \in active : s = Step(j)
    BY <2>2, <2>3, <2>4 DEF OwnProcess
  <2> QED BY <1>7, <2>5 DEF OwnProcess, Step
<1> QED BY <1>9, <1>10, <1>11, <1>12, <1>13, <1>14, <1>15, <1>16 DEF ControlInv

-----------------------------------------------------------------------------
(* The invariant, at the start and from step to step.                                  *)
LEMMA ControlAtStart == Init => ControlInv
<1> SUFFICES ASSUME Init PROVE ControlInv
  OBVIOUS
<1>1. /\ script \in Scripts /\ TaskInit(script.saved) /\ JobInit /\ main = "idle" /\ queue = <<>>
      /\ launched = [e \in Entities |-> 0] /\ signalled = FALSE
  BY DEF Init
<1>2. /\ proc \in [Steps -> {"none", "running", "gone"}]
      /\ \A s \in Steps : proc[s] # "none" <=> s[1] \in script.saved /\ s[2] = 0
      /\ code = [s \in Steps |-> IF proc[s] = "gone" THEN "ok" ELSE "none"]
      /\ tasks = <<>> /\ history = [s \in Steps |-> "absent"] /\ watching = FALSE
      /\ starting = NoStep /\ dropped = {}
      /\ tm = [t \in Threads |-> "off"] /\ at = [t \in Threads |-> 1]
      /\ held = [t \in Threads |-> NoStep]
  BY <1>1 DEF TaskInit
<1>3. /\ active = {} /\ monitored = {} /\ completed = {}
      /\ run = [j \in Jobs |-> 0] /\ status = [j \in Jobs |-> "new"]
      /\ returncode = [j \in Jobs |-> "none"] /\ recorded = [j \in Jobs |-> <<>>]
      /\ monitoring = FALSE /\ jm = [t \in Threads |-> "off"]
      /\ toLook = [t \in Threads |-> {}] /\ moving = [t \in Threads |-> NoJob] /\ overtaken = {}
  BY <1>1 DEF JobInit
<1>4. NoStep \notin Steps /\ MaxRuns \in Nat /\ 0 \in 0 .. MaxRuns
  BY TaskAssumption DEF NoStep, Steps
<1>5. TaskTypes
  <2>1. tasks \in Seq(Steps)
    BY <1>2
  <2>2. proc \in [Steps -> {"none", "running", "zombie", "gone"}] /\ code \in [Steps -> Codes \cup {"none"}]
    BY <1>2 DEF Codes
  <2>3. /\ history \in [Steps -> Codes \cup {"absent", "none"}]
        /\ tm \in [Threads -> TaskPlaces] /\ at \in [Threads -> Nat \ {0}]
        /\ held \in [Threads -> Steps \cup {NoStep}]
    BY <1>2 DEF TaskPlaces
  <2>4. watching \in BOOLEAN /\ StartTypes
    BY <1>2 DEF StartTypes
  <2> QED BY <2>1, <2>2, <2>3, <2>4 DEF TaskTypes, ProcessTypes, WatchTypes
<1>6. JobTypes
  <2>1. <<>> \in Histories
    <3>1. <<>> \in [{} -> Statuses \X (Codes \cup {"none"})]
      OBVIOUS
    <3>2. {} \in SUBSET (0 .. MaxRuns)
      OBVIOUS
    <3> QED BY <3>1, <3>2 DEF Histories
  <2>2. TableTypes
    BY <1>3, <1>4, <2>1 DEF TableTypes, Statuses
  <2>3. ManagerTypes
    BY <1>3 DEF ManagerTypes, JobPlaces
  <2> QED BY <2>2, <2>3 DEF JobTypes
<1>7. MainTypes
  <2>1. queue \in Seq(Entities) /\ main \in MainPlaces
    BY <1>1 DEF MainPlaces
  <2>2. signalled \in BOOLEAN
    BY <1>1
  <2> QED BY <1>1, <1>4, <2>1, <2>2 DEF MainTypes
<1>8. ToSet(tasks) = {}
  BY <1>2, EmptyElements
<1>9. \A s \in Steps : Owned(s) => proc[s] = "none"
  BY <1>2 DEF Owned
<1>10. TasksInOrder
  BY <1>2, <1>8, <1>9
  DEF TasksInOrder, TaskListComplete, Accounted, RunsWithoutCode, CodeIsOfProcess, NoCodeYet, HeldHasEnded,
      IsAlive, Codes
<1>11. NoneAhead
  <2>1. \A j \in Jobs : run[j] <= launched[j[1]] /\ ~(run[j] > 0)
    BY <1>1, <1>3 DEF Jobs
  <2> QED BY <1>2, <1>4, <1>8, <1>9, <2>1 DEF NoneAhead
<1>12. \A j \in Jobs : ~Made(j) /\ DOMAIN recorded[j] = {}
  BY <1>3 DEF Made
<1>13. TablesInOrder
  BY <1>3, <1>12 DEF TablesInOrder, Known, IsOneOfName
<1>14. JobsTrue
  BY <1>3 DEF JobsTrue, Known
<1>15. RecordedRight
  BY <1>12 DEF RecordedRight
<1>16. MainInOrder
  BY <1>1, <1>2 DEF MainInOrder
<1>17. OneAtATime
  <2> SUFFICES ASSUME NEW s \in Steps, s \in Servers(s[1]) PROVE proc[s] # "running"
    BY DEF OneAtATime
  <2>1. \A k \in 1 .. MaxLoads : <<s[1], k>> \in Jobs
    BY LoadsAssumption DEF Steps, Jobs
  <2>2. Owned(s)
    BY <1>12, <2>1 DEF Servers
  <2> QED BY <1>9, <2>2
<1> QED
  BY <1>5, <1>6, <1>7, <1>10, <1>11, <1>13, <1>14, <1>15, <1>16, <1>17 DEF ControlInv, TypeOK

LEMMA ControlStep == ControlInv /\ [Next]_vars => ControlInv'
<1> SUFFICES ASSUME ControlInv, [Next]_vars PROVE ControlInv'
  OBVIOUS
<1>1. /\ TypeOK /\ TasksInOrder /\ NoneAhead /\ TablesInOrder /\ JobsTrue /\ RecordedRight
      /\ MainInOrder /\ OneAtATime
      /\ TaskTypes /\ JobTypes /\ MainTypes
  BY DEF ControlInv, TypeOK
<1>2. CASE Start \/ LaunchStep \/ AddMonitor \/ BeginManager \/ DBRuns \/ SetHosts \/ Poll \/ EndPoll
  BY <1>2, MainCallsKeep
<1>3. CASE Spawn \/ Spawned
  BY <1>3, SpawnKeeps, SpawnedKeeps
<1>4. CASE Relaunch
  BY <1>4, RelaunchKeeps
<1>5. CASE AddJob
  BY <1>5, AddJobKeeps
<1>6. CASE LookAtDB
  BY <1>6, LookKeeps
<1>7. CASE Stop
  BY <1>7, StopKeeps
<1>8. CASE DBFails \/ AbortDB
  <2>1. /\ StopDB(Head(queue))
        /\ UNCHANGED <<startVars, threadVars, watchVars, overtaken, script, launched, signalled, queue>>
        /\ main \notin {"spawn", "register"} /\ main' = "idle"
    BY <1>8 DEF DBFails, AbortDB
  <2> QED BY <2>1, StopDBKeeps
<1>9. CASE Reconnect
  BY <1>9, ReconnectKeeps
<1>10. CASE SignalInterrupt
  BY <1>10, InterruptKeeps
<1>11. CASE \E t \in Threads : JobMonitor(t) /\ UNCHANGED <<taskVars, mainVars>>
  BY <1>11, ManagerKeeps
<1>12. CASE \E t \in Threads : TaskMonitor(t) /\ UNCHANGED <<managerVars, mainVars>>
  <2>1. PICK t \in Threads : TaskMonitor(t) /\ UNCHANGED <<managerVars, mainVars>>
    BY <1>12
  <2>2. /\ TaskTypes' /\ TasksInOrder' /\ \A s \in Steps : Declines(s)
        /\ ToSet(tasks') \subseteq ToSet(tasks) /\ UNCHANGED <<starting, dropped>>
        /\ \A u \in Threads : held'[u] \in {held[u], NoStep} \cup ToSet(tasks)
    BY <1>1, <2>1, WatchFacts
  <2>3. NoneAhead' /\ TablesInOrder' /\ JobsTrue' /\ RecordedRight' /\ MainInOrder' /\ OneAtATime'
    BY <1>1, <2>1, <2>2, ProcessesKeep
  <2>4. JobTypes' /\ MainTypes'
    BY <1>1, <2>1
    DEF JobTypes, TableTypes, ManagerTypes, MainTypes, managerVars, tableVars, jobVars, watchVars, mainVars
  <2> QED BY <2>2, <2>3, <2>4 DEF ControlInv, TypeOK
<1>13. CASE Exits
  <2>1. PICK s \in Steps : Exit(s)
    BY <1>13 DEF Exits, Processes
  <2>2. UNCHANGED <<managerVars, mainVars>>
    BY <1>13 DEF Exits
  <2>3. /\ TaskTypes' /\ TasksInOrder' /\ (\A r \in Steps : Declines(r))
        /\ ToSet(tasks') \subseteq ToSet(tasks) /\ UNCHANGED <<held, starting, dropped>>
    BY <1>1, <2>1, ExitFacts
  <2>4. /\ UNCHANGED <<starting, dropped>>
        /\ \A u \in Threads : held'[u] \in {held[u], NoStep} \cup ToSet(tasks)
    BY <2>3
  <2>5. NoneAhead' /\ TablesInOrder' /\ JobsTrue' /\ RecordedRight' /\ MainInOrder' /\ OneAtATime'
    BY <1>1, <2>2, <2>3, <2>4, ProcessesKeep
  <2>6. JobTypes' /\ MainTypes'
    BY <1>1, <2>2
    DEF JobTypes, TableTypes, ManagerTypes, MainTypes, managerVars, tableVars, jobVars, watchVars, mainVars
  <2> QED BY <2>3, <2>5, <2>6 DEF ControlInv, TypeOK
<1>14. CASE UNCHANGED vars
  <2>1. UNCHANGED <<managerVars, mainVars>> /\ UNCHANGED taskVars
    BY <1>14 DEF vars
  <2>2. /\ UNCHANGED <<proc, code, tasks, history>> /\ UNCHANGED <<starting, dropped>>
        /\ UNCHANGED <<watching, tm, at, held>>
    BY <2>1 DEF taskVars, processVars, startVars, threadVars
  <2>3. TypeOK'
    BY <1>1, <2>1, <2>2
    DEF TypeOK, TaskTypes, ProcessTypes, WatchTypes, StartTypes, JobTypes, TableTypes, ManagerTypes, MainTypes,
        managerVars, tableVars, jobVars, watchVars, mainVars
  <2>4. /\ \A s \in Steps : s = starting \/ s \in dropped => s = starting' \/ s \in dropped'
        /\ \A t \in Threads : tm'[t] \in {"record", "remove"} => tm'[t] = tm[t] /\ held'[t] = held[t]
        /\ ToSet(tasks') \subseteq ToSet(tasks)
        /\ \A u \in Threads : held'[u] \in {held[u], NoStep} \cup ToSet(tasks)
    BY <2>2
  <2>5. TasksInOrder' /\ \A s \in Steps : Declines(s)
    BY <1>1, <2>2, <2>4, TasksStay
  <2>6. NoneAhead' /\ TablesInOrder' /\ JobsTrue' /\ RecordedRight' /\ MainInOrder' /\ OneAtATime'
    BY <1>1, <2>1, <2>2, <2>4, <2>5, ProcessesKeep
  <2> QED BY <2>3, <2>5, <2>6 DEF ControlInv
<1> QED
  BY <1>2, <1>3, <1>4, <1>5, <1>6, <1>7, <1>8, <1>9, <1>10, <1>11, <1>12, <1>13, <1>14
  DEF Next, User, Launching

-----------------------------------------------------------------------------
(* What a step does to the outcomes of jobs.                                            *)
VerdictsKept == \A j \in Jobs : j[1] \notin overtaken' => KeepsVerdict(j)

LEMMA SameVerdicts ==
  ASSUME TypeOK, UNCHANGED <<completed, recorded>>, \A j \in completed : status'[j] = status[j]
  PROVE  VerdictsKept
BY DEF VerdictsKept, KeepsVerdict

(* A job that is moved with the outcome that it has, or that had none.                    *)
LEMMA MoveVerdicts ==
  ASSUME ControlInv, NEW j \in Jobs, NEW stat, NEW rc, MoveToCompleted(j, stat, rc),
         status' = [status EXCEPT ![j] = stat], overtaken \subseteq overtaken',
         j \in Found(j[1]) \/ j[1] \in overtaken',
         j \in completed /\ j[1] \notin overtaken' => stat = status[j] /\ rc = returncode[j]
  PROVE  VerdictsKept
<1>1. TableTypes /\ TablesInOrder /\ RecordedRight
  BY DEF ControlInv, TypeOK, JobTypes
<1>2. /\ completed' = {i \in completed : i[1] # j[1]} \cup {j}
      /\ recorded' = [recorded EXCEPT ![j] = [k \in (DOMAIN recorded[j]) \cup {run[j]} |->
                                                IF k = run[j] THEN <<stat, rc>> ELSE recorded[j][k]]]
  BY DEF MoveToCompleted, Put, Of
<1>3. /\ status'[j] = stat
      /\ \A i \in Jobs : i # j => recorded'[i] = recorded[i] /\ status'[i] = status[i]
  BY <1>1, <1>2 DEF TableTypes
<1>4. j[1] \notin overtaken' => j \in Found(j[1])
  OBVIOUS
<1>5. ASSUME NEW i \in Jobs, i[1] \notin overtaken' PROVE KeepsVerdict(i)
  <2>1. CASE i = j
    <3>1. ASSUME NEW k \in DOMAIN recorded[j] PROVE recorded'[j][k] = recorded[j][k]
      <4>1. recorded'[j] = [l \in (DOMAIN recorded[j]) \cup {run[j]} |->
                              IF l = run[j] THEN <<stat, rc>> ELSE recorded[j][l]]
        BY <1>1, <1>2 DEF TableTypes
      <4>2. recorded'[j][k] = IF k = run[j] THEN <<stat, rc>> ELSE recorded[j][k]
        BY <3>1, <4>1
      <4>3. k = run[j] => j \in completed /\ recorded[j][k] = <<status[j], returncode[j]>>
        BY <1>1, <1>4, <1>5, <2>1, <3>1 DEF RecordedRight, Found, Of
      <4> QED BY <1>5, <2>1, <4>2, <4>3
    <3>2. j \in completed => j \in completed' /\ status'[j] = status[j]
      BY <1>2, <1>3, <1>5, <2>1
    <3> QED BY <2>1, <3>1, <3>2 DEF KeepsVerdict
  <2>2. CASE i # j /\ i[1] # j[1]
    BY <1>2, <1>3, <2>2 DEF KeepsVerdict
  <2>3. CASE i # j /\ i[1] = j[1]
    <3>1. i \in completed => j[2] > i[2]
      <4>1. ASSUME i \in completed PROVE j \in active
        BY <1>1, <1>4, <1>5, <2>3, <4>1 DEF Found, Of, TablesInOrder, IsOneOfName
      <4> QED BY <1>1, <2>3, <4>1 DEF TablesInOrder
    <3>2. j \in Of(i[1], completed')
      BY <1>2, <2>3 DEF Of
    <3> QED BY <1>3, <2>3, <3>1, <3>2 DEF KeepsVerdict
  <2> QED BY <2>1, <2>2, <2>3
<1> QED BY <1>5 DEF VerdictsKept

LEMMA StopVerdicts ==
  ASSUME ControlInv, NEW j \in Jobs, j \in Found(j[1]), ShutdownNode(j) \/ StopEntity(j),
         overtaken' = overtaken, main \notin {"spawn", "register"}
  PROVE  VerdictsKept
<1>1. TypeOK /\ TableTypes /\ JobsTrue /\ overtaken \subseteq overtaken'
  BY DEF ControlInv, TypeOK, JobTypes
<1>2. CASE ShutdownNode(j)
  <2>1. MoveToCompleted(j, "cancelled", "ok") /\ status' = [status EXCEPT ![j] = "cancelled"]
    BY <1>2 DEF ShutdownNode
  <2>2. ASSUME j \in completed, j[1] \notin overtaken' PROVE FALSE
    <3>1. PICK s \in Servers(j[1]) : proc[s] = "running"
      BY <1>2 DEF ShutdownNode
    <3>2. proc[Step(j)] = "running"
      BY <2>2, <3>1, ServerOfJob
    <3> QED BY <1>1, <2>2, <3>2 DEF JobsTrue, Known, HasOutcome, JobIsTrue
  <2> QED BY <1>1, <2>1, <2>2, MoveVerdicts
<1>3. CASE StopEntity(j) /\ status[j] \in TerminalStatuses
  BY <1>1, <1>3, SameVerdicts DEF StopEntity, tableVars, jobVars
<1>4. CASE StopEntity(j) /\ status[j] \notin TerminalStatuses
  <2>1. PICK rc : MoveToCompleted(j, "cancelled", rc)
    BY <1>4 DEF StopEntity
  <2>2. status' = [status EXCEPT ![j] = "cancelled"]
    BY <1>4 DEF StopEntity
  <2>3. ~(j \in completed /\ j[1] \notin overtaken')
    BY <1>1, <1>4 DEF JobsTrue, HasOutcome
  <2> QED BY <1>1, <2>1, <2>2, <2>3, MoveVerdicts
<1> QED BY <1>2, <1>3, <1>4

LEMMA VerdictsStay == ControlInv /\ [Next]_vars => VerdictsKept
<1> SUFFICES ASSUME ControlInv, [Next]_vars PROVE VerdictsKept
  OBVIOUS
<1> USE DEF managerVars, tableVars, jobVars
<1>1. TypeOK /\ TableTypes /\ TablesInOrder /\ JobsTrue /\ MainInOrder /\ MainTypes
  BY DEF ControlInv, TypeOK, JobTypes
<1>2. \A e : \A j \in Found(e) : j \in Jobs /\ j[1] = e
  BY <1>1 DEF Found, Of, TableTypes
<1>3. CASE Start \/ LaunchStep \/ AddMonitor \/ BeginManager \/ DBRuns \/ SetHosts \/ Poll \/ EndPoll \/ Spawn
           \/ Spawned \/ SignalInterrupt
  <2>1. UNCHANGED <<completed, recorded, status>>
    BY <1>3
    DEF Start, LaunchStep, AddMonitor, BeginManager, DBRuns, SetHosts, Poll, EndPoll, Spawn, Spawned,
        SignalInterrupt
  <2> QED BY <1>1, <2>1, SameVerdicts
<1>4. CASE Relaunch
  <2>1. /\ main = "register" /\ recorded' = recorded
        /\ \E j \in Of(Head(queue), completed) : RestartJob(j, launched[Head(queue)], Head(queue) \notin Nodes)
    BY <1>4 DEF Relaunch
  <2>2. PICK j \in Of(Head(queue), completed) : RestartJob(j, launched[Head(queue)], Head(queue) \notin Nodes)
    BY <2>1
  <2>3. j \in Jobs /\ j[1] = Head(queue) /\ run[j] < launched[Head(queue)]
    BY <1>1, <2>1 DEF Of, TableTypes, MainInOrder
  <2>4. /\ completed' = completed \ {j} /\ run'[j] > run[j]
        /\ \A i \in Jobs : i # j => run'[i] = run[i] /\ status'[i] = status[i]
    <3>1. launched[Head(queue)] \in Nat /\ run[j] \in Nat
      <4>1. Head(queue) \in Entities
        BY <2>3 DEF Jobs
      <4> QED BY <1>1, <2>3, <4>1, TaskAssumption DEF MainTypes, TableTypes
    <3> QED BY <1>1, <2>2, <2>3, <3>1 DEF RestartJob, TableTypes
  <2> QED BY <2>1, <2>4 DEF VerdictsKept, KeepsVerdict
<1>5. CASE AddJob
  <2>1. /\ Of(Head(queue), completed) = {} /\ UNCHANGED <<completed, recorded>>
        /\ status' = [status EXCEPT ![<<Head(queue), 0>>] = "new"]
    BY <1>5 DEF AddJob
  <2>2. \A j \in completed : j # <<Head(queue), 0>>
    BY <2>1 DEF Of
  <2>3. \A j \in completed : status'[j] = status[j]
    BY <1>1, <2>1, <2>2 DEF TableTypes
  <2> QED BY <1>1, <2>1, <2>3, SameVerdicts
<1>6. ASSUME CheckJobs, UNCHANGED <<completed, recorded>> PROVE VerdictsKept
  <2>1. \A j \in completed : j \in Jobs /\ j \notin active
    BY <1>1, LoadsAssumption DEF TablesInOrder, TableTypes, Jobs
  <2>2. \A j \in completed : status'[j] = status[j]
    BY <1>6, <2>1 DEF CheckJobs
  <2> QED BY <1>1, <1>6, <2>2, SameVerdicts
<1>7. CASE LookAtDB
  BY <1>6, <1>7 DEF LookAtDB
<1>8. CASE Stop \/ DBFails \/ AbortDB
  <2>1. /\ \E e : \E j \in Found(e) : ShutdownNode(j) \/ StopEntity(j)
        /\ overtaken' = overtaken /\ main \notin {"spawn", "register"}
    BY <1>8 DEF Stop, StopDB, DBFails, AbortDB
  <2>2. PICK e : \E j \in Found(e) : ShutdownNode(j) \/ StopEntity(j)
    BY <2>1
  <2>3. PICK j \in Found(e) : ShutdownNode(j) \/ StopEntity(j)
    BY <2>2
  <2>4. j \in Jobs /\ j \in Found(j[1])
    BY <1>2, <2>3
  <2> QED BY <2>1, <2>3, <2>4, StopVerdicts
<1>9. CASE Reconnect
  <2>1. UNCHANGED <<completed, recorded>>
    BY <1>9 DEF Reconnect
  <2>2. PICK e \in script.saved : \E n \in 1 .. script.loads :
          /\ \A k \in 1 .. MaxLoads : Made(<<e, k>>) <=> k < n
          /\ status' = [status EXCEPT ![<<e, n>>] = "running"]
    BY <1>9 DEF Reconnect
  <2>3. PICK n \in 1 .. script.loads :
          /\ \A k \in 1 .. MaxLoads : Made(<<e, k>>) <=> k < n
          /\ status' = [status EXCEPT ![<<e, n>>] = "running"]
    BY <2>2
  <2>4. n \in 1 .. MaxLoads
    <3>1. script.loads \in 0 .. MaxLoads
      BY <1>1, ControllerAssumption DEF MainTypes
    <3> QED BY <3>1, LoadsAssumption
  <2>5. <<e, n>> \notin completed
    BY <1>1, <2>3, <2>4 DEF TablesInOrder, Known
  <2>6. \A j \in completed : status'[j] = status[j]
    BY <1>1, <2>3, <2>5 DEF TableTypes
  <2> QED BY <1>1, <2>1, <2>6, SameVerdicts
<1>10. CASE \E t \in Threads : JobMonitor(t) /\ UNCHANGED <<taskVars, mainVars>>
  <2>1. PICK t \in Threads : JobMonitor(t)
    BY <1>10
  <2>2. CASE ManagerBegin(t) \/ ManagerLoop(t) \/ ManagerLook(t) \/ ManagerEmpty(t) \/ ManagerClear(t)
    <3>1. UNCHANGED <<completed, recorded, status>>
      BY <2>2 DEF ManagerBegin, ManagerLoop, ManagerLook, ManagerEmpty, ManagerClear
    <3> QED BY <1>1, <3>1, SameVerdicts
  <2>3. CASE ManagerCheck(t)
    BY <1>6, <2>3 DEF ManagerCheck
  <2>4. CASE ManagerMove(t)
    <3> DEFINE j == moving[t]
    <3>1. /\ j \in Jobs /\ MoveToCompleted(j, status[j], returncode[j]) /\ status' = status
          /\ overtaken' = IF IsOver(j) /\ j \in Found(j[1]) THEN overtaken ELSE overtaken \cup {j[1]}
      BY <1>1, <2>4 DEF ManagerMove, TablesInOrder
    <3> HIDE DEF j
    <3>2. /\ status' = [status EXCEPT ![j] = status[j]] /\ overtaken \subseteq overtaken'
          /\ j \in Found(j[1]) \/ j[1] \in overtaken'
      BY <1>1, <3>1 DEF TableTypes
    <3>3. j \in completed /\ j[1] \notin overtaken' => status[j] = status[j] /\ returncode[j] = returncode[j]
      OBVIOUS
    <3> QED BY <3>1, <3>2, <3>3, MoveVerdicts
  <2> QED BY <2>1, <2>2, <2>3, <2>4 DEF JobMonitor
<1>11. CASE (\E t \in Threads : TaskMonitor(t) /\ UNCHANGED <<managerVars, mainVars>>) \/ Exits \/ UNCHANGED vars
  <2>1. UNCHANGED <<completed, recorded, status>>
    BY <1>11 DEF Exits, vars
  <2> QED BY <1>1, <2>1, SameVerdicts
<1> QED
  BY <1>3, <1>4, <1>5, <1>7, <1>8, <1>9, <1>10, <1>11 DEF Next, User, Launching

-----------------------------------------------------------------------------
(* The theorems.                                                                      *)

(* The inductive invariant, for any entities, manifests, threads and launches.            *)
THEOREM ControlInvariant == Spec => []ControlInv
<1>1. Init => ControlInv
  BY ControlAtStart
<1>2. ControlInv /\ [Next]_vars => ControlInv'
  BY ControlStep
<1> QED BY <1>1, <1>2, PTL DEF Spec

(* No process that the experiment started runs, or waits as a zombie, unlisted, but one    *)
(* that is being started or whose start was interrupted: TaskListComplete.               *)
THEOREM ControlTaskList == Spec => []TaskListComplete
<1>1. ControlInv => TaskListComplete
  BY DEF ControlInv, TasksInOrder
<1> QED BY <1>1, ControlInvariant, PTL

(* The outcome of a completed job is that of its process, which has ended:                 *)
(* OutcomeIsReal.                                                                      *)
THEOREM ControlOutcomes == Spec => []OutcomeIsReal
<1>1. ControlInv => OutcomeIsReal
  <2> SUFFICES ASSUME ControlInv, NEW j \in completed, j[1] \notin overtaken
               PROVE  /\ status[j] \in TerminalStatuses
                      /\ proc[Step(j)] # "running"
                      /\ Owned(Step(j)) /\ status[j] = "completed" => code[Step(j)] = "ok"
                      /\ Owned(Step(j)) /\ status[j] = "failed" => code[Step(j)] \in {"error", "killed"}
    BY DEF OutcomeIsReal
  <2>1. JobIsTrue(j) /\ HasOutcome(j)
    BY DEF ControlInv, JobsTrue, Known
  <2>2. status[j] \in {"completed", "failed"} => returncode[j] # "none"
    BY <2>1 DEF HasOutcome
  <2> QED BY <2>1, <2>2 DEF JobIsTrue, HasOutcome
<1> QED BY <1>1, ControlInvariant, PTL

(* No entity has two processes that the experiment started, unless its job was moved or     *)
(* replaced while it ran, or a launch was interrupted: OneProcess.                       *)
THEOREM ControlOneProcess == Spec => []OneProcess
<1>1. ControlInv => OneProcess
  <2> SUFFICES ASSUME ControlInv, NEW e \in Entities \ overtaken
               PROVE  Cardinality({s \in Steps : s[1] = e /\ Owned(s) /\ proc[s] = "running"}) <= 1
    BY DEF OneProcess
  <2> DEFINE P == {s \in Steps : s[1] = e /\ Owned(s) /\ proc[s] = "running"}
             new == <<Head(queue), launched[Head(queue)]>>
  <2>1. TablesInOrder /\ MainInOrder /\ OneAtATime
    BY DEF ControlInv
  <2>2. ASSUME NEW s \in P
        PROVE  \/ main \in {"spawn", "register"} /\ s = new /\ Head(queue) = e
               \/ \E j \in active : s = Step(j) /\ j[1] = e /\ run[j] > 0
    <3>1. OwnProcess(s) /\ s # NoStep
      BY <2>1, TaskAssumption DEF OneAtATime, Servers, NoStep, Steps
    <3> QED BY <2>1, <3>1 DEF OwnProcess, MainInOrder, Step, Owned
  <2>3. ASSUME main \in {"spawn", "register"}, Head(queue) = e, NEW j \in active, j[1] = e, run[j] > 0
        PROVE  FALSE
    BY <2>1, <2>3 DEF MainInOrder, TablesInOrder, Of
  <2>4. ASSUME NEW r \in P, NEW s \in P PROVE r = s
    <3>1. CASE main \in {"spawn", "register"} /\ Head(queue) = e
      BY <2>2, <2>3, <2>4, <3>1
    <3>2. CASE ~(main \in {"spawn", "register"} /\ Head(queue) = e)
      <4>1. PICK i \in active : r = Step(i) /\ i[1] = e
        BY <2>2, <2>4, <3>2
      <4>2. PICK j \in active : s = Step(j) /\ j[1] = e
        BY <2>2, <2>4, <3>2
      <4> QED BY <2>1, <4>1, <4>2 DEF TablesInOrder, IsOneOfName
    <3> QED BY <3>1, <3>2
  <2> HIDE DEF P
  <2>5. P = {} \/ \E s : P = {s}
    BY <2>4
  <2>6. Cardinality(P) \in {0, 1}
    BY <2>5, FS_EmptySet, FS_Singleton
  <2> QED BY <2>6 DEF P
<1> QED BY <1>1, ControlInvariant, PTL

(* The outcome of a completed job does not change until it is launched again or a job that   *)
(* was loaded later takes its place, and no run in its history ever does: VerdictIsFinal.   *)
THEOREM ControlVerdicts == Spec => VerdictIsFinal
<1>1. ControlInv /\ [Next]_vars => [\A j \in Jobs : j[1] \notin overtaken' => KeepsVerdict(j)]_vars
  BY VerdictsStay DEF VerdictsKept
<1> QED BY <1>1, ControlInvariant, PTL DEF Spec, VerdictIsFinal
=============================================================================
