----------------------------- MODULE TaskManager -----------------------------
(***************************************************************************)
(* The tasks that SmartSim starts itself                                     *)
(* (launcher/taskManager.py, utils/shell.py, launcher/local/local.py).       *)
(*                                                                         *)
(* A task is a process.  The main thread starts tasks and removes them under *)
(* the lock of the manager.  It holds the lock while a process that it began  *)
(* is looked at once, a while later, before it is listed; an interrupt in     *)
(* between leaves the process unlisted.  A monitor thread goes through the    *)
(* list of tasks without the lock, records the return code of each one that   *)
(* ended, and takes it off the list.  The thread ends when it finds the list  *)
(* empty, and the launcher starts another when actively_monitoring says that  *)
(* none runs, so that there may be none, or more than one.                    *)
(*                                                                         *)
(* A step is one launch of an entity; its name stands for the process id.    *)
(* Left out: output, error streams, the launches that are waited for.        *)
(***************************************************************************)
EXTENDS Naturals, Sequences, SequencesExt, FiniteSets, FiniteSetsExt, Selection

CONSTANTS
  Entities,      \* what the user launches: models and database nodes
  NoEntity,
  MaxRuns,       \* bound: how often an entity is launched
  MaxThreads     \* bound: the monitor threads of each manager at a time

ASSUME TaskAssumption ==
  /\ NoEntity \notin Entities
  /\ MaxRuns \in Nat \ {0} /\ MaxThreads \in Nat \ {0}

(* Run 0 of an entity is the one of the earlier experiment.                      *)
Steps == Entities \X (0 .. MaxRuns)
Owned(s) == s[2] > 0

Threads == 1 .. MaxThreads

Codes == {"ok", "error", "killed"}

VARIABLES
  proc,          \* "none", "running", "zombie", "gone"
  code,          \* how the process ended, "none" before
  tasks,
  history,       \* task_history: "absent", "none", or a code
  starting,      \* the step whose process has begun and is not listed yet: the main thread
                 \* holds the lock
  dropped,       \* history: the steps whose launch was interrupted there
  watching,      \* actively_monitoring
  tm,            \* where each thread is: "off", "start", "loop", "look", "record", "remove",
                 \* "clear"
  at,            \* its place in the list
  held           \* its task

processVars == <<proc, code>>
threadVars == <<watching, tm, at, held>>
startVars == <<starting, dropped>>
taskVars == <<processVars, tasks, history, startVars, threadVars>>

NoStep == <<NoEntity, 0>>

(* An earlier experiment left the entities of saved running; they may have ended.  *)
TaskInit(saved) ==
  /\ proc \in {f \in [Steps -> {"none", "running", "gone"}] :
                 \A s \in Steps : f[s] # "none" <=> s[1] \in saved /\ s[2] = 0}
  /\ code = [s \in Steps |-> IF proc[s] = "gone" THEN "ok" ELSE "none"]
  /\ tasks = <<>>
  /\ history = [s \in Steps |-> "absent"]
  /\ starting = NoStep /\ dropped = {}
  /\ watching = FALSE
  /\ tm = [t \in Threads |-> "off"]
  /\ at = [t \in Threads |-> 1]
  /\ held = [t \in Threads |-> NoStep]

-----------------------------------------------------------------------------
(* Processes.                                                                   *)

(* A process ends by itself.  Only a child stays behind until it is polled.      *)
Exit(s) ==
  /\ proc[s] = "running"
  /\ proc' = [proc EXCEPT ![s] = IF Owned(s) THEN "zombie" ELSE "gone"]
  /\ \E c \in {"ok", "error"} : code' = [code EXCEPT ![s] = c]
  /\ UNCHANGED <<tasks, history, startVars, threadVars>>

(* check_status: of a process that is not a child only its end is known.          *)
CheckStatus(s) ==
  IF proc[s] = "running" THEN "none" ELSE IF Owned(s) THEN code[s] ELSE "ok"

(* is_alive: psutil takes a child that was not polled for alive.                  *)
IsAlive(s) == proc[s] \in {"running", "zombie"}

-----------------------------------------------------------------------------
(* What the main thread calls, under the lock.                                  *)

(* run starts a thread when none seems to run.                                  *)
StartMonitor(threads) ==
  \/ watching /\ tm' = tm
  \/ /\ ~watching /\ \E t \in 1 .. threads : tm[t] = "off"
     /\ tm' = [tm EXCEPT ![Min({t \in Threads : tm[t] = "off"})] = "start"]

(* start_task begins the process, and keeps the lock ...                         *)
StartTask(s) ==
  /\ proc' = [proc EXCEPT ![s] = "running"]
  /\ starting' = s
  /\ UNCHANGED <<code, tasks, history, dropped>>

(* ... until execute_async_cmd has polled it, 0.2 s later.  A command that failed at *)
(* once is an error of the launch, and is not listed.                             *)
FailedAtOnce == code[starting] = "error"
ListTask ==
  /\ proc' = [proc EXCEPT ![starting] = IF @ = "zombie" THEN "gone" ELSE @]
  /\ IF FailedAtOnce
     THEN UNCHANGED <<tasks, history>>
     ELSE /\ tasks' = Append(tasks, starting)
          /\ history' = [history EXCEPT ![starting] = "none"]
  /\ starting' = NoStep
  /\ UNCHANGED <<code, dropped>>

(* A KeyboardInterrupt in between frees the lock.                                 *)
DropTask ==
  /\ dropped' = dropped \cup ({starting} \ {NoStep})
  /\ starting' = NoStep

(* add_existing; it raises when the process is not there.                        *)
AddExisting(s) ==
  /\ IF proc[s] = "running"
     THEN /\ tasks' = Append(tasks, s)
          /\ history' = [history EXCEPT ![s] = "none"]
     ELSE UNCHANGED <<tasks, history>>
  /\ UNCHANGED <<processVars, startVars>>

(* remove_task, of each of the steps S: what lives is killed, polled and          *)
(* recorded.  Only the first task of a process is taken off: add_existing may have *)
(* listed it twice.                                                              *)
Listed(S) == S \cap ToSet(tasks)
EndCode(s) == IF proc[s] = "running" THEN IF Owned(s) THEN "killed" ELSE "ok" ELSE code[s]
RemoveTasks(S) ==
  LET killed == {s \in Listed(S) : IsAlive(s)} IN
  /\ proc' = [s \in Steps |-> IF s \in killed THEN "gone" ELSE proc[s]]
  /\ code' = [s \in Steps |-> IF s \in killed /\ proc[s] = "running" THEN "killed" ELSE code[s]]
  /\ history' = [s \in Steps |-> IF s \in killed THEN EndCode(s) ELSE history[s]]
  /\ tasks' = WithoutFirst(tasks, S)

(* get_task_update, and the mapping of UnmanagedStepInfo: a task that ended and   *)
(* has no return code is Completed.                                              *)
TaskStatus(s) ==
  CASE history[s] = "absent" -> "failed"
    [] history[s] = "none" /\ s \in ToSet(tasks) /\ proc[s] = "running" -> "running"
    [] history[s] = "none" /\ ~(s \in ToSet(tasks) /\ proc[s] = "running") -> "completed"
    [] history[s] = "ok" -> "completed"
    [] history[s] \in {"error", "killed"} -> "failed"
TaskCode(s) == IF history[s] = "absent" THEN "error" ELSE history[s]

-----------------------------------------------------------------------------
(* The monitor threads.  They need the lock to take a task off and for the length   *)
(* of the list.                                                                 *)

Begin(t) ==
  /\ tm[t] = "start"
  /\ watching' = TRUE
  /\ tm' = [tm EXCEPT ![t] = "loop"]
  /\ UNCHANGED <<processVars, tasks, history, startVars, at, held>>

(* The loop goes round while actively_monitoring is set.                          *)
Loop(t) ==
  /\ tm[t] = "loop"
  /\ tm' = [tm EXCEPT ![t] = IF watching THEN "look" ELSE "off"]
  /\ UNCHANGED <<processVars, tasks, history, startVars, watching, at, held>>

Look(t) ==
  /\ tm[t] = "look" /\ at[t] <= Len(tasks)
  /\ LET s == tasks[at[t]] IN
     IF CheckStatus(s) = "none"
     THEN /\ at' = [at EXCEPT ![t] = @ + 1]
          /\ UNCHANGED <<proc, tm, held>>
     ELSE /\ proc' = [proc EXCEPT ![s] = "gone"]
          /\ held' = [held EXCEPT ![t] = s]
          /\ tm' = [tm EXCEPT ![t] = "record"]
          /\ UNCHANGED at
  /\ UNCHANGED <<code, tasks, history, startVars, watching>>

(* add_task_history, with the return code found.                                 *)
Record(t) ==
  /\ tm[t] = "record"
  /\ history' = [history EXCEPT ![held[t]] = CheckStatus(held[t])]
  /\ tm' = [tm EXCEPT ![t] = "remove"]
  /\ UNCHANGED <<processVars, tasks, startVars, watching, at, held>>

(* Mutant of TakeOff: the task is taken off by its place, which may have changed.   *)
TakeOffByPlace(t) ==
  /\ tm[t] = "remove" /\ starting = NoStep
  /\ tasks' = IF at[t] <= Len(tasks) THEN RemoveAt(tasks, at[t]) ELSE tasks
  /\ held' = [held EXCEPT ![t] = NoStep]
  /\ tm' = [tm EXCEPT ![t] = "look"]
  /\ UNCHANGED <<processVars, history, startVars, watching, at>>

(* The list moves up under the loop, which goes on at the next place.            *)
TakeOff(t) ==
  /\ tm[t] = "remove" /\ starting = NoStep
  /\ RemoveTasks({held[t]})
  /\ at' = [at EXCEPT ![t] = @ + 1]
  /\ held' = [held EXCEPT ![t] = NoStep]
  /\ tm' = [tm EXCEPT ![t] = "look"]
  /\ UNCHANGED <<startVars, watching>>

Empty(t) ==
  /\ tm[t] = "look" /\ at[t] > Len(tasks) /\ starting = NoStep
  /\ tm' = [tm EXCEPT ![t] = IF tasks = <<>> THEN "clear" ELSE IF watching THEN "look" ELSE "off"]
  /\ at' = [at EXCEPT ![t] = 1]
  /\ UNCHANGED <<processVars, tasks, history, startVars, watching, held>>

Clear(t) ==
  /\ tm[t] = "clear"
  /\ watching' = FALSE
  /\ tm' = [tm EXCEPT ![t] = "loop"]
  /\ UNCHANGED <<processVars, tasks, history, startVars, at, held>>

TaskMonitor(t) ==
  \/ Begin(t) \/ Loop(t) \/ Look(t) \/ Record(t) \/ TakeOff(t)
  \/ Empty(t) \/ Clear(t)

Processes == \E s \in Steps : Exit(s)
=============================================================================
