----------------------------- MODULE Controller ------------------------------
(***************************************************************************)
(* An experiment on the local launcher (_core/control/controller.py,          *)
(* experiment.py): the main thread launches entities, stops them, polls, and  *)
(* reconnects to a database of an earlier experiment, while the job manager   *)
(* and the task manager watch.                                               *)
(*                                                                         *)
(* One step of the main thread is a call under a lock, or what it does        *)
(* between two looks at state that the monitor threads change.                *)
(*                                                                         *)
(* Left out: workload managers, batches, more than one shard, the creation of *)
(* a cluster, files, and what only reads (finished, get_status, get_jobs).    *)
(***************************************************************************)
EXTENDS JobManager

CONSTANTS
  Nodes,         \* the entities that are nodes of a database
  Scripts        \* what users do: what start is called with, sequences of entities; how
                 \* often each entity is launched (a bound); the nodes of an earlier
                 \* experiment to reconnect to, and how often (a bound); how many
                 \* threads (a bound)

ASSUME ControllerAssumption ==
  /\ Nodes \subseteq Entities
  /\ \A p \in Scripts : /\ p.manifests \subseteq Seq(Entities)
                         /\ p.runs \in [Entities -> 0 .. MaxRuns]
                         /\ p.saved \subseteq Nodes /\ p.loads \in 0 .. MaxLoads
                         /\ p.threads \in Threads

VARIABLES
  script,        \* the one of this experiment
  main,          \* "idle", "launch", "spawn", "register", "monitor", "wait", "hosts", "abort",
                 \* "begin", "poll"
  queue,         \* the entities that start has not launched
  launched,      \* how often each was launched, by _launch_step
  signalled      \* SIGINT came

mainVars == <<script, main, queue, launched, signalled>>
vars == <<taskVars, managerVars, mainVars>>

Init ==
  /\ script \in Scripts
  /\ TaskInit(script.saved)
  /\ JobInit
  /\ main = "idle"
  /\ queue = <<>>
  /\ launched = [e \in Entities |-> 0]
  /\ signalled = FALSE

-----------------------------------------------------------------------------
(* start *)

NextStep(e) == <<e, launched[e] + 1>>

Start ==
  /\ main = "idle"
  /\ \E m \in script.manifests :
       /\ \A e \in ToSet(m) : launched[e] + Occurrences(e, m) <= script.runs[e]
       /\ queue' = m
       /\ main' = IF m = <<>> THEN "begin" ELSE "launch"
  /\ UNCHANGED <<taskVars, managerVars, script, launched, signalled>>

(* Mutant of LaunchStep: the name is not compared with those of the active jobs.    *)
LaunchAnyway ==
  /\ main = "launch"
  /\ main' = "spawn"
  /\ StartMonitor(script.threads)
  /\ UNCHANGED <<processVars, tasks, history, startVars, watching, at, held, managerVars, script,
                 queue, launched, signalled>>

(* _launch_step: a name that only an active job has is not launched.  run looks    *)
(* whether a task monitor runs before it starts the task.                        *)
LaunchStep ==
  /\ main = "launch"
  /\ IF Of(Head(queue), active) # {} /\ Of(Head(queue), completed) = {}
     THEN /\ main' = "idle"
          /\ UNCHANGED tm
     ELSE /\ main' = "spawn"
          /\ StartMonitor(script.threads)
  /\ UNCHANGED <<processVars, tasks, history, startVars, watching, at, held, managerVars, script,
                 queue, launched, signalled>>

(* The process begins, unless there is an error of the system.                     *)
Spawn ==
  /\ main = "spawn" /\ starting = NoStep
  /\ LET e == Head(queue) IN
     /\ launched' = [launched EXCEPT ![e] = @ + 1]
     /\ \/ StartTask(NextStep(e)) /\ main' = main
        \/ main' = "idle" /\ UNCHANGED <<processVars, tasks, history, startVars>>
  /\ UNCHANGED <<threadVars, managerVars, script, queue, signalled>>

Spawned ==
  /\ main = "spawn" /\ starting # NoStep
  /\ ListTask
  /\ main' = IF FailedAtOnce THEN "idle" ELSE "register"
  /\ UNCHANGED <<threadVars, managerVars, script, queue, launched, signalled>>

Launched ==
  /\ queue' = Tail(queue)
  /\ main' = IF Tail(queue) = <<>> THEN "begin" ELSE "launch"

(* An active job is replaced.                                                     *)
Replaced(e) == IF Of(e, active) = {} THEN overtaken ELSE overtaken \cup {e}

(* query_restart and restart_job: the completed job, whatever active one there is.   *)
Relaunch ==
  /\ main = "register"
  /\ LET e == Head(queue) IN
     /\ \E j \in Of(e, completed) : RestartJob(j, launched[e], e \notin Nodes)
     /\ overtaken' = Replaced(e)
     /\ IF e \in Nodes THEN main' = "wait" /\ queue' = queue ELSE Launched
  /\ UNCHANGED <<taskVars, recorded, watchVars, script, launched, signalled>>

(* add_job sets one table, then the other, and takes no lock.                     *)
AddJob ==
  /\ main = "register"
  /\ LET e == Head(queue)
         j == <<e, 0>>
     IN
     /\ Of(e, completed) = {}
     /\ active' = Put(j, active)
     /\ run' = [run EXCEPT ![j] = launched[e]]
     /\ status' = [status EXCEPT ![j] = "new"]
     /\ returncode' = [returncode EXCEPT ![j] = "none"]
     /\ main' = IF e \in Nodes THEN "wait" ELSE "monitor"
  /\ UNCHANGED <<taskVars, monitored, completed, recorded, watchVars, overtaken, script, queue,
                 launched, signalled>>

AddMonitor ==
  /\ main = "monitor"
  /\ monitored' = monitored \cup {Head(queue)}
  /\ Launched
  /\ UNCHANGED <<taskVars, active, completed, jobVars, watchVars, overtaken, script, launched,
                 signalled>>

(* start: a job manager is started when none seems to run; then start polls, if    *)
(* it blocks.                                                                    *)
BeginManager ==
  /\ main = "begin"
  /\ StartManager(script.threads)
  /\ main' \in {"idle", "poll"}
  /\ UNCHANGED <<taskVars, tableVars, jobVars, monitoring, toLook, moving, overtaken, script, queue,
                 launched, signalled>>

-----------------------------------------------------------------------------
(* stop                                                                         *)

(* stop_entity, under the lock.                                                  *)
StopEntity(j) ==
  IF status[j] \in TerminalStatuses
  THEN UNCHANGED <<processVars, tasks, history, tableVars, jobVars>>
  ELSE /\ RemoveTasks({Step(j)})
       /\ LET rc == IF history[Step(j)] = "absent" THEN "error" ELSE history'[Step(j)] IN
          /\ status' = [status EXCEPT ![j] = "cancelled"]
          /\ returncode' = [returncode EXCEPT ![j] = rc]
          /\ MoveToCompleted(j, "cancelled", rc)
       /\ UNCHANGED run

(* The servers that a database of the user may name: those launched here, and the    *)
(* one that was loaded.                                                          *)
Servers(e) ==
  {s \in Steps : s[1] = e /\ (Owned(s) \/ \E k \in 1 .. MaxLoads : Made(<<e, k>>))}

(* stop_db: the server is told to shut down, by its address; when it does, the job   *)
(* that has the name is cancelled whatever its status.                             *)
ShutdownNode(j) ==
  /\ \E s \in Servers(j[1]) :
       /\ proc[s] = "running"
       /\ proc' = [proc EXCEPT ![s] = IF Owned(s) THEN "zombie" ELSE "gone"]
       /\ code' = [code EXCEPT ![s] = "ok"]
  /\ status' = [status EXCEPT ![j] = "cancelled"]
  /\ returncode' = [returncode EXCEPT ![j] = "ok"]
  /\ MoveToCompleted(j, "cancelled", "ok")
  /\ UNCHANGED <<tasks, history, run>>

StopDB(e) == \E j \in Found(e) : ShutdownNode(j) \/ StopEntity(j)

Stop ==
  /\ main = "idle"
  /\ \E e \in Entities :
       IF e \in Nodes THEN StopDB(e) ELSE \E j \in Found(e) : StopEntity(j)
  /\ UNCHANGED <<startVars, threadVars, watchVars, overtaken, mainVars>>

-----------------------------------------------------------------------------
(* The launch of a database waits for its nodes (_orchestrator_launch_wait).        *)

(* get_entity_list_status *)
DBIs(S) == \E j \in Told(Head(queue)) : status[j] \in S

(* The jobs are updated here when no job manager seems to run.                     *)
LookAtDB ==
  /\ main = "wait" /\ DBIs({"new"})
  /\ ~monitoring
  /\ CheckJobs
  /\ UNCHANGED <<taskVars, tableVars, run, recorded, watchVars, overtaken, mainVars>>

DBRuns ==
  /\ main = "wait" /\ DBIs({"running"})
  /\ main' = "hosts"
  /\ UNCHANGED <<taskVars, managerVars, script, queue, launched, signalled>>

DBFails ==
  /\ main = "wait" /\ DBIs(TerminalStatuses)
  /\ StopDB(Head(queue))
  /\ main' = "idle"
  /\ UNCHANGED <<startVars, threadVars, watchVars, overtaken, script, queue, launched, signalled>>

(* set_db_hosts raises when the job has left db_jobs.                              *)
SetHosts ==
  /\ main = "hosts"
  /\ IF Of(Head(queue), active) # {} THEN Launched ELSE main' = "idle" /\ queue' = queue
  /\ UNCHANGED <<taskVars, managerVars, script, launched, signalled>>

-----------------------------------------------------------------------------
(* The other calls.                                                             *)

Poll ==
  /\ main = "idle"
  /\ main' = "poll"
  /\ UNCHANGED <<taskVars, managerVars, script, queue, launched, signalled>>

(* Mutant of EndPoll: the nodes of a database are waited for as well.              *)
EndPollOfAll ==
  /\ main = "poll" /\ active = {}
  /\ main' = "idle"
  /\ UNCHANGED <<taskVars, managerVars, script, queue, launched, signalled>>

EndPoll ==
  /\ main = "poll" /\ monitored = {}
  /\ main' = "idle"
  /\ UNCHANGED <<taskVars, managerVars, script, queue, launched, signalled>>

(* reload_saved_db: a job is read from the file, and is there before its process is  *)
(* found, whatever job had the name; the job manager is started when the process was *)
(* found, the task manager is not.                                                *)
Reconnect ==
  /\ main = "idle"
  /\ \E e \in script.saved, n \in 1 .. script.loads :
       LET j == <<e, n>> IN
       /\ \A k \in 1 .. MaxLoads : Made(<<e, k>>) <=> k < n
       /\ active' = Put(j, active)
       /\ status' = [status EXCEPT ![j] = "running"]
       /\ overtaken' = Replaced(e)
       /\ AddExisting(Step(j))
       /\ IF proc[Step(j)] = "running" THEN StartManager(script.threads) ELSE UNCHANGED jm
  /\ UNCHANGED <<threadVars, monitored, completed, run, returncode, recorded, monitoring,
                 toLook, moving, mainVars>>

(* signal_interrupt, in the main thread and without the lock; start has set it as   *)
(* the handler.  A KeyboardInterrupt ends the call that it came in: a process that   *)
(* was just begun is not listed, and one that was just listed gets no job.           *)
SignalInterrupt ==
  /\ ~signalled
  /\ \E e \in Entities : launched[e] > 0
  /\ signalled' = TRUE
  /\ IF monitoring /\ active # {}
     THEN RemoveTasks({Step(j) : j \in {i \in active : status[i] \notin TerminalStatuses}})
     ELSE UNCHANGED <<processVars, tasks, history>>
  /\ DropTask
  /\ overtaken' = IF starting # NoStep \/ main = "register"
                  THEN overtaken \cup {Head(queue)} ELSE overtaken
  /\ main' = IF main = "wait" THEN "abort" ELSE "idle"
  /\ UNCHANGED <<threadVars, tableVars, jobVars, watchVars, script, queue, launched>>

(* The launch of a database stops it before it raises the interrupt again.          *)
AbortDB ==
  /\ main = "abort"
  /\ StopDB(Head(queue))
  /\ main' = "idle"
  /\ UNCHANGED <<startVars, threadVars, watchVars, overtaken, script, queue, launched, signalled>>

Launching ==
  \/ LaunchStep \/ Spawn \/ Spawned \/ Relaunch \/ AddJob \/ AddMonitor \/ BeginManager
  \/ LookAtDB \/ DBRuns \/ DBFails \/ SetHosts \/ AbortDB

User == Start \/ Stop \/ Poll \/ Reconnect \/ SignalInterrupt

Monitors == \E t \in Threads : JobMonitor(t) \/ TaskMonitor(t)

Exits == Processes /\ UNCHANGED <<managerVars, mainVars>>

Next ==
  \/ User
  \/ Launching
  \/ EndPoll
  \/ \E t \in Threads :
       \/ JobMonitor(t) /\ UNCHANGED <<taskVars, mainVars>>
       \/ TaskMonitor(t) /\ UNCHANGED <<managerVars, mainVars>>
  \/ Exits

Spec == Init /\ [][Next]_vars

(* The threads run on, and models end.                                            *)
FairSpec ==
  /\ Spec
  /\ WF_vars(Launching)
  /\ WF_vars(EndPoll)
  /\ \A t \in Threads : /\ WF_vars(JobMonitor(t) /\ UNCHANGED <<taskVars, mainVars>>)
                        /\ WF_vars(TaskMonitor(t) /\ UNCHANGED <<managerVars, mainVars>>)
  /\ \A s \in Steps : s[1] \notin Nodes => WF_vars(Exit(s) /\ UNCHANGED <<managerVars, mainVars>>)

-----------------------------------------------------------------------------
(* A task leaves the list only when its process has ended and was polled: no       *)
(* process that the experiment started runs, or waits as a zombie, unlisted, but the *)
(* one that is being started and one whose start was interrupted.                   *)
TaskListComplete ==
  \A s \in Steps : Owned(s) /\ IsAlive(s) => s \in ToSet(tasks) \cup {starting} \cup dropped

(* A completed job has a final status, its process has ended, and a success or a    *)
(* failure that is reported is the process's own; unless a job of the name was      *)
(* moved after it was launched again or replaced, or an active one was replaced, or   *)
(* a launch was broken off.                                                       *)
OutcomeIsReal ==
  \A j \in completed : j[1] \notin overtaken =>
    /\ status[j] \in TerminalStatuses
    /\ proc[Step(j)] # "running"
    /\ Owned(Step(j)) /\ status[j] = "completed" => code[Step(j)] = "ok"
    /\ Owned(Step(j)) /\ status[j] = "failed" => code[Step(j)] \in {"error", "killed"}

(* An entity is launched again only when its process has ended; with the same        *)
(* exceptions.                                                                   *)
OneProcess ==
  \A e \in Entities \ overtaken :
    Cardinality({s \in Steps : s[1] = e /\ Owned(s) /\ proc[s] = "running"}) <= 1

(* The outcome of a completed job does not change until it is launched again; only a  *)
(* job that was loaded later takes its place; and what its history says of a run       *)
(* never changes; with the same exceptions.                                        *)
KeepsVerdict(j) ==
  /\ j \in completed =>
       \/ run'[j] > run[j]
       \/ j \in completed' /\ status'[j] = status[j]
       \/ \E i \in Of(j[1], completed') : i[2] > j[2]
  /\ \A k \in DOMAIN recorded[j] : recorded'[j][k] = recorded[j][k]
VerdictIsFinal ==
  [][\A j \in Jobs : j[1] \notin overtaken' => KeepsVerdict(j)]_vars

(* What poll promises: when SIGINT comes, every job that was launched is killed.      *)
InterruptKillsJobs ==
  [][signalled' # signalled => \A j \in active : proc'[Step(j)] # "running"]_vars

(* A job whose process has ended is moved to completed, or launched again, unless    *)
(* from some time on no thread watches the jobs, or its task has no return code and  *)
(* is off the list or no thread watches the tasks.                                  *)
JobsWatched == \E t \in Threads : jm[t] # "off"
TasksWatched == \E t \in Threads : tm[t] # "off"
CodeMissed(j) ==
  history[Step(j)] = "none" /\ (~TasksWatched \/ Step(j) \notin ToSet(tasks))
JobsComplete ==
  \A j \in Jobs :
    \/ []<>(j \notin active \/ proc[Step(j)] \notin {"zombie", "gone"})
    \/ <>[](~JobsWatched \/ CodeMissed(j))

(* poll returns when every model ends, unless from some time on no thread watches    *)
(* the jobs, or a job it waits for was completed before, or has no return code.       *)
PollEnds ==
  \/ []<>(main # "poll")
  \/ <>[](~JobsWatched \/ \E e \in monitored : \A j \in Of(e, active) : CodeMissed(j))
=============================================================================
