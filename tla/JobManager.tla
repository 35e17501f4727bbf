----------------------------- MODULE JobManager ------------------------------
(***************************************************************************)
(* The jobs of an experiment (_core/control/jobmanager.py, job.py).          *)
(*                                                                         *)
(* A job is in jobs (db_jobs for the nodes of a database) while it is        *)
(* active, and in completed afterwards; the tables hold one job of a name,    *)
(* and one that is put in replaces the one that was there.  A name has more   *)
(* than one job when it is loaded with a database of an earlier experiment.   *)
(* A monitor thread asks the launcher for the status of every active job,     *)
(* then goes through a copy of the tables and moves each job that has a       *)
(* return code and a final status.  The lock covers the update, and each      *)
(* move, but not the decision to move.  Like the task monitor, the thread     *)
(* ends when it finds nothing to do, and is started again when                *)
(* actively_monitoring says that none runs.                                  *)
(***************************************************************************)
EXTENDS TaskManager

CONSTANT MaxLoads   \* bound: how often a database of an earlier experiment is loaded

ASSUME LoadsAssumption == MaxLoads \in Nat

(* Job 0 of a name is the one that add_job makes, job n the one of the nth load.   *)
Jobs == Entities \X (0 .. MaxLoads)
NoJob == <<NoEntity, 0>>
Of(e, S) == {j \in S : j[1] = e}

Statuses == {"new", "running", "completed", "failed", "cancelled"}
(* Mutant of TerminalStatuses: a failure is not final.                            *)
FinalStatuses == {"completed", "cancelled"}
TerminalStatuses == {"completed", "failed", "cancelled"}

VARIABLES
  active,        \* the jobs of jobs and db_jobs
  monitored,     \* the keys of monitor_jobs
  completed,     \* the jobs of completed
  run,           \* the step of each job: how often its entity had been launched
  status, returncode,
  recorded,      \* history of the job: for each run, its status and return code
  monitoring,    \* actively_monitoring
  jm,            \* where each thread is: "off", "start", "loop", "check", "look", "move", "clear"
  toLook,        \* the jobs of its copy that it has not looked at
  moving,        \* the job that it moves
  overtaken      \* history: names of which a job was moved that was launched again or replaced
                 \* meanwhile, or an active job replaced, or a launch broken off by SIGINT

tableVars == <<active, monitored, completed>>
jobVars == <<run, status, returncode, recorded>>
watchVars == <<monitoring, jm, toLook, moving>>
managerVars == <<tableVars, jobVars, watchVars, overtaken>>

Step(j) == <<j[1], run[j]>>

(* The jobs there are.                                                            *)
Made(j) == run[j] > 0 \/ status[j] # "new"

JobInit ==
  /\ active = {} /\ monitored = {} /\ completed = {}
  /\ run = [j \in Jobs |-> 0]
  /\ status = [j \in Jobs |-> "new"]
  /\ returncode = [j \in Jobs |-> "none"]
  /\ recorded = [j \in Jobs |-> <<>>]
  /\ monitoring = FALSE
  /\ jm = [t \in Threads |-> "off"]
  /\ toLook = [t \in Threads |-> {}]
  /\ moving = [t \in Threads |-> NoJob]
  /\ overtaken = {}

-----------------------------------------------------------------------------
(* Operations, each under the lock.                                             *)

(* __getitem__: the job of a name, at most one, an active one before a completed one; *)
(* get_status asks for the completed one first.                                    *)
Found(e) == IF Of(e, active) # {} THEN Of(e, active) ELSE Of(e, completed)
Told(e) == IF Of(e, completed) # {} THEN Of(e, completed) ELSE Of(e, active)

(* Mutant of CheckJobs: the status of every job that was launched.                 *)
CheckAllJobs ==
  /\ status' = [j \in Jobs |-> IF run[j] > 0 THEN TaskStatus(Step(j)) ELSE status[j]]
  /\ returncode' = [j \in Jobs |-> IF run[j] > 0 THEN TaskCode(Step(j)) ELSE returncode[j]]

(* check_jobs: the status of every active job, by its current step.               *)
CheckJobs ==
  /\ status' = [j \in Jobs |-> IF j \in active THEN TaskStatus(Step(j)) ELSE status[j]]
  /\ returncode' = [j \in Jobs |-> IF j \in active THEN TaskCode(Step(j)) ELSE returncode[j]]

(* A job is put into a table of jobs by its name.                                 *)
Put(j, S) == (S \ Of(j[1], S)) \cup {j}

(* move_to_completed, with record_history.  Whatever job has the name is deleted    *)
(* from the active ones.                                                         *)
MoveToCompleted(j, stat, rc) ==
  /\ completed' = Put(j, completed)
  /\ recorded' = [recorded EXCEPT ![j] = [k \in (DOMAIN @) \cup {run[j]} |->
                                            IF k = run[j] THEN <<stat, rc>> ELSE @[k]]]
  /\ active' = active \ Of(j[1], active)
  /\ monitored' = IF Of(j[1], active) # {} THEN monitored \ {j[1]} ELSE monitored

(* restart_job, with Job.reset and new_run.                                      *)
RestartJob(j, n, monitor) ==
  /\ completed' = completed \ {j}
  /\ active' = Put(j, active)
  /\ monitored' = IF monitor THEN monitored \cup {j[1]} ELSE monitored
  /\ run' = [run EXCEPT ![j] = n]
  /\ status' = [status EXCEPT ![j] = "new"]
  /\ returncode' = [returncode EXCEPT ![j] = "none"]

(* start *)
StartManager(threads) ==
  \/ monitoring /\ jm' = jm
  \/ /\ ~monitoring /\ \E t \in 1 .. threads : jm[t] = "off"
     /\ jm' = [jm EXCEPT ![Min({t \in Threads : jm[t] = "off"})] = "start"]

-----------------------------------------------------------------------------
(* The monitor threads: run.                                                    *)

ManagerBegin(t) ==
  /\ jm[t] = "start"
  /\ monitoring' = TRUE
  /\ jm' = [jm EXCEPT ![t] = "loop"]
  /\ UNCHANGED <<tableVars, jobVars, toLook, moving, overtaken>>

ManagerLoop(t) ==
  /\ jm[t] = "loop"
  /\ jm' = [jm EXCEPT ![t] = IF monitoring THEN "check" ELSE "off"]
  /\ UNCHANGED <<tableVars, jobVars, monitoring, toLook, moving, overtaken>>

(* What the launcher knows of a task is under the lock of the task manager.        *)
ManagerCheck(t) ==
  /\ jm[t] = "check"
  /\ active # {} => starting = NoStep
  /\ CheckJobs
  /\ toLook' = [toLook EXCEPT ![t] = active]
  /\ jm' = [jm EXCEPT ![t] = "look"]
  /\ UNCHANGED <<tableVars, run, recorded, monitoring, moving, overtaken>>

(* Mutant of IsOver: the return code is not asked for.                             *)
HasFinalStatus(j) == status[j] \in TerminalStatuses

(* A job is looked at without the lock.                                          *)
IsOver(j) == returncode[j] # "none" /\ status[j] \in TerminalStatuses

ManagerLook(t) ==
  /\ jm[t] = "look"
  /\ \E j \in toLook[t] :
       /\ toLook' = [toLook EXCEPT ![t] = @ \ {j}]
       /\ IF IsOver(j)
          THEN /\ moving' = [moving EXCEPT ![t] = j]
               /\ jm' = [jm EXCEPT ![t] = "move"]
          ELSE UNCHANGED <<moving, jm>>
  /\ UNCHANGED <<tableVars, jobVars, monitoring, overtaken>>

ManagerMove(t) ==
  /\ jm[t] = "move"
  /\ LET j == moving[t] IN
     /\ MoveToCompleted(j, status[j], returncode[j])
     /\ overtaken' = IF IsOver(j) /\ j \in Found(j[1]) THEN overtaken ELSE overtaken \cup {j[1]}
  /\ moving' = [moving EXCEPT ![t] = NoJob]
  /\ jm' = [jm EXCEPT ![t] = "look"]
  /\ UNCHANGED <<run, status, returncode, monitoring, toLook>>

ManagerEmpty(t) ==
  /\ jm[t] = "look" /\ toLook[t] = {}
  /\ jm' = [jm EXCEPT ![t] = IF active = {} THEN "clear" ELSE IF monitoring THEN "check" ELSE "off"]
  /\ UNCHANGED <<tableVars, jobVars, monitoring, toLook, moving, overtaken>>

ManagerClear(t) ==
  /\ jm[t] = "clear"
  /\ monitoring' = FALSE
  /\ jm' = [jm EXCEPT ![t] = "loop"]
  /\ UNCHANGED <<tableVars, jobVars, toLook, moving, overtaken>>

JobMonitor(t) ==
  \/ ManagerBegin(t) \/ ManagerLoop(t) \/ ManagerCheck(t) \/ ManagerLook(t)
  \/ ManagerMove(t) \/ ManagerEmpty(t) \/ ManagerClear(t)
=============================================================================
