---------------------------- MODULE DragonBackend ----------------------------
(***************************************************************************)
(* The server that SmartSim runs inside an allocation to launch steps with   *)
(* Dragon (launcher/dragon/dragonBackend.py, entrypoints/dragon.py).         *)
(*                                                                         *)
(* The main thread receives requests, one at a time: run a step, stop one,   *)
(* shut down.  The update thread goes round and round: it carries out the    *)
(* stop requests, starts the queued steps that fit on the free hosts, looks  *)
(* at the process groups, and decides whether the server can shut down.  A   *)
(* lock excludes the requests from each of the four, and only from each.     *)
(*                                                                         *)
(* Process groups are Dragon's: they run on the hosts they were given and    *)
(* end by themselves or when killed.  Left out: return codes, redirection of *)
(* output but for its failure, requests that change nothing.                 *)
(***************************************************************************)
EXTENDS Naturals, Sequences, SequencesExt, Functions, Selection

CONSTANTS
  Steps,         \* step ids
  HostList,      \* the hosts of the allocation, in their order
  Nodes,         \* Nodes[s]: how many hosts s asks for
  PolicyFits,    \* the steps whose affinities some host has the CPUs and GPUs for
  Scripts,       \* the steps that clients ask for, with what fails: "init", "puids",
                 \* "redirect"
  NoStep,
  MaxFaults,     \* bound: how often a step is launched and stays queued
  MaxStops       \* bound: stop requests pending when a client sends another

ASSUME DragonAssumption ==
  /\ HostList \in Seq(ToSet(HostList)) /\ IsInjective(HostList)
  /\ Nodes \in [Steps -> Nat \ {0}]
  /\ PolicyFits \subseteq Steps
  /\ Scripts \subseteq [steps : SUBSET Steps, faults : SUBSET {"init", "puids", "redirect"}]
  /\ IsFiniteSet(Steps) /\ NoStep \notin Steps
  /\ MaxFaults \in Nat /\ MaxStops \in Nat

Hosts == ToSet(HostList)

VARIABLES
  \* a step: _group_infos
  status,        \* status, "none" when the step is not there
  groupOf,       \* process_group: which of the groups of the step, 0 for None
  hostsOf,       \* hosts
  \* its process groups, in the order of their launches
  groups,        \* their hosts, and whether they run or how they ended
  \* the server
  queued,        \* _queued_steps
  stops,         \* _stop_requests, by step
  running,       \* _running_steps
  allocated,     \* _allocated_hosts, NoStep for a host that is not there
  free,          \* _free_hosts
  requested,     \* _shutdown_requested
  canShutdown,   \* _can_shutdown
  cooldown,      \* "none", "started" (_shutdown_initiation_time is set), "over"
  \* the update thread
  updater,       \* "check", "stop", "stopping", "start", "starting", "refresh", "status", "done"
  toTry,         \* the queued steps that _start_steps has not come to
  started,       \* started in _start_steps
  \* the main thread
  main,          \* "check", "listen", "status", "kill", "done"
  immediate,     \* immediate of the shutdown request that it handles
  script,        \* what clients ask for, and what fails
  lost           \* history: the steps whose launch failed half-way

stepVars == <<status, groupOf, hostsOf, groups>>
hostVars == <<allocated, free>>
shutdownVars == <<requested, canShutdown, cooldown>>
updaterVars == <<updater, toTry, started>>
mainVars == <<main, immediate>>
caseVars == <<script, lost>>
vars == <<stepVars, queued, stops, running, hostVars, shutdownVars, updaterVars, mainVars, caseVars>>

Terminal == {"completed", "failed", "cancelled"}

Init ==
  /\ status = [s \in Steps |-> "none"]
  /\ groupOf = [s \in Steps |-> 0]
  /\ hostsOf = [s \in Steps |-> <<>>]
  /\ groups = [s \in Steps |-> <<>>]
  /\ queued = <<>>
  /\ stops = <<>>
  /\ running = <<>>
  /\ allocated = [h \in Hosts |-> NoStep]
  /\ free = HostList
  /\ requested = FALSE
  /\ canShutdown = FALSE
  /\ cooldown = "none"
  /\ updater = "check"
  /\ toTry = <<>>
  /\ started = <<>>
  /\ main = "check"
  /\ immediate = FALSE
  /\ script \in Scripts
  /\ lost = {}

-----------------------------------------------------------------------------
(* The main thread: run in entrypoints/dragon.py, and process_request.          *)

(* The update thread holds _queue_lock.                                         *)
Locked == updater \in {"stopping", "starting"}

(* should_shutdown begins the cooldown period when it is asked for the first     *)
(* time.                                                                        *)
ShouldShutdown == requested /\ canShutdown /\ cooldown = "over"
BeginCooldown ==
  cooldown' = IF requested /\ canShutdown /\ cooldown = "none" THEN "started" ELSE cooldown

MainCheck ==
  /\ main = "check"
  /\ main' = IF ShouldShutdown THEN "done" ELSE "listen"
  /\ BeginCooldown
  /\ UNCHANGED <<stepVars, queued, stops, running, hostVars, requested, canShutdown,
                 updaterVars, immediate, caseVars>>

(* No request comes before the timeout of the socket.                            *)
NoRequest ==
  /\ main = "listen"
  /\ main' = "check"
  /\ UNCHANGED <<stepVars, queued, stops, running, hostVars, shutdownVars, updaterVars, immediate, caseVars>>

CanHonor(s) ==
  /\ Nodes[s] <= Len(HostList)
  /\ ~requested
  /\ s \in PolicyFits

Run(s) ==
  /\ s \in script.steps /\ main = "listen"
  /\ ~Locked
  /\ status[s] = "none"
  /\ IF CanHonor(s)
     THEN /\ status' = [status EXCEPT ![s] = "never_started"]
          /\ queued' = Append(queued, s)
     ELSE /\ status' = [status EXCEPT ![s] = "failed"]
          /\ UNCHANGED queued
  /\ main' = "check"
  /\ UNCHANGED <<groupOf, hostsOf, groups, stops, running, hostVars, shutdownVars, updaterVars,
                 immediate, caseVars>>

Stop(s) ==
  /\ main = "listen"
  /\ ~Locked
  /\ Len(stops) < MaxStops
  /\ stops' = Append(stops, s)
  /\ main' = "check"
  /\ UNCHANGED <<stepVars, queued, running, hostVars, shutdownVars, updaterVars, immediate, caseVars>>

(* The flag is set without the lock; then the lock is taken to see whether the    *)
(* server can shut down, and again to ask that all steps be stopped.              *)
Shutdown(now) ==
  /\ main = "listen"
  /\ Len(stops) < MaxStops
  /\ requested' = TRUE
  /\ immediate' = now
  /\ main' = "status"
  /\ UNCHANGED <<stepVars, queued, stops, running, hostVars, canShutdown, cooldown, updaterVars, caseVars>>

(* Mutant of AllEnded: a step that waits does not keep the server up.              *)
NoneRuns == \A s \in Steps : groupOf[s] = 0

(* _update_shutdown_status, by either thread.                                     *)
AllEnded == \A s \in Steps : status[s] = "none" \/ (status[s] \in Terminal /\ groupOf[s] = 0)
UpdateShutdownStatus == canShutdown' = (canShutdown \/ (AllEnded /\ requested))

MainStatus ==
  /\ main = "status"
  /\ ~Locked
  /\ UpdateShutdownStatus
  /\ main' = IF immediate THEN "kill" ELSE "check"
  /\ UNCHANGED <<stepVars, queued, stops, running, hostVars, requested, cooldown, updaterVars,
                 immediate, caseVars>>

(* _kill_all_running_jobs; the order of the requests does not matter.             *)
KillAll ==
  /\ main = "kill"
  /\ ~Locked
  /\ stops' = stops \o SetToSeq({s \in Steps : status[s] \notin Terminal \cup {"none"}})
  /\ main' = "check"
  /\ UNCHANGED <<stepVars, queued, running, hostVars, shutdownVars, updaterVars, immediate, caseVars>>

-----------------------------------------------------------------------------
(* The update thread: update.  An exception ends a turn, not the thread.           *)

UpdaterCheck ==
  /\ updater = "check"
  /\ updater' = IF ShouldShutdown THEN "done" ELSE "stop"
  /\ BeginCooldown
  /\ UNCHANGED <<stepVars, queued, stops, running, hostVars, requested, canShutdown, toTry,
                 started, mainVars, caseVars>>

(* _stop_steps                                                                     *)
BeginStop ==
  /\ updater = "stop"
  /\ updater' = "stopping"
  /\ UNCHANGED <<stepVars, queued, stops, running, hostVars, shutdownVars, toTry, started, mainVars, caseVars>>

(* Mutant of Killed: the processes are left alone.                                  *)
NotKilled(s) == groups
Without(s) == Those(queued, Steps \ {s})
Killed(s) ==
  IF groupOf[s] # 0 /\ groups[s][groupOf[s]].state = "running"
  THEN [groups EXCEPT ![s][groupOf[s]].state = "failed"] ELSE groups

StopOne ==
  LET s == Head(stops)
  IN  /\ updater = "stopping"
      /\ stops # <<>>
      /\ stops' = Tail(stops)
      /\ status' = IF status[s] = "none" THEN status ELSE [status EXCEPT ![s] = "cancelled"]
      /\ IF s \in ToSet(queued)
         THEN queued' = Without(s) /\ UNCHANGED groups
         ELSE groups' = Killed(s) /\ UNCHANGED queued
      /\ UNCHANGED <<groupOf, hostsOf, running, hostVars, shutdownVars, updaterVars, mainVars, caseVars>>

EndStop ==
  /\ updater = "stopping"
  /\ stops = <<>>
  /\ updater' = "start"
  /\ UNCHANGED <<stepVars, queued, stops, running, hostVars, shutdownVars, toTry, started, mainVars, caseVars>>

(* _start_steps                                                                    *)
BeginStart ==
  /\ updater = "start"
  /\ updater' = "starting"
  /\ toTry' = queued
  /\ started' = <<>>
  /\ UNCHANGED <<stepVars, queued, stops, running, hostVars, shutdownVars, mainVars, caseVars>>

(* Mutant of Fits: one host is kept back.                                          *)
FitsWithin(s) == Nodes[s] < Len(free)

Fits(s) == Nodes[s] <= Len(free)

Skip ==
  /\ updater = "starting"
  /\ toTry # <<>>
  /\ ~Fits(Head(toTry))
  /\ toTry' = Tail(toTry)
  /\ UNCHANGED <<stepVars, queued, stops, running, hostVars, shutdownVars, updater, started,
                 mainVars, caseVars>>

(* Mutant of Chosen: the hosts at the back.                                         *)
ChosenAtBack(s) == SubSeq(free, Len(free) - Nodes[s] + 1, Len(free))

(* _allocate_step: the hosts at the front of the free ones.                        *)
Chosen(s) == SubSeq(free, 1, Nodes[s])
Allocate(s) ==
  /\ free' = SubSeq(free, Nodes[s] + 1, Len(free))
  /\ allocated' = [h \in Hosts |-> IF h \in ToSet(Chosen(s)) THEN s ELSE allocated[h]]

(* The next step is given hosts and a process group.                               *)
Launch(s, state) ==
  /\ updater = "starting"
  /\ toTry # <<>>
  /\ s = Head(toTry)
  /\ Fits(s)
  /\ Allocate(s)
  /\ groups' = [groups EXCEPT ![s] = Append(@, [hosts |-> Chosen(s), state |-> state])]

(* The step gets its entry in _group_infos and runs.                               *)
Record(s, newStatus) ==
  /\ status' = [status EXCEPT ![s] = newStatus]
  /\ groupOf' = [groupOf EXCEPT ![s] = Len(groups[s]) + 1]
  /\ hostsOf' = [hostsOf EXCEPT ![s] = Chosen(s)]
  /\ running' = Append(running, s)

Start(s) ==
  /\ Launch(s, "running")
  /\ Record(s, "running")
  /\ toTry' = Tail(toTry)
  /\ started' = Append(started, s)
  /\ UNCHANGED <<queued, stops, shutdownVars, updater, mainVars, caseVars>>

(* The group cannot be initialised or started.                                     *)
FailToStart(s) ==
  /\ "init" \in script.faults
  /\ Launch(s, "failed")
  /\ Record(s, "failed")
  /\ toTry' = Tail(toTry)
  /\ started' = Append(started, s)
  /\ UNCHANGED <<queued, stops, shutdownVars, updater, mainVars, caseVars>>

(* The group, started or not, does not tell its puids: the step stays queued and   *)
(* its hosts allocated.                                                            *)
LoseGroup(s) ==
  /\ "puids" \in script.faults /\ Len(groups[s]) < MaxFaults
  /\ \/ Launch(s, "running")
     \/ "init" \in script.faults /\ Launch(s, "failed")
  /\ toTry' = Tail(toTry)
  /\ lost' = lost \cup {s}
  /\ UNCHANGED <<script, status, groupOf, hostsOf, queued, stops, running, shutdownVars, updater, started,
                 mainVars>>

(* The output cannot be redirected: an exception ends the turn before the steps     *)
(* that were started leave the queue.                                              *)
FailToRedirect(s) ==
  /\ "redirect" \in script.faults /\ Len(groups[s]) < MaxFaults
  /\ Launch(s, "running")
  /\ Record(s, "running")
  /\ toTry' = <<>>
  /\ started' = <<>>
  /\ updater' = "check"
  /\ lost' = lost \cup {s}
  /\ UNCHANGED <<script, queued, stops, shutdownVars, mainVars>>

(* Mutant of NotStarted: the queue has been gone through.                            *)
NoneLeft == <<>>

NotStarted == Those(queued, Steps \ ToSet(started))

EndStart ==
  /\ updater = "starting"
  /\ toTry = <<>>
  /\ queued' = NotStarted
  /\ started' = <<>>
  /\ updater' = "refresh"
  /\ UNCHANGED <<stepVars, stops, running, hostVars, shutdownVars, toTry, mainVars, caseVars>>

(* _refresh_statuses: what the process groups say of the steps that run; those that  *)
(* ended give their hosts back, once for each time they are in the list.            *)
Refreshed(s) ==
  IF groupOf[s] = 0 THEN "failed"
  ELSE IF status[s] \in Terminal THEN status[s]
  ELSE groups[s][groupOf[s]].state

(* Mutant of Ended: a cancelled step is not looked at.                               *)
EndedByItself(s) == Refreshed(s) \in {"completed", "failed"}

Ended(s) == Refreshed(s) \in Terminal

Refresh ==
  LET gone == Those(running, {s \in Steps : Ended(s)})
      returned == FlattenSeq([k \in DOMAIN gone |-> hostsOf[gone[k]]])
  IN  /\ updater = "refresh"
      /\ status' = [s \in Steps |-> IF s \in ToSet(running) THEN Refreshed(s) ELSE status[s]]
      /\ running' = Those(running, {s \in Steps : ~Ended(s)})
      /\ groupOf' = [s \in Steps |-> IF s \in ToSet(gone) THEN 0 ELSE groupOf[s]]
      /\ free' = free \o returned
      /\ allocated' = [h \in Hosts |-> IF h \in ToSet(returned) THEN NoStep ELSE allocated[h]]
      /\ updater' = "status"
      /\ UNCHANGED <<hostsOf, groups, queued, stops, shutdownVars, toTry, started, mainVars, caseVars>>

UpdaterStatus ==
  /\ updater = "status"
  /\ UpdateShutdownStatus
  /\ updater' = "check"
  /\ UNCHANGED <<stepVars, queued, stops, running, hostVars, requested, cooldown, toTry, started,
                 mainVars, caseVars>>

-----------------------------------------------------------------------------
(* Dragon and the clock.                                                             *)

EndGroup(s, k) ==
  /\ k \in DOMAIN groups[s]
  /\ groups[s][k].state = "running"
  /\ \E state \in {"completed", "failed"} : groups' = [groups EXCEPT ![s][k].state = state]
  /\ UNCHANGED <<status, groupOf, hostsOf, queued, stops, running, hostVars, shutdownVars,
                 updaterVars, mainVars, caseVars>>

CoolDown ==
  /\ cooldown = "started"
  /\ cooldown' = "over"
  /\ UNCHANGED <<stepVars, queued, stops, running, hostVars, requested, canShutdown, updaterVars,
                 mainVars, caseVars>>

Finished ==
  /\ updater = "done" /\ main = "done"
  /\ UNCHANGED vars

-----------------------------------------------------------------------------
StopSteps == BeginStop \/ StopOne \/ EndStop

StartSteps ==
  \/ BeginStart \/ Skip \/ EndStart
  \/ \E s \in Steps : Start(s) \/ FailToStart(s) \/ LoseGroup(s) \/ FailToRedirect(s)

Updater == UpdaterCheck \/ StopSteps \/ StartSteps \/ Refresh \/ UpdaterStatus

Server == MainCheck \/ NoRequest \/ MainStatus \/ KillAll

Client == \E s \in Steps : Run(s) \/ Stop(s) \/ (\E now \in BOOLEAN : Shutdown(now))

Groups == \E s \in Steps : \E k \in DOMAIN groups[s] : EndGroup(s, k)

Next == Client \/ Server \/ Updater \/ Groups \/ CoolDown \/ Finished

(* Both threads run; the update thread sleeps between its turns, so the main one gets  *)
(* the lock.  Clients and process groups owe nothing; GroupsEnd is what the groups would     *)
(* have to.                                                                           *)
Fairness ==
  /\ WF_vars(Updater) /\ WF_vars(MainCheck) /\ WF_vars(NoRequest) /\ WF_vars(CoolDown)
  /\ SF_vars(MainStatus) /\ SF_vars(KillAll)

Spec == Init /\ [][Next]_vars
FairSpec == Spec /\ Fairness

GroupsEnd == WF_vars(Groups)

-----------------------------------------------------------------------------
(* Properties.                                                                         *)

Lives(s, k) == groups[s][k].state = "running"

(* "Mapping of hosts on which a step is already running to step ID" and "List of hosts  *)
(* on which steps can be launched": a host is free, once, or belongs to the step that    *)
(* runs on it.                                                                         *)
HostsAccountedFor ==
  lost = {} =>
  /\ IsInjective(free)
  /\ \A h \in Hosts : h \in ToSet(free) <=> allocated[h] = NoStep
  /\ \A h \in Hosts : allocated[h] # NoStep =>
       allocated[h] \in ToSet(running) /\ h \in ToSet(hostsOf[allocated[h]])
  /\ \A s \in ToSet(running) : \A h \in ToSet(hostsOf[s]) : allocated[h] = s

(* "List of hosts on which steps can be launched": no process runs on a free host, and   *)
(* no two groups on one host.                                                          *)
HostServesOneStep ==
  lost = {} =>
  \A s \in Steps : \A k \in DOMAIN groups[s] : Lives(s, k) =>
    /\ ToSet(groups[s][k].hosts) \cap ToSet(free) = {}
    /\ \A r \in Steps : \A j \in DOMAIN groups[r] :
         Lives(r, j) /\ <<r, j>> # <<s, k>> =>
           ToSet(groups[s][k].hosts) \cap ToSet(groups[r][j].hosts) = {}

(* A step reported as ended has no process left, however it ended.                       *)
EndedIsDead ==
  lost = {} =>
  \A s \in Steps : status[s] \in Terminal => \A k \in DOMAIN groups[s] : ~Lives(s, k)

(* A step that waits is in the queue, and one that runs is looked at, whatever fails.      *)
NoStepForgotten ==
  \A s \in Steps : /\ status[s] = "never_started" => s \in ToSet(queued)
                   /\ status[s] = "running" => s \in ToSet(running)

(* "all jobs have been executed": the server is done only when no step waits or runs,       *)
(* whatever was asked of it meanwhile.                                                   *)
DoneWithAll ==
  lost = {} /\ main = "done" => \A s \in Steps : /\ status[s] \in Terminal \cup {"none"}
                                    /\ s \notin ToSet(running)

(* "it requested immediate shutdown": the server ends after it was asked to end at once,  *)
(* even with steps that never end.                                                      *)
ImmediateShutdownEnds == main = "kill" ~> main = "done" /\ updater = "done"

(* "if it did not request immediate shutdown, but all jobs have been executed": the server *)
(* ends when the steps do.                                                              *)
ShutdownEnds ==
  GroupsEnd => (requested ~> main = "done" /\ updater = "done")

(* Every step that was accepted is launched or stopped, and its end is seen, when the      *)
(* process groups end.                                                                   *)
EveryStepEnds ==
  GroupsEnd => \A s \in Steps : status[s] = "never_started" ~> status[s] \in Terminal
=============================================================================
