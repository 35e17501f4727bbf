------------------------ MODULE DragonBackend_proofs -------------------------
(***************************************************************************)
(* Proofs about the server that launches steps with Dragon: for any number   *)
(* of hosts and steps, any requests, and any number of failures.             *)
(***************************************************************************)
EXTENDS DragonBackend, SequenceFacts

(***************************************************************************)
(* The inductive invariant.  A step that waits is in the queue and was not    *)
(* started in this turn; one that has a process group is in the list of those  *)
(* that run; and, unless a launch has failed half-way, a step has one process   *)
(* group at most, the hosts are free or belong to the step that runs on them,   *)
(* and nothing begins once the server has seen that it can shut down.           *)
(***************************************************************************)
Statuses == {"none", "never_started", "running"} \cup Terminal
Group == [hosts : Seq(Hosts), state : {"running", "completed", "failed"}]

TypeOK ==
  /\ status \in [Steps -> Statuses]
  /\ groupOf \in [Steps -> Nat]
  /\ hostsOf \in [Steps -> Seq(Hosts)]
  /\ groups \in [Steps -> Seq(Group)]
  /\ \A s \in Steps : groupOf[s] <= Len(groups[s])
  /\ queued \in Seq(Steps) /\ stops \in Seq(Steps) /\ running \in Seq(Steps)
  /\ allocated \in [Hosts -> Steps \cup {NoStep}] /\ free \in Seq(Hosts)
  /\ requested \in BOOLEAN /\ canShutdown \in BOOLEAN
  /\ cooldown \in {"none", "started", "over"}
  /\ updater \in {"check", "stop", "stopping", "start", "starting", "refresh", "status", "done"}
  /\ toTry \in Seq(Steps) /\ started \in Seq(Steps)
  /\ main \in {"check", "listen", "status", "kill", "done"}
  /\ immediate \in BOOLEAN
  /\ script \in Scripts /\ lost \in SUBSET Steps

(* Whatever fails.                                                               *)
Turn == updater # "starting" => toTry = <<>> /\ started = <<>>
Waits(s) == status[s] = "never_started" => s \in ToSet(queued) /\ s \notin ToSet(started)
Runs(s) == status[s] = "running" => s \in ToSet(running)
StepsKept == \A s \in Steps : Waits(s) /\ Runs(s)

(* As long as no launch has failed half-way.                                      *)
QueueIsOfWaiting ==
  /\ IsInjective(queued) /\ IsInjective(toTry)
  /\ \A s \in ToSet(queued) : s \in ToSet(started) \/ status[s] = "never_started"
  /\ \A s \in ToSet(toTry) : s \in ToSet(queued) /\ s \notin ToSet(started)

Dead(s) == \A k \in DOMAIN groups[s] : ~Lives(s, k)
HasGroup(s) ==
  /\ s \in ToSet(running) <=> groupOf[s] # 0
  /\ status[s] \in {"none", "never_started"} => groups[s] = <<>> /\ groupOf[s] = 0
  /\ groupOf[s] # 0 => /\ groupOf[s] = 1 /\ Len(groups[s]) = 1
                       /\ hostsOf[s] = groups[s][1].hosts /\ IsInjective(hostsOf[s])
  /\ groupOf[s] = 0 \/ status[s] \in Terminal => Dead(s)
GroupsOfRunning == IsInjective(running) /\ \A s \in Steps : HasGroup(s)

HostsInUse ==
  /\ IsInjective(free)
  /\ \A h \in Hosts : h \in ToSet(free) <=> allocated[h] = NoStep
  /\ \A h \in Hosts : allocated[h] # NoStep =>
       allocated[h] \in ToSet(running) /\ h \in ToSet(hostsOf[allocated[h]])
  /\ \A s \in ToSet(running) : \A h \in ToSet(hostsOf[s]) : allocated[h] = s

ShutsDownWhenDone ==
  /\ canShutdown => requested /\ AllEnded
  /\ main = "done" => canShutdown

Orderly == QueueIsOfWaiting /\ GroupsOfRunning /\ HostsInUse /\ ShutsDownWhenDone

DragonInv == TypeOK /\ Turn /\ StepsKept /\ (lost = {} => Orderly)

-----------------------------------------------------------------------------
(* The types.                                                                    *)

LEMMA TypesAtStart == Init => TypeOK /\ Turn /\ StepsKept
<1> SUFFICES ASSUME Init PROVE TypeOK /\ Turn /\ StepsKept
  OBVIOUS
<1>1. HostList \in Seq(Hosts)
  BY DragonAssumption DEF Hosts
<1>2. \A T : <<>> \in Seq(T) /\ Len(<<>>) = 0
  OBVIOUS
<1>3. TypeOK
  <2>1. groups \in [Steps -> Seq(Group)] /\ hostsOf \in [Steps -> Seq(Hosts)]
    BY DEF Init
  <2>2. \A s \in Steps : groupOf[s] <= Len(groups[s])
    BY DEF Init
  <2>3. allocated \in [Hosts -> Steps \cup {NoStep}] /\ status \in [Steps -> Statuses]
        /\ groupOf \in [Steps -> Nat]
    BY DEF Init, Statuses
  <2> QED BY <1>1, <1>2, <2>1, <2>2, <2>3 DEF Init, TypeOK
<1>4. Turn /\ StepsKept
  BY DEF Init, Turn, StepsKept, Waits, Runs
<1> QED BY <1>3, <1>4

(* A launch takes hosts from the front of the free ones, and adds a process group.     *)
LEMMA LaunchFacts ==
  ASSUME TypeOK, NEW s \in Steps, NEW state \in {"running", "failed"}, Launch(s, state)
  PROVE  /\ Chosen(s) \in Seq(Hosts)
         /\ free' \in Seq(Hosts)
         /\ ToSet(free) = ToSet(Chosen(s)) \cup ToSet(free')
         /\ IsInjective(free) => /\ IsInjective(Chosen(s)) /\ IsInjective(free')
                                /\ ToSet(Chosen(s)) \cap ToSet(free') = {}
         /\ allocated' = [h \in Hosts |-> IF h \in ToSet(Chosen(s)) THEN s ELSE allocated[h]]
         /\ allocated' \in [Hosts -> Steps \cup {NoStep}]
         /\ groups' \in [Steps -> Seq(Group)]
         /\ groups'[s] = Append(groups[s], [hosts |-> Chosen(s), state |-> state])
         /\ Len(groups'[s]) = Len(groups[s]) + 1
         /\ \A r \in Steps : r # s => groups'[r] = groups[r]
         /\ toTry # <<>> /\ s = Head(toTry) /\ s \in ToSet(toTry) /\ updater = "starting"
<1>1. Nodes[s] \in 0 .. Len(free) /\ free \in Seq(Hosts)
  <2>1. Nodes[s] \in Nat
    BY DragonAssumption
  <2>2. free \in Seq(Hosts)
    BY DEF TypeOK
  <2>3. Nodes[s] <= Len(free)
    BY DEF Launch, Fits
  <2> QED BY <2>1, <2>2, <2>3
<1>2. /\ Chosen(s) \in Seq(Hosts) /\ free' \in Seq(Hosts)
      /\ ToSet(free) = ToSet(Chosen(s)) \cup ToSet(free')
      /\ IsInjective(free) => /\ IsInjective(Chosen(s)) /\ IsInjective(free')
                             /\ ToSet(Chosen(s)) \cap ToSet(free') = {}
  BY <1>1, SplitElements DEF Launch, Allocate, Chosen
<1>3. /\ allocated' = [h \in Hosts |-> IF h \in ToSet(Chosen(s)) THEN s ELSE allocated[h]]
      /\ allocated \in [Hosts -> Steps \cup {NoStep}]
  BY DEF Launch, Allocate, TypeOK
<1>4. allocated' \in [Hosts -> Steps \cup {NoStep}]
  BY <1>3
<1> DEFINE g == [hosts |-> Chosen(s), state |-> state]
<1>5. g \in Group
  BY <1>2 DEF Group
<1>6. groups \in [Steps -> Seq(Group)] /\ groups' = [groups EXCEPT ![s] = Append(groups[s], g)]
  BY DEF Launch, TypeOK
<1> HIDE DEF g
<1>7. groups[s] \in Seq(Group) /\ Append(groups[s], g) \in Seq(Group)
      /\ Len(Append(groups[s], g)) = Len(groups[s]) + 1
  BY <1>5, <1>6
<1>8. /\ groups' \in [Steps -> Seq(Group)] /\ groups'[s] = Append(groups[s], g)
      /\ \A r \in Steps : r # s => groups'[r] = groups[r]
  BY <1>6, <1>7
<1>9. toTry # <<>> /\ s = Head(toTry) /\ s \in ToSet(toTry) /\ updater = "starting"
  <2>1. toTry \in Seq(Steps) /\ toTry # <<>> /\ s = Head(toTry) /\ updater = "starting"
    BY DEF Launch, TypeOK
  <2> QED BY <2>1, TailElements
<1> QED BY <1>2, <1>3, <1>4, <1>7, <1>8, <1>9 DEF g

(* What the step has in _group_infos once it is recorded.                              *)
LEMMA RecordFacts ==
  ASSUME TypeOK, NEW s \in Steps, NEW state \in {"running", "failed"}, Launch(s, state),
         Record(s, state)
  PROVE  /\ status' \in [Steps -> Statuses] /\ status'[s] = state
         /\ groupOf' \in [Steps -> Nat] /\ groupOf'[s] = Len(groups[s]) + 1
         /\ hostsOf' \in [Steps -> Seq(Hosts)] /\ hostsOf'[s] = Chosen(s)
         /\ running' \in Seq(Steps) /\ ToSet(running') = ToSet(running) \cup {s}
         /\ IsInjective(running) /\ s \notin ToSet(running) => IsInjective(running')
         /\ \A r \in Steps : r # s => /\ status'[r] = status[r] /\ groupOf'[r] = groupOf[r]
                                     /\ hostsOf'[r] = hostsOf[r]
         /\ \A r \in Steps : groupOf'[r] <= Len(groups'[r])
<1>1. /\ status' = [status EXCEPT ![s] = state]
      /\ groupOf' = [groupOf EXCEPT ![s] = Len(groups[s]) + 1]
      /\ hostsOf' = [hostsOf EXCEPT ![s] = Chosen(s)]
      /\ running' = Append(running, s)
  BY DEF Record
<1>2. /\ status \in [Steps -> Statuses] /\ groupOf \in [Steps -> Nat]
      /\ hostsOf \in [Steps -> Seq(Hosts)] /\ running \in Seq(Steps)
      /\ \A r \in Steps : groupOf[r] <= Len(groups[r])
  BY DEF TypeOK
<1>3. /\ Chosen(s) \in Seq(Hosts) /\ Len(groups'[s]) = Len(groups[s]) + 1
      /\ \A r \in Steps : r # s => groups'[r] = groups[r]
      /\ \A r \in Steps : Len(groups[r]) \in Nat
  <2>1. \A r \in Steps : groups[r] \in Seq(Group)
    BY DEF TypeOK
  <2>2. \A r \in Steps : Len(groups[r]) \in Nat
    BY <2>1
  <2>3. /\ Chosen(s) \in Seq(Hosts) /\ Len(groups'[s]) = Len(groups[s]) + 1
        /\ \A r \in Steps : r # s => groups'[r] = groups[r]
    BY LaunchFacts
  <2> QED BY <2>2, <2>3
<1>4. /\ running' \in Seq(Steps) /\ ToSet(running') = ToSet(running) \cup {s}
      /\ IsInjective(running) /\ s \notin ToSet(running) => IsInjective(running')
  BY <1>1, <1>2, AppendElements
<1>5. /\ status' \in [Steps -> Statuses] /\ status'[s] = state
      /\ \A r \in Steps : r # s => status'[r] = status[r]
  BY <1>1, <1>2 DEF Statuses, Terminal
<1>6. /\ groupOf' \in [Steps -> Nat] /\ groupOf'[s] = Len(groups[s]) + 1
      /\ \A r \in Steps : r # s => groupOf'[r] = groupOf[r]
  BY <1>1, <1>2, <1>3
<1>7. /\ hostsOf' \in [Steps -> Seq(Hosts)] /\ hostsOf'[s] = Chosen(s)
      /\ \A r \in Steps : r # s => hostsOf'[r] = hostsOf[r]
  BY <1>1, <1>2, <1>3
<1>8. ASSUME NEW r \in Steps PROVE groupOf'[r] <= Len(groups'[r])
  <2>1. CASE r = s
    BY <1>3, <1>6, <2>1
  <2>2. CASE r # s
    BY <1>2, <1>3, <1>6, <2>2
  <2> QED BY <2>1, <2>2
<1> QED BY <1>4, <1>5, <1>6, <1>7, <1>8

(* A process group that ended, by itself or killed.                                     *)
Ends(after, s, k, state) == after = [groups EXCEPT ![s][k].state = state]

LEMMA EndOfGroup ==
  ASSUME TypeOK, NEW s \in Steps, NEW k \in DOMAIN groups[s], NEW state \in {"completed", "failed"},
         NEW after, Ends(after, s, k, state)
  PROVE  /\ after \in [Steps -> Seq(Group)]
         /\ \A r \in Steps : r # s => after[r] = groups[r]
         /\ Len(after[s]) = Len(groups[s])
         /\ \A j \in DOMAIN groups[s] : /\ after[s][j].hosts = groups[s][j].hosts
                                        /\ after[s][j].state = IF j = k THEN state ELSE groups[s][j].state
<1>1. groups \in [Steps -> Seq(Group)] /\ groups[s] \in Seq(Group)
  BY DEF TypeOK
<1> DEFINE q == groups[s]
           g == [q[k] EXCEPT !.state = state]
           r == [q EXCEPT ![k] = g]
<1>2. q[k] \in Group /\ k \in 1 .. Len(q)
  BY <1>1
<1>3. g \in Group /\ g.hosts = q[k].hosts /\ g.state = state
  BY <1>2 DEF Group
<1>4. after = [groups EXCEPT ![s] = r]
  BY DEF Ends
<1> HIDE DEF g
<1>5. /\ r \in Seq(Group) /\ Len(r) = Len(q)
      /\ \A j \in 1 .. Len(q) : r[j] = IF j = k THEN g ELSE q[j]
  BY <1>1, <1>2, <1>3
<1> HIDE DEF r
<1>6. after \in [Steps -> Seq(Group)] /\ after[s] = r /\ \A t \in Steps : t # s => after[t] = groups[t]
  BY <1>1, <1>4, <1>5
<1>7. DOMAIN q = 1 .. Len(q)
  BY <1>1
<1> QED BY <1>3, <1>5, <1>6, <1>7

(* The steps of the list that ended, and the hosts that they give back.                 *)
Gone == Those(running, {s \in Steps : Ended(s)})
Returned == FlattenSeq([k \in DOMAIN Gone |-> hostsOf[Gone[k]]])

LEMMA ReturnFacts ==
  ASSUME TypeOK
  PROVE  /\ Gone \in Seq(Steps) /\ Returned \in Seq(Hosts)
         /\ \A s \in Steps : s \in ToSet(Gone) <=> s \in ToSet(running) /\ Ended(s)
         /\ \A h : h \in ToSet(Returned) <=> \E s \in ToSet(Gone) : h \in ToSet(hostsOf[s])
         /\ /\ IsInjective(running)
            /\ \A s \in ToSet(running) : IsInjective(hostsOf[s])
            /\ \A r, s \in ToSet(running) : r # s => ToSet(hostsOf[r]) \cap ToSet(hostsOf[s]) = {}
            => IsInjective(Returned)
<1>1. running \in Seq(Steps) /\ hostsOf \in [Steps -> Seq(Hosts)]
  BY DEF TypeOK
<1>2. /\ Gone \in Seq(Steps) /\ ToSet(Gone) = ToSet(running) \cap {s \in Steps : Ended(s)}
      /\ IsInjective(running) => IsInjective(Gone)
  BY <1>1, ThoseElements DEF Gone
<1> DEFINE g == Gone
           seqs == [k \in DOMAIN g |-> hostsOf[g[k]]]
<1>3. Returned = FlattenSeq(seqs)
  BY DEF Returned
<1>4. /\ g \in Seq(Steps) /\ DOMAIN g = 1 .. Len(g) /\ Len(g) \in Nat
      /\ \A k \in 1 .. Len(g) : g[k] \in ToSet(g) /\ g[k] \in Steps
      /\ \A s \in ToSet(g) : \E k \in 1 .. Len(g) : g[k] = s
      /\ IsInjective(g) <=> \A i, j \in 1 .. Len(g) : g[i] = g[j] => i = j
  <2>1. g \in Seq(Steps)
    BY <1>2
  <2> HIDE DEF g
  <2> QED BY <2>1, ElementPositions
<1>5. /\ ToSet(g) = ToSet(running) \cap {s \in Steps : Ended(s)}
      /\ IsInjective(running) => IsInjective(g)
  BY <1>2
<1> HIDE DEF g
<1>6. /\ seqs \in Seq(Seq(Hosts)) /\ Len(seqs) = Len(g)
      /\ \A k \in 1 .. Len(g) : seqs[k] = hostsOf[g[k]]
  BY <1>1, <1>4
<1> HIDE DEF seqs
<1>7. /\ Returned \in Seq(Hosts)
      /\ \A h : h \in ToSet(Returned) <=> \E k \in 1 .. Len(g) : h \in ToSet(seqs[k])
      /\ /\ \A k \in 1 .. Len(g) : IsInjective(seqs[k])
         /\ \A i, j \in 1 .. Len(g) : i # j => ToSet(seqs[i]) \cap ToSet(seqs[j]) = {}
         => IsInjective(Returned)
  BY <1>3, <1>6, FlattenElements
<1>8. \A h : h \in ToSet(Returned) <=> \E s \in ToSet(g) : h \in ToSet(hostsOf[s])
  BY <1>4, <1>6, <1>7
<1>9. ASSUME /\ IsInjective(running)
             /\ \A s \in ToSet(running) : IsInjective(hostsOf[s])
             /\ \A r, s \in ToSet(running) : r # s => ToSet(hostsOf[r]) \cap ToSet(hostsOf[s]) = {}
      PROVE  IsInjective(Returned)
  <2>1. \A k \in 1 .. Len(g) : g[k] \in ToSet(running)
    BY <1>4, <1>5
  <2>2. \A k \in 1 .. Len(g) : IsInjective(seqs[k])
    BY <1>6, <1>9, <2>1
  <2>3. \A i, j \in 1 .. Len(g) : i # j => g[i] # g[j]
    BY <1>4, <1>5, <1>9
  <2>4. ASSUME NEW i \in 1 .. Len(g), NEW j \in 1 .. Len(g), i # j
        PROVE  ToSet(seqs[i]) \cap ToSet(seqs[j]) = {}
    BY <1>6, <1>9, <2>1, <2>3, <2>4
  <2> QED BY <1>7, <2>2, <2>4
<1>10. g = Gone
  BY DEF g
<1>11. \A s \in Steps : s \in ToSet(g) <=> s \in ToSet(running) /\ Ended(s)
  BY <1>5
<1> QED BY <1>2, <1>7, <1>8, <1>9, <1>10, <1>11

(* What a turn of _refresh_statuses says of a step is one of the statuses.               *)
LEMMA RefreshedIsStatus ==
  ASSUME TypeOK, NEW s \in Steps
  PROVE  Refreshed(s) \in Statuses \ {"never_started", "none"}
<1>1. /\ groupOf[s] \in Nat /\ groupOf[s] <= Len(groups[s]) /\ groups[s] \in Seq(Group)
      /\ status[s] \in Statuses
  BY DEF TypeOK
<1>2. CASE groupOf[s] = 0 \/ status[s] \in Terminal
  BY <1>2 DEF Refreshed, Terminal, Statuses
<1>3. CASE groupOf[s] # 0 /\ status[s] \notin Terminal
  <2>1. groupOf[s] \in 1 .. Len(groups[s])
    BY <1>1, <1>3
  <2>2. groups[s][groupOf[s]] \in Group
    BY <1>1, <2>1
  <2>3. groups[s][groupOf[s]].state \in {"running", "completed", "failed"}
    BY <2>2 DEF Group
  <2> QED BY <1>3, <2>3 DEF Refreshed, Terminal, Statuses
<1> QED BY <1>2, <1>3

(* Every step keeps the types.                                                           *)
LEMMA TypesKept == TypeOK /\ [Next]_vars => TypeOK'
<1> SUFFICES ASSUME TypeOK, [Next]_vars PROVE TypeOK'
  OBVIOUS
<1> USE DEF vars, stepVars, hostVars, shutdownVars, updaterVars, mainVars, caseVars
<1>1. CASE MainCheck
  BY <1>1 DEF MainCheck, BeginCooldown, TypeOK
<1>2. CASE NoRequest
  BY <1>2 DEF NoRequest, TypeOK
<1>3. ASSUME NEW s \in Steps, Run(s) PROVE TypeOK'
  <2>1. status' \in [Steps -> Statuses]
    BY <1>3 DEF Run, TypeOK, Statuses, Terminal
  <2>2. queued' \in Seq(Steps)
    <3>1. queued \in Seq(Steps) /\ queued' \in {queued, Append(queued, s)}
      BY <1>3 DEF Run, TypeOK
    <3> QED BY <3>1, AppendElements
  <2> QED BY <1>3, <2>1, <2>2 DEF Run, TypeOK
<1>4. ASSUME NEW s \in Steps, Stop(s) PROVE TypeOK'
  <2>1. stops' \in Seq(Steps)
    BY <1>4 DEF Stop, TypeOK
  <2> QED BY <1>4, <2>1 DEF Stop, TypeOK
<1>5. ASSUME NEW now \in BOOLEAN, Shutdown(now) PROVE TypeOK'
  BY <1>5 DEF Shutdown, TypeOK
<1>6. CASE MainStatus
  <2>1. canShutdown' \in BOOLEAN
    BY <1>6 DEF MainStatus, UpdateShutdownStatus
  <2> QED BY <1>6, <2>1 DEF MainStatus, TypeOK
<1>7. CASE KillAll
  <2> DEFINE T == {s \in Steps : status[s] \notin Terminal \cup {"none"}}
  <2>1. IsFiniteSet(T)
    BY DragonAssumption, FS_Subset
  <2>2. SetToSeq(T) \in Seq(Steps)
    <3>1. SetToSeq(T) \in Seq(T) /\ T \subseteq Steps
      BY <2>1, SetToSeqElements
    <3> HIDE DEF T
    <3> QED BY <3>1
  <2>3. stops' = stops \o SetToSeq(T)
    BY <1>7 DEF KillAll
  <2> HIDE DEF T
  <2>4. stops' \in Seq(Steps)
    BY <2>2, <2>3 DEF TypeOK
  <2> QED BY <1>7, <2>4 DEF KillAll, TypeOK
<1>8. CASE UpdaterCheck
  BY <1>8 DEF UpdaterCheck, BeginCooldown, TypeOK
<1>9. CASE BeginStop
  BY <1>9 DEF BeginStop, TypeOK
<1>10. CASE StopOne
  <2> DEFINE s == Head(stops)
  <2>1. s \in Steps /\ stops' \in Seq(Steps)
    BY <1>10, TailElements DEF StopOne, TypeOK
  <2>2. status' \in [Steps -> Statuses]
    BY <1>10 DEF StopOne, TypeOK, Statuses, Terminal
  <2>3. CASE s \in ToSet(queued)
    <3>1. queued' = Those(queued, Steps \ {s}) /\ groups' = groups
      BY <1>10, <2>3 DEF StopOne, Without
    <3>2. queued' \in Seq(Steps)
      BY <3>1, ThoseElements DEF TypeOK
    <3> QED BY <1>10, <2>1, <2>2, <3>1, <3>2 DEF StopOne, TypeOK
  <2>4. CASE s \notin ToSet(queued)
    <3>1. queued' = queued /\ groups' = Killed(s)
      BY <1>10, <2>4 DEF StopOne
    <3>2. /\ groups' \in [Steps -> Seq(Group)]
          /\ \A r \in Steps : Len(groups'[r]) = Len(groups[r])
      <4> DEFINE k == groupOf[s]
      <4>1. CASE k # 0 /\ groups[s][k].state = "running"
        <5>1. Ends(groups', s, k, "failed")
          BY <3>1, <4>1 DEF Killed, Ends
        <5>2. k \in DOMAIN groups[s]
          <6>1. k \in Nat /\ k <= Len(groups[s]) /\ groups[s] \in Seq(Group)
            BY <2>1 DEF TypeOK
          <6> HIDE DEF k
          <6> QED BY <4>1, <6>1
        <5> HIDE DEF k, s
        <5>3. /\ groups' \in [Steps -> Seq(Group)] /\ Len(groups'[s]) = Len(groups[s])
              /\ \A r \in Steps : r # s => groups'[r] = groups[r]
          BY <2>1, <5>1, <5>2, EndOfGroup
        <5> QED BY <5>3
      <4>2. CASE ~(k # 0 /\ groups[s][k].state = "running")
        BY <3>1, <4>2 DEF Killed, TypeOK
      <4> QED BY <4>1, <4>2
    <3>3. \A r \in Steps : groupOf[r] <= Len(groups'[r])
      BY <3>2 DEF TypeOK
    <3> QED BY <1>10, <2>1, <2>2, <3>1, <3>2, <3>3 DEF StopOne, TypeOK
  <2> QED BY <2>3, <2>4
<1>11. CASE EndStop
  BY <1>11 DEF EndStop, TypeOK
<1>12. CASE BeginStart
  <2>1. started' \in Seq(Steps)
    BY <1>12 DEF BeginStart
  <2> QED BY <1>12, <2>1 DEF BeginStart, TypeOK
<1>13. CASE Skip
  <2>1. toTry' \in Seq(Steps)
    BY <1>13, TailElements DEF Skip, TypeOK
  <2> QED BY <1>13, <2>1 DEF Skip, TypeOK
<1>14. ASSUME NEW s \in Steps, NEW state \in {"running", "failed"}, Launch(s, state), Record(s, state),
              toTry' = Tail(toTry) \/ toTry' = <<>>,
              started' = Append(started, s) \/ started' = <<>>,
              updater' \in {updater, "check"}, lost' \in {lost, lost \cup {s}},
              UNCHANGED <<script, queued, stops, shutdownVars, mainVars>>
       PROVE  TypeOK'
  <2>1. toTry # <<>> /\ groups' \in [Steps -> Seq(Group)] /\ free' \in Seq(Hosts)
        /\ allocated' \in [Hosts -> Steps \cup {NoStep}]
    BY <1>14, LaunchFacts
  <2>2. toTry' \in Seq(Steps) /\ started' \in Seq(Steps)
    <3>1. toTry \in Seq(Steps) /\ started \in Seq(Steps) /\ <<>> \in Seq(Steps)
      BY DEF TypeOK
    <3>2. Tail(toTry) \in Seq(Steps) /\ Append(started, s) \in Seq(Steps)
      BY <2>1, <3>1, TailElements, AppendElements
    <3> QED BY <1>14, <3>1, <3>2
  <2>3. /\ status' \in [Steps -> Statuses] /\ groupOf' \in [Steps -> Nat]
        /\ hostsOf' \in [Steps -> Seq(Hosts)] /\ running' \in Seq(Steps)
        /\ \A r \in Steps : groupOf'[r] <= Len(groups'[r])
    BY <1>14, RecordFacts
  <2> QED BY <1>14, <2>1, <2>2, <2>3 DEF TypeOK
<1>15. ASSUME NEW s \in Steps, Start(s) PROVE TypeOK'
  BY <1>14, <1>15 DEF Start
<1>16. ASSUME NEW s \in Steps, FailToStart(s) PROVE TypeOK'
  BY <1>14, <1>16 DEF FailToStart
<1>17. ASSUME NEW s \in Steps, FailToRedirect(s) PROVE TypeOK'
  BY <1>14, <1>17 DEF FailToRedirect
<1>18. ASSUME NEW s \in Steps, LoseGroup(s) PROVE TypeOK'
  <2>1. PICK state \in {"running", "failed"} : Launch(s, state)
    BY <1>18 DEF LoseGroup
  <2>2. toTry # <<>> /\ groups' \in [Steps -> Seq(Group)] /\ free' \in Seq(Hosts)
        /\ allocated' \in [Hosts -> Steps \cup {NoStep}]
        /\ Len(groups'[s]) = Len(groups[s]) + 1
        /\ \A r \in Steps : r # s => groups'[r] = groups[r]
    BY <1>18, <2>1, LaunchFacts
  <2>3. toTry' \in Seq(Steps)
    BY <1>18, <2>2, TailElements DEF LoseGroup, TypeOK
  <2>4. ASSUME NEW r \in Steps PROVE groupOf[r] <= Len(groups'[r])
    <3>1. groupOf[r] \in Nat /\ groupOf[r] <= Len(groups[r]) /\ groups[r] \in Seq(Group)
      BY DEF TypeOK
    <3>2. Len(groups[r]) \in Nat
      BY <3>1
    <3>3. CASE r = s
      BY <2>2, <3>1, <3>2, <3>3
    <3>4. CASE r # s
      BY <2>2, <3>1, <3>4
    <3> QED BY <3>3, <3>4
  <2> QED BY <1>18, <2>2, <2>3, <2>4 DEF LoseGroup, TypeOK
<1>19. CASE EndStart
  <2>1. queued' \in Seq(Steps)
    BY <1>19, ThoseElements DEF EndStart, NotStarted, TypeOK
  <2>2. started' \in Seq(Steps)
    BY <1>19 DEF EndStart
  <2> QED BY <1>19, <2>1, <2>2 DEF EndStart, TypeOK
<1>20. CASE Refresh
  <2>1. Returned \in Seq(Hosts)
    BY ReturnFacts
  <2>2. free' = free \o Returned
        /\ allocated' = [h \in Hosts |-> IF h \in ToSet(Returned) THEN NoStep ELSE allocated[h]]
        /\ groupOf' = [s \in Steps |-> IF s \in ToSet(Gone) THEN 0 ELSE groupOf[s]]
        /\ running' = Those(running, {s \in Steps : ~Ended(s)})
    BY <1>20 DEF Refresh, Gone, Returned
  <2>3. free' \in Seq(Hosts) /\ allocated' \in [Hosts -> Steps \cup {NoStep}]
        /\ groupOf' \in [Steps -> Nat]
    BY <2>1, <2>2 DEF TypeOK
  <2>4. running' \in Seq(Steps)
    BY <2>2, ThoseElements DEF TypeOK
  <2>5. status' \in [Steps -> Statuses]
    <3>1. status' = [s \in Steps |-> IF s \in ToSet(running) THEN Refreshed(s) ELSE status[s]]
      BY <1>20 DEF Refresh
    <3> QED BY <3>1, RefreshedIsStatus DEF TypeOK
  <2>6. groups' = groups /\ \A s \in Steps : groupOf'[s] <= Len(groups'[s])
    <3>1. groups' = groups
      BY <1>20 DEF Refresh
    <3>2. \A s \in Steps : groups[s] \in Seq(Group)
      BY DEF TypeOK
    <3>3. \A s \in Steps : Len(groups[s]) \in Nat
      BY <3>2
    <3> QED BY <2>2, <3>1, <3>3 DEF TypeOK
  <2> QED BY <1>20, <2>3, <2>4, <2>5, <2>6 DEF Refresh, TypeOK
<1>21. CASE UpdaterStatus
  <2>1. canShutdown' \in BOOLEAN
    BY <1>21 DEF UpdaterStatus, UpdateShutdownStatus
  <2> QED BY <1>21, <2>1 DEF UpdaterStatus, TypeOK
<1>22. ASSUME NEW s \in Steps, NEW k \in DOMAIN groups[s], EndGroup(s, k) PROVE TypeOK'
  <2>1. PICK state \in {"completed", "failed"} : Ends(groups', s, k, state)
    BY <1>22 DEF EndGroup, Ends
  <2>2. /\ groups' \in [Steps -> Seq(Group)] /\ Len(groups'[s]) = Len(groups[s])
        /\ \A r \in Steps : r # s => groups'[r] = groups[r]
    BY <2>1, EndOfGroup
  <2>3. \A r \in Steps : groupOf[r] <= Len(groups'[r])
    BY <2>2 DEF TypeOK
  <2> QED BY <1>22, <2>2, <2>3 DEF EndGroup, TypeOK
<1>23. CASE CoolDown
  BY <1>23 DEF CoolDown, TypeOK
<1>24. CASE Finished
  BY <1>24 DEF Finished, TypeOK
<1>25. CASE UNCHANGED vars
  BY <1>25 DEF TypeOK
<1> QED
  BY <1>1, <1>2, <1>3, <1>4, <1>5, <1>6, <1>7, <1>8, <1>9, <1>10, <1>11, <1>12, <1>13, <1>15, <1>16,
     <1>17, <1>18, <1>19, <1>20, <1>21, <1>22, <1>23, <1>24, <1>25
  DEF Next, Client, Server, Updater, StopSteps, StartSteps, Groups

-----------------------------------------------------------------------------
(* No step is forgotten.                                                           *)

(* The lists of a turn are gone when the turn is, and a step that waits stays in the    *)
(* queue, one that runs in the list, whatever fails.                                 *)
LEMMA StepsStayKept ==
  ASSUME TypeOK, TypeOK', Turn, StepsKept, [Next]_vars
  PROVE  Turn' /\ StepsKept'
<1> USE DEF vars, stepVars, hostVars, shutdownVars, updaterVars, mainVars, caseVars
<1>1. /\ queued \in Seq(Steps) /\ running \in Seq(Steps) /\ started \in Seq(Steps)
      /\ stops \in Seq(Steps) /\ status \in [Steps -> Statuses]
  BY DEF TypeOK
<1>2. ToSet(<<>>) = {}
  BY EmptyElements
<1>3. CASE UNCHANGED <<status, queued, running, updaterVars>>
  BY <1>3 DEF Turn, StepsKept, Waits, Runs
<1>4. CASE UNCHANGED <<status, queued, running, toTry, started>> /\ updater' # "starting"
           /\ updater # "starting"
  BY <1>4 DEF Turn, StepsKept, Waits, Runs
<1>5. ASSUME NEW s \in Steps, Run(s) PROVE Turn' /\ StepsKept'
  <2>1. updater # "starting" /\ UNCHANGED <<running, updaterVars>> /\ status[s] = "none"
        /\ \A r \in Steps : r # s => status'[r] = status[r]
    BY <1>1, <1>5 DEF Run, Locked
  <2>2. started = <<>> /\ toTry = <<>>
    BY <2>1 DEF Turn
  <2>3. ToSet(queued) \subseteq ToSet(queued')
        /\ (status'[s] = "never_started" => s \in ToSet(queued'))
    <3>1. CASE CanHonor(s)
      <4>1. queued' = Append(queued, s)
        BY <1>5, <3>1 DEF Run
      <4>2. ToSet(Append(queued, s)) = ToSet(queued) \cup {s}
        BY <1>1, AppendElements
      <4> QED BY <4>1, <4>2
    <3>2. CASE ~CanHonor(s)
      BY <1>1, <1>5, <3>2 DEF Run
    <3> QED BY <3>1, <3>2
  <2>4. status'[s] # "running"
    BY <1>1, <1>5 DEF Run
  <2> QED BY <1>2, <2>1, <2>2, <2>3, <2>4 DEF Turn, StepsKept, Waits, Runs
<1>6. CASE StopOne
  <2> DEFINE s == Head(stops)
  <2>1. /\ updater = "stopping" /\ UNCHANGED <<running, updaterVars>> /\ s \in Steps
    BY <1>1, <1>6, TailElements DEF StopOne
  <2>2. /\ status'[s] \in {"none", "cancelled"} /\ \A r \in Steps : r # s => status'[r] = status[r]
    BY <1>1, <1>6, <2>1 DEF StopOne
  <2>3. ToSet(queued) \subseteq ToSet(queued') \cup {s}
    <3>1. CASE s \in ToSet(queued)
      <4>1. queued' = Those(queued, Steps \ {s})
        BY <1>6, <3>1 DEF StopOne, Without
      <4>2. ToSet(queued') = ToSet(queued) \cap (Steps \ {s})
        BY <1>1, <4>1, ThoseElements
      <4> QED BY <1>1, <4>2, ElementPositions
    <3>2. CASE s \notin ToSet(queued)
      BY <1>6, <3>2 DEF StopOne
    <3> QED BY <3>1, <3>2
  <2> HIDE DEF s
  <2> QED BY <1>2, <2>1, <2>2, <2>3 DEF Turn, StepsKept, Waits, Runs
<1>7. CASE BeginStart
  <2>1. UNCHANGED <<status, queued, running>> /\ updater' = "starting" /\ started' = <<>>
    BY <1>7 DEF BeginStart
  <2> QED BY <1>2, <2>1 DEF Turn, StepsKept, Waits, Runs
<1>8. CASE Skip
  BY <1>8 DEF Skip, Turn, StepsKept, Waits, Runs
<1>9. ASSUME NEW s \in Steps, NEW state \in {"running", "failed"}, Launch(s, state), Record(s, state),
             started' = Append(started, s) \/ started' = <<>>,
             UNCHANGED queued, updater' = "starting" \/ (toTry' = <<>> /\ started' = <<>>)
      PROVE  Turn' /\ StepsKept'
  <2>1. /\ status'[s] = state /\ ToSet(running') = ToSet(running) \cup {s}
        /\ \A r \in Steps : r # s => status'[r] = status[r]
    BY <1>9, RecordFacts
  <2>2. ToSet(started') \subseteq ToSet(started) \cup {s}
    <3>1. ToSet(Append(started, s)) = ToSet(started) \cup {s}
      BY <1>1, AppendElements
    <3> QED BY <1>2, <1>9, <3>1
  <2>3. Turn'
    BY <1>9 DEF Turn
  <2>4. StepsKept'
    BY <1>9, <2>1, <2>2 DEF StepsKept, Waits, Runs
  <2> QED BY <2>3, <2>4
<1>10. ASSUME NEW s \in Steps, Start(s) \/ FailToStart(s) PROVE Turn' /\ StepsKept'
  <2>1. PICK state \in {"running", "failed"} :
          /\ Launch(s, state) /\ Record(s, state)
          /\ started' = Append(started, s) /\ UNCHANGED <<queued, updater>>
    BY <1>10 DEF Start, FailToStart
  <2>2. updater = "starting"
    BY <2>1 DEF Launch
  <2> QED BY <1>9, <2>1, <2>2
<1>11. ASSUME NEW s \in Steps, FailToRedirect(s) PROVE Turn' /\ StepsKept'
  BY <1>9, <1>11 DEF FailToRedirect
<1>12. ASSUME NEW s \in Steps, LoseGroup(s) PROVE Turn' /\ StepsKept'
  <2>1. UNCHANGED <<status, queued, running, started, updater>> /\ updater = "starting"
    BY <1>12 DEF LoseGroup, Launch
  <2> QED BY <2>1 DEF Turn, StepsKept, Waits, Runs
<1>13. CASE EndStart
  <2>1. UNCHANGED <<status, running>> /\ updater' = "refresh" /\ started' = <<>> /\ toTry' = <<>>
    BY <1>13 DEF EndStart
  <2>2. ToSet(queued') = ToSet(queued) \cap (Steps \ ToSet(started))
    BY <1>1, <1>13, ThoseElements DEF EndStart, NotStarted
  <2> QED BY <1>2, <2>1, <2>2 DEF Turn, StepsKept, Waits, Runs
<1>14. CASE Refresh
  <2>1. /\ UNCHANGED <<queued, toTry, started>> /\ updater = "refresh" /\ updater' = "status"
        /\ status' = [s \in Steps |-> IF s \in ToSet(running) THEN Refreshed(s) ELSE status[s]]
        /\ running' = Those(running, {s \in Steps : ~Ended(s)})
    BY <1>14 DEF Refresh
  <2>2. ToSet(running') = ToSet(running) \cap {s \in Steps : ~Ended(s)}
    BY <1>1, <2>1, ThoseElements
  <2>3. \A s \in Steps : Refreshed(s) # "never_started" /\ (Refreshed(s) = "running" => ~Ended(s))
    BY RefreshedIsStatus DEF Ended, Terminal
  <2>4. ASSUME NEW s \in Steps PROVE Waits(s)' /\ Runs(s)'
    <3>1. CASE s \in ToSet(running)
      BY <2>1, <2>2, <2>3, <3>1 DEF Waits, Runs
    <3>2. CASE s \notin ToSet(running)
      BY <2>1, <3>2 DEF StepsKept, Waits, Runs
    <3> QED BY <3>1, <3>2
  <2> QED BY <2>1, <2>4 DEF Turn, StepsKept
<1>15. CASE Server \/ (\E s \in Steps : Stop(s) \/ (\E now \in BOOLEAN : Shutdown(now))) \/ Groups
            \/ CoolDown \/ Finished \/ UNCHANGED vars
  <2>1. UNCHANGED <<status, queued, running, updaterVars>>
    BY <1>15 DEF Server, MainCheck, NoRequest, MainStatus, KillAll, Stop, Shutdown, Groups, EndGroup,
       CoolDown, Finished
  <2> QED BY <1>3, <2>1
<1>16. CASE UpdaterCheck \/ BeginStop \/ EndStop \/ UpdaterStatus
  <2>1. UNCHANGED <<status, queued, running, toTry, started>> /\ updater' # "starting"
        /\ updater # "starting"
    BY <1>16 DEF UpdaterCheck, BeginStop, EndStop, UpdaterStatus
  <2> QED BY <1>4, <2>1
<1> QED
  BY <1>5, <1>6, <1>7, <1>8, <1>10, <1>11, <1>12, <1>13, <1>14, <1>15, <1>16
  DEF Next, Client, Updater, StopSteps, StartSteps

-----------------------------------------------------------------------------
(* As long as no launch has failed half-way.                                       *)

(* A step that waits in the queue has no process group yet.                           *)
LEMMA WaitingStep ==
  ASSUME TypeOK, Turn, Orderly, NEW s \in Steps, s \in ToSet(queued), s \notin ToSet(started)
  PROVE  /\ status[s] = "never_started" /\ groups[s] = <<>> /\ groupOf[s] = 0
         /\ s \notin ToSet(running) /\ ~canShutdown /\ main # "done"
<1>1. status[s] = "never_started"
  BY DEF Orderly, QueueIsOfWaiting
<1>2. groups[s] = <<>> /\ groupOf[s] = 0 /\ s \notin ToSet(running)
  BY <1>1 DEF Orderly, GroupsOfRunning, HasGroup
<1>3. ~AllEnded
  BY <1>1 DEF AllEnded, Terminal
<1> QED BY <1>1, <1>2, <1>3 DEF Orderly, ShutsDownWhenDone

(* What happens to neither steps nor hosts.                                           *)
LEMMA QuietStep ==
  ASSUME Orderly, UNCHANGED <<stepVars, queued, running, hostVars, toTry, started>>,
         ShutsDownWhenDone'
  PROVE  Orderly'
<1>1. QueueIsOfWaiting'
  BY DEF Orderly, QueueIsOfWaiting, stepVars
<1>2. GroupsOfRunning'
  BY DEF Orderly, GroupsOfRunning, HasGroup, Dead, Lives, stepVars
<1>3. HostsInUse'
  BY DEF Orderly, HostsInUse, stepVars, hostVars
<1> QED BY <1>1, <1>2, <1>3 DEF Orderly

(* The server that can shut down still can.                                            *)
LEMMA StillDone ==
  ASSUME Orderly, UNCHANGED <<stepVars, requested, canShutdown, main>>
  PROVE  ShutsDownWhenDone'
BY DEF Orderly, ShutsDownWhenDone, AllEnded, stepVars

(* A request to run a step.                                                            *)
LEMMA RunIsOrderly ==
  ASSUME TypeOK, Turn, Orderly, NEW s \in Steps, Run(s)
  PROVE  Orderly'
<1> USE DEF vars, stepVars, hostVars, shutdownVars, updaterVars, mainVars, caseVars
<1>1. /\ UNCHANGED <<groupOf, hostsOf, groups, running, allocated, free, requested, canShutdown, toTry, started>>
      /\ status[s] = "none" /\ updater # "starting" /\ main' = "check"
      /\ \A r \in Steps : r # s => status'[r] = status[r]
      /\ queued \in Seq(Steps)
  BY DEF Run, TypeOK, Locked
<1>2. started = <<>> /\ toTry = <<>> /\ ToSet(<<>>) = {} /\ IsInjective(<<>>)
  BY <1>1, EmptyElements DEF Turn
<1>3. s \notin ToSet(queued)
  BY <1>1, <1>2 DEF Orderly, QueueIsOfWaiting
<1>4. \/ CanHonor(s) /\ status'[s] = "never_started" /\ queued' = Append(queued, s)
      \/ ~CanHonor(s) /\ status'[s] = "failed" /\ queued' = queued
  BY DEF Run, TypeOK
<1>5. QueueIsOfWaiting'
  <2>1. CASE CanHonor(s)
    <3>1. /\ ToSet(Append(queued, s)) = ToSet(queued) \cup {s}
          /\ IsInjective(Append(queued, s)) <=> IsInjective(queued) /\ s \notin ToSet(queued)
      BY <1>1, AppendElements
    <3>2. ToSet(queued') = ToSet(queued) \cup {s} /\ (IsInjective(queued) => IsInjective(queued'))
          /\ status'[s] = "never_started"
      BY <1>3, <1>4, <2>1, <3>1
    <3>3. ToSet(queued) \subseteq Steps
      BY <1>1, ElementPositions
    <3> QED BY <1>1, <1>2, <3>2, <3>3 DEF Orderly, QueueIsOfWaiting
  <2>2. CASE ~CanHonor(s)
    <3>1. ToSet(queued) \subseteq Steps
      BY <1>1, ElementPositions
    <3> QED BY <1>1, <1>2, <1>3, <1>4, <2>2, <3>1 DEF Orderly, QueueIsOfWaiting
  <2> QED BY <2>1, <2>2
<1>6. GroupsOfRunning'
  <2>1. groups[s] = <<>> /\ groupOf[s] = 0 /\ Dead(s)
    BY <1>1 DEF Orderly, GroupsOfRunning, HasGroup
  <2>2. ASSUME NEW r \in Steps PROVE HasGroup(r)'
    <3>1. Dead(r)' <=> Dead(r)
      BY <1>1 DEF Dead, Lives
    <3>2. HasGroup(r)
      BY DEF Orderly, GroupsOfRunning
    <3>3. CASE r = s
      BY <1>1, <1>4, <2>1, <3>1, <3>2, <3>3 DEF HasGroup, Terminal
    <3>4. CASE r # s
      BY <1>1, <3>1, <3>2, <3>4 DEF HasGroup
    <3> QED BY <3>3, <3>4
  <2> QED BY <1>1, <2>2 DEF Orderly, GroupsOfRunning
<1>7. HostsInUse'
  BY <1>1 DEF Orderly, HostsInUse
<1>8. ShutsDownWhenDone'
  <2>1. ASSUME canShutdown PROVE requested /\ AllEnded'
    <3>1. requested /\ AllEnded
      BY <2>1 DEF Orderly, ShutsDownWhenDone
    <3>2. status'[s] = "failed"
      BY <1>4, <3>1 DEF CanHonor
    <3>3. groupOf[s] = 0
      BY <1>1 DEF Orderly, GroupsOfRunning, HasGroup
    <3> QED BY <1>1, <3>1, <3>2, <3>3 DEF AllEnded, Terminal
  <2> QED BY <1>1, <2>1 DEF ShutsDownWhenDone
<1> QED BY <1>5, <1>6, <1>7, <1>8 DEF Orderly

(* A stop request.                                                                      *)
LEMMA StopIsOrderly ==
  ASSUME TypeOK, Turn, Orderly, StopOne
  PROVE  Orderly'
<1> USE DEF vars, stepVars, hostVars, shutdownVars, updaterVars, mainVars, caseVars
<1>1. PICK s \in Steps : s = Head(stops)
  BY TailElements DEF StopOne, TypeOK
<1>2. /\ UNCHANGED <<groupOf, hostsOf, running, allocated, free, requested, canShutdown, toTry, started, main>>
      /\ updater = "stopping"
      /\ IF status[s] = "none" THEN status'[s] = "none" ELSE status'[s] = "cancelled"
      /\ \A r \in Steps : r # s => status'[r] = status[r]
      /\ queued \in Seq(Steps) /\ groups \in [Steps -> Seq(Group)]
  BY <1>1 DEF StopOne, TypeOK
<1>3. /\ started = <<>> /\ toTry = <<>> /\ ToSet(<<>>) = {} /\ IsInjective(<<>>)
      /\ ToSet(queued) \subseteq Steps
  BY <1>2, EmptyElements, ElementPositions DEF Turn
<1>4. \/ s \in ToSet(queued) /\ queued' = Those(queued, Steps \ {s}) /\ groups' = groups
      \/ s \notin ToSet(queued) /\ queued' = queued /\ groups' = Killed(s)
  BY <1>1 DEF StopOne, Without
<1>5. /\ ToSet(queued') = ToSet(queued) \ {s}
      /\ IsInjective(queued) => IsInjective(queued')
  <2>1. /\ ToSet(Those(queued, Steps \ {s})) = ToSet(queued) \cap (Steps \ {s})
        /\ IsInjective(queued) => IsInjective(Those(queued, Steps \ {s}))
    BY <1>2, ThoseElements
  <2> QED BY <1>3, <1>4, <2>1
<1>6. QueueIsOfWaiting'
  BY <1>2, <1>3, <1>5 DEF Orderly, QueueIsOfWaiting
<1>7. /\ \A r \in Steps : r # s => groups'[r] = groups[r]
      /\ DOMAIN groups'[s] = DOMAIN groups[s] /\ Len(groups'[s]) = Len(groups[s])
      /\ \A k \in DOMAIN groups[s] :
           /\ groups'[s][k].hosts = groups[s][k].hosts
           /\ groups'[s][k].state = "running" => groups[s][k].state = "running" /\ k # groupOf[s]
  <2>1. \A r \in Steps : HasGroup(r)
    BY DEF Orderly, GroupsOfRunning
  <2>2. CASE groups' = groups
    <3>1. CASE s \in ToSet(queued)
      <4>1. groups[s] = <<>>
        BY <1>3, <3>1, WaitingStep
      <4>2. DOMAIN groups[s] = {}
        BY <4>1
      <4> QED BY <2>2, <4>2
    <3>2. CASE s \notin ToSet(queued)
      <4>1. ~(groupOf[s] # 0 /\ groups[s][groupOf[s]].state = "running")
        <5>1. SUFFICES ASSUME groupOf[s] # 0, groups[s][groupOf[s]].state = "running" PROVE FALSE
          OBVIOUS
        <5>2. groupOf[s] \in DOMAIN groups[s]
          BY <1>2, <2>1, <5>1 DEF HasGroup
        <5>3. Ends(groups', s, groupOf[s], "failed")
          BY <1>4, <3>2, <5>1 DEF Killed, Ends
        <5>4. groups'[s][groupOf[s]].state = "failed"
          BY <5>2, <5>3, EndOfGroup
        <5> QED BY <2>2, <5>1, <5>4
      <4>2. \A k \in DOMAIN groups[s] : groups[s][k].state = "running" => k # groupOf[s]
        <5>1. DOMAIN groups[s] = 1 .. Len(groups[s])
          BY <1>2
        <5> QED BY <4>1, <5>1
      <4> QED BY <2>2, <4>2
    <3> QED BY <3>1, <3>2
  <2>3. CASE groups' # groups
    <3>1. groups' = Killed(s) /\ groupOf[s] # 0 /\ groups[s][groupOf[s]].state = "running"
      BY <1>4, <2>3 DEF Killed
    <3>2. Ends(groups', s, groupOf[s], "failed")
      BY <3>1 DEF Killed, Ends
    <3>3. groupOf[s] \in DOMAIN groups[s]
      BY <1>2, <2>1, <3>1 DEF HasGroup
    <3>4. /\ groups' \in [Steps -> Seq(Group)]
          /\ \A r \in Steps : r # s => groups'[r] = groups[r]
          /\ Len(groups'[s]) = Len(groups[s])
          /\ \A j \in DOMAIN groups[s] :
               /\ groups'[s][j].hosts = groups[s][j].hosts
               /\ groups'[s][j].state = IF j = groupOf[s] THEN "failed" ELSE groups[s][j].state
      BY <3>2, <3>3, EndOfGroup
    <3>5. DOMAIN groups'[s] = 1 .. Len(groups'[s]) /\ DOMAIN groups[s] = 1 .. Len(groups[s])
      BY <1>2, <3>4
    <3> QED BY <3>4, <3>5
  <2> QED BY <2>2, <2>3
<1>8. GroupsOfRunning'
  <2>1. ASSUME NEW r \in Steps, r # s PROVE HasGroup(r)'
    <3>1. Dead(r)' <=> Dead(r)
      BY <1>7, <2>1 DEF Dead, Lives
    <3> QED BY <1>2, <1>7, <2>1, <3>1 DEF Orderly, GroupsOfRunning, HasGroup
  <2>2. HasGroup(s)
    BY DEF Orderly, GroupsOfRunning
  <2>3. Dead(s)'
    <3>1. CASE groupOf[s] = 0
      BY <1>7, <2>2, <3>1 DEF HasGroup, Dead, Lives
    <3>2. CASE groupOf[s] # 0
      <4>1. groupOf[s] = 1 /\ DOMAIN groups[s] = 1 .. 1
        BY <1>2, <2>2, <3>2 DEF HasGroup
      <4> QED BY <1>7, <4>1 DEF Dead, Lives
    <3> QED BY <3>1, <3>2
  <2>4. groups[s] = <<>> => groups'[s] = <<>>
    <3>1. CASE groups' = groups
      BY <3>1
    <3>2. CASE groups' # groups
      <4>1. groupOf[s] # 0
        BY <1>4, <3>2 DEF Killed
      <4>2. Len(groups[s]) = 1
        BY <2>2, <4>1 DEF HasGroup
      <4> QED BY <4>2
    <3> QED BY <3>1, <3>2
  <2>5. groupOf[s] # 0 => groups'[s][1].hosts = groups[s][1].hosts
    <3>1. SUFFICES ASSUME groupOf[s] # 0 PROVE groups'[s][1].hosts = groups[s][1].hosts
      OBVIOUS
    <3>2. 1 \in DOMAIN groups[s]
      BY <1>2, <2>2, <3>1 DEF HasGroup
    <3> QED BY <1>7, <3>2
  <2>6. HasGroup(s)'
    BY <1>2, <1>7, <2>2, <2>3, <2>4, <2>5 DEF HasGroup
  <2>7. \A r \in Steps : HasGroup(r)'
    BY <2>1, <2>6
  <2> QED BY <1>2, <2>7 DEF Orderly, GroupsOfRunning
<1>9. HostsInUse'
  BY <1>2 DEF Orderly, HostsInUse
<1>10. ShutsDownWhenDone'
  <2>1. AllEnded => AllEnded'
    BY <1>2 DEF AllEnded, Terminal
  <2> QED BY <1>2, <2>1 DEF Orderly, ShutsDownWhenDone
<1> QED BY <1>6, <1>8, <1>9, <1>10 DEF Orderly

(* A step is launched, and its group starts or not.                                       *)
LEMMA StartIsOrderly ==
  ASSUME TypeOK, Turn, Orderly, NEW s \in Steps, Start(s) \/ FailToStart(s)
  PROVE  Orderly'
<1>1. PICK state \in {"running", "failed"} :
        /\ Launch(s, state) /\ Record(s, state)
        /\ toTry' = Tail(toTry) /\ started' = Append(started, s)
        /\ UNCHANGED <<queued, requested, canShutdown, main>>
  BY DEF Start, FailToStart, shutdownVars, mainVars
<1>2. /\ queued \in Seq(Steps) /\ toTry \in Seq(Steps) /\ started \in Seq(Steps)
      /\ groups \in [Steps -> Seq(Group)]
  BY DEF TypeOK
<1>3. /\ free' \in Seq(Hosts)
      /\ ToSet(free) = ToSet(Chosen(s)) \cup ToSet(free')
      /\ IsInjective(free) => /\ IsInjective(Chosen(s)) /\ IsInjective(free')
                             /\ ToSet(Chosen(s)) \cap ToSet(free') = {}
      /\ allocated' = [h \in Hosts |-> IF h \in ToSet(Chosen(s)) THEN s ELSE allocated[h]]
      /\ groups'[s] = Append(groups[s], [hosts |-> Chosen(s), state |-> state])
      /\ \A r \in Steps : r # s => groups'[r] = groups[r]
      /\ toTry # <<>> /\ s = Head(toTry) /\ s \in ToSet(toTry)
  BY <1>1, LaunchFacts
<1>4. s \in ToSet(queued) /\ s \notin ToSet(started)
  BY <1>3 DEF Orderly, QueueIsOfWaiting
<1>5. /\ status[s] = "never_started" /\ groups[s] = <<>> /\ groupOf[s] = 0
      /\ s \notin ToSet(running) /\ ~canShutdown /\ main # "done"
  BY <1>4, WaitingStep
<1>6. /\ status'[s] = state /\ groupOf'[s] = Len(groups[s]) + 1 /\ hostsOf'[s] = Chosen(s)
      /\ ToSet(running') = ToSet(running) \cup {s}
      /\ IsInjective(running) /\ s \notin ToSet(running) => IsInjective(running')
      /\ \A r \in Steps : r # s => /\ status'[r] = status[r] /\ groupOf'[r] = groupOf[r]
                                  /\ hostsOf'[r] = hostsOf[r]
  BY <1>1, RecordFacts
<1>7. QueueIsOfWaiting'
  <2>1. /\ ToSet(toTry) = ToSet(Tail(toTry)) \cup {Head(toTry)}
        /\ IsInjective(toTry) <=> IsInjective(Tail(toTry)) /\ Head(toTry) \notin ToSet(Tail(toTry))
    BY <1>2, <1>3, TailElements
  <2>2. ToSet(started') = ToSet(started) \cup {s}
    <3>1. ToSet(Append(started, s)) = ToSet(started) \cup {s}
      BY <1>2, AppendElements
    <3> QED BY <1>1, <3>1
  <2>3. ToSet(queued) \subseteq Steps
    BY <1>2, ElementPositions
  <2>4. /\ IsInjective(queued) /\ IsInjective(toTry)
        /\ \A r \in ToSet(queued) : r \in ToSet(started) \/ status[r] = "never_started"
        /\ \A r \in ToSet(toTry) : r \in ToSet(queued) /\ r \notin ToSet(started)
    BY DEF Orderly, QueueIsOfWaiting
  <2>5. IsInjective(toTry') /\ ToSet(toTry') = ToSet(toTry) \ {s}
    BY <1>1, <1>3, <2>1, <2>4
  <2>6. \A r \in ToSet(queued) : r \in ToSet(started') \/ status'[r] = "never_started"
    BY <1>6, <2>2, <2>3, <2>4
  <2> QED BY <1>1, <2>2, <2>4, <2>5, <2>6 DEF QueueIsOfWaiting
<1>8. /\ groupOf'[s] = 1 /\ Len(groups'[s]) = 1 /\ DOMAIN groups'[s] = {1}
      /\ groups'[s][1].hosts = Chosen(s) /\ groups'[s][1].state = state
  BY <1>3, <1>5, <1>6
<1>9. IsInjective(Chosen(s))
  BY <1>3 DEF Orderly, HostsInUse
<1>10. GroupsOfRunning'
  <2>1. ASSUME NEW r \in Steps, r # s PROVE HasGroup(r)'
    <3>1. Dead(r)' <=> Dead(r)
      BY <1>3, <2>1 DEF Dead, Lives
    <3> QED BY <1>3, <1>6, <2>1, <3>1 DEF Orderly, GroupsOfRunning, HasGroup
  <2>2. HasGroup(s)'
    <3>1. state = "failed" => Dead(s)'
      BY <1>8 DEF Dead, Lives
    <3> QED BY <1>6, <1>8, <1>9, <3>1 DEF HasGroup, Terminal
  <2>3. \A r \in Steps : HasGroup(r)'
    BY <2>1, <2>2
  <2>4. IsInjective(running')
    BY <1>5, <1>6 DEF Orderly, GroupsOfRunning
  <2> QED BY <2>3, <2>4 DEF GroupsOfRunning
<1>11. HostsInUse'
  <2>1. /\ IsInjective(free)
        /\ \A h \in Hosts : h \in ToSet(free) <=> allocated[h] = NoStep
        /\ \A h \in Hosts : allocated[h] # NoStep =>
             allocated[h] \in ToSet(running) /\ h \in ToSet(hostsOf[allocated[h]])
        /\ \A r \in ToSet(running) : \A h \in ToSet(hostsOf[r]) : allocated[h] = r
    BY DEF Orderly, HostsInUse
  <2>2. /\ ToSet(running) \subseteq Steps /\ s # NoStep
        /\ \A r \in Steps : ToSet(hostsOf[r]) \subseteq Hosts
        /\ ToSet(Chosen(s)) \subseteq Hosts
    <3>1. NoStep \notin Steps
      BY DragonAssumption
    <3>2. running \in Seq(Steps) /\ \A r \in Steps : hostsOf[r] \in Seq(Hosts)
      BY DEF TypeOK
    <3>3. Chosen(s) \in Seq(Hosts)
      BY <1>1, LaunchFacts
    <3>4. ToSet(running) \subseteq Steps
      BY <3>2, ElementPositions
    <3>5. \A r \in Steps : ToSet(hostsOf[r]) \subseteq Hosts
      BY <3>2, ElementPositions
    <3>6. ToSet(Chosen(s)) \subseteq Hosts
      BY <3>3, ElementPositions
    <3> QED BY <3>1, <3>4, <3>5, <3>6
  <2>3. ASSUME NEW h \in Hosts PROVE h \in ToSet(free') <=> allocated'[h] = NoStep
    BY <1>3, <2>1, <2>2
  <2>4. ASSUME NEW h \in Hosts, allocated'[h] # NoStep
        PROVE  allocated'[h] \in ToSet(running') /\ h \in ToSet(hostsOf'[allocated'[h]])
    <3>1. CASE h \in ToSet(Chosen(s))
      BY <1>3, <1>6, <3>1
    <3>2. CASE h \notin ToSet(Chosen(s))
      <4>1. allocated'[h] = allocated[h]
        BY <1>3, <3>2
      <4>2. allocated[h] \in ToSet(running) /\ h \in ToSet(hostsOf[allocated[h]])
        BY <2>1, <2>4, <4>1
      <4>3. allocated[h] \in Steps /\ allocated[h] # s
        BY <1>5, <2>2, <4>2
      <4> QED BY <1>6, <4>1, <4>2, <4>3
    <3> QED BY <3>1, <3>2
  <2>5. ASSUME NEW r \in ToSet(running'), NEW h \in ToSet(hostsOf'[r]) PROVE allocated'[h] = r
    <3>1. CASE r = s
      BY <1>3, <1>6, <2>2, <3>1
    <3>2. CASE r # s
      <4>1. r \in ToSet(running) /\ r \in Steps /\ h \in ToSet(hostsOf[r])
        BY <1>6, <2>2, <2>5, <3>2
      <4>2. allocated[h] = r /\ h \in Hosts /\ r # NoStep
        BY <2>1, <2>2, <4>1, DragonAssumption
      <4>3. h \notin ToSet(Chosen(s))
        BY <1>3, <2>1, <4>2
      <4> QED BY <1>3, <4>2, <4>3
    <3> QED BY <3>1, <3>2
  <2>6. IsInjective(free')
    BY <1>3, <2>1
  <2> QED BY <2>3, <2>4, <2>5, <2>6 DEF HostsInUse
<1>12. ShutsDownWhenDone'
  BY <1>1, <1>5 DEF ShutsDownWhenDone
<1> QED BY <1>7, <1>10, <1>11, <1>12 DEF Orderly

(* The turn begins with all of the queue, leaves out what does not fit, and takes what    *)
(* was started out of the queue.                                                       *)
LEMMA QueueIsOrderly ==
  ASSUME TypeOK, Turn, Orderly, BeginStart \/ Skip \/ EndStart
  PROVE  Orderly'
<1>1. /\ queued \in Seq(Steps) /\ toTry \in Seq(Steps) /\ started \in Seq(Steps)
      /\ ToSet(<<>>) = {} /\ IsInjective(<<>>)
  BY EmptyElements DEF TypeOK
<1>2. UNCHANGED <<stepVars, running, hostVars, shutdownVars, mainVars>>
  BY DEF BeginStart, Skip, EndStart
<1>3. QueueIsOfWaiting'
  <2>1. CASE BeginStart
    <3>1. UNCHANGED <<status, queued>> /\ toTry' = queued /\ started' = <<>> /\ started = <<>>
      BY <2>1 DEF BeginStart, Turn, stepVars
    <3> QED BY <1>1, <3>1 DEF Orderly, QueueIsOfWaiting
  <2>2. CASE Skip
    <3>1. UNCHANGED <<status, queued, started>> /\ toTry' = Tail(toTry) /\ toTry # <<>>
      BY <2>2 DEF Skip, stepVars
    <3>2. /\ ToSet(toTry) = ToSet(Tail(toTry)) \cup {Head(toTry)}
          /\ IsInjective(toTry) <=> IsInjective(Tail(toTry)) /\ Head(toTry) \notin ToSet(Tail(toTry))
      BY <1>1, <3>1, TailElements
    <3>3. ToSet(toTry') \subseteq ToSet(toTry) /\ (IsInjective(toTry) => IsInjective(toTry'))
      BY <3>1, <3>2
    <3> QED BY <3>1, <3>3 DEF Orderly, QueueIsOfWaiting
  <2>3. CASE EndStart
    <3>1. /\ UNCHANGED <<status, toTry>> /\ toTry = <<>> /\ started' = <<>>
          /\ queued' = Those(queued, Steps \ ToSet(started))
      BY <2>3 DEF EndStart, NotStarted, stepVars
    <3>2. /\ ToSet(queued') = ToSet(queued) \cap (Steps \ ToSet(started))
          /\ IsInjective(queued) => IsInjective(queued')
      BY <1>1, <3>1, ThoseElements
    <3> QED BY <1>1, <3>1, <3>2 DEF Orderly, QueueIsOfWaiting
  <2> QED BY <2>1, <2>2, <2>3
<1>4. GroupsOfRunning'
  BY <1>2 DEF Orderly, GroupsOfRunning, HasGroup, Dead, Lives, stepVars
<1>5. HostsInUse'
  BY <1>2 DEF Orderly, HostsInUse, stepVars, hostVars
<1>6. ShutsDownWhenDone'
  BY <1>2, StillDone DEF shutdownVars, mainVars
<1> QED BY <1>3, <1>4, <1>5, <1>6 DEF Orderly

(* A look at the process groups.                                                        *)
LEMMA RefreshIsOrderly ==
  ASSUME TypeOK, Turn, Orderly, Refresh
  PROVE  Orderly'
<1>1. /\ queued \in Seq(Steps) /\ running \in Seq(Steps) /\ free \in Seq(Hosts)
      /\ \A s \in Steps : hostsOf[s] \in Seq(Hosts)
  BY DEF TypeOK
<1>2. /\ status' = [s \in Steps |-> IF s \in ToSet(running) THEN Refreshed(s) ELSE status[s]]
      /\ running' = Those(running, {s \in Steps : ~Ended(s)})
      /\ groupOf' = [s \in Steps |-> IF s \in ToSet(Gone) THEN 0 ELSE groupOf[s]]
      /\ free' = free \o Returned
      /\ allocated' = [h \in Hosts |-> IF h \in ToSet(Returned) THEN NoStep ELSE allocated[h]]
      /\ UNCHANGED <<hostsOf, groups, queued, requested, canShutdown, toTry, started, main>>
      /\ updater = "refresh"
  BY DEF Refresh, Gone, Returned, shutdownVars, mainVars
<1>3. /\ ToSet(running') = ToSet(running) \cap {s \in Steps : ~Ended(s)}
      /\ IsInjective(running) => IsInjective(running')
  BY <1>1, <1>2, ThoseElements
<1>4. /\ Returned \in Seq(Hosts)
      /\ \A s \in Steps : s \in ToSet(Gone) <=> s \in ToSet(running) /\ Ended(s)
      /\ \A h : h \in ToSet(Returned) <=> \E s \in ToSet(Gone) : h \in ToSet(hostsOf[s])
      /\ /\ IsInjective(running)
         /\ \A s \in ToSet(running) : IsInjective(hostsOf[s])
         /\ \A r, s \in ToSet(running) : r # s => ToSet(hostsOf[r]) \cap ToSet(hostsOf[s]) = {}
         => IsInjective(Returned)
  BY ReturnFacts
<1>5. ToSet(running) \subseteq Steps /\ ToSet(queued) \subseteq Steps /\ ToSet(Gone) \subseteq Steps
  <2>1. Gone \in Seq(Steps)
    BY ReturnFacts
  <2>2. ToSet(Gone) \subseteq Steps
    BY <2>1, ElementPositions
  <2>3. ToSet(running) \subseteq Steps
    BY <1>1, ElementPositions
  <2>4. ToSet(queued) \subseteq Steps
    BY <1>1, ElementPositions
  <2> QED BY <2>2, <2>3, <2>4
<1>6. \A s \in Steps : HasGroup(s)
  BY DEF Orderly, GroupsOfRunning
<1>7. QueueIsOfWaiting'
  <2>1. started = <<>> /\ toTry = <<>>
    BY <1>2 DEF Turn
  <2>2. ToSet(<<>>) = {}
    BY EmptyElements
  <2>3. ASSUME NEW s \in ToSet(queued) PROVE status'[s] = "never_started"
    <3>1. s \in Steps /\ s \notin ToSet(started)
      BY <1>5, <2>1, <2>2
    <3>2. status[s] = "never_started" /\ s \notin ToSet(running)
      BY <3>1, WaitingStep
    <3> QED BY <1>2, <3>1, <3>2
  <2> QED BY <1>2, <2>1, <2>2, <2>3 DEF Orderly, QueueIsOfWaiting
<1>8. ASSUME NEW s \in Steps PROVE HasGroup(s)'
  <2>1. Dead(s)' <=> Dead(s)
    BY <1>2 DEF Dead, Lives
  <2>2. HasGroup(s)
    BY <1>6
  <2>3. CASE s \notin ToSet(running)
    <3>1. status'[s] = status[s] /\ groupOf'[s] = groupOf[s] /\ s \notin ToSet(running')
      BY <1>2, <1>3, <1>4, <2>3
    <3> QED BY <1>2, <2>1, <2>2, <2>3, <3>1 DEF HasGroup
  <2>4. CASE s \in ToSet(running) /\ ~Ended(s)
    <3>1. status'[s] = Refreshed(s) /\ groupOf'[s] = groupOf[s] /\ s \in ToSet(running')
      BY <1>2, <1>3, <1>4, <2>4
    <3>2. status'[s] \notin Terminal \cup {"none", "never_started"}
      BY <2>4, <3>1, RefreshedIsStatus DEF Ended
    <3> QED BY <1>2, <2>1, <2>2, <2>4, <3>1, <3>2 DEF HasGroup
  <2>5. CASE s \in ToSet(running) /\ Ended(s)
    <3>1. status'[s] = Refreshed(s) /\ groupOf'[s] = 0 /\ s \notin ToSet(running')
      BY <1>2, <1>3, <1>4, <2>5
    <3>2. status'[s] \in Terminal
      BY <2>5, <3>1 DEF Ended
    <3>3. groupOf[s] = 1 /\ Len(groups[s]) = 1
      BY <2>2, <2>5 DEF HasGroup
    <3>4. Dead(s)
      <4>1. CASE status[s] \in Terminal
        BY <2>2, <4>1 DEF HasGroup
      <4>2. CASE status[s] \notin Terminal
        <5>1. groups[s][1].state # "running"
          BY <3>1, <3>2, <3>3, <4>2 DEF Refreshed, Terminal
        <5>2. DOMAIN groups[s] = 1 .. 1
          <6>1. groups[s] \in Seq(Group)
            BY DEF TypeOK
          <6> QED BY <3>3, <6>1
        <5> QED BY <5>1, <5>2 DEF Dead, Lives
      <4> QED BY <4>1, <4>2
    <3> QED BY <2>1, <3>1, <3>2, <3>4 DEF HasGroup, Terminal
  <2> QED BY <2>3, <2>4, <2>5
<1>9. GroupsOfRunning'
  BY <1>3, <1>8 DEF Orderly, GroupsOfRunning
<1>10. /\ IsInjective(free)
       /\ \A h \in Hosts : h \in ToSet(free) <=> allocated[h] = NoStep
       /\ \A h \in Hosts : allocated[h] # NoStep =>
            allocated[h] \in ToSet(running) /\ h \in ToSet(hostsOf[allocated[h]])
       /\ \A r \in ToSet(running) : \A h \in ToSet(hostsOf[r]) : allocated[h] = r
  BY DEF Orderly, HostsInUse
<1>11. /\ NoStep \notin Steps
       /\ \A s \in Steps : ToSet(hostsOf[s]) \subseteq Hosts
  BY <1>1, ElementPositions, DragonAssumption
<1>12. IsInjective(Returned)
  <2>1. IsInjective(running)
    BY DEF Orderly, GroupsOfRunning
  <2>2. \A s \in ToSet(running) : IsInjective(hostsOf[s])
    BY <1>5, <1>6 DEF HasGroup
  <2>3. \A r, s \in ToSet(running) : r # s => ToSet(hostsOf[r]) \cap ToSet(hostsOf[s]) = {}
    BY <1>10
  <2> QED BY <1>4, <2>1, <2>2, <2>3
<1>13. ToSet(Returned) \cap ToSet(free) = {}
  <2>1. ASSUME NEW h \in ToSet(Returned) PROVE h \notin ToSet(free)
    <3>1. PICK s \in ToSet(Gone) : h \in ToSet(hostsOf[s])
      BY <1>4
    <3>2. s \in Steps /\ s \in ToSet(running)
      BY <1>4, <1>5
    <3>3. h \in Hosts /\ allocated[h] = s
      BY <1>10, <1>11, <3>1, <3>2
    <3> QED BY <1>10, <1>11, <3>2, <3>3
  <2> QED BY <2>1
<1>14. ToSet(free') = ToSet(free) \cup ToSet(Returned) /\ IsInjective(free')
  <2>1. /\ ToSet(free \o Returned) = ToSet(free) \cup ToSet(Returned)
        /\ IsInjective(free \o Returned) <=> /\ IsInjective(free) /\ IsInjective(Returned)
                                             /\ ToSet(free) \cap ToSet(Returned) = {}
    BY <1>1, <1>4, ConcatElements
  <2> QED BY <1>2, <1>10, <1>12, <1>13, <2>1
<1>15. HostsInUse'
  <2>1. \A h \in Hosts : h \in ToSet(free') <=> allocated'[h] = NoStep
    BY <1>2, <1>10, <1>14
  <2>2. ASSUME NEW h \in Hosts, allocated'[h] # NoStep
        PROVE  allocated'[h] \in ToSet(running') /\ h \in ToSet(hostsOf'[allocated'[h]])
    <3>1. h \notin ToSet(Returned) /\ allocated'[h] = allocated[h]
      BY <1>2, <2>2
    <3>2. allocated[h] \in ToSet(running) /\ h \in ToSet(hostsOf[allocated[h]])
      BY <1>10, <2>2, <3>1
    <3>3. allocated[h] \in Steps /\ ~Ended(allocated[h])
      BY <1>4, <1>5, <3>1, <3>2
    <3> QED BY <1>2, <1>3, <3>1, <3>2, <3>3
  <2>3. ASSUME NEW s \in ToSet(running'), NEW h \in ToSet(hostsOf'[s]) PROVE allocated'[h] = s
    <3>1. s \in ToSet(running) /\ s \in Steps /\ ~Ended(s) /\ h \in ToSet(hostsOf[s])
      BY <1>2, <1>3, <2>3
    <3>2. allocated[h] = s /\ h \in Hosts
      BY <1>10, <1>11, <3>1
    <3>3. h \notin ToSet(Returned)
      <4>1. SUFFICES ASSUME NEW r \in ToSet(Gone), h \in ToSet(hostsOf[r]) PROVE FALSE
        BY <1>4
      <4>2. r \in Steps /\ r \in ToSet(running) /\ Ended(r)
        BY <1>4, <1>5, <4>1
      <4>3. allocated[h] = r
        BY <1>10, <4>1, <4>2
      <4> QED BY <3>1, <3>2, <4>2, <4>3
    <3> QED BY <1>2, <3>2, <3>3
  <2> QED BY <1>14, <2>1, <2>2, <2>3 DEF HostsInUse
<1>16. ShutsDownWhenDone'
  <2>1. ASSUME AllEnded PROVE AllEnded'
    <3>1. ASSUME NEW s \in Steps
          PROVE  status'[s] = "none" \/ (status'[s] \in Terminal /\ groupOf'[s] = 0)
      <4>1. status[s] = "none" \/ (status[s] \in Terminal /\ groupOf[s] = 0)
        BY <2>1 DEF AllEnded
      <4>2. s \notin ToSet(running)
        BY <1>6, <4>1 DEF HasGroup
      <4>3. s \notin ToSet(Gone)
        BY <1>4, <4>2
      <4> QED BY <1>2, <4>1, <4>2, <4>3
    <3> QED BY <3>1 DEF AllEnded
  <2> QED BY <1>2, <2>1 DEF Orderly, ShutsDownWhenDone
<1> QED BY <1>7, <1>9, <1>15, <1>16 DEF Orderly

(* A process group that ends by itself.                                                  *)
LEMMA EndIsOrderly ==
  ASSUME TypeOK, Turn, Orderly, NEW s \in Steps, NEW k \in DOMAIN groups[s], EndGroup(s, k)
  PROVE  Orderly'
<1>1. UNCHANGED <<status, groupOf, hostsOf, queued, running, allocated, free, requested, canShutdown,
                  toTry, started, main>>
  BY DEF EndGroup, hostVars, shutdownVars, updaterVars, mainVars
<1>2. PICK state \in {"completed", "failed"} : Ends(groups', s, k, state)
  BY DEF EndGroup, Ends
<1>3. /\ groups' \in [Steps -> Seq(Group)]
      /\ \A r \in Steps : r # s => groups'[r] = groups[r]
      /\ Len(groups'[s]) = Len(groups[s])
      /\ \A j \in DOMAIN groups[s] :
           /\ groups'[s][j].hosts = groups[s][j].hosts
           /\ groups'[s][j].state = IF j = k THEN state ELSE groups[s][j].state
  BY <1>2, EndOfGroup
<1>4. groups[s] \in Seq(Group) /\ groups'[s] \in Seq(Group)
  BY <1>3 DEF TypeOK
<1>5. DOMAIN groups'[s] = 1 .. Len(groups[s]) /\ DOMAIN groups[s] = 1 .. Len(groups[s])
  BY <1>3, <1>4
<1>6. HasGroup(s)'
  <2>1. HasGroup(s)
    BY DEF Orderly, GroupsOfRunning
  <2>2. Dead(s) => Dead(s)'
    BY <1>3, <1>5 DEF Dead, Lives
  <2>3. groups[s] # <<>>
    BY <1>4, <1>5
  <2>4. Len(groups[s]) = 1 => groups'[s][1].hosts = groups[s][1].hosts
    BY <1>3, <1>5
  <2> QED BY <1>1, <1>3, <2>1, <2>2, <2>3, <2>4 DEF HasGroup
<1>7. ASSUME NEW r \in Steps, r # s PROVE HasGroup(r)'
  <2>1. Dead(r)' <=> Dead(r)
    BY <1>3, <1>7 DEF Dead, Lives
  <2> QED BY <1>1, <1>3, <1>7, <2>1 DEF Orderly, GroupsOfRunning, HasGroup
<1>8. GroupsOfRunning'
  BY <1>1, <1>6, <1>7 DEF Orderly, GroupsOfRunning
<1>9. QueueIsOfWaiting' /\ HostsInUse' /\ ShutsDownWhenDone'
  BY <1>1 DEF Orderly, QueueIsOfWaiting, HostsInUse, ShutsDownWhenDone, AllEnded
<1> QED BY <1>8, <1>9 DEF Orderly

(* Every step keeps order, unless a launch fails half-way.                                *)
LEMMA OrderKept ==
  ASSUME TypeOK, Turn, lost = {} => Orderly, [Next]_vars
  PROVE  lost' = {} => Orderly'
<1> SUFFICES ASSUME lost' = {} PROVE Orderly'
  OBVIOUS
<1> USE DEF vars, stepVars, hostVars, shutdownVars, updaterVars, mainVars, caseVars
<1>1. ASSUME NEW s \in Steps, LoseGroup(s) \/ FailToRedirect(s) PROVE FALSE
  BY <1>1 DEF LoseGroup, FailToRedirect
<1>2. lost = {}
  <2>1. lost \subseteq lost'
    BY <1>1 DEF Next, Client, Server, Updater, StopSteps, StartSteps, Groups, Run, Stop, Shutdown,
       MainCheck, NoRequest, MainStatus, KillAll, UpdaterCheck, BeginStop, StopOne, EndStop, BeginStart,
       Skip, EndStart, Start, FailToStart, Refresh, UpdaterStatus, EndGroup, CoolDown, Finished
  <2> QED BY <2>1
<1>3. Orderly
  BY <1>2
<1>4. CASE Server \/ (\E s \in Steps : Stop(s) \/ (\E now \in BOOLEAN : Shutdown(now)))
           \/ UpdaterCheck \/ BeginStop \/ EndStop \/ UpdaterStatus \/ CoolDown \/ Finished
           \/ UNCHANGED vars
  <2>1. UNCHANGED <<stepVars, queued, running, hostVars, toTry, started>>
    BY <1>4 DEF Server, MainCheck, NoRequest, MainStatus, KillAll, Stop, Shutdown, UpdaterCheck,
       BeginStop, EndStop, UpdaterStatus, CoolDown, Finished
  <2>2. AllEnded' = AllEnded
    BY <2>1 DEF AllEnded
  <2>3. /\ canShutdown => requested /\ AllEnded
        /\ main = "done" => canShutdown
    BY <1>3 DEF Orderly, ShutsDownWhenDone
  <2>4. ShutsDownWhenDone'
    <3>1. CASE MainCheck
      BY <2>2, <2>3, <3>1 DEF MainCheck, ShouldShutdown, ShutsDownWhenDone
    <3>2. CASE MainStatus \/ UpdaterStatus
      <4>1. /\ canShutdown' = (canShutdown \/ (AllEnded /\ requested)) /\ requested' = requested
            /\ main' = "done" => main = "done"
        BY <3>2 DEF MainStatus, UpdaterStatus, UpdateShutdownStatus
      <4> QED BY <2>2, <2>3, <4>1 DEF ShutsDownWhenDone
    <3>3. CASE ~MainCheck /\ ~MainStatus /\ ~UpdaterStatus
      <4>1. /\ canShutdown' = canShutdown /\ (requested => requested')
            /\ main' = "done" => main = "done"
        BY <1>4, <3>3 DEF Server, NoRequest, KillAll, Stop, Shutdown, UpdaterCheck, BeginStop, EndStop,
           CoolDown, Finished
      <4> QED BY <2>2, <2>3, <4>1 DEF ShutsDownWhenDone
    <3> QED BY <3>1, <3>2, <3>3
  <2> QED BY <1>3, <2>1, <2>4, QuietStep
<1> QED
  BY <1>1, <1>3, <1>4, RunIsOrderly, StopIsOrderly, StartIsOrderly, QueueIsOrderly, RefreshIsOrderly,
     EndIsOrderly
  DEF Next, Client, Updater, StopSteps, StartSteps, Groups

LEMMA OrderAtStart == Init => Orderly
<1> SUFFICES ASSUME Init PROVE Orderly
  OBVIOUS
<1>1. ToSet(<<>>) = {} /\ IsInjective(<<>>)
  BY EmptyElements
<1>2. QueueIsOfWaiting
  BY <1>1 DEF Init, QueueIsOfWaiting
<1>3. GroupsOfRunning
  <2>1. \A s \in Steps : groups[s] = <<>> /\ groupOf[s] = 0
    BY DEF Init
  <2>2. \A s \in Steps : Dead(s)
    BY <2>1 DEF Dead
  <2> QED BY <1>1, <2>1, <2>2 DEF Init, GroupsOfRunning, HasGroup
<1>4. HostsInUse
  BY <1>1, DragonAssumption DEF Init, HostsInUse, Hosts
<1>5. ShutsDownWhenDone
  BY DEF Init, ShutsDownWhenDone
<1> QED BY <1>2, <1>3, <1>4, <1>5 DEF Orderly

-----------------------------------------------------------------------------
(* The theorems.                                                                        *)

(* The inductive invariant: the types of the state, what each turn keeps whatever fails,    *)
(* and the order of queue, groups and hosts as long as no launch has failed half-way.     *)
THEOREM DragonInvariant == Spec => []DragonInv
<1>1. Init => DragonInv
  BY TypesAtStart, OrderAtStart DEF DragonInv
<1>2. DragonInv /\ [Next]_vars => DragonInv'
  BY TypesKept, StepsStayKept, OrderKept DEF DragonInv
<1> QED BY <1>1, <1>2, PTL DEF Spec

(* A step that waits is in the queue, and one that runs is in the list that is looked at,    *)
(* whatever fails and whoever comes in between: NoStepForgotten.                           *)
THEOREM DragonForgetsNone == Spec => []NoStepForgotten
<1>1. DragonInv => NoStepForgotten
  BY DEF DragonInv, StepsKept, Waits, Runs, NoStepForgotten
<1> QED BY <1>1, DragonInvariant, PTL

(* A host is free, once, or belongs to the step that runs on it: HostsAccountedFor.          *)
THEOREM DragonHosts == Spec => []HostsAccountedFor
<1>1. DragonInv => HostsAccountedFor
  BY DEF DragonInv, Orderly, HostsInUse, HostsAccountedFor
<1> QED BY <1>1, DragonInvariant, PTL

(* No process runs on a free host, and no two groups on one host: HostServesOneStep.         *)
THEOREM DragonHostServesOneStep == Spec => []HostServesOneStep
<1>1. DragonInv => HostServesOneStep
  <2> SUFFICES ASSUME DragonInv, lost = {},
                      NEW s \in Steps, NEW k \in DOMAIN groups[s], Lives(s, k)
               PROVE  /\ ToSet(groups[s][k].hosts) \cap ToSet(free) = {}
                      /\ \A r \in Steps : \A j \in DOMAIN groups[r] :
                           Lives(r, j) /\ <<r, j>> # <<s, k>> =>
                             ToSet(groups[s][k].hosts) \cap ToSet(groups[r][j].hosts) = {}
    BY DEF HostServesOneStep
  <2>1. TypeOK /\ Orderly
    BY DEF DragonInv
  <2>2. ASSUME NEW r \in Steps, NEW j \in DOMAIN groups[r], Lives(r, j)
        PROVE  /\ j = 1 /\ r \in ToSet(running) /\ groups[r][j].hosts = hostsOf[r]
               /\ ToSet(hostsOf[r]) \subseteq Hosts
               /\ \A h \in ToSet(hostsOf[r]) : allocated[h] = r
    <3>1. HasGroup(r)
      BY <2>1 DEF Orderly, GroupsOfRunning
    <3>2. groupOf[r] # 0
      BY <2>2, <3>1 DEF HasGroup, Dead
    <3>3. r \in ToSet(running) /\ Len(groups[r]) = 1 /\ hostsOf[r] = groups[r][1].hosts
      BY <3>1, <3>2 DEF HasGroup
    <3>4. groups[r] \in Seq(Group) /\ hostsOf[r] \in Seq(Hosts)
      BY <2>1 DEF TypeOK
    <3>5. j = 1
      BY <3>3, <3>4
    <3>6. ToSet(hostsOf[r]) \subseteq Hosts
      BY <3>4, ElementPositions
    <3> QED BY <2>1, <3>3, <3>5, <3>6 DEF Orderly, HostsInUse
  <2>3. ToSet(groups[s][k].hosts) \cap ToSet(free) = {}
    BY <2>1, <2>2, DragonAssumption DEF Orderly, HostsInUse
  <2>4. ASSUME NEW r \in Steps, NEW j \in DOMAIN groups[r], Lives(r, j), <<r, j>> # <<s, k>>
        PROVE  ToSet(groups[s][k].hosts) \cap ToSet(groups[r][j].hosts) = {}
    BY <2>2, <2>4
  <2> QED BY <2>3, <2>4
<1> QED BY <1>1, DragonInvariant, PTL

(* A step reported as ended has no process left: EndedIsDead.                               *)
THEOREM DragonEndedIsDead == Spec => []EndedIsDead
<1>1. DragonInv => EndedIsDead
  BY DEF DragonInv, Orderly, GroupsOfRunning, HasGroup, Dead, EndedIsDead
<1> QED BY <1>1, DragonInvariant, PTL

(* The server is done only when no step waits or runs: DoneWithAll.                          *)
THEOREM DragonDoneWithAll == Spec => []DoneWithAll
<1>1. DragonInv => DoneWithAll
  BY DEF DragonInv, Orderly, ShutsDownWhenDone, AllEnded, GroupsOfRunning, HasGroup, DoneWithAll, Terminal
<1> QED BY <1>1, DragonInvariant, PTL
=============================================================================
