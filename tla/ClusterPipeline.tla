--------------------------- MODULE ClusterPipeline ---------------------------
(***************************************************************************)
(* Lists of commands that a clustered SmartRedis client runs through the      *)
(* thread pool (rediscluster.cpp: run_via_unordered_pipelines, _run_pipeline;  *)
(* pipelinereply.cpp).                                                       *)
(*                                                                         *)
(* A caller groups its commands by shard and submits one job for each shard;  *)
(* a job sends its commands in one go, and again when the connection fails;    *)
(* the jobs add their replies to those of the call, in any order, and the     *)
(* caller, which spins until all jobs are counted, puts them in the order of   *)
(* the commands.  Jobs write to variables on the stack of their caller, and     *)
(* lock and unlock a mutex that is there too.                                *)
(*                                                                         *)
(* A reply is the number of its command.  Left out: what commands do, the     *)
(* text of errors.                                                          *)
(***************************************************************************)
EXTENDS ThreadPool, ClusterMap, Selection

CONSTANTS
  Callers,
  Commands,      \* the commands of each caller: the hash slots of their keys
  Replies,       \* the replies to CLUSTER SLOTS: sequences of shards
  Attempts,      \* _command_attempts
  MaxLost,       \* bound: how many connections fail
  NoWorker

\* The server reports shards whose slots do not overlap and that serve the slot of every
\* command.
ASSUME PipelineAssumption ==
  /\ Attempts \in Nat \ {0} /\ MaxLost \in Nat
  /\ NoJob \notin [caller : Callers, shard : Nat] /\ NoWorker \notin Workers
  /\ \A c \in Callers : Commands[c] \in Seq(Nat)
  /\ \A reply \in Replies :
       /\ Len(reply) \in Nat \ {0} /\ DOMAIN reply = 1 .. Len(reply)
       /\ \A i \in DOMAIN reply :
            reply[i].lower \in Nat /\ reply[i].upper \in Nat /\ reply[i].lower <= reply[i].upper
       /\ \A i, j \in DOMAIN reply :
            i # j => reply[i].upper < reply[j].lower \/ reply[j].upper < reply[i].lower
       /\ \A c \in Callers : \A k \in DOMAIN Commands[c] :
            \E i \in DOMAIN reply : Commands[c][k] \in reply[i].lower .. reply[i].upper

VARIABLES
  nodes,         \* _db_nodes
  call,          \* where each caller is: "before", "submit", "spin", "reorder", "returned", "threw"
  next,          \* the shard it comes to, or the place in the replies
  count,         \* pipeline_completion_count
  success,       \* success_status
  order,         \* cmd_list_index_ooe
  replies,       \* all_replies
  results_mutex, \* the worker that holds it, or NoWorker
  attempt,       \* of each worker: which attempt, 0 when it is over
  executed,      \* the server: how often it has executed each command
  lost           \* history: how many connections failed

callVars == <<call, next, count, success, order, replies, results_mutex>>
vars == <<poolVars, nodes, callVars, attempt, executed, lost>>

Shards == 0 .. Len(nodes) - 1
ShardCmds(c, s) == {k \in DOMAIN Commands[c] : DbNodeIndex(nodes, Commands[c][k]) = s}

Init ==
  /\ \E reply \in Replies : nodes = DbNodes(reply)
  /\ PoolInit
  /\ call = [c \in Callers |-> "before"]
  /\ next = [c \in Callers |-> 0]
  /\ count = [c \in Callers |-> 0]
  /\ success = [c \in Callers |-> {}]
  /\ order = [c \in Callers |-> <<>>]
  /\ replies = [c \in Callers |-> <<>>]
  /\ results_mutex = [c \in Callers |-> NoWorker]
  /\ attempt = [w \in Workers |-> 0]
  /\ executed = [c \in Callers |-> [k \in DOMAIN Commands[c] |-> 0]]
  /\ lost = 0

-----------------------------------------------------------------------------
(* A caller, in run_via_unordered_pipelines.                                       *)

Call(c) ==
  /\ call[c] = "before" /\ ~shuttingDown
  /\ call' = [call EXCEPT ![c] = "submit"]
  /\ UNCHANGED <<poolVars, nodes, next, count, success, order, replies, results_mutex, attempt,
                 executed, lost>>

NextShard(c) ==
  /\ next' = [next EXCEPT ![c] = IF @ + 1 < Len(nodes) THEN @ + 1 ELSE 0]
  /\ call' = [call EXCEPT ![c] = IF next[c] + 1 < Len(nodes) THEN "submit" ELSE "spin"]

(* A shard without commands counts as done; the mutex is taken for it.                 *)
SkipShard(c) ==
  /\ call[c] = "submit" /\ ShardCmds(c, next[c]) = {}
  /\ results_mutex[c] = NoWorker
  /\ success' = [success EXCEPT ![c] = @ \cup {next[c]}]
  /\ count' = [count EXCEPT ![c] = @ + 1]
  /\ NextShard(c)
  /\ UNCHANGED <<poolVars, nodes, order, replies, results_mutex, attempt, executed, lost>>

SubmitShard(c) ==
  /\ call[c] = "submit" /\ ShardCmds(c, next[c]) # {}
  /\ Submit([caller |-> c, shard |-> next[c]])
  /\ NextShard(c)
  /\ UNCHANGED <<nodes, count, success, order, replies, results_mutex, attempt, executed, lost>>

(* Mutant of EndSpin: the caller does not ask whether the jobs succeeded.              *)
EndSpinAnyway(c) ==
  /\ call[c] = "spin" /\ count[c] = Len(nodes)
  /\ call' = [call EXCEPT ![c] = "reorder"]
  /\ next' = [next EXCEPT ![c] = 1]
  /\ UNCHANGED <<poolVars, nodes, count, success, order, replies, results_mutex, attempt, executed,
                 lost>>

(* The caller spins until every shard is counted; it throws when one failed.          *)
EndSpin(c) ==
  /\ call[c] = "spin" /\ count[c] = Len(nodes)
  /\ call' = [call EXCEPT ![c] = IF success[c] = Shards THEN "reorder" ELSE "threw"]
  /\ next' = [next EXCEPT ![c] = 1]
  /\ UNCHANGED <<poolVars, nodes, count, success, order, replies, results_mutex, attempt, executed,
                 lost>>

(* reorder: each reply is swapped to its place until the right one is here.            *)
Swap(f, i, j) == [f EXCEPT ![i] = f[j], ![j] = f[i]]

(* Mutant of Reorder: the numbers stay where they are when the replies are swapped.    *)
ReorderRepliesOnly(c) ==
  LET i == next[c] IN
  /\ call[c] = "reorder" /\ i <= Len(order[c])
  /\ IF order[c][i] # i
     THEN /\ replies' = [replies EXCEPT ![c] = Swap(@, i, order[c][i])]
          /\ UNCHANGED next
     ELSE /\ next' = [next EXCEPT ![c] = i + 1]
          /\ UNCHANGED replies
  /\ UNCHANGED <<poolVars, nodes, call, count, success, order, results_mutex, attempt, executed, lost>>

Reorder(c) ==
  LET i == next[c] IN
  /\ call[c] = "reorder" /\ i <= Len(order[c])
  /\ IF order[c][i] # i
     THEN /\ replies' = [replies EXCEPT ![c] = Swap(@, i, order[c][i])]
          /\ order' = [order EXCEPT ![c] = Swap(@, i, order[c][i])]
          /\ UNCHANGED next
     ELSE /\ next' = [next EXCEPT ![c] = i + 1]
          /\ UNCHANGED <<order, replies>>
  /\ UNCHANGED <<poolVars, nodes, call, count, success, results_mutex, attempt, executed, lost>>

(* Mutant of Return: the replies stay in the order in which they came.                 *)
ReturnAsTheyCame(c) ==
  /\ call[c] = "reorder"
  /\ call' = [call EXCEPT ![c] = "returned"]
  /\ UNCHANGED <<poolVars, nodes, next, count, success, order, replies, results_mutex, attempt,
                 executed, lost>>

Return(c) ==
  /\ call[c] = "reorder" /\ next[c] > Len(order[c])
  /\ call' = [call EXCEPT ![c] = "returned"]
  /\ UNCHANGED <<poolVars, nodes, next, count, success, order, replies, results_mutex, attempt,
                 executed, lost>>

-----------------------------------------------------------------------------
(* A job: _run_pipeline, then the results under results_mutex.                        *)

Executes(c, S) ==
  executed' = [executed EXCEPT ![c] = [k \in DOMAIN @ |-> IF k \in S THEN @[k] + 1 ELSE @[k]]]

(* Mutant of Answered: the job is counted before it has stored its replies.             *)
AnsweredAndCounted(w) ==
  /\ worker[w] = "run" /\ attempt[w] > 0
  /\ LET c == job[w].caller
         s == job[w].shard IN
     /\ Executes(c, ShardCmds(c, s))
     /\ success' = [success EXCEPT ![c] = @ \cup {s}]
     /\ count' = [count EXCEPT ![c] = @ + 1]
  /\ attempt' = [attempt EXCEPT ![w] = 0]
  /\ UNCHANGED <<poolVars, nodes, call, next, order, replies, results_mutex, lost>>

(* The server executes the commands in order and answers.  An answer with an error,   *)
(* and an error other than of the connection, end the job.                             *)
Answered(w) ==
  /\ worker[w] = "run" /\ attempt[w] > 0
  /\ LET c == job[w].caller
         s == job[w].shard IN
     /\ Executes(c, ShardCmds(c, s))
     /\ \E ok \in BOOLEAN : success' = [success EXCEPT ![c] = IF ok THEN @ \cup {s} ELSE @]
  /\ attempt' = [attempt EXCEPT ![w] = 0]
  /\ UNCHANGED <<poolVars, nodes, call, next, count, order, replies, results_mutex, lost>>

(* The connection fails after some of the commands were executed: all of them are     *)
(* sent again, unless it was the last attempt.                                        *)
ConnectionLost(w) ==
  /\ worker[w] = "run" /\ attempt[w] > 0
  /\ lost < MaxLost
  /\ lost' = lost + 1
  /\ LET c == job[w].caller
         S == ShardCmds(c, job[w].shard) IN
     \E n \in {0} \cup S : Executes(c, {k \in S : k <= n})
  /\ attempt' = [attempt EXCEPT ![w] = IF @ < Attempts THEN @ + 1 ELSE 0]
  /\ UNCHANGED <<poolVars, nodes, callVars>>

Storing(w, c, s) ==
  LET new == IF s \in success[c] THEN InOrder(ShardCmds(c, s)) ELSE <<>> IN
  /\ order' = [order EXCEPT ![c] = @ \o new]
  /\ replies' = [replies EXCEPT ![c] = @ \o new]
  /\ results_mutex' = [results_mutex EXCEPT ![c] = w]

(* The results are stored and counted under the mutex.  What is stored is not looked at     *)
(* before it is counted, so this is one step; the caller looks at the count without the      *)
(* mutex, so the job goes on with one more.                                             *)
StoreReplies(w) ==
  /\ worker[w] = "run" /\ attempt[w] = 0
  /\ LET c == job[w].caller IN
     /\ results_mutex[c] = NoWorker
     /\ Storing(w, c, job[w].shard)
     /\ count' = [count EXCEPT ![c] = @ + 1]
  /\ UNCHANGED <<poolVars, nodes, call, next, success, attempt, executed, lost>>

(* The mutex is unlocked, and the job is over.                                          *)
Unlock(w) ==
  /\ worker[w] = "run"
  /\ LET c == job[w].caller IN
     /\ results_mutex[c] = w
     /\ results_mutex' = [results_mutex EXCEPT ![c] = NoWorker]
  /\ JobDone(w)
  /\ UNCHANGED <<nodes, call, next, count, success, order, replies, attempt, executed, lost>>

PerformJob(w) ==
  /\ Perform(w)
  /\ attempt' = [attempt EXCEPT ![w] = 1]
  /\ UNCHANGED <<nodes, callVars, executed, lost>>

-----------------------------------------------------------------------------
(* The client is destroyed when nobody uses it.                                       *)
Destroy ==
  /\ \A c \in Callers : call[c] \in {"before", "returned", "threw"}
  /\ Shutdown
  /\ UNCHANGED <<nodes, callVars, attempt, executed, lost>>

Caller(c) ==
  \/ SkipShard(c) \/ SubmitShard(c) \/ EndSpin(c) \/ Reorder(c) \/ Return(c)

Worker(w) ==
  \/ (Take(w) \/ Leave(w)) /\ UNCHANGED <<nodes, callVars, attempt, executed, lost>>
  \/ PerformJob(w) \/ Answered(w) \/ StoreReplies(w) \/ Unlock(w)

Finished == (\A w \in Workers : worker[w] = "done") /\ UNCHANGED vars

Next ==
  \/ \E c \in Callers : Call(c) \/ Caller(c)
  \/ \E w \in Workers : Worker(w) \/ ConnectionLost(w)
  \/ Destroy
  \/ Finished

Spec == Init /\ [][Next]_vars

(* Threads run; the server answers in the end, or the connection fails.               *)
FairSpec ==
  /\ Spec
  /\ \A c \in Callers : WF_vars(Caller(c))
  /\ \A w \in Workers : WF_vars(Worker(w))

-----------------------------------------------------------------------------
(* A binary search finds the shard that serves a slot, also from one place too far,    *)
(* and the names that a client makes of the prefix of a shard, for temporary tensors and    *)
(* for models and scripts, belong to that shard for the client and for the server, although   *)
(* the names of users have braces of their own.                                            *)
Serves(m, slot) == nodes[m + 1].lower <= slot /\ slot <= nodes[m + 1].upper
Name == <<125, 120, 123>>
PrefixServes(prefix, slots) ==
  \A key \in {GetTmpName(prefix, Name), NameOnShard(prefix, Name)} :
    GetHashSlot(key) \in slots /\ ServerSlot(key) \in slots
\* The table does not change after that.
Untouched == \A c \in Callers : call[c] = "before"
Slots == UNION {ToSet(Commands[c]) : c \in Callers}
ShardsAreFound ==
  \A slot \in Slots : /\ Serves(DbNodeIndex(nodes, slot), slot)
                     /\ Serves(HashSearch(nodes, slot, 0, Len(nodes)), slot)
SlotsAreFound ==
  /\ ShardsAreFound
  /\ Untouched => \A n \in ToSet(nodes) : PrefixServes(n.prefix, {n.lower})

(* When a call returns, each command has its reply, in the order of the commands;       *)
(* while it puts them in order, none is lost and each keeps its number.                 *)
RepliesInOrder ==
  \A c \in Callers :
    /\ call[c] = "returned" => replies[c] = [k \in DOMAIN Commands[c] |-> k]
    /\ order[c] = replies[c] /\ IsInjective(replies[c])

(* When a call has ended, whether it returned or threw, none of its jobs is queued or waits  *)
(* to run, and one that still runs has stored and counted all it had: jobs write to the     *)
(* stack of their caller, and no more than the unlocking of the mutex comes after the end    *)
(* of the call.  (That one does, as the caller spins on the count alone: see the README.)     *)
OnlyUnlockOutlivesCall ==
  \A c \in Callers : call[c] \in {"before", "reorder", "returned", "threw"} =>
    /\ \A i \in DOMAIN jobs : jobs[i].caller # c
    /\ \A w \in Workers : job[w] # NoJob => (job[w].caller = c => results_mutex[c] = w)

(* A call is what it promises to be.                                                    *)
Phase(c) == CASE call[c] \in {"submit", "spin", "reorder"} -> "calling"
              [] OTHER -> call[c]
Promise == INSTANCE CallPromise
  WITH Length <- [c \in Callers |-> Len(Commands[c])],
       phase <- [c \in Callers |-> Phase(c)],
       executed <- [c \in Callers |-> {k \in DOMAIN Commands[c] : executed[c][k] > 0}]
KeepsPromise == Promise!Spec

(* Every call ends, whatever fails, and so do the threads of a client that is destroyed.  *)
CallsEnd ==
  /\ \A c \in Callers : []<>(call[c] \notin {"submit", "spin", "reorder"})
  /\ []<>(shuttingDown => \A w \in Workers : worker[w] = "done")
=============================================================================
