----------------------------- MODULE ThreadPool ------------------------------
(***************************************************************************)
(* The worker threads of a SmartRedis client (threadpool.cpp).               *)
(*                                                                         *)
(* Workers take jobs from a queue, under its mutex, until shutting_down is    *)
(* set, which shutdown does without the mutex.  They wake up every 250 ms, so  *)
(* that a missed notification delays them only.  A job that a worker has taken  *)
(* when the pool shuts down is dropped.                                       *)
(***************************************************************************)
EXTENDS Naturals, Sequences

CONSTANTS
  Workers,
  NoJob

VARIABLES
  jobs,          \* the queue
  shuttingDown,
  worker,        \* where each thread is: "wait", "have", "run", "done"
  job            \* what it has taken

poolVars == <<jobs, shuttingDown, worker, job>>

PoolInit ==
  /\ jobs = <<>>
  /\ shuttingDown = FALSE
  /\ worker = [w \in Workers |-> "wait"]
  /\ job = [w \in Workers |-> NoJob]

(* submit_job *)
Submit(j) ==
  /\ ~shuttingDown
  /\ jobs' = Append(jobs, j)
  /\ UNCHANGED <<shuttingDown, worker, job>>

(* perform_jobs: a worker takes a job, looks once more whether the pool shuts down,  *)
(* and performs it.                                                                *)
Take(w) ==
  /\ worker[w] = "wait" /\ ~shuttingDown /\ jobs # <<>>
  /\ job' = [job EXCEPT ![w] = Head(jobs)]
  /\ jobs' = Tail(jobs)
  /\ worker' = [worker EXCEPT ![w] = "have"]
  /\ UNCHANGED shuttingDown

Perform(w) ==
  /\ worker[w] = "have" /\ ~shuttingDown
  /\ worker' = [worker EXCEPT ![w] = "run"]
  /\ UNCHANGED <<jobs, shuttingDown, job>>

(* The job returns.                                                                *)
JobDone(w) ==
  /\ worker[w] = "run"
  /\ worker' = [worker EXCEPT ![w] = "wait"]
  /\ job' = [job EXCEPT ![w] = NoJob]
  /\ UNCHANGED <<jobs, shuttingDown>>

Leave(w) ==
  /\ worker[w] \in {"wait", "have"} /\ shuttingDown
  /\ worker' = [worker EXCEPT ![w] = "done"]
  /\ UNCHANGED <<jobs, shuttingDown, job>>

(* shutdown, up to the threads that it joins.                                       *)
Shutdown ==
  /\ ~shuttingDown
  /\ shuttingDown' = TRUE
  /\ UNCHANGED <<jobs, worker, job>>

Work(w) == Take(w) \/ Perform(w) \/ Leave(w)

=============================================================================
