----------------------------- MODULE DagService -----------------------------
(***************************************************************************)
(* What RedisAI promises the client of AI.DAGEXECUTE, without queues,       *)
(* threads, copies, locks or batches.  Each accepted request is finished    *)
(* once: when all its operations have run, or one of them has failed, or    *)
(* its TIMEOUT has passed.  Nothing of it runs after that.  An operation    *)
(* runs once, after the operations that computed its inputs.  What is       *)
(* persisted is what running the operations one after the other, in the     *)
(* order of the command, would have computed; and it is persisted only when *)
(* no operation failed and the request did not time out.                    *)
(***************************************************************************)
EXTENDS DagProgram

CONSTANT BadKeys  \* keys of the keyspace that hold a value of another type

VARIABLES
  status,    \* status[d]: "new", "rejected", "running", "finished", "replied"
  result,    \* result[d][i]: "none", "ok" or "err"
  timedOut,  \* timedOut[d]
  answer     \* answer[d]: what the client got and what was persisted

serviceVars == <<status, result, timedOut, answer>>

NoAnswer == [kind |-> "none", saved |-> <<>>]

-----------------------------------------------------------------------------
(* The tensor bound to each name after operation i when the operations run    *)
(* one after the other.                                                       *)
Environment(d) ==
  LET env[i \in {0} \cup OpIds(d)] ==
        IF i = 0 THEN [k \in ToSet(Loaded[d]) |-> LoadedTensor(k)]
        ELSE LET op == Program[d][i]
                 args == [j \in DOMAIN op.inkeys |-> env[i - 1][op.inkeys[j]]]
                 LastOutput(k) == CHOOSE j \in DOMAIN op.outkeys :
                              /\ op.outkeys[j] = k
                              /\ \A h \in DOMAIN op.outkeys : op.outkeys[h] = k => h <= j
             IN  [k \in DOMAIN env[i - 1] \cup ToSet(op.outkeys) |->
                    IF k \in ToSet(op.outkeys) THEN Computed(i, LastOutput(k), args)
                    ELSE env[i - 1][k]]
  IN  env

(* The operations that compute the inputs of operation i: for each input, the *)
(* last one before i that writes that name.                                   *)
Writers(d, k) == {h \in OpIds(d) : k \in ToSet(Program[d][h].outkeys)}
Producers(d, i) ==
  {h \in OpIds(d) : \E j \in DOMAIN Program[d][i].inkeys :
     LET k == Program[d][i].inkeys[j]
     IN  /\ h < i
         /\ h \in Writers(d, k)
         /\ \A g \in Writers(d, k) : g < i => g <= h}

(* Every name an operation reads, or PERSIST names, was bound before.         *)
BoundBefore(d, i) == ToSet(Loaded[d])
                       \cup {k \in Keys : \E h \in Writers(d, k) : h < i}
Resolves(d) ==
  /\ \A i \in OpIds(d) : ToSet(Program[d][i].inkeys) \subseteq BoundBefore(d, i)
  /\ Persist[d] \subseteq BoundBefore(d, Len(Program[d]) + 1)

-----------------------------------------------------------------------------
Init ==
  /\ status = [d \in Dags |-> "new"]
  /\ result = [d \in Dags |-> [i \in OpIds(d) |-> "none"]]
  /\ timedOut = [d \in Dags |-> FALSE]
  /\ answer = [d \in Dags |-> NoAnswer]

Accept(d) ==
  /\ status[d] = "new"
  /\ Resolves(d)
  /\ status' = [status EXCEPT ![d] = "running"]
  /\ result' = [result EXCEPT ![d] =
       [i \in OpIds(d) |-> IF Program[d][i].cmd = "tensorset" THEN "ok" ELSE "none"]]
  /\ UNCHANGED <<timedOut, answer>>

Refuse(d) ==
  /\ status[d] = "new"
  /\ ~Resolves(d)
  /\ status' = [status EXCEPT ![d] = "rejected"]
  /\ UNCHANGED <<result, timedOut, answer>>

(* One call of the backend for one operation of each request of D: the        *)
(* operations succeed together or fail together.                              *)
RunTogether(D, op, outcome) ==
  /\ \A d \in D :
       /\ status[d] = "running"
       /\ op[d] \in OpIds(d)
       /\ IsRun(d, op[d])
       /\ result[d][op[d]] = "none"
       /\ \A h \in Producers(d, op[d]) : result[d][h] = "ok"
  /\ result' = [d \in Dags |->
       IF d \in D THEN [result[d] EXCEPT ![op[d]] = outcome] ELSE result[d]]
  /\ UNCHANGED <<status, timedOut, answer>>

TimeOut(d) ==
  /\ status[d] = "running"
  /\ d \in HasTimeout
  /\ timedOut' = [timedOut EXCEPT ![d] = TRUE]
  /\ UNCHANGED <<status, result, answer>>

Succeeded(d) == \A i \in OpIds(d) : IsRun(d, i) => result[d][i] = "ok"
Failed(d) == \E i \in OpIds(d) : result[d][i] = "err"

Finish(d) ==
  /\ status[d] = "running"
  /\ Succeeded(d) \/ Failed(d) \/ timedOut[d]
  /\ status' = [status EXCEPT ![d] = "finished"]
  /\ UNCHANGED <<result, timedOut, answer>>

(* Saving stops at the first key that cannot be written, in no given order.   *)
Answer(d) ==
  /\ status[d] = "finished"
  /\ status' = [status EXCEPT ![d] = "replied"]
  /\ \E saved \in SUBSET Persist[d] :
       /\ timedOut[d] \/ Failed(d) => saved = {}
       /\ saved \cap BadKeys = {}
       /\ answer' = [answer EXCEPT ![d] =
            [kind |-> CASE timedOut[d] -> "timedout"
                        [] ~timedOut[d] /\ Failed(d) -> "error"
                        [] ~timedOut[d] /\ ~Failed(d) /\ saved = Persist[d] -> "ok"
                        [] OTHER -> "not_saved",
             saved |-> [k \in saved |-> Environment(d)[Len(Program[d])][k]]]]
  /\ UNCHANGED <<result, timedOut>>

Next ==
  \/ \E d \in Dags : Accept(d) \/ Refuse(d) \/ TimeOut(d) \/ Finish(d) \/ Answer(d)
  \/ \E D \in (SUBSET Dags) \ {{}}, outcome \in {"ok", "err"} :
       \E op \in [D -> UNION {OpIds(d) : d \in D}] : RunTogether(D, op, outcome)

Spec == Init /\ [][Next]_serviceVars
=============================================================================
