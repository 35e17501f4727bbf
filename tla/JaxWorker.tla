------------------------------ MODULE JaxWorker ------------------------------
(***************************************************************************)
(* The process that runs the JAX models of a shard.  The shard sends it a    *)
(* request per run over a connection of its own; the worker takes one       *)
(* connection after the other, and keeps the models it has deserialized.     *)
(* It starts before its shard and ends with it; nobody starts it again when  *)
(* it ends alone.                                                          *)
(*                                                                         *)
(* A worker is                                                             *)
(*   up       whether its socket accepts connections                         *)
(*   queue    the requests of the open connections: [client, blob, input]     *)
(*   models   what it has deserialized, by the hash of the artifact            *)
(*   replies  what the threads of the shard were told, by client: [ok, outs]  *)
(***************************************************************************)
EXTENDS Keyspace

CONSTANTS BrokenBlobs,    \* artifacts that jax.export cannot deserialize or call
          WideBlobs       \* models whose replies are longer than the buffer of the shard

Worker == [up |-> TRUE, queue |-> << >>, models |-> << >>, replies |-> << >>]
Unanswered == [ok |-> FALSE, outs |-> << >>]

IsJax(run) == run.object.type = "model" /\ run.object.def.backend = "JAX"
Told(worker, client, reply) == [worker EXCEPT !.replies = Put(@, client, reply)]
Asked(worker, client) ==
  client \in DOMAIN worker.replies \/ \E i \in DOMAIN worker.queue : worker.queue[i].client = client

(***************************************************************************)
(* RAI_ModelRunJAX: one input of floats and one output; the rest is refused,   *)
(* as is all when nobody listens.                                            *)
(***************************************************************************)
Sent(worker, client, run) ==
  IF Len(run.ins) = 1 /\ Len(run.outs) = 1 /\ run.ins[1].dtype = "FLOAT" /\ worker.up
  THEN [worker EXCEPT !.queue =
          Append(@, [client |-> client, blob |-> run.object.def.blob, input |-> run.ins[1]])]
  ELSE Told(worker, client, Unanswered)

(***************************************************************************)
(* The worker answers the first request.  A reply that is cut off at the end   *)
(* of the buffer cannot be parsed.                                           *)
(***************************************************************************)
(* Mutant of ModelKey: models are told apart by the length of the artifact.        *)
ModelKeyOfLength(blob) == "length"

ModelKey(blob) == blob
Deserialized(worker, blob) ==
  IF ModelKey(blob) \in DOMAIN worker.models THEN worker.models[ModelKey(blob)] ELSE blob
\* What the shard makes of the reply: the outputs, unless it was cut off.
OutputRead(model, input) ==
  [ok |-> model \notin WideBlobs, outs |-> Apply(model, <<input>>, 1)]
Served(worker) ==
  LET request == Head(worker.queue)
      model == Deserialized(worker, request.blob)
      next == [worker EXCEPT !.queue = Tail(@)]
  IN IF model \in BrokenBlobs THEN Told(next, request.client, Unanswered)
     ELSE [Told(next, request.client, OutputRead(model, request.input))
           EXCEPT !.models = Put(@, ModelKey(request.blob), model)]

\* It ends when the shard closed a connection before the whole reply was sent: the
\* exception is raised outside of the try.  The connections that wait are reset.
MayEnd(worker) == Deserialized(worker, Head(worker.queue).blob) \in WideBlobs
WorkerEnded(worker) ==
  [FoldSeq(LAMBDA r, w : Told(w, r.client, Unanswered), worker, worker.queue)
   EXCEPT !.up = FALSE, !.queue = << >>, !.models = << >>]
=============================================================================
