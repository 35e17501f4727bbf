-------------------------------- MODULE Replies --------------------------------
(***************************************************************************)
(* Replies as the clients have them: whether it is an error, its type, and for  *)
(* an array what it is an array of.  The methods of CommandReply throw when the *)
(* reply is of another type than the one they read.                           *)
(***************************************************************************)
EXTENDS Keyspace

IntegerReplies == {"EXISTS", "HEXISTS", "DEL", "HSET", "RPUSH", "LLEN", "AI.CONFIG GET"}
StringReplies == {"SCRIPTGET", "INFO EVERYTHING", "CLUSTER INFO"}
ArrayReply(type, value) == IF value = << >> THEN "empty" ELSE type
RedisReplyType(op, value) ==
  CASE op \in IntegerReplies -> "integer"
    [] op \in StringReplies -> "string"
    [] op = "GET" -> IF value = Nothing THEN "nil" ELSE "string"
    [] op = "MODELGET" -> IF value.pieces = 1 THEN "string" ELSE "pieces"
    [] op = "TENSORGET" -> "tensor"
    [] op = "HGETALL" -> ArrayReply("fields", value)
    [] op = "LRANGE" -> ArrayReply("items", value)
    [] op = "CONFIG GET" -> ArrayReply("config", value)
    [] op = "AI.INFO" -> "info"
    [] op = "CLUSTER SLOTS" -> "slots"
    [] OTHER -> "status"

ErrorReply == [ok |-> FALSE, type |-> "error", value |-> Nothing]
CommandReply(op, reply) ==
  IF reply.ok THEN [ok |-> TRUE, type |-> RedisReplyType(op, reply.value), value |-> reply.value]
  ELSE ErrorReply
HasError(replies) == \E i \in DOMAIN replies : ~replies[i].ok

(***************************************************************************)
(* What is read: a number, a string, the elements of an array; the dimensions,  *)
(* type and data of a tensor, which are at fixed places of an array of six.    *)
(***************************************************************************)
Integer == {"integer"}
Str == {"string"}
GetTensorCommand == {"tensor"}
Elements(type) == {type, "empty"}
Readable(replies, types) == \A i \in DOMAIN replies : replies[i].type \in types
=============================================================================
