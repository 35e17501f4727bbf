------------------------------ MODULE Programs -------------------------------
(***************************************************************************)
(* The calls of a client as programs: what it sends to the shards, in which   *)
(* order, and what it does with the replies.                                 *)
(*                                                                         *)
(* A program is a sequence of instructions:                                  *)
(*   [mode |-> "each", cmds]       one command after the other, each retried;  *)
(*                                 the first error ends the call             *)
(*   [mode |-> "pipeline", cmds]   all of them, retried together              *)
(*   [mode |-> "once", cmds]       a pipeline that is not retried             *)
(*   [mode |-> "unordered", cmds]  in any order                              *)
(*   [mode |-> "then", what, with] what the client does with the replies       *)
(* An instruction that looks at replies gives the instructions to go on with, *)
(* or ends the call.                                                         *)
(***************************************************************************)
EXTENDS ClientKeys, KeyspaceImage, Replies

\* A command with keys goes to the shard of the first of them.
Cmd(cl, op, key, arg) == [op |-> op, at |-> Shard(cl, key), key |-> key, arg |-> arg]
CmdAt(s, op, key, arg) == [op |-> op, at |-> s, key |-> key, arg |-> arg]
NoKey == [tag |-> << >>, rest |-> << >>]

Each(cmds) == <<[mode |-> "each", cmds |-> cmds]>>
One(cl, op, key, arg) == Each(<<Cmd(cl, op, key, arg)>>)
Pipeline(cmds) == <<[mode |-> "pipeline", cmds |-> cmds]>>
Together(cl, cmds) ==
  <<[mode |-> IF cl.cluster THEN "unordered" ELSE "once", cmds |-> cmds]>>
Then(what, with) == <<[mode |-> "then", what |-> what, with |-> with]>>

GoOn(prog) == [end |-> FALSE, ok |-> TRUE, error |-> "none", value |-> Nothing, prog |-> prog]
Return(value) == [end |-> TRUE, ok |-> TRUE, error |-> "none", value |-> value, prog |-> << >>]
Throw(error) == [end |-> TRUE, ok |-> FALSE, error |-> error, value |-> Nothing, prog |-> << >>]
=============================================================================
