----------------------------- MODULE CallPromise -----------------------------
(***************************************************************************)
(* What a client is promised of a list of commands that it runs on a         *)
(* cluster: the commands are executed while the call runs, in any order and   *)
(* perhaps more than once; a call that returns has executed all of them.      *)
(***************************************************************************)
EXTENDS Naturals

CONSTANTS
  Callers,
  Length         \* how many commands each caller runs

VARIABLES
  phase,         \* "before", "calling", "returned", "threw"
  executed       \* the commands that were executed

Init == /\ phase = [c \in Callers |-> "before"]
        /\ executed = [c \in Callers |-> {}]

Call(c) == /\ phase[c] = "before"
           /\ phase' = [phase EXCEPT ![c] = "calling"]
           /\ UNCHANGED executed

Execute(c) == /\ phase[c] = "calling"
              /\ \E S \in SUBSET (1 .. Length[c]) :
                   executed' = [executed EXCEPT ![c] = @ \cup S]
              /\ UNCHANGED phase

Return(c) == /\ phase[c] = "calling" /\ executed[c] = 1 .. Length[c]
             /\ phase' = [phase EXCEPT ![c] = "returned"]
             /\ UNCHANGED executed

Throw(c) == /\ phase[c] = "calling"
            /\ phase' = [phase EXCEPT ![c] = "threw"]
            /\ UNCHANGED executed

Next == \E c \in Callers : Call(c) \/ Execute(c) \/ Return(c) \/ Throw(c)

Spec == Init /\ [][Next]_<<phase, executed>>
=============================================================================
