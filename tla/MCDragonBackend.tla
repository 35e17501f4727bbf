--------------------------- MODULE MCDragonBackend ---------------------------
(***************************************************************************)
(* Small instances of DragonBackend: two hosts, steps that need one, both,   *)
(* and more than there are.                                                  *)
(***************************************************************************)
EXTENDS DragonBackend, TLC

CONSTANTS a, b, c, d, h1, h2

TwoHosts == <<h1, h2>>
SmallBothAndMore == (a :> 1) @@ (b :> 2) @@ (c :> 1) @@ (d :> 3)

Starting == {"init"}
Anything == {"init", "puids", "redirect"}

ThreeThatFit == [steps |-> {a, b, c}, faults |-> Starting]
WithTooLarge == [steps |-> {a, b, d}, faults |-> Starting]
FailHalfWay == [steps |-> {a, b, d}, faults |-> Anything]
FitOrFail == {ThreeThatFit, FailHalfWay}
JustTooLarge == {WithTooLarge}
=============================================================================
