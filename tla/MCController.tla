---------------------------- MODULE MCController -----------------------------
(***************************************************************************)
(* Small instances of Controller: a model that is launched twice, one call     *)
(* after the other or in one call (with the ensemble it is a member of, whose  *)
(* name Manifest sees), calls that start nothing, a model that two threads of  *)
(* each manager watch, two models that are launched together, a database that  *)
(* an earlier experiment may have left, loaded beside a launch of the same     *)
(* name, and one that is loaded twice.                                        *)
(***************************************************************************)
EXTENDS Controller, TLC

CONSTANTS m, n, d

OneModelTwice ==
  [manifests |-> {<<>>, <<m>>, <<m, m>>}, runs |-> (m :> 2) @@ (n :> 0) @@ (d :> 0),
   saved |-> {}, loads |-> 0, threads |-> 1]
TwoThreads == [OneModelTwice EXCEPT !.runs[m] = 1, !.threads = 2]
TwoModels ==
  [manifests |-> {<<m, n>>}, runs |-> (m :> 1) @@ (n :> 1) @@ (d :> 0),
   saved |-> {}, loads |-> 0, threads |-> 2]
OneNode ==
  [manifests |-> {<<d>>}, runs |-> (m :> 0) @@ (n :> 0) @@ (d :> 1),
   saved |-> {d}, loads |-> 1, threads |-> 2]

TwoLoads == [OneNode EXCEPT !.runs[d] = 0, !.loads = 2]

Each == {OneModelTwice, TwoModels, OneNode, TwoLoads}
FewerThreads == {OneModelTwice, TwoThreads, [OneNode EXCEPT !.threads = 1], TwoLoads}
Together == {TwoModels}
=============================================================================
