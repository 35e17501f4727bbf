---------------------------- MODULE MCOnnxTimeout ----------------------------
(***************************************************************************)
(* A small instance of OnnxTimeout: a thread for each of two devices.        *)
(***************************************************************************)
EXTENDS OnnxTimeout, TLC

CONSTANTS cpu, gpu, c1, g1

OneThreadEach == (c1 :> cpu) @@ (g1 :> gpu)
=============================================================================
