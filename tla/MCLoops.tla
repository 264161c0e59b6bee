------------------------------- MODULE MCLoops -------------------------------
(***************************************************************************)
(* The instance of VideoReceiver on whose reachable states the operators   *)
(* of JitterBuffer are compared with the loops of LoopReference.           *)
(***************************************************************************)
EXTENDS MCVideoReceiver, LoopReference
=============================================================================
