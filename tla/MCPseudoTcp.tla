----------------------------- MODULE MCPseudoTcp -----------------------------
(***************************************************************************)
(* Constants of the runs of PseudoTcpPair.                                 *)
(***************************************************************************)
EXTENDS PseudoTcpPair

CONSTANTS opener, answerer

OneWay == (opener :> 2) @@ (answerer :> 0)
MoreThanFits == (opener :> 3) @@ (answerer :> 0)
Levels == <<2, 1>>
OneLevel == <<2>>
=============================================================================
