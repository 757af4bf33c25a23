---------------------------- MODULE MCP2PChannel ----------------------------
(***************************************************************************)
(* Instances of P2PChannel for TLC.                                        *)
(***************************************************************************)
EXTENDS P2PChannel, TLC

CONSTANTS c1, c2, n1, n2

TwoConnections == {c1, c2}

OneNetwork  == c1 :> n1 @@ c2 :> n1

C1Preferred  == c1 :> 2 @@ c2 :> 1
=============================================================================
