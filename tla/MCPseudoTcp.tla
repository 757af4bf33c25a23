---------------------------- MODULE MCPseudoTcp -----------------------------
(***************************************************************************)
(* Instances of PseudoTcp for TLC: the initiator writes two or three bytes *)
(* and may close, the acceptor reads.                                      *)
(***************************************************************************)
EXTENDS PseudoTcp

CONSTANTS e1, e2 \* the two ends

MCWritten == [e \in {e1, e2} |-> IF e = e1 THEN 3 ELSE 0]
MCWrittenTwo == [e \in {e1, e2} |-> IF e = e1 THEN 2 ELSE 0]
=============================================================================
