----------------------------- MODULE MCSession -----------------------------
(***************************************************************************)
(* Instances of Session for TLC: a calls b, and c is whom b may redirect   *)
(* to.                                                                     *)
(***************************************************************************)
EXTENDS Session

CONSTANTS a, b, c

TwoPeers   == {a, b}
ThreePeers == {a, b, c}
NoPeer     == {}
Callee     == {b}

\* The redirected call is checked without the clock: no timer expires and no
\* connection is won or lost.
UntimedNext == \E p \in Peer :
    Command(p) \/ Dispatch(p) \/ HandleStanza(p) \/ Deliver(p)

UntimedSpec == Init /\ [][UntimedNext]_vars
=============================================================================
