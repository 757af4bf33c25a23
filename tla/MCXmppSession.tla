---------------------------- MODULE MCXmppSession ----------------------------
(***************************************************************************)
(* Instances of XmppSession for TLC.                                       *)
(***************************************************************************)
EXTENDS XmppSession

CONSTANTS r1, r2, i1, x1, x2 \* requests, a peer's request, other stanzas
=============================================================================
