------------------------- MODULE MCThreadMessaging -------------------------
(***************************************************************************)
(* Instances of ThreadMessaging for TLC.                                   *)
(***************************************************************************)
EXTENDS ThreadMessaging

CONSTANTS t1, t2

TwoThreads == {t1, t2}
=============================================================================
