---------------------------- MODULE MCCallClient ----------------------------
(***************************************************************************)
(* Instances of CallClient for TLC: the calls are alike.                   *)
(***************************************************************************)
EXTENDS CallClient

CONSTANTS c1, c2

TwoCalls == {c1, c2}
OneCall  == {c1}
=============================================================================
