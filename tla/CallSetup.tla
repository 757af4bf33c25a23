----------------------------- MODULE CallSetup -----------------------------
(***************************************************************************)
(* What the negotiation of a call promises to its users, without queues,   *)
(* stanzas or timers.  Session implements it.                              *)
(*                                                                         *)
(* One peer asks, others may be asked, at most one of them ever grants the *)
(* call, the one who asked learns of the grant only after it was given,    *)
(* and an end that is over stays over.                                     *)
(***************************************************************************)
CONSTANTS Peer, Caller

VARIABLES phase,     \* where each end is
          granted    \* the peers whose user accepted

callVars == <<phase, granted>>

Phase == {"idle", "asking", "asked", "agreed", "talking", "over"}

Init ==
    /\ phase = [p \in Peer |-> "idle"]
    /\ granted = {}

Move(p, from, to) ==
    /\ phase[p] = from
    /\ phase' = [phase EXCEPT ![p] = to]

Ask == Move(Caller, "idle", "asking") /\ UNCHANGED granted

BeAsked(p) ==
    /\ p # Caller /\ phase[Caller] # "idle"
    /\ Move(p, "idle", "asked")
    /\ UNCHANGED granted

\* The user accepts, possibly in the moment the call comes in.
Grant(p) ==
    /\ p # Caller /\ phase[Caller] # "idle"
    /\ granted = {}
    /\ Move(p, "idle", "agreed") \/ Move(p, "asked", "agreed")
    /\ granted' = {p}

Learn ==
    /\ granted # {}
    /\ Move(Caller, "asking", "agreed")
    /\ UNCHANGED granted

Talk(p) == Move(p, "agreed", "talking") /\ UNCHANGED granted

End(p) ==
    /\ \E from \in Phase \ {"over"} : Move(p, from, "over")
    /\ UNCHANGED granted

Next == Ask \/ Learn \/ \E p \in Peer : BeAsked(p) \/ Grant(p) \/ Talk(p) \/ End(p)

Spec == Init /\ [][Next]_callVars
=============================================================================
