-------------------------- MODULE CallClientProof --------------------------
(***************************************************************************)
(* Proofs about CallClient, for any set of calls: the calls that the phone *)
(* client's focus and the call client hold exist, the audio is that of the *)
(* call with the focus, and no answered call rings.                        *)
(***************************************************************************)
EXTENDS CallClient, QueueTheorems

\* HeldCallsExist is not inductive: "accept" gives the focus to the call that
\* is shown, which exists because its session lives.
SessionsHaveCalls == \A c \in Call : Live(c) => calls[c] = "exists"

HeldInv ==
    /\ calls \in [Call -> {"none", "exists", "deleted"}]
    /\ session \in [Call -> States]
    /\ call_ \in Call \cup {NoCall} /\ focus_call_ \in Call \cup {NoCall}
    /\ SessionsHaveCalls
    /\ HeldCallsExist

\* Session::Terminate ends a session, and neither makes nor deletes one.
LEMMA TerminatedLives ==
    ASSUME NEW s \in [Call -> States], NEW c \in Call \cup {NoCall}
    PROVE  /\ Terminated(s, c) \in [Call -> States]
           /\ \A d \in Call : Terminated(s, c)[d] \notin Gone => s[d] \notin Gone
BY CallClientAssumption DEF Terminated, MayTerminate, States, Over, Gone

\* Nothing is held at the start.
LEMMA HeldInvInit == Init => HeldInv
BY DEF Init, HeldInv, States, SessionsHaveCalls, HeldCallsExist, Live, Gone

\* A call is deleted after its session, and whoever holds it lets go first.
LEMMA HeldInvStep == HeldInv /\ [Next]_vars => HeldInv'
<1> SUFFICES ASSUME HeldInv, [Next]_vars PROVE HeldInv'
  OBVIOUS
<1> USE CallClientAssumption
       DEF HeldInv, SessionsHaveCalls, HeldCallsExist, Live
<1>1. ASSUME NEW c \in Call, MakeCallTo(c) PROVE HeldInv'
  BY <1>1 DEF MakeCallTo, States, Gone
<1>2. CASE Accept
  BY <1>2 DEF Accept, mediaVars, States, Gone
<1>3. CASE Reject \/ HangUp
  <2>1. session' = Terminated(session, call_)
    BY <1>3 DEF Reject, HangUp
  <2>2. /\ session' \in [Call -> States]
        /\ \A d \in Call : session'[d] \notin Gone => session[d] \notin Gone
    BY <2>1, TerminatedLives
  <2>3. call_' = NoCall /\ UNCHANGED <<calls, connected, focus_call_>>
    BY <1>3 DEF Reject, HangUp, mediaVars
  <2> QED BY <2>2, <2>3
<1>4. CASE AnswerNothing \/ UseDeleted
  BY <1>4 DEF AnswerNothing, UseDeleted, sessionVars, clientVars, mediaVars
<1>5. ASSUME NEW c \in Call, PeerInitiate(c) PROVE HeldInv'
  BY <1>5 DEF PeerInitiate, States, Gone
<1>6. ASSUME NEW c \in Call, PeerAccept(c) PROVE HeldInv'
  BY <1>6 DEF PeerAccept, clientVars, States, Gone
<1>7. ASSUME NEW c \in Call, PeerReject(c) \/ PeerTerminate(c) PROVE HeldInv'
  <2>1. PICK state \in {"RECEIVEDREJECT", "RECEIVEDTERMINATE"} :
            EndedByPeer(c, state) /\ Live(c)
    BY <1>7 DEF PeerReject, PeerTerminate, Gone
  <2> DEFINE s == [session EXCEPT ![c] = state]
  <2>2. /\ s \in [Call -> States]
        /\ \A d \in Call : s[d] \notin Gone => session[d] \notin Gone
    BY <2>1 DEF States
  <2>3. session' = Terminated(s, call_)
    BY <2>1 DEF EndedByPeer
  <2>4. /\ session' \in [Call -> States]
        /\ \A d \in Call : session'[d] \notin Gone => s[d] \notin Gone
    BY <2>2, <2>3, TerminatedLives
  <2>5. call_' = NoCall /\ UNCHANGED <<calls, connected, focus_call_>>
    BY <2>1 DEF EndedByPeer, mediaVars
  <2> QED BY <2>2, <2>4, <2>5
<1>8. ASSUME NEW c \in Call, SetError(c) PROVE HeldInv'
  BY <1>8 DEF SetError, clientVars, mediaVars
<1>9. ASSUME NEW c \in Call, OnState(c) PROVE HeldInv'
  BY <1>9 DEF OnState, clientVars, mediaVars, States, Gone
<1>10. ASSUME NEW c \in Call, DestroySession(c) PROVE HeldInv'
  BY <1>10 DEF DestroySession, clientVars, States, Gone
<1>11. ASSUME NEW c \in Call, OnError(c) \/ OnTerminateCall(c) PROVE HeldInv'
  <2>1. session' = Terminated(session, c)
    BY <1>11 DEF OnError, OnTerminateCall
  <2>2. /\ session' \in [Call -> States]
        /\ \A d \in Call : session'[d] \notin Gone => session[d] \notin Gone
    BY <2>1, TerminatedLives
  <2>3. UNCHANGED <<calls, connected, call_, focus_call_>>
    BY <1>11 DEF OnError, OnTerminateCall, clientVars, mediaVars
  <2> QED BY <2>2, <2>3
<1>12. ASSUME NEW c \in Call, DestroyCall(c) PROVE HeldInv'
  <2>1. /\ calls' = [calls EXCEPT ![c] = "deleted"]
        /\ UNCHANGED <<session, connected>> /\ session[c] \in Gone
    BY <1>12 DEF DestroyCall
  <2>2. /\ focus_call_' \in Call \cup {NoCall} /\ focus_call_' # c
        /\ focus_call_' \in {focus_call_, NoCall}
    BY <1>12 DEF DestroyCall
  <2>3. /\ call_' \in {call_, NoCall}
        /\ connected => call_' # c
    BY <1>12 DEF DestroyCall
  <2> QED BY <2>1, <2>2, <2>3
<1>13. CASE Work
  BY <1>13 DEF Work, sessionVars, clientVars
<1>14. CASE UNCHANGED vars
  BY <1>14 DEF vars, sessionVars, clientVars, mediaVars
<1> QED
  BY <1>1, <1>2, <1>3, <1>4, <1>5, <1>6, <1>7, <1>8, <1>9, <1>10, <1>11,
     <1>12, <1>13, <1>14 DEF Next, User, Peers, Dispatch

\* For any number of calls, made or taken, answered, refused, timed out or
\* ended by either side in any order: the focus is on an existing call, and so
\* is what the client shows once it has made a call.
THEOREM HeldCalls == Spec => []HeldCallsExist
<1>1. HeldInv => HeldCallsExist
  BY DEF HeldInv
<1> QED BY <1>1, HeldInvInit, HeldInvStep, PTL DEF Spec
----------------------------------------------------------------------------
(* Types *)

ThreadMsg == [kind : {"state", "error", "check"}, of : Call]
WorkMsg == [kind : {"enable", "disable", "ring", "codec"}, of : Call]

\* What is posted when a session is terminated, and when the focus moves.
LEMMA PostedTypes ==
    ASSUME TypeOK, NEW c \in Call \cup {NoCall}, NEW s \in [Call -> States]
    PROVE  /\ Posted(s, c) \in Seq(ThreadMsg)
           /\ c \in Call => FocusPosts(c) \in Seq(WorkMsg)
<1>1. Posted(s, c) \in Seq(ThreadMsg)
  <2>1. MayTerminate(s, c) => <<Msg("state", c)>> \in Seq(ThreadMsg)
    BY DEF MayTerminate, Msg, ThreadMsg
  <2>2. <<>> \in Seq(ThreadMsg)
    OBVIOUS
  <2> QED
    BY <2>1, <2>2 DEF Posted
<1>2. ASSUME c \in Call PROVE FocusPosts(c) \in Seq(WorkMsg)
  <2>1. /\ <<>> \in Seq(WorkMsg) /\ <<Msg("enable", c)>> \in Seq(WorkMsg)
        /\ focus_call_ # NoCall => <<Msg("disable", focus_call_)>> \in Seq(WorkMsg)
    BY <1>2 DEF Msg, WorkMsg, TypeOK
  <2> DEFINE d == IF focus_call_ # NoCall /\ Live(focus_call_)
                  THEN <<Msg("disable", focus_call_)>> ELSE <<>>
             e == <<Msg("enable", c)>>
  <2>2. d \in Seq(WorkMsg) /\ e \in Seq(WorkMsg)
    BY <2>1
  <2>3. FocusPosts(c) = IF focus_call_ = c THEN <<>> ELSE d \o e
    BY DEF FocusPosts
  <2> HIDE DEF d, e
  <2> QED
    BY <2>1, <2>2, <2>3
<1> QED
  BY <1>1, <1>2

LEMMA TypeInit == Init => TypeOK
<1> SUFFICES ASSUME Init PROVE TypeOK
  OBVIOUS
<1>1. queue \in Seq(ThreadMsg) /\ workerQueue \in Seq(WorkMsg)
  BY DEF Init
<1>2. /\ calls \in [Call -> {"none", "exists", "deleted"}]
      /\ session \in [Call -> States]
      /\ errors \subseteq Call /\ noAnswer \subseteq Call
      /\ call_ \in Call \cup {NoCall} /\ focus_call_ \in Call \cup {NoCall}
      /\ incoming_call_ \in BOOLEAN /\ connected \in BOOLEAN
      /\ failed \in {"no", "assert", "deleted"}
  BY DEF Init, States
<1>3. channel \in [Call -> [live : BOOLEAN, enabled : BOOLEAN, ring : BOOLEAN]]
  BY DEF Init, NoChannel
<1> QED
  BY <1>1, <1>2, <1>3 DEF TypeOK, ThreadMsg, WorkMsg

LEMMA TypeStep == TypeOK /\ [Next]_vars => TypeOK'
<1> SUFFICES ASSUME TypeOK, [Next]_vars PROVE TypeOK'
  OBVIOUS
<1>1. /\ calls \in [Call -> {"none", "exists", "deleted"}]
      /\ session \in [Call -> States]
      /\ errors \subseteq Call /\ noAnswer \subseteq Call
      /\ queue \in Seq(ThreadMsg) /\ workerQueue \in Seq(WorkMsg)
      /\ call_ \in Call \cup {NoCall} /\ focus_call_ \in Call \cup {NoCall}
      /\ incoming_call_ \in BOOLEAN /\ connected \in BOOLEAN
      /\ channel \in [Call -> [live : BOOLEAN, enabled : BOOLEAN, ring : BOOLEAN]]
      /\ failed \in {"no", "assert", "deleted"}
  BY DEF TypeOK, ThreadMsg, WorkMsg
<1>2. /\ NewChannel \in [live : BOOLEAN, enabled : BOOLEAN, ring : BOOLEAN]
      /\ NoChannel \in [live : BOOLEAN, enabled : BOOLEAN, ring : BOOLEAN]
  BY DEF NewChannel, NoChannel
<1>3. /\ \A c \in Call, k \in {"state", "error", "check"} : Msg(k, c) \in ThreadMsg
      /\ \A c \in Call, k \in {"enable", "disable", "ring", "codec"} :
            Msg(k, c) \in WorkMsg
  BY DEF Msg, ThreadMsg, WorkMsg
<1>4. /\ \A c \in Call : FocusPosts(c) \in Seq(WorkMsg)
      /\ \A s \in [Call -> States], c \in Call \cup {NoCall} :
            /\ Posted(s, c) \in Seq(ThreadMsg)
            /\ Terminated(s, c) \in [Call -> States]
  <2>1. ASSUME NEW s \in [Call -> States], NEW c \in Call \cup {NoCall}
        PROVE  /\ Posted(s, c) \in Seq(ThreadMsg)
               /\ c \in Call => FocusPosts(c) \in Seq(WorkMsg)
    BY PostedTypes
  <2>2. ASSUME NEW s \in [Call -> States], NEW c \in Call \cup {NoCall}
        PROVE  Terminated(s, c) \in [Call -> States]
    BY TerminatedLives
  <2> QED
    BY <1>1, <2>1, <2>2
<1>5. ASSUME NEW c \in Call, MakeCallTo(c) PROVE TypeOK'
  <2>1. session' \in [Call -> States] /\ calls' \in [Call -> {"none", "exists", "deleted"}]
        /\ channel' \in [Call -> [live : BOOLEAN, enabled : BOOLEAN, ring : BOOLEAN]]
    BY <1>1, <1>2, <1>5 DEF MakeCallTo, States
  <2>2. queue' \in Seq(ThreadMsg)
    BY <1>1, <1>3, <1>5 DEF MakeCallTo
  <2>3. workerQueue' \in Seq(WorkMsg)
    BY <1>1, <1>3, <1>4, <1>5 DEF MakeCallTo
  <2>4. /\ noAnswer' \subseteq Call /\ call_' \in Call /\ focus_call_' \in Call
        /\ connected' \in BOOLEAN /\ UNCHANGED <<errors, incoming_call_, failed>>
    BY <1>1, <1>5 DEF MakeCallTo
  <2> QED
    BY <1>1, <2>1, <2>2, <2>3, <2>4 DEF TypeOK, ThreadMsg, WorkMsg
<1>6. CASE Accept
  <2>1. call_ \in Call
    BY <1>1, <1>6 DEF Accept
  <2>2. session' \in [Call -> States]
    BY <1>1, <1>6, <2>1 DEF Accept, States
  <2> DEFINE m == Msg("state", call_)
             codec == Msg("codec", call_)
             focus == FocusPosts(call_)
  <2>3. m \in ThreadMsg /\ codec \in WorkMsg /\ focus \in Seq(WorkMsg)
    BY <1>3, <1>4, <2>1
  <2>4. /\ queue' \in {queue, Append(queue, m)}
        /\ workerQueue' \in {workerQueue \o <<codec>> \o focus, workerQueue \o focus}
    BY <1>6 DEF Accept
  <2> HIDE DEF m, codec, focus
  <2>5. Append(queue, m) \in Seq(ThreadMsg)
    BY <1>1, <2>3
  <2>6. <<codec>> \in Seq(WorkMsg)
    BY <2>3
  <2>7. /\ workerQueue \o <<codec>> \o focus \in Seq(WorkMsg)
        /\ workerQueue \o focus \in Seq(WorkMsg)
    BY <1>1, <2>3, <2>6
  <2>8. queue' \in Seq(ThreadMsg) /\ workerQueue' \in Seq(WorkMsg)
    BY <1>1, <2>4, <2>5, <2>7
  <2>9. /\ focus_call_' = call_ /\ incoming_call_' = FALSE
        /\ UNCHANGED <<calls, errors, noAnswer, call_, connected, channel, failed>>
    BY <1>6 DEF Accept
  <2> QED
    BY <1>1, <2>1, <2>2, <2>8, <2>9 DEF TypeOK, ThreadMsg, WorkMsg
<1>7. CASE Reject
  <2>1. call_ \in Call /\ session' = Terminated(session, call_)
    BY <1>1, <1>7 DEF Reject
  <2>2. queue' \in Seq(ThreadMsg)
    <3> DEFINE m == Msg("state", call_)
               p == Posted(session, call_)
    <3>1. m \in ThreadMsg /\ p \in Seq(ThreadMsg)
      BY <1>1, <1>3, <1>4, <2>1
    <3>2. queue' \in {queue \o <<>> \o p, queue \o <<m>> \o p}
      BY <1>7 DEF Reject
    <3> HIDE DEF m, p
    <3>3. <<m>> \in Seq(ThreadMsg) /\ <<>> \in Seq(ThreadMsg)
      BY <3>1
    <3>4. /\ queue \o <<>> \o p \in Seq(ThreadMsg)
          /\ queue \o <<m>> \o p \in Seq(ThreadMsg)
      BY <1>1, <3>1, <3>3
    <3> QED
      BY <3>2, <3>4
  <2>3. /\ call_' = NoCall /\ incoming_call_' = FALSE
        /\ UNCHANGED <<calls, errors, noAnswer, connected, mediaVars, failed>>
    BY <1>7 DEF Reject
  <2> QED
    BY <1>1, <1>4, <2>1, <2>2, <2>3 DEF TypeOK, ThreadMsg, WorkMsg, mediaVars
<1>8. CASE HangUp
  <2>1. session' \in [Call -> States] /\ queue' \in Seq(ThreadMsg)
    BY <1>1, <1>4, <1>8 DEF HangUp
  <2>2. /\ call_' = NoCall
        /\ UNCHANGED <<calls, errors, noAnswer, incoming_call_, connected, mediaVars,
                       failed>>
    BY <1>8 DEF HangUp
  <2> QED
    BY <1>1, <2>1, <2>2 DEF TypeOK, ThreadMsg, WorkMsg, mediaVars
<1>9. CASE AnswerNothing \/ UseDeleted
  BY <1>1, <1>9 DEF AnswerNothing, UseDeleted, sessionVars, clientVars, mediaVars,
                    TypeOK, ThreadMsg, WorkMsg
<1>10. ASSUME NEW c \in Call, PeerInitiate(c) PROVE TypeOK'
  <2>1. session' \in [Call -> States] /\ calls' \in [Call -> {"none", "exists", "deleted"}]
        /\ channel' \in [Call -> [live : BOOLEAN, enabled : BOOLEAN, ring : BOOLEAN]]
    BY <1>1, <1>2, <1>10 DEF PeerInitiate, States
  <2>2. queue' \in Seq(ThreadMsg)
    <3> DEFINE m == Msg("state", c)
    <3>1. m \in ThreadMsg
      BY <1>3
    <3>2. queue' \in {Append(queue, m), queue \o <<m, m>>}
      BY <1>10 DEF PeerInitiate
    <3> HIDE DEF m
    <3>3. <<m, m>> \in Seq(ThreadMsg)
      BY <3>1
    <3>4. Append(queue, m) \in Seq(ThreadMsg) /\ queue \o <<m, m>> \in Seq(ThreadMsg)
      BY <1>1, <3>1, <3>3
    <3> QED
      BY <3>2, <3>4
  <2>3. workerQueue' \in Seq(WorkMsg)
    BY <1>1, <1>3, <1>10 DEF PeerInitiate
  <2>4. /\ call_' = c /\ incoming_call_' = TRUE
        /\ UNCHANGED <<errors, noAnswer, connected, focus_call_, failed>>
    BY <1>10 DEF PeerInitiate
  <2> QED
    BY <1>1, <2>1, <2>2, <2>3, <2>4 DEF TypeOK, ThreadMsg, WorkMsg
<1>11. ASSUME NEW c \in Call, PeerAccept(c) PROVE TypeOK'
  <2>1. session' \in [Call -> States]
    BY <1>1, <1>11 DEF PeerAccept, States
  <2>2. queue' \in Seq(ThreadMsg) /\ workerQueue' \in Seq(WorkMsg)
    BY <1>1, <1>3, <1>11 DEF PeerAccept
  <2>3. /\ noAnswer' \subseteq Call
        /\ UNCHANGED <<calls, errors, clientVars, focus_call_, channel, failed>>
    BY <1>1, <1>11 DEF PeerAccept
  <2> QED
    BY <1>1, <2>1, <2>2, <2>3 DEF TypeOK, ThreadMsg, WorkMsg, clientVars
<1>12. ASSUME NEW c \in Call, PeerReject(c) \/ PeerTerminate(c) PROVE TypeOK'
  <2>1. PICK state \in {"RECEIVEDREJECT", "RECEIVEDTERMINATE"} : EndedByPeer(c, state)
    BY <1>12 DEF PeerReject, PeerTerminate
  <2> DEFINE s == [session EXCEPT ![c] = state]
  <2>2. s \in [Call -> States]
    BY <1>1 DEF States
  <2>3. /\ session' = Terminated(s, call_)
        /\ queue' = queue \o Posted(s, call_) \o <<Msg("state", c)>>
        /\ noAnswer' = noAnswer \ {c} /\ call_' = NoCall /\ incoming_call_' = FALSE
        /\ UNCHANGED <<calls, errors, connected, mediaVars, failed>>
    BY <2>1 DEF EndedByPeer
  <2> HIDE DEF s
  <2>4. session' \in [Call -> States]
    BY <1>1, <1>4, <2>2, <2>3
  <2>5. queue' \in Seq(ThreadMsg)
    BY <1>1, <1>3, <1>4, <2>2, <2>3
  <2> QED
    BY <1>1, <2>3, <2>4, <2>5 DEF TypeOK, ThreadMsg, WorkMsg, mediaVars
<1>13. ASSUME NEW c \in Call, SetError(c) PROVE TypeOK'
  <2>1. queue' \in Seq(ThreadMsg) /\ errors' \subseteq Call /\ noAnswer' \subseteq Call
    BY <1>1, <1>3, <1>13 DEF SetError
  <2> QED
    BY <1>1, <1>13, <2>1 DEF SetError, TypeOK, ThreadMsg, WorkMsg, clientVars, mediaVars
<1>14. ASSUME NEW c \in Call, OnState(c) PROVE TypeOK'
  <2>1. queue # <<>> /\ Tail(queue) \in Seq(ThreadMsg)
    BY <1>1, <1>14, Tailed DEF OnState, AtHead
  <2>2. session' \in [Call -> States]
    BY <1>1, <1>14 DEF OnState, States
  <2>3. queue' \in Seq(ThreadMsg)
    BY <1>3, <1>14, <2>1 DEF OnState
  <2> QED
    BY <1>1, <1>14, <2>2, <2>3 DEF OnState, TypeOK, ThreadMsg, WorkMsg, clientVars,
                                   mediaVars
<1>15. ASSUME NEW c \in Call, DestroySession(c) PROVE TypeOK'
  <2>1. queue # <<>> /\ Tail(queue) \in Seq(ThreadMsg)
    BY <1>1, <1>15, Tailed DEF DestroySession, AtHead
  <2>2. /\ Cleared(Tail(queue), {"state", "error"}, c) \in Seq(ThreadMsg)
        /\ Cleared(workerQueue, {"enable", "disable", "ring", "codec"}, c)
              \in Seq(WorkMsg)
    <3>1. \A q \in Seq(ThreadMsg) : \A S : Without(q, S) \in Seq(ThreadMsg)
      BY WithoutHas
    <3>2. \A q \in Seq(WorkMsg) : \A S : Without(q, S) \in Seq(WorkMsg)
      BY WithoutHas
    <3> QED
      BY <1>1, <2>1, <3>1, <3>2 DEF Cleared
  <2>3. /\ session' \in [Call -> States] /\ errors' \subseteq Call
        /\ channel' \in [Call -> [live : BOOLEAN, enabled : BOOLEAN, ring : BOOLEAN]]
    BY <1>1, <1>2, <1>15 DEF DestroySession, States
  <2>4. queue' \in Seq(ThreadMsg) /\ workerQueue' \in Seq(WorkMsg)
    BY <1>3, <1>15, <2>2 DEF DestroySession
  <2> QED
    BY <1>1, <1>15, <2>3, <2>4 DEF DestroySession, TypeOK, ThreadMsg, WorkMsg, clientVars
<1>16. ASSUME NEW c \in Call, OnError(c) PROVE TypeOK'
  <2>1. queue # <<>> /\ Tail(queue) \in Seq(ThreadMsg)
    BY <1>1, <1>16, Tailed DEF OnError, AtHead
  <2>2. session' \in [Call -> States] /\ queue' \in Seq(ThreadMsg)
    BY SMTT(40), <1>1, <1>4, <1>16, <2>1 DEF OnError
  <2> QED
    BY <1>1, <1>16, <2>2 DEF OnError, TypeOK, ThreadMsg, WorkMsg, clientVars, mediaVars
<1>17. ASSUME NEW c \in Call, OnTerminateCall(c) PROVE TypeOK'
  <2>1. /\ session' = Terminated(session, c) /\ queue' = queue \o Posted(session, c)
        /\ noAnswer' \subseteq Call
    BY <1>1, <1>17 DEF OnTerminateCall
  <2>2. Terminated(session, c) \in [Call -> States] /\ Posted(session, c) \in Seq(ThreadMsg)
    BY <1>1, <1>4
  <2>3. session' \in [Call -> States] /\ queue' \in Seq(ThreadMsg)
    BY <1>1, <2>1, <2>2
  <2> QED
    BY <1>1, <1>17, <2>1, <2>3 DEF OnTerminateCall, TypeOK, ThreadMsg, WorkMsg, clientVars,
                             mediaVars
<1>18. ASSUME NEW c \in Call, DestroyCall(c) PROVE TypeOK'
  <2>1. queue # <<>> /\ Tail(queue) \in Seq(ThreadMsg)
    BY <1>1, <1>18, Tailed DEF DestroyCall, AtHead
  <2>2. /\ calls' \in [Call -> {"none", "exists", "deleted"}]
        /\ focus_call_' \in Call \cup {NoCall} /\ call_' \in Call \cup {NoCall}
        /\ incoming_call_' \in BOOLEAN /\ noAnswer' \subseteq Call
        /\ queue' \in Seq(ThreadMsg)
    BY <1>1, <1>18, <2>1 DEF DestroyCall
  <2> QED
    BY <1>1, <1>18, <2>2 DEF DestroyCall, TypeOK, ThreadMsg, WorkMsg
<1>19. CASE Work
  <2> DEFINE m == Head(workerQueue)
  <2>1. m \in WorkMsg /\ Tail(workerQueue) \in Seq(WorkMsg)
    BY <1>1, <1>19, Tailed DEF Work
  <2>2. /\ channel' = [channel EXCEPT ![m.of] = Played(channel[m.of], m.kind)]
        /\ workerQueue' = Tail(workerQueue)
        /\ UNCHANGED <<sessionVars, clientVars, focus_call_, failed>>
    BY <1>19 DEF Work
  <2> HIDE DEF m
  <2>3. Played(channel[m.of], m.kind)
          \in [live : BOOLEAN, enabled : BOOLEAN, ring : BOOLEAN]
    BY ZenonT(80), <1>1, <2>1 DEF Played, WorkMsg
  <2> QED
    BY <1>1, <2>1, <2>2, <2>3 DEF TypeOK, ThreadMsg, WorkMsg, sessionVars, clientVars
<1>20. CASE UNCHANGED vars
  BY <1>1, <1>20 DEF vars, sessionVars, clientVars, mediaVars, TypeOK, ThreadMsg, WorkMsg
<1> QED
  BY <1>5, <1>6, <1>7, <1>8, <1>9, <1>10, <1>11, <1>12, <1>13, <1>14, <1>15, <1>16,
     <1>17, <1>18, <1>19, <1>20 DEF Next, User, Peers, Dispatch

\* Every variable has its type, for any number of calls and messages.
THEOREM CallTypes == Spec => []TypeOK
<1> QED
  BY TypeInit, TypeStep, PTL DEF Spec
----------------------------------------------------------------------------
(* What the worker's queue leads to *)

\* Whether what `on' turns on and `off' turns off is on when q was worked off, if
\* it is `now' at first.
Outcome(q, on, off, now) ==
    LET r == Without(q, WorkMsg \ {on, off})
    IN  IF r = <<>> THEN now ELSE r[Len(r)] = on

WillBeEnabled(c) ==
    Outcome(workerQueue, Msg("enable", c), Msg("disable", c), channel[c].enabled)
WillRing(c) ==
    Outcome(workerQueue, Msg("ring", c), Msg("codec", c), channel[c].ring)

Answered == {"SENTACCEPT", "RECEIVEDACCEPT", "INPROGRESS"}

\* Nothing is posted for a channel that is gone or was not made; the focus and the
\* channels agree, and an answered call is silent, when the worker is done.
MediaInv == \A c \in Call :
    /\ channel[c].live = TRUE <=> Live(c)
    /\ \A kind \in {"enable", "disable", "ring", "codec"} :
          Has(workerQueue, Msg(kind, c)) => Live(c)
    /\ Live(c) => (WillBeEnabled(c) <=> focus_call_ = c)
    /\ session[c] \in Answered => ~WillRing(c)

\* Posting one more message.
LEMMA OutcomePosted ==
    ASSUME NEW q \in Seq(WorkMsg), NEW m \in WorkMsg, NEW on \in WorkMsg,
           NEW off \in WorkMsg, on # off, NEW now
    PROVE  /\ m = on => Outcome(q \o <<m>>, on, off, now)
           /\ m = off => ~Outcome(q \o <<m>>, on, off, now)
           /\ m \notin {on, off} =>
                 (Outcome(q \o <<m>>, on, off, now) <=> Outcome(q, on, off, now))
<1> DEFINE R == WorkMsg \ {on, off}
           one == <<m>>
           w == Without(q, R)
           r == Without(q \o one, R)
<1>1. one \in Seq(WorkMsg)
  OBVIOUS
<1>2. w \in Seq(WorkMsg)
  BY WithoutHas
<1>3. Without(one, R) = IF m \in R THEN <<>> ELSE one
  BY WithoutOne
<1>4. r = w \o Without(one, R)
  <2> HIDE DEF one, R
  <2> QED
    BY <1>1, WithoutConcat
<1>5. m \in {on, off} => r = w \o one
  BY <1>3, <1>4
<1>6. m \notin {on, off} => r = w
  <2>1. m \notin {on, off} => r = w \o <<>>
    BY <1>3, <1>4
  <2> HIDE DEF w, r
  <2>2. w \o <<>> = w
    BY <1>2
  <2> QED
    BY <2>1, <2>2
<1>7. w \o one # <<>> /\ (w \o one)[Len(w \o one)] = m
  BY <1>2
<1>8. /\ Outcome(q \o one, on, off, now) <=> IF r = <<>> THEN now ELSE r[Len(r)] = on
      /\ Outcome(q, on, off, now) <=> IF w = <<>> THEN now ELSE w[Len(w)] = on
  BY DEF Outcome
<1> HIDE DEF r, w, R
<1>9. m \in {on, off} => (Outcome(q \o one, on, off, now) <=> m = on)
  BY <1>5, <1>7, <1>8
<1>10. m \notin {on, off} =>
          (Outcome(q \o one, on, off, now) <=> Outcome(q, on, off, now))
  BY <1>6, <1>8
<1> QED
  BY <1>9, <1>10

\* Taking the first message.
LEMMA OutcomeTaken ==
    ASSUME NEW q \in Seq(WorkMsg), q # <<>>, NEW on \in WorkMsg, NEW off \in WorkMsg,
           on # off, NEW now \in BOOLEAN, NEW then \in BOOLEAN,
           then <=> Head(q) = on \/ (Head(q) # off /\ now)
    PROVE  Outcome(Tail(q), on, off, then) <=> Outcome(q, on, off, now)
<1> DEFINE R == WorkMsg \ {on, off}
           w == Without(q, R)
           t == Without(Tail(q), R)
           h == Head(q)
<1>1. h \in WorkMsg /\ Tail(q) \in Seq(WorkMsg)
  BY Tailed
<1>2. w \in Seq(WorkMsg) /\ t \in Seq(WorkMsg)
  <2>1. \A p \in Seq(WorkMsg) : Without(p, R) \in Seq(WorkMsg)
    BY WithoutHas
  <2> QED
    BY <1>1, <2>1
<1>3. /\ h \in R => w = t
      /\ h \notin R => w # <<>> /\ t = Tail(w) /\ Head(w) = h
  BY WithoutTail
<1>4. /\ Outcome(Tail(q), on, off, then) <=> IF t = <<>> THEN then ELSE t[Len(t)] = on
      /\ Outcome(q, on, off, now) <=> IF w = <<>> THEN now ELSE w[Len(w)] = on
  BY DEF Outcome
<1>5. h \in R <=> h \notin {on, off}
  BY <1>1
<1> HIDE DEF w, t, h, R
<1>6. CASE h \in R
  BY <1>3, <1>4, <1>5, <1>6 DEF h
<1>7. CASE h \notin R
  <2>1. /\ w # <<>> /\ t = Tail(w) /\ w[1] = h
        /\ Len(w) \in Nat \ {0} /\ Len(t) = Len(w) - 1
        /\ \A i \in 1..(Len(w) - 1) : t[i] = w[i + 1]
    <3>1. w # <<>> /\ t = Tail(w) /\ Head(w) = h
      BY <1>3, <1>7
    <3>2. /\ Tail(w) \in Seq(WorkMsg) /\ Len(Tail(w)) = Len(w) - 1
          /\ \A i \in 1..(Len(w) - 1) : Tail(w)[i] = w[i + 1]
          /\ Head(w) = w[1] /\ Len(w) \in Nat \ {0}
      BY <1>2, <3>1, Tailed
    <3> QED
      BY <3>1, <3>2
  <2>2. t = <<>> => w[Len(w)] = h
    <3>1. t = <<>> => Len(t) = 0
      OBVIOUS
    <3> QED
      BY <2>1, <3>1
  <2>3. t # <<>> => t[Len(t)] = w[Len(w)]
    BY <1>2, <2>1
  <2>4. (h = on <=> then = TRUE) /\ h \in {on, off}
    BY <1>5, <1>7 DEF h
  <2> QED
    BY <1>4, <2>1, <2>2, <2>3, <2>4
<1> QED
  BY <1>6, <1>7

\* The end of another channel, with what is posted for it.
LEMMA OutcomeCleared ==
    ASSUME NEW q \in Seq(WorkMsg), NEW on \in WorkMsg, NEW off \in WorkMsg, NEW now,
           NEW kinds \in SUBSET {"enable", "disable", "ring", "codec"},
           NEW c \in Call, on.of # c, off.of # c
    PROVE  Outcome(Cleared(q, kinds, c), on, off, now) <=> Outcome(q, on, off, now)
<1> DEFINE R == WorkMsg \ {on, off}
           S == [kind : kinds, of : {c}]
<1>1. S \subseteq R
  BY DEF WorkMsg
<1> HIDE DEF R, S
<1>2. Without(Without(q, S), R) = Without(q, R)
  BY <1>1, WithoutTwice
<1> QED
  BY <1>2 DEF Outcome, Cleared, R, S

\* Nothing is posted.
LEMMA OutcomeNow ==
    ASSUME NEW q \in Seq(WorkMsg), NEW on, NEW off, NEW now,
           ~Has(q, on), ~Has(q, off)
    PROVE  Outcome(q, on, off, now) <=> now
<1> DEFINE R == WorkMsg \ {on, off}
           w == Without(q, R)
<1>1. w \in Seq(WorkMsg) /\ \A m : Has(w, m) <=> Has(q, m) /\ m \notin R
  BY WithoutHas
<1>2. \A m : Has(q, m) => m \in WorkMsg
  BY DEF Has
<1>3. \A m : ~Has(w, m)
  BY <1>1, <1>2
<1>4. w = <<>>
  <2> HIDE DEF w
  <2> SUFFICES ASSUME w # <<>> PROVE FALSE
    OBVIOUS
  <2>1. 1 \in DOMAIN w
    BY <1>1
  <2> QED
    BY <1>3, <2>1 DEF Has
<1> QED
  BY <1>4 DEF Outcome

\* The messages of the worker are different for different calls and kinds.
LEMMA WorkMessages ==
    /\ \A c \in Call, kind \in {"enable", "disable", "ring", "codec"} :
          Msg(kind, c) \in WorkMsg /\ Msg(kind, c).of = c /\ Msg(kind, c).kind = kind
    /\ \A m \in WorkMsg : /\ m.of \in Call /\ m = Msg(m.kind, m.of)
                          /\ m.kind \in {"enable", "disable", "ring", "codec"}
    /\ \A c, d, k, l : Msg(k, c) = Msg(l, d) <=> k = l /\ c = d
  BY DEF Msg, WorkMsg

\* What the step of the focus posts.
LEMMA FocusOutcome ==
    ASSUME TypeOK, NEW q \in Seq(WorkMsg), NEW c \in Call, NEW d \in Call, NEW now
    PROVE  LET p == q \o FocusPosts(c)
               On(r) == Outcome(r, Msg("enable", d), Msg("disable", d), now)
               Rings(r) == Outcome(r, Msg("ring", d), Msg("codec", d), now)
           IN  /\ Rings(p) <=> Rings(q)
               /\ focus_call_ = c => (On(p) <=> On(q))
               /\ focus_call_ # c /\ d = c => On(p)
               /\ focus_call_ # c /\ d # c =>
                     (On(p) <=> On(q) /\ ~(d = focus_call_ /\ Live(d)))
<1> DEFINE On(r) == Outcome(r, Msg("enable", d), Msg("disable", d), now)
           Rings(r) == Outcome(r, Msg("ring", d), Msg("codec", d), now)
           p == q \o FocusPosts(c)
<1>1. /\ Msg("enable", d) \in WorkMsg /\ Msg("disable", d) \in WorkMsg
      /\ Msg("ring", d) \in WorkMsg /\ Msg("codec", d) \in WorkMsg
      /\ Msg("enable", d) # Msg("disable", d) /\ Msg("ring", d) # Msg("codec", d)
  BY WorkMessages
<1>2. ASSUME NEW r \in Seq(WorkMsg), NEW m \in WorkMsg
      PROVE  /\ m = Msg("enable", d) => On(r \o <<m>>)
             /\ m = Msg("disable", d) => ~On(r \o <<m>>)
             /\ m.of # d => (On(r \o <<m>>) <=> On(r))
             /\ m.kind \in {"enable", "disable"} => (Rings(r \o <<m>>) <=> Rings(r))
  <2>1. /\ m.of # d => m \notin {Msg("enable", d), Msg("disable", d)}
        /\ m.kind \in {"enable", "disable"} => m \notin {Msg("ring", d), Msg("codec", d)}
    BY WorkMessages
  <2> QED
    BY <1>1, <2>1, OutcomePosted
<1> DEFINE f == Msg("disable", focus_call_)
           e == Msg("enable", c)
<1>3. /\ e \in WorkMsg /\ e.of = c /\ e.kind = "enable"
      /\ focus_call_ # NoCall => f \in WorkMsg /\ f.of = focus_call_ /\ f.kind = "disable"
  BY WorkMessages DEF TypeOK
<1>4. p = q \o (IF focus_call_ = c THEN <<>>
                ELSE (IF focus_call_ # NoCall /\ Live(focus_call_) THEN <<f>> ELSE <<>>)
                     \o <<e>>)
  BY DEF FocusPosts
<1> HIDE DEF p, f, e
<1>5. CASE focus_call_ = c
  <2>1. p = q
    BY <1>4, <1>5
  <2> QED
    BY <1>5, <2>1 DEF p
<1>6. CASE focus_call_ # c /\ ~(focus_call_ # NoCall /\ Live(focus_call_))
  <2>1. p = q \o <<e>>
    <3>1. <<>> \o <<e>> = <<e>>
      OBVIOUS
    <3> QED
      BY <1>4, <1>6, <3>1
  <2>2. d # focus_call_ \/ ~Live(d)
    BY <1>6, CallClientAssumption
  <2> QED
    BY <1>2, <1>3, <1>6, <2>1, <2>2 DEF p, e
<1>7. CASE focus_call_ # c /\ focus_call_ # NoCall /\ Live(focus_call_)
  <2> DEFINE one == <<f>>
             two == <<e>>
             r == q \o one
  <2>1. f \in WorkMsg /\ one \in Seq(WorkMsg) /\ two \in Seq(WorkMsg) /\ r \in Seq(WorkMsg)
    BY <1>3, <1>7
  <2>2. p = q \o (one \o two)
    BY <1>4, <1>7
  <2>3. p = r \o two
    <3> HIDE DEF one, two
    <3> QED
      BY <2>1, <2>2, ConcatAssociates
  <2>4. /\ f = Msg("disable", d) => ~On(r)
        /\ f.of # d => (On(r) <=> On(q))
        /\ Rings(r) <=> Rings(q)
    BY <1>2, <1>3, <1>7
  <2> HIDE DEF r
  <2>5. /\ e = Msg("enable", d) => On(p)
        /\ e.of # d => (On(p) <=> On(r))
        /\ Rings(p) <=> Rings(r)
    BY <1>2, <1>3, <2>1, <2>3
  <2> QED
    BY <1>3, <1>7, <2>4, <2>5 DEF p, e, f
<1> QED
  BY <1>5, <1>6, <1>7 DEF p
----------------------------------------------------------------------------
(* The steps of the calls and of the worker *)

LEMMA MediaInit == Init => MediaInv
<1> SUFFICES ASSUME Init, NEW c \in Call
             PROVE  /\ channel[c].live = TRUE <=> Live(c)
                    /\ \A kind \in {"enable", "disable", "ring", "codec"} :
                          Has(workerQueue, Msg(kind, c)) => Live(c)
                    /\ Live(c) => (WillBeEnabled(c) <=> focus_call_ = c)
                    /\ session[c] \in Answered => ~WillRing(c)
  BY DEF MediaInv
<1>1. ~Live(c) /\ session[c] = "none" /\ channel[c].live = FALSE /\ workerQueue = <<>>
  BY DEF Init, Live, Gone, NoChannel
<1>2. \A m : ~Has(workerQueue, m)
  BY <1>1 DEF Has
<1> QED
  BY <1>1, <1>2 DEF Answered

\* A step that does nothing to the channels.
LEMMA MediaSame ==
    ASSUME MediaInv, UNCHANGED <<channel, workerQueue>>,
           \A c \in Call : session'[c] \notin Gone <=> session[c] \notin Gone,
           \A c \in Call : session'[c] \in Answered => session[c] \in Answered,
           \A c \in Call : Live(c) => (focus_call_' = c <=> focus_call_ = c)
    PROVE  MediaInv'
BY DEF MediaInv, Live, WillBeEnabled, WillRing

\* Terminate ends no session, and answers none.
LEMMA TerminatedMedia ==
    ASSUME NEW s \in [Call -> States], NEW c \in Call \cup {NoCall}, NEW d \in Call
    PROVE  /\ Terminated(s, c)[d] \notin Gone <=> s[d] \notin Gone
           /\ Terminated(s, c)[d] \in Answered => s[d] \in Answered
BY CallClientAssumption DEF Terminated, MayTerminate, Over, Gone, Answered

\* What is in a queue for whose channel.
LEMMA FocusHas ==
    ASSUME TypeOK, NEW c \in Call, NEW d \in Call,
           NEW kind \in {"enable", "disable", "ring", "codec"},
           Has(FocusPosts(c), Msg(kind, d))
    PROVE  d = c \/ Live(d)
<1> DEFINE m == Msg(kind, d)
           e == Msg("enable", c)
           f == Msg("disable", focus_call_)
           on == focus_call_ # NoCall /\ Live(focus_call_)
<1>1. FocusPosts(c) = IF focus_call_ = c THEN <<>>
                      ELSE (IF on THEN <<f>> ELSE <<>>) \o <<e>>
  BY DEF FocusPosts
<1>2. /\ e = m => d = c
      /\ f = m => d = focus_call_
  BY WorkMessages
<1> DEFINE a == IF on THEN <<f>> ELSE <<>>
           b == <<e>>
<1>3. FocusPosts(c) = <<>> \/ FocusPosts(c) = a \o b
  BY <1>1
<1> HIDE DEF e, f, m, on
<1>4. a \in Seq({e, f}) /\ b \in Seq({e, f})
  <2>1. e \in {e, f} /\ f \in {e, f}
    OBVIOUS
  <2>2. \A S, x : x \in S => <<x>> \in Seq(S) /\ <<>> \in Seq(S)
    OBVIOUS
  <2> QED
    BY <2>1, <2>2
<1>5. /\ ~Has(<<>>, m)
      /\ Has(b, m) => e = m
      /\ Has(a, m) => f = m /\ on
  <2>1. \A x : Has(<<x>>, m) => x = m
    BY DEF Has
  <2>2. ~Has(<<>>, m)
    BY DEF Has
  <2> QED
    BY <2>1, <2>2
<1> HIDE DEF a, b
<1>6. Has(a \o b, m) <=> Has(a, m) \/ Has(b, m)
  BY <1>4, HasConcat
<1>7. Has(FocusPosts(c), m)
  BY DEF m
<1> QED
  BY <1>2, <1>3, <1>5, <1>6, <1>7 DEF on

\* A call begins: nothing was posted for its channel, and it gets the focus or not.
LEMMA MediaCreated ==
    ASSUME TypeOK, HeldInv, MediaInv, NEW c \in Call, MakeCallTo(c) \/ PeerInitiate(c)
    PROVE  MediaInv'
<1>1. ~Live(c) /\ focus_call_ # c
  <2>1. calls[c] = "none"
    BY DEF MakeCallTo, PeerInitiate
  <2> QED
    BY <2>1, CallClientAssumption DEF HeldInv, SessionsHaveCalls, HeldCallsExist
<1> DEFINE m == Msg("ring", c)
           q == workerQueue \o <<m>>
<1>2. /\ workerQueue \in Seq(WorkMsg) /\ m \in WorkMsg /\ q \in Seq(WorkMsg)
      /\ FocusPosts(c) \in Seq(WorkMsg)
  <2>1. workerQueue \in Seq(WorkMsg) /\ m \in WorkMsg
    BY WorkMessages DEF TypeOK, WorkMsg
  <2>2. session \in [Call -> States]
    BY DEF TypeOK
  <2> HIDE DEF m
  <2> QED
    BY <2>1, <2>2, PostedTypes
<1>3. \/ workerQueue' = q /\ focus_call_' = focus_call_
      \/ workerQueue' = q \o FocusPosts(c) /\ focus_call_' = c
  <2> HIDE DEF m
  <2>1. Append(workerQueue, m) = q
    BY <1>2
  <2> QED
    BY <2>1 DEF MakeCallTo, PeerInitiate, m
<1>4. /\ channel' = [channel EXCEPT ![c] = NewChannel]
      /\ session'[c] \in States \ (Gone \cup Answered)
      /\ \A d \in Call : d # c => session'[d] = session[d]
  BY DEF MakeCallTo, PeerInitiate, TypeOK, States, Gone, Answered
<1> SUFFICES ASSUME NEW d \in Call
             PROVE  /\ (channel[d].live = TRUE)' <=> Live(d)'
                    /\ \A kind \in {"enable", "disable", "ring", "codec"} :
                          Has(workerQueue', Msg(kind, d)) => Live(d)'
                    /\ Live(d)' => (WillBeEnabled(d)' <=> focus_call_' = d)
                    /\ session'[d] \in Answered => ~WillRing(d)'
  BY DEF MediaInv
<1>5. /\ d = c => channel'[d] = NewChannel
      /\ d # c => channel'[d] = channel[d]
  BY <1>4 DEF TypeOK
<1>6. Live(d)' <=> d = c \/ Live(d)
  BY <1>4 DEF Live
<1>7. (channel[d].live = TRUE)' <=> Live(d)'
  BY <1>5, <1>6 DEF MediaInv, NewChannel, NoChannel
<1>8. ASSUME NEW kind \in {"enable", "disable", "ring", "codec"},
             Has(workerQueue', Msg(kind, d))
      PROVE  Live(d)'
  <2> DEFINE x == Msg(kind, d)
  <2>1. Has(q, x) \/ Has(FocusPosts(c), x)
    <3> HIDE DEF x, q
    <3>1. Has(workerQueue', x)
      BY <1>8 DEF x
    <3>2. Has(q \o FocusPosts(c), x) <=> Has(q, x) \/ Has(FocusPosts(c), x)
      BY <1>2, HasConcat
    <3> QED
      BY <1>3, <3>1, <3>2
  <2>2. Has(q, x) => Has(workerQueue, x) \/ m = x
    <3> HIDE DEF x, m
    <3>1. Append(workerQueue, m) = q
      BY <1>2
    <3>2. Has(Append(workerQueue, m), x) <=> Has(workerQueue, x) \/ m = x
      BY <1>2, HasAppend
    <3> QED
      BY <3>1, <3>2
  <2>3. m = x => d = c
    BY WorkMessages
  <2> QED
    BY <1>6, <2>1, <2>2, <2>3, FocusHas DEF MediaInv
<1> DEFINE On(r, now) == Outcome(r, Msg("enable", d), Msg("disable", d), now)
           Rings(r, now) == Outcome(r, Msg("ring", d), Msg("codec", d), now)
           p == workerQueue'
<1>9. /\ WillBeEnabled(d)' <=> On(p, channel'[d].enabled)
      /\ WillRing(d)' <=> Rings(p, channel'[d].ring)
      /\ WillBeEnabled(d) <=> On(workerQueue, channel[d].enabled)
      /\ WillRing(d) <=> Rings(workerQueue, channel[d].ring)
  BY DEF WillBeEnabled, WillRing
<1>10. ASSUME NEW now
       PROVE  /\ On(q, now) <=> On(workerQueue, now)
              /\ d # c => (Rings(q, now) <=> Rings(workerQueue, now))
  <2>1. /\ m \notin {Msg("enable", d), Msg("disable", d)}
        /\ d # c => m \notin {Msg("ring", d), Msg("codec", d)}
        /\ Msg("enable", d) \in WorkMsg /\ Msg("disable", d) \in WorkMsg
        /\ Msg("ring", d) \in WorkMsg /\ Msg("codec", d) \in WorkMsg
        /\ Msg("enable", d) # Msg("disable", d) /\ Msg("ring", d) # Msg("codec", d)
    BY WorkMessages
  <2> HIDE DEF m
  <2> QED
    BY <1>2, <2>1, OutcomePosted
<1>11. ASSUME NEW now
       PROVE  LET r == q \o FocusPosts(c)
              IN  /\ Rings(r, now) <=> Rings(q, now)
                  /\ d = c => On(r, now)
                  /\ d # c => (On(r, now) <=> On(q, now) /\ ~(d = focus_call_ /\ Live(d)))
  <2> HIDE DEF q
  <2> QED
    BY <1>1, <1>2, FocusOutcome
<1>12. ASSUME Live(d)' PROVE WillBeEnabled(d)' <=> focus_call_' = d
  <2>1. CASE d = c
    <3>1. channel'[d].enabled = FALSE
      BY <1>5, <2>1 DEF NewChannel, NoChannel
    <3>2. ~Has(workerQueue, Msg("enable", d)) /\ ~Has(workerQueue, Msg("disable", d))
      BY <1>1, <2>1 DEF MediaInv
    <3>3. On(workerQueue, FALSE) <=> FALSE
      BY <1>2, <3>2, OutcomeNow
    <3>4. ~On(q, FALSE) /\ On(q \o FocusPosts(c), FALSE)
      BY <1>10, <1>11, <2>1, <3>3
    <3> HIDE DEF q, On
    <3> QED
      BY <1>1, <1>3, <1>9, <2>1, <3>1, <3>4
  <2>2. CASE d # c
    <3>1. channel'[d].enabled = channel[d].enabled /\ Live(d)
      BY <1>5, <1>6, <1>12, <2>2
    <3> DEFINE now == channel[d].enabled
    <3>2. On(workerQueue, now) <=> focus_call_ = d
      BY <1>9, <3>1 DEF MediaInv
    <3>3. /\ On(q, now) <=> focus_call_ = d
          /\ ~On(q \o FocusPosts(c), now)
      BY <1>10, <1>11, <2>2, <3>1, <3>2
    <3> HIDE DEF q, On
    <3> QED
      BY <1>3, <1>9, <2>2, <3>1, <3>3
  <2> QED
    BY <2>1, <2>2
<1>13. ASSUME session'[d] \in Answered PROVE ~WillRing(d)'
  <2>1. d # c /\ session[d] \in Answered /\ channel'[d].ring = channel[d].ring
    BY <1>4, <1>5, <1>13
  <2> DEFINE now == channel[d].ring
  <2>2. ~Rings(workerQueue, now)
    BY <1>9, <2>1 DEF MediaInv
  <2>3. ~Rings(q, now) /\ ~Rings(q \o FocusPosts(c), now)
    BY <1>10, <1>11, <2>1, <2>2
  <2> HIDE DEF q, Rings
  <2> QED
    BY <1>3, <1>9, <2>1, <2>3
<1> QED
  BY <1>7, <1>8, <1>12, <1>13

\* A call is answered, by the user, who moves the focus to it, or by the peer.
LEMMA MediaAnswered ==
    ASSUME TypeOK, MediaInv, NEW c \in Call, (Accept /\ c = call_) \/ PeerAccept(c)
    PROVE  MediaInv'
<1>1. Live(c)
  BY DEF Accept, PeerAccept, Live, Gone
<1> DEFINE m == Msg("codec", c)
           q == workerQueue \o <<m>>
<1>2. /\ workerQueue \in Seq(WorkMsg) /\ m \in WorkMsg /\ q \in Seq(WorkMsg)
      /\ FocusPosts(c) \in Seq(WorkMsg)
  <2>1. workerQueue \in Seq(WorkMsg) /\ m \in WorkMsg
    BY WorkMessages DEF TypeOK, WorkMsg
  <2>2. session \in [Call -> States]
    BY DEF TypeOK
  <2> HIDE DEF m
  <2> QED
    BY <2>1, <2>2, PostedTypes
<1>3. PICK w \in {workerQueue, q} :
         /\ \/ workerQueue' = w /\ focus_call_' = focus_call_
            \/ workerQueue' = w \o FocusPosts(c) /\ focus_call_' = c
         /\ w = q \/ session' = session
  <2> HIDE DEF m
  <2>1. Append(workerQueue, m) = q
    BY <1>2
  <2> QED
    BY <2>1 DEF Accept, PeerAccept, m
<1>4. /\ channel' = channel
      /\ session'[c] \notin Gone
      /\ \A d \in Call : d # c => session'[d] = session[d]
  BY <1>1 DEF Accept, PeerAccept, TypeOK, States, Gone, Live
<1> SUFFICES ASSUME NEW d \in Call
             PROVE  /\ (channel[d].live = TRUE)' <=> Live(d)'
                    /\ \A kind \in {"enable", "disable", "ring", "codec"} :
                          Has(workerQueue', Msg(kind, d)) => Live(d)'
                    /\ Live(d)' => (WillBeEnabled(d)' <=> focus_call_' = d)
                    /\ session'[d] \in Answered => ~WillRing(d)'
  BY DEF MediaInv
<1>5. Live(d)' <=> Live(d)
  BY <1>1, <1>4 DEF Live
<1>6. (channel[d].live = TRUE)' <=> Live(d)'
  BY <1>4, <1>5 DEF MediaInv
<1>7. w \in Seq(WorkMsg)
  BY <1>2
<1>8. ASSUME NEW kind \in {"enable", "disable", "ring", "codec"},
             Has(workerQueue', Msg(kind, d))
      PROVE  Live(d)'
  <2> DEFINE x == Msg(kind, d)
  <2>1. Has(w, x) \/ Has(FocusPosts(c), x)
    <3> HIDE DEF x, q
    <3>1. Has(workerQueue', x)
      BY <1>8 DEF x
    <3>2. Has(w \o FocusPosts(c), x) <=> Has(w, x) \/ Has(FocusPosts(c), x)
      BY <1>2, <1>7, HasConcat
    <3> QED
      BY <1>3, <3>1, <3>2
  <2>2. Has(q, x) => Has(workerQueue, x) \/ m = x
    <3> HIDE DEF x, m
    <3>1. Append(workerQueue, m) = q
      BY <1>2
    <3>2. Has(Append(workerQueue, m), x) <=> Has(workerQueue, x) \/ m = x
      BY <1>2, HasAppend
    <3> QED
      BY <3>1, <3>2
  <2>3. m = x => d = c
    BY WorkMessages
  <2> HIDE DEF q
  <2> QED
    BY <1>1, <1>5, <2>1, <2>2, <2>3, FocusHas DEF MediaInv
<1> DEFINE On(r, now) == Outcome(r, Msg("enable", d), Msg("disable", d), now)
           Rings(r, now) == Outcome(r, Msg("ring", d), Msg("codec", d), now)
           p == workerQueue'
           on == channel[d].enabled
           rings == channel[d].ring
<1>9. /\ WillBeEnabled(d)' <=> On(p, on)
      /\ WillRing(d)' <=> Rings(p, rings)
      /\ WillBeEnabled(d) <=> On(workerQueue, on)
      /\ WillRing(d) <=> Rings(workerQueue, rings)
  BY <1>4 DEF WillBeEnabled, WillRing
<1>10. /\ On(q, on) <=> On(workerQueue, on)
       /\ d # c => (Rings(q, rings) <=> Rings(workerQueue, rings))
       /\ d = c => ~Rings(q, rings)
  <2>1. /\ m \notin {Msg("enable", d), Msg("disable", d)}
        /\ d # c => m \notin {Msg("ring", d), Msg("codec", d)}
        /\ d = c => m = Msg("codec", d)
        /\ Msg("enable", d) \in WorkMsg /\ Msg("disable", d) \in WorkMsg
        /\ Msg("ring", d) \in WorkMsg /\ Msg("codec", d) \in WorkMsg
        /\ Msg("enable", d) # Msg("disable", d) /\ Msg("ring", d) # Msg("codec", d)
    BY WorkMessages
  <2> HIDE DEF m
  <2> QED
    BY <1>2, <2>1, OutcomePosted
<1>11. ASSUME NEW now
       PROVE  LET r == w \o FocusPosts(c)
              IN  /\ Rings(r, now) <=> Rings(w, now)
                  /\ focus_call_ = c => (On(r, now) <=> On(w, now))
                  /\ focus_call_ # c /\ d = c => On(r, now)
                  /\ focus_call_ # c /\ d # c =>
                        (On(r, now) <=> On(w, now) /\ ~(d = focus_call_ /\ Live(d)))
  <2> HIDE DEF q
  <2> QED
    BY <1>7, FocusOutcome
<1>12. ASSUME Live(d)' PROVE WillBeEnabled(d)' <=> focus_call_' = d
  <2>1. On(w, on) <=> focus_call_ = d
    BY <1>5, <1>9, <1>10, <1>12 DEF MediaInv
  <2>2. On(w \o FocusPosts(c), on) <=> d = c
    BY <1>5, <1>11, <1>12, <2>1
  <2> HIDE DEF q, On
  <2> QED
    BY <1>3, <1>9, <2>1, <2>2
<1>13. ASSUME session'[d] \in Answered PROVE ~WillRing(d)'
  <2>1. session'[d] = session[d] => ~Rings(workerQueue, rings)
    BY <1>9, <1>13 DEF MediaInv
  <2>2. ~Rings(w, rings)
    <3>1. CASE session' = session
      BY <1>10, <2>1, <3>1
    <3>2. CASE w = q
      BY <1>4, <1>10, <2>1, <3>2
    <3> QED
      BY <1>3, <3>1, <3>2
  <2>3. ~Rings(w \o FocusPosts(c), rings)
    BY <1>11, <2>2
  <2> HIDE DEF q, Rings
  <2> QED
    BY <1>3, <1>9, <2>2, <2>3
<1> QED
  BY <1>6, <1>8, <1>12, <1>13

\* A session ends, and with it its channel.
LEMMA MediaDestroyed ==
    ASSUME TypeOK, MediaInv, NEW c \in Call, DestroySession(c)
    PROVE  MediaInv'
<1> DEFINE kinds == {"enable", "disable", "ring", "codec"}
<1>1. /\ workerQueue' = Cleared(workerQueue, kinds, c)
      /\ channel'[c] = NoChannel /\ session'[c] = "deleted"
      /\ \A d \in Call : d # c => channel'[d] = channel[d] /\ session'[d] = session[d]
      /\ UNCHANGED focus_call_
  BY DEF DestroySession, TypeOK
<1>2. workerQueue \in Seq(WorkMsg)
  BY DEF TypeOK, WorkMsg
<1>3. \A m : Has(workerQueue', m)
           <=> Has(workerQueue, m) /\ m \notin [kind : kinds, of : {c}]
  <2> DEFINE S == [kind : kinds, of : {c}]
  <2>1. workerQueue' = Without(workerQueue, S)
    BY <1>1 DEF Cleared
  <2> HIDE DEF S
  <2>2. \A m : Has(Without(workerQueue, S), m) <=> Has(workerQueue, m) /\ m \notin S
    BY <1>2, WithoutHas
  <2>3. \A m : Has(workerQueue', m) <=> Has(workerQueue, m) /\ m \notin S
    BY <2>1, <2>2
  <2> QED
    BY <2>3 DEF S
<1> SUFFICES ASSUME NEW d \in Call
             PROVE  /\ (channel[d].live = TRUE)' <=> Live(d)'
                    /\ \A kind \in kinds : Has(workerQueue', Msg(kind, d)) => Live(d)'
                    /\ Live(d)' => (WillBeEnabled(d)' <=> focus_call_' = d)
                    /\ session'[d] \in Answered => ~WillRing(d)'
  BY DEF MediaInv
<1>4. CASE d = c
  <2>1. ~Live(d)' /\ channel'[d].live = FALSE /\ session'[d] \notin Answered
    BY <1>1, <1>4 DEF Live, Gone, NoChannel, Answered
  <2>2. \A kind \in kinds : Msg(kind, d) \in [kind : kinds, of : {c}]
    BY <1>4 DEF Msg
  <2> QED
    BY <1>3, <2>1, <2>2
<1>5. CASE d # c
  <2>1. /\ channel'[d] = channel[d] /\ session'[d] = session[d] /\ (Live(d)' <=> Live(d))
    BY <1>1, <1>5 DEF Live
  <2>2. \A kind \in kinds : Has(workerQueue', Msg(kind, d)) => Live(d)'
    BY <1>3, <2>1 DEF MediaInv
  <2>3. \A kind \in kinds : Msg(kind, d) \in WorkMsg /\ Msg(kind, d).of # c
    BY <1>5, WorkMessages
  <2>4. /\ WillBeEnabled(d)' <=> WillBeEnabled(d)
        /\ WillRing(d)' <=> WillRing(d)
    BY <1>1, <1>2, <2>1, <2>3, OutcomeCleared DEF WillBeEnabled, WillRing
  <2> QED
    BY <1>1, <2>1, <2>2, <2>4 DEF MediaInv
<1> QED
  BY <1>4, <1>5

\* The worker does what was posted first.
LEMMA MediaWorks ==
    ASSUME TypeOK, MediaInv, Work
    PROVE  MediaInv'
<1> DEFINE m == Head(workerQueue)
<1>1. /\ workerQueue \in Seq(WorkMsg) /\ workerQueue # <<>>
      /\ workerQueue' = Tail(workerQueue)
      /\ channel' = [channel EXCEPT ![m.of] = Played(channel[m.of], m.kind)]
      /\ UNCHANGED <<session, focus_call_>>
  BY DEF Work, TypeOK, WorkMsg, sessionVars
<1>2. m \in WorkMsg
  BY <1>1, Tailed
<1>3. /\ m.of \in Call /\ m = Msg(m.kind, m.of)
      /\ m.kind \in {"enable", "disable", "ring", "codec"}
  BY <1>2, WorkMessages
<1> SUFFICES ASSUME NEW d \in Call
             PROVE  /\ (channel[d].live = TRUE)' <=> Live(d)'
                    /\ \A kind \in {"enable", "disable", "ring", "codec"} :
                          Has(workerQueue', Msg(kind, d)) => Live(d)'
                    /\ Live(d)' => (WillBeEnabled(d)' <=> focus_call_' = d)
                    /\ session'[d] \in Answered => ~WillRing(d)'
  BY DEF MediaInv
<1> HIDE DEF m
<1> DEFINE old == channel[d]
           new == channel'[d]
<1>4. /\ old \in [live : BOOLEAN, enabled : BOOLEAN, ring : BOOLEAN]
      /\ new = IF d = m.of THEN Played(old, m.kind) ELSE old
  BY <1>1, <1>3 DEF TypeOK
<1> HIDE DEF old, new
<1>5. /\ new.live = old.live
      /\ new.enabled <=> m = Msg("enable", d) \/ (m # Msg("disable", d) /\ old.enabled)
      /\ new.ring <=> m = Msg("ring", d) \/ (m # Msg("codec", d) /\ old.ring)
      /\ new \in [live : BOOLEAN, enabled : BOOLEAN, ring : BOOLEAN]
  <2>1. \A kind : m = Msg(kind, d) <=> m.kind = kind /\ m.of = d
    BY <1>3, WorkMessages
  <2>2. CASE d # m.of
    BY <1>4, <2>1, <2>2
  <2>3. CASE d = m.of /\ m.kind = "enable"
    <3>1. new = [old EXCEPT !.enabled = TRUE]
      BY <1>4, <2>3 DEF Played
    <3>2. /\ new.enabled = TRUE /\ new.ring = old.ring /\ new.live = old.live
          /\ new \in [live : BOOLEAN, enabled : BOOLEAN, ring : BOOLEAN]
      BY <1>4, <3>1
    <3>3. /\ m = Msg("enable", d) /\ m # Msg("disable", d)
          /\ m # Msg("ring", d) /\ m # Msg("codec", d)
      BY <2>1, <2>3
    <3> QED
      BY <3>2, <3>3
  <2>4. CASE d = m.of /\ m.kind = "disable"
    <3>1. new = [old EXCEPT !.enabled = FALSE]
      BY <1>4, <2>4 DEF Played
    <3>2. /\ new.enabled = FALSE /\ new.ring = old.ring /\ new.live = old.live
          /\ new \in [live : BOOLEAN, enabled : BOOLEAN, ring : BOOLEAN]
      BY <1>4, <3>1
    <3>3. /\ m = Msg("disable", d) /\ m # Msg("enable", d)
          /\ m # Msg("ring", d) /\ m # Msg("codec", d)
      BY <2>1, <2>4
    <3> QED
      BY <3>2, <3>3
  <2>5. CASE d = m.of /\ m.kind = "ring"
    <3>1. new = [old EXCEPT !.ring = TRUE]
      BY <1>4, <2>5 DEF Played
    <3>2. /\ new.ring = TRUE /\ new.enabled = old.enabled /\ new.live = old.live
          /\ new \in [live : BOOLEAN, enabled : BOOLEAN, ring : BOOLEAN]
      BY <1>4, <3>1
    <3>3. /\ m = Msg("ring", d) /\ m # Msg("enable", d)
          /\ m # Msg("disable", d) /\ m # Msg("codec", d)
      BY <2>1, <2>5
    <3> QED
      BY <3>2, <3>3
  <2>6. CASE d = m.of /\ m.kind = "codec"
    <3>1. new = [old EXCEPT !.ring = FALSE]
      BY <1>4, <2>6 DEF Played
    <3>2. /\ new.ring = FALSE /\ new.enabled = old.enabled /\ new.live = old.live
          /\ new \in [live : BOOLEAN, enabled : BOOLEAN, ring : BOOLEAN]
      BY <1>4, <3>1
    <3>3. /\ m = Msg("codec", d) /\ m # Msg("enable", d)
          /\ m # Msg("disable", d) /\ m # Msg("ring", d)
      BY <2>1, <2>6
    <3> QED
      BY <3>2, <3>3
  <2> QED
    BY <1>3, <2>2, <2>3, <2>4, <2>5, <2>6
<1>6. /\ old.enabled \in BOOLEAN /\ new.enabled \in BOOLEAN
      /\ old.ring \in BOOLEAN /\ new.ring \in BOOLEAN
  BY <1>4, <1>5
<1>7. /\ Msg("enable", d) \in WorkMsg /\ Msg("disable", d) \in WorkMsg
      /\ Msg("ring", d) \in WorkMsg /\ Msg("codec", d) \in WorkMsg
      /\ Msg("enable", d) # Msg("disable", d) /\ Msg("ring", d) # Msg("codec", d)
  BY WorkMessages
<1>8. WillBeEnabled(d)' <=> WillBeEnabled(d)
  <2> DEFINE on == Msg("enable", d)
             off == Msg("disable", d)
  <2>1. on \in WorkMsg /\ off \in WorkMsg /\ on # off
    BY <1>7
  <2> DEFINE now == old.enabled
             then == new.enabled
  <2>2. then <=> Head(workerQueue) = on \/ (Head(workerQueue) # off /\ now)
    BY <1>5, <1>7 DEF m
  <2> HIDE DEF on, off, now, then
  <2>3. now \in BOOLEAN /\ then \in BOOLEAN
    BY <1>6 DEF now, then
  <2>4. Outcome(Tail(workerQueue), on, off, then) <=> Outcome(workerQueue, on, off, now)
    BY <1>1, <2>1, <2>2, <2>3, OutcomeTaken
  <2> QED
    BY <1>1, <2>4 DEF WillBeEnabled, old, new, on, off, now, then
<1>9. WillRing(d)' <=> WillRing(d)
  <2> DEFINE on == Msg("ring", d)
             off == Msg("codec", d)
  <2>1. on \in WorkMsg /\ off \in WorkMsg /\ on # off
    BY <1>7
  <2> DEFINE now == old.ring
             then == new.ring
  <2>2. then <=> Head(workerQueue) = on \/ (Head(workerQueue) # off /\ now)
    BY <1>5, <1>7 DEF m
  <2> HIDE DEF on, off, now, then
  <2>3. now \in BOOLEAN /\ then \in BOOLEAN
    BY <1>6 DEF now, then
  <2>4. Outcome(Tail(workerQueue), on, off, then) <=> Outcome(workerQueue, on, off, now)
    BY <1>1, <2>1, <2>2, <2>3, OutcomeTaken
  <2> QED
    BY <1>1, <2>4 DEF WillRing, old, new, on, off, now, then
<1>10. Live(d)' <=> Live(d)
  BY <1>1 DEF Live
<1>11. \A x : Has(workerQueue', x) => Has(workerQueue, x)
  BY <1>1, HasTail
<1> QED
  BY <1>1, <1>5, <1>8, <1>9, <1>10, <1>11 DEF MediaInv, old, new

LEMMA MediaStep == TypeOK /\ HeldInv /\ MediaInv /\ [Next]_vars => MediaInv'
<1> SUFFICES ASSUME TypeOK, HeldInv, MediaInv, [Next]_vars PROVE MediaInv'
  OBVIOUS
<1>1. session \in [Call -> States] /\ call_ \in Call \cup {NoCall}
  BY DEF TypeOK
<1>2. ASSUME NEW c \in Call, MakeCallTo(c) \/ PeerInitiate(c) PROVE MediaInv'
  BY <1>2, MediaCreated
<1>3. CASE Accept
  <2>1. call_ \in Call
    BY <1>1, <1>3 DEF Accept
  <2> QED
    BY <1>3, <2>1, MediaAnswered
<1>4. ASSUME NEW c \in Call, PeerAccept(c) PROVE MediaInv'
  BY <1>4, MediaAnswered
<1>5. CASE Reject \/ HangUp
  <2>1. session' = Terminated(session, call_) /\ UNCHANGED mediaVars
    BY <1>5 DEF Reject, HangUp
  <2> QED
    BY <1>1, <2>1, TerminatedMedia, MediaSame DEF mediaVars
<1>6. CASE AnswerNothing \/ UseDeleted
  <2>1. UNCHANGED <<session, mediaVars>>
    BY <1>6 DEF AnswerNothing, UseDeleted, sessionVars
  <2> QED
    BY <2>1, MediaSame DEF mediaVars
<1>7. ASSUME NEW c \in Call, PeerReject(c) \/ PeerTerminate(c) PROVE MediaInv'
  <2>1. PICK state \in {"RECEIVEDREJECT", "RECEIVEDTERMINATE"} :
            EndedByPeer(c, state) /\ Live(c)
    BY <1>7 DEF PeerReject, PeerTerminate, Live, Gone
  <2> DEFINE s == [session EXCEPT ![c] = state]
  <2>2. /\ s \in [Call -> States]
        /\ \A d \in Call : /\ s[d] \notin Gone <=> session[d] \notin Gone
                           /\ s[d] \in Answered => session[d] \in Answered
    BY <1>1, <2>1 DEF States, Gone, Live, Answered
  <2>3. session' = Terminated(s, call_) /\ UNCHANGED mediaVars
    BY <2>1 DEF EndedByPeer
  <2> HIDE DEF s
  <2>4. \A d \in Call : /\ session'[d] \notin Gone <=> s[d] \notin Gone
                        /\ session'[d] \in Answered => s[d] \in Answered
    BY <1>1, <2>2, <2>3, TerminatedMedia
  <2> QED
    BY <2>2, <2>3, <2>4, MediaSame DEF mediaVars
<1>8. ASSUME NEW c \in Call, SetError(c) PROVE MediaInv'
  <2>1. UNCHANGED <<session, mediaVars>>
    BY <1>8 DEF SetError
  <2> QED
    BY <2>1, MediaSame DEF mediaVars
<1>9. ASSUME NEW c \in Call, OnState(c) PROVE MediaInv'
  <2>1. /\ \A d \in Call : /\ session'[d] \notin Gone <=> session[d] \notin Gone
                           /\ session'[d] \in Answered => session[d] \in Answered
        /\ UNCHANGED mediaVars
    BY <1>1, <1>9 DEF OnState, Gone, Answered
  <2> QED
    BY <2>1, MediaSame DEF mediaVars
<1>10. ASSUME NEW c \in Call, DestroySession(c) PROVE MediaInv'
  BY <1>10, MediaDestroyed
<1>11. ASSUME NEW c \in Call, OnError(c) \/ OnTerminateCall(c) PROVE MediaInv'
  <2>1. session' = Terminated(session, c) /\ UNCHANGED mediaVars
    BY <1>11 DEF OnError, OnTerminateCall
  <2> QED
    BY <1>1, <2>1, TerminatedMedia, MediaSame DEF mediaVars
<1>12. ASSUME NEW c \in Call, DestroyCall(c) PROVE MediaInv'
  <2>1. /\ UNCHANGED <<session, channel, workerQueue>> /\ ~Live(c)
        /\ focus_call_' = IF focus_call_ = c THEN NoCall ELSE focus_call_
    BY <1>12 DEF DestroyCall
  <2>2. \A d \in Call : Live(d) => (focus_call_' = d <=> focus_call_ = d)
    BY <2>1, CallClientAssumption
  <2> QED
    BY <2>1, <2>2, MediaSame
<1>13. CASE Work
  BY <1>13, MediaWorks
<1>14. CASE UNCHANGED vars
  <2>1. UNCHANGED <<session, mediaVars>>
    BY <1>14 DEF vars, sessionVars
  <2> QED
    BY <2>1, MediaSame DEF mediaVars
<1> QED
  BY <1>2, <1>3, <1>4, <1>5, <1>6, <1>7, <1>8, <1>9, <1>10, <1>11, <1>12, <1>13,
     <1>14 DEF Next, User, Peers, Dispatch

LEMMA MediaHolds == Spec => []MediaInv
<1>1. Init => TypeOK /\ HeldInv /\ MediaInv
  BY TypeInit, HeldInvInit, MediaInit
<1>2. TypeOK /\ HeldInv /\ MediaInv /\ [Next]_vars => TypeOK' /\ HeldInv' /\ MediaInv'
  BY TypeStep, HeldInvStep, MediaStep
<1> QED
  BY <1>1, <1>2, PTL DEF Spec

\* The messages that nobody waits for are done.
LEMMA NothingPending ==
    ASSUME NEW c \in Call, ~Pending(c),
           NEW kind \in {"enable", "disable", "ring", "codec"}
    PROVE  ~Has(workerQueue, Msg(kind, c))
BY DEF Pending, Has, Msg

\* Once the worker has done what was posted, the call with the focus is heard, and
\* no other, however many calls there are and however the focus has moved.
THEOREM AudioIsWithTheFocus == Spec => []AudioFollowsFocus
<1>1. TypeOK /\ MediaInv => AudioFollowsFocus
  <2> SUFFICES ASSUME TypeOK, MediaInv, NEW c \in Call, channel[c].live, ~Pending(c)
               PROVE  channel[c].enabled <=> focus_call_ = c
    BY DEF AudioFollowsFocus
  <2>1. channel[c].live = TRUE /\ workerQueue \in Seq(WorkMsg)
    BY DEF TypeOK, WorkMsg
  <2>2. WillBeEnabled(c) <=> focus_call_ = c
    BY <2>1 DEF MediaInv
  <2>3. ~Has(workerQueue, Msg("enable", c)) /\ ~Has(workerQueue, Msg("disable", c))
    BY NothingPending
  <2>4. WillBeEnabled(c) <=> channel[c].enabled
    BY <2>1, <2>3, OutcomeNow DEF WillBeEnabled
  <2> QED
    BY <2>2, <2>4
<1> QED
  BY <1>1, MediaHolds, CallTypes, PTL

\* A call that was answered does not go on ringing.
THEOREM AnsweredIsSilent == Spec => []RingingStops
<1>1. TypeOK /\ MediaInv => RingingStops
  <2> SUFFICES ASSUME TypeOK, MediaInv, NEW c \in Call, channel[c].ring, ~Pending(c),
                      session[c] \in Answered
               PROVE  FALSE
    BY DEF RingingStops, Answered
  <2>1. workerQueue \in Seq(WorkMsg)
    BY DEF TypeOK, WorkMsg
  <2>2. ~Has(workerQueue, Msg("ring", c)) /\ ~Has(workerQueue, Msg("codec", c))
    BY NothingPending
  <2>3. WillRing(c) <=> channel[c].ring
    BY <2>1, <2>2, OutcomeNow DEF WillRing
  <2> QED
    BY <2>3 DEF MediaInv
<1> QED
  BY <1>1, MediaHolds, CallTypes, PTL
=============================================================================
