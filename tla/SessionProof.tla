---------------------------- MODULE SessionProof ----------------------------
(***************************************************************************)
(* Proofs about Session: for any set of peers, any number of redirects and *)
(* any peers that may crash.                                               *)
(*                                                                         *)
(* In this order: the types; that every message of a session is posted     *)
(* when it must be and never outlives it (Sound); that there is one        *)
(* question between the two ends (AgreeInv), from which what they were     *)
(* told stands and the session is to its users a CallSetup; and that the   *)
(* timers fit the state (TimedInv).                                        *)
(***************************************************************************)
EXTENDS Session, TLAPS

----------------------------------------------------------------------------
(* What the operations on a queue do to the messages it holds. *)

LEMMA PostedStates ==
    ASSUME NEW s \in Seq(Posted), NEW n \in Nat
    PROVE  LET t == s \o [i \in 1..n |-> "state"]
           IN  /\ t \in Seq(Posted)
               /\ \A m \in Posted : Has(s, m) => Has(t, m)
               /\ n > 0 => Has(t, "state")
               /\ \A m \in Posted : Has(t, m) => Has(s, m) \/ m = "state"
<1> DEFINE u == [i \in 1..n |-> "state"]
           t == s \o u
<1>1. u \in Seq(Posted) /\ Len(u) = n
  BY DEF Posted
<1>2. t \in Seq(Posted) /\ Len(t) = Len(s) + n
  BY <1>1
<1>3. \A i \in 1..Len(s) : t[i] = s[i]
  BY <1>1
<1>4. \A i \in 1..n : t[Len(s) + i] = "state"
  BY <1>1
<1>5. \A m \in Posted : Has(s, m) => Has(t, m)
  BY <1>2, <1>3 DEF Has
<1>6. n > 0 => Has(t, "state")
  <2> HAVE n > 0
  <2>1. Len(s) + 1 \in 1..Len(t) /\ t[Len(s) + 1] = "state"
    BY <1>2, <1>4
  <2> QED BY <2>1 DEF Has
<1>7. \A m \in Posted : Has(t, m) => Has(s, m) \/ m = "state"
  <2> SUFFICES ASSUME NEW m \in Posted, NEW i \in 1..Len(t), t[i] = m
               PROVE  Has(s, m) \/ m = "state"
    BY DEF Has
  <2>1. CASE i <= Len(s)
    BY <2>1, <1>2, <1>3 DEF Has
  <2>2. CASE i > Len(s)
    <3>1. i - Len(s) \in 1..n /\ i = Len(s) + (i - Len(s))
      BY <2>2, <1>2
    <3> QED BY <3>1, <1>4
  <2> QED BY <2>1, <2>2, <1>2
<1> QED BY <1>2, <1>5, <1>6, <1>7

LEMMA Appended ==
    ASSUME NEW s \in Seq(Posted), NEW x \in Posted
    PROVE  /\ Append(s, x) \in Seq(Posted)
           /\ Has(Append(s, x), x)
           /\ \A m \in Posted : Has(Append(s, x), m) <=> Has(s, m) \/ m = x
<1> DEFINE t == Append(s, x)
<1>1. t \in Seq(Posted) /\ Len(t) = Len(s) + 1
  OBVIOUS
<1>2. (\A i \in 1..Len(s) : t[i] = s[i]) /\ t[Len(s) + 1] = x
  OBVIOUS
<1>3. Has(t, x)
  BY <1>1, <1>2 DEF Has
<1>4. ASSUME NEW m \in Posted
      PROVE  Has(t, m) <=> Has(s, m) \/ m = x
  BY <1>1, <1>2, <1>3 DEF Has
<1> QED BY <1>1, <1>3, <1>4

LEMMA Taken ==
    ASSUME NEW s \in Seq(Posted), s # <<>>
    PROVE  /\ Tail(s) \in Seq(Posted)
           /\ Head(s) \in Posted
           /\ \A m \in Posted : m # Head(s) => (Has(Tail(s), m) <=> Has(s, m))
           /\ \A m \in Posted : Has(Tail(s), m) => Has(s, m)
<1>1. Tail(s) \in Seq(Posted) /\ Len(Tail(s)) = Len(s) - 1 /\ Len(s) > 0
  OBVIOUS
<1>2. \A i \in 1..Len(Tail(s)) : Tail(s)[i] = s[i + 1]
  OBVIOUS
<1>3. Head(s) = s[1] /\ Head(s) \in Posted
  OBVIOUS
<1>4. ASSUME NEW m \in Posted, Has(Tail(s), m)
      PROVE  Has(s, m)
  <2>1. PICK i \in 1..Len(Tail(s)) : Tail(s)[i] = m
    BY <1>4 DEF Has
  <2>2. i + 1 \in 1..Len(s) /\ s[i + 1] = m
    BY <2>1, <1>1, <1>2
  <2> QED BY <2>2 DEF Has
<1>5. ASSUME NEW m \in Posted, m # Head(s), Has(s, m)
      PROVE  Has(Tail(s), m)
  <2>1. PICK i \in 1..Len(s) : s[i] = m
    BY <1>5 DEF Has
  <2>2. i - 1 \in 1..Len(Tail(s)) /\ Tail(s)[i - 1] = m
    BY <2>1, <1>1, <1>2, <1>3, <1>5
  <2> QED BY <2>2 DEF Has
<1> QED BY <1>1, <1>3, <1>4, <1>5

----------------------------------------------------------------------------
(* Type correctness *)

LEMMA StanzaTypes ==
    /\ \A type \in MessageType : Request(type) \in Stanza
    /\ \A t \in Peer : RedirectTo(t) \in Stanza
    /\ \A m \in Stanza : ErrorReply(m) \in Stanza
  BY DEF Request, RedirectTo, ErrorReply, Stanza, MessageType

\* Sending keeps the network typed.
LEMMA SendToType ==
    ASSUME TypeOK, NEW p \in Peer, NEW q \in Peer \cup {Nobody},
           NEW m \in Stanza, SendTo(p, q, m)
    PROVE  net' \in [Peer -> [Peer -> Seq(Stanza)]]
<1>1. net \in [Peer -> [Peer -> Seq(Stanza)]]
  BY DEF TypeOK
<1>2. CASE q \in Peer
  <2>1. Append(net[p][q], m) \in Seq(Stanza)
    BY <1>1, <1>2
  <2> QED BY <1>1, <1>2, <2>1 DEF SendTo
<1>3. CASE q \notin Peer
  BY <1>1, <1>3 DEF SendTo
<1> QED BY <1>2, <1>3

LEMMA SendTerminateType ==
    ASSUME TypeOK, NEW p \in Peer, SendTerminate(p)
    PROVE  net' \in [Peer -> [Peer -> Seq(Stanza)]]
<1>1. Request("terminate") \in Stanza
  BY StanzaTypes DEF MessageType
<1>2. remote[p] \in Peer \cup {Nobody}
  BY DEF TypeOK
<1>3. CASE state[p] \in Declined
  BY <1>3 DEF SendTerminate, TypeOK
<1>4. CASE state[p] \notin Declined
  BY <1>1, <1>2, <1>4, SendToType DEF SendTerminate
<1> QED BY <1>3, <1>4

LEMMA SetStateType ==
    ASSUME TypeOK, NEW p \in Peer, NEW s \in State, NEW n \in Nat,
           SetState(p, s, n)
    PROVE  /\ state' \in [Peer -> State]
           /\ queue' \in [Peer -> Seq(Posted)]
<1>1. queue[p] \in Seq(Posted)
  BY DEF TypeOK
<1>2. queue[p] \o [i \in 1..n |-> "state"] \in Seq(Posted)
  BY <1>1, PostedStates
<1> QED BY <1>2 DEF TypeOK, SetState

LEMMA FollowUpType ==
    ASSUME TypeOK, NEW p \in Peer, NEW s \in State, NEW n \in Nat,
           FollowUp(p, s, n)
    PROVE  TypeOK'
<1>1. queue[p] \in Seq(Posted) /\ queue[p] # <<>>
  BY DEF TypeOK, FollowUp, AtHead
<1>2. Tail(queue[p]) \in Seq(Posted)
  BY <1>1, Taken
<1>3. Tail(queue[p]) \o [i \in 1..n |-> "state"] \in Seq(Posted)
  BY <1>2, PostedStates
<1> QED BY <1>3 DEF TypeOK, FollowUp, timerVars, worldVars

LEMMA TakeStanzaType ==
    ASSUME TypeOK, NEW p \in Peer, TakeStanza(p), inbox[p] # <<>>
    PROVE  /\ inbox' \in [Peer -> Seq(Delivery)]
           /\ failed' \in [Peer -> Seq(Delivery)]
           /\ running' \in [Peer -> BOOLEAN]
           /\ Head(inbox[p]).stanza \in Stanza
           /\ Head(inbox[p]).stanza.target \in Peer \cup {Nobody}
<1>1. inbox[p] \in Seq(Delivery)
  BY DEF TypeOK
<1>2. Tail(inbox[p]) \in Seq(Delivery) /\ Head(inbox[p]) \in Delivery
  BY <1>1
<1> QED BY <1>2 DEF TypeOK, TakeStanza, Delivery, Stanza

LEMMA SetErrorType ==
    ASSUME TypeOK, NEW p \in Peer, NEW e \in Error, SetError(p, e)
    PROVE  /\ error' \in [Peer -> Error]
           /\ callTimer' \in [Peer -> BOOLEAN]
           /\ queue' \in [Peer -> Seq(Posted)]
<1>1. Append(queue[p], "error") \in Seq(Posted)
  BY DEF TypeOK, Posted
<1> QED BY <1>1 DEF TypeOK, SetError

LEMMA CommandType ==
    ASSUME TypeOK, NEW p \in Peer, Command(p)
    PROVE  TypeOK'
<1> USE DEF sessionVars, timerVars, threadVars, worldVars
<1>1. ASSUME NEW q \in Peer, Initiate(p, q)
      PROVE  TypeOK'
  <2>1. Request("initiate") \in Stanza
    BY StanzaTypes DEF MessageType
  <2>2. net' \in [Peer -> [Peer -> Seq(Stanza)]]
    BY <1>1, <2>1, SendToType DEF Initiate
  <2>3. state' \in [Peer -> State] /\ queue' \in [Peer -> Seq(Posted)]
    BY <1>1, SetStateType DEF Initiate, State
  <2> QED BY <1>1, <2>2, <2>3 DEF TypeOK, Initiate
<1>2. ASSUME Accept(p)
      PROVE  TypeOK'
  <2>1. Request("accept") \in Stanza
    BY StanzaTypes DEF MessageType
  <2>2. net' \in [Peer -> [Peer -> Seq(Stanza)]]
    BY <1>2, <2>1, SendToType DEF Accept, TypeOK
  <2>3. state' \in [Peer -> State] /\ queue' \in [Peer -> Seq(Posted)]
    BY <1>2, SetStateType DEF Accept, State, TypeOK
  <2> QED BY <1>2, <2>2, <2>3 DEF TypeOK, Accept
<1>3. ASSUME Reject(p)
      PROVE  TypeOK'
  <2>1. Request("reject") \in Stanza
    BY StanzaTypes DEF MessageType
  <2>2. net' \in [Peer -> [Peer -> Seq(Stanza)]]
    BY <1>3, <2>1, SendToType DEF Reject, TypeOK
  <2>3. state' \in [Peer -> State] /\ queue' \in [Peer -> Seq(Posted)]
    BY <1>3, SetStateType DEF Reject, State
  <2> QED BY <1>3, <2>2, <2>3 DEF TypeOK, Reject
<1>4. ASSUME NEW q \in Peer, Redirect(p, q)
      PROVE  TypeOK'
  <2>1. RedirectTo(q) \in Stanza
    BY StanzaTypes
  <2>2. net' \in [Peer -> [Peer -> Seq(Stanza)]]
    BY <1>4, <2>1, SendToType DEF Redirect, TypeOK
  <2>3. state' \in [Peer -> State] /\ queue' \in [Peer -> Seq(Posted)]
    BY <1>4, SetStateType DEF Redirect, State
  <2>4. redirects' \in Nat
    BY <1>4 DEF TypeOK, Redirect
  <2> QED BY <1>4, <2>2, <2>3, <2>4 DEF TypeOK, Redirect
<1>5. ASSUME Terminate(p)
      PROVE  TypeOK'
  <2>1. net' \in [Peer -> [Peer -> Seq(Stanza)]]
    BY <1>5, SendTerminateType DEF Terminate
  <2>2. state' \in [Peer -> State] /\ queue' \in [Peer -> Seq(Posted)]
    BY <1>5, SetStateType DEF Terminate, State
  <2> QED BY <1>5, <2>1, <2>2 DEF TypeOK, Terminate
<1> QED BY <1>1, <1>2, <1>3, <1>4, <1>5 DEF Command

LEMMA DispatchType ==
    ASSUME TypeOK, NEW p \in Peer, Dispatch(p)
    PROVE  TypeOK'
<1> USE DEF sessionVars, timerVars, threadVars, worldVars
<1>1. ASSUME RunTasks(p)
      PROVE  TypeOK'
  <2>1. Tail(queue[p]) \in Seq(Posted)
    BY <1>1, Taken DEF TypeOK, RunTasks, AtHead
  <2> QED BY <1>1, <2>1 DEF TypeOK, RunTasks
<1>2. Progress(p) => TypeOK'
  BY FollowUpType DEF Progress, State
<1>3. Conclude(p) => TypeOK'
  BY FollowUpType DEF Conclude, State
<1>4. Ignore(p) => TypeOK'
  BY FollowUpType DEF Ignore, TypeOK
<1>5. ASSUME DestroySession(p)
      PROVE  TypeOK'
  <2>1. /\ <<"run", "checkcall">> \in Seq(Posted)
        /\ <<"checkcall">> \in Seq(Posted)
    <3>1. "run" \in Posted /\ "checkcall" \in Posted
      BY DEF Posted
    <3> QED BY <3>1
  <2>2. queue' \in [Peer -> Seq(Posted)]
    BY <1>5, <2>1 DEF TypeOK, DestroySession
  <2> QED BY <1>5, <2>2 DEF TypeOK, DestroySession, State
<1>6. ASSUME CheckAutoDestroy(p)
      PROVE  TypeOK'
  <2>1. Tail(queue[p]) \in Seq(Posted)
    BY <1>6, Taken DEF TypeOK, CheckAutoDestroy, AtHead
  <2> QED BY <1>6, <2>1 DEF TypeOK, CheckAutoDestroy
<1>7. ASSUME OnError(p)
      PROVE  TypeOK'
  <2>1. Tail(queue[p]) \in Seq(Posted)
    BY <1>7, Taken DEF TypeOK, OnError, AtHead
  <2>2. Append(Tail(queue[p]), "state") \in Seq(Posted)
    BY <2>1 DEF Posted
  <2>3. net' \in [Peer -> [Peer -> Seq(Stanza)]]
    BY <1>7, SendTerminateType DEF OnError, TypeOK
  <2>4. state' \in [Peer -> State] /\ queue' \in [Peer -> Seq(Posted)]
    BY <1>7, <2>1, <2>2 DEF TypeOK, OnError, State
  <2> QED BY <1>7, <2>3, <2>4 DEF TypeOK, OnError
<1> QED BY <1>1, <1>2, <1>3, <1>4, <1>5, <1>6, <1>7 DEF Dispatch

LEMMA RingType ==
    ASSUME TypeOK, NEW p \in Peer, NEW q \in Peer,
           NEW answer \in {"later", "accept", "reject"}, Ring(p, q, answer)
    PROVE  TypeOK'
<1>1. /\ inbox' \in [Peer -> Seq(Delivery)]
      /\ failed' \in [Peer -> Seq(Delivery)]
      /\ running' \in [Peer -> BOOLEAN]
  BY TakeStanzaType DEF Ring, Arrived
<1>2. state' \in [Peer -> State] /\ queue' \in [Peer -> Seq(Posted)]
  BY SetStateType DEF Ring, State
<1>3. net' \in [Peer -> [Peer -> Seq(Stanza)]]
  <2>1. /\ Request("accept") \in Stanza
        /\ Request("reject") \in Stanza
        /\ Request("transport-accept") \in Stanza
    BY StanzaTypes DEF MessageType
  <2>2. net[p][q] \in Seq(Stanza)
    BY DEF TypeOK
  <2>3. net[p][q] \o <<Request("transport-accept"), Request("accept")>>
            \in Seq(Stanza)
    BY <2>1, <2>2
  <2>4. CASE answer = "accept"
    <3> DEFINE sent == <<Request("transport-accept"), Request("accept")>>
    <3>1. net' = [net EXCEPT ![p][q] = net[p][q] \o sent]
      BY <2>4 DEF Ring
    <3>2. net \in [Peer -> [Peer -> Seq(Stanza)]]
      BY DEF TypeOK
    <3>3. net[p][q] \o sent \in Seq(Stanza)
      BY <2>3
    <3> HIDE DEF sent
    <3> QED BY <3>1, <3>2, <3>3
  <2>5. CASE answer # "accept"
    BY <2>1, <2>5, SendToType DEF Ring
  <2> QED BY <2>4, <2>5
<1>4. /\ remote' \in [Peer -> Peer \cup {Nobody}]
      /\ error' \in [Peer -> Error]
      /\ transport' \in [Peer -> BOOLEAN]
      /\ timer' \in [Peer -> BOOLEAN]
      /\ description' \in [Peer -> BOOLEAN]
  BY DEF TypeOK, Ring, Error
<1> QED BY <1>1, <1>2, <1>3, <1>4 DEF TypeOK, Ring, worldVars

LEMMA HandleStanzaType ==
    ASSUME TypeOK, NEW p \in Peer, HandleStanza(p)
    PROVE  TypeOK'
<1> USE DEF sessionVars, timerVars, threadVars, worldVars
<1>1. ASSUME OnFailedSend(p)
      PROVE  TypeOK'
  <2>1. failed' \in [Peer -> Seq(Delivery)] /\ running' \in [Peer -> BOOLEAN]
    BY <1>1 DEF TypeOK, OnFailedSend
  <2>2. /\ error' \in [Peer -> Error]
        /\ callTimer' \in [Peer -> BOOLEAN]
        /\ queue' \in [Peer -> Seq(Posted)]
    BY <1>1, SetErrorType DEF OnFailedSend, TypeOK, Error
  <2> QED BY <1>1, <2>1, <2>2 DEF TypeOK, OnFailedSend
<1>2. ASSUME NEW q \in Peer, NEW type \in MessageType, Refuse(p, q, type)
      PROVE  TypeOK'
  <2>1. ErrorReply(Head(inbox[p]).stanza) \in Stanza
    BY <1>2, TakeStanzaType, StanzaTypes DEF Refuse, Arrived
  <2>2. net' \in [Peer -> [Peer -> Seq(Stanza)]]
    BY <1>2, <2>1, SendToType DEF Refuse
  <2> QED BY <1>2, <2>2, TakeStanzaType DEF TypeOK, Refuse, Arrived
<1>3. ASSUME NEW q \in Peer, OnAcceptMessage(p, q)
      PROVE  TypeOK'
  <2>1. state' \in [Peer -> State] /\ queue' \in [Peer -> Seq(Posted)]
    BY <1>3, SetStateType DEF OnAcceptMessage, State
  <2> QED BY <1>3, <2>1, TakeStanzaType DEF TypeOK, OnAcceptMessage, Arrived
<1>4. ASSUME NEW q \in Peer, OnRejectMessage(p, q)
      PROVE  TypeOK'
  <2>1. state' \in [Peer -> State] /\ queue' \in [Peer -> Seq(Posted)]
    BY <1>4, SetStateType DEF OnRejectMessage, State
  <2> QED BY <1>4, <2>1, TakeStanzaType DEF TypeOK, OnRejectMessage, Arrived
<1>5. ASSUME NEW q \in Peer, OnRedirectMessage(p, q)
      PROVE  TypeOK'
  <2> DEFINE target == Head(inbox[p]).stanza.target
  <2>1. target \in Peer \cup {Nobody} /\ Request("initiate") \in Stanza
    BY <1>5, TakeStanzaType, StanzaTypes
       DEF OnRedirectMessage, Arrived, MessageType
  <2>2. net' \in [Peer -> [Peer -> Seq(Stanza)]]
    BY <1>5, <2>1, SendToType DEF OnRedirectMessage
  <2>3. remote' \in [Peer -> Peer \cup {Nobody}]
    BY <1>5, <2>1 DEF OnRedirectMessage, TypeOK
  <2> QED BY <1>5, <2>2, <2>3, TakeStanzaType
          DEF TypeOK, OnRedirectMessage, Arrived
<1>6. ASSUME NEW q \in Peer, OnTransportAcceptMessage(p, q)
      PROVE  TypeOK'
  BY <1>6, TakeStanzaType DEF TypeOK, OnTransportAcceptMessage, Arrived
<1>7. ASSUME NEW q \in Peer, OnTerminateMessage(p, q)
      PROVE  TypeOK'
  <2>1. state' \in [Peer -> State] /\ queue' \in [Peer -> Seq(Posted)]
    BY <1>7, SetStateType DEF OnTerminateMessage, State, TypeOK
  <2> QED BY <1>7, <2>1, TakeStanzaType
          DEF TypeOK, OnTerminateMessage, Arrived
<1> QED BY <1>1, <1>2, <1>3, <1>4, <1>5, <1>6, <1>7, RingType
        DEF HandleStanza

LEMMA WorldType ==
    ASSUME TypeOK, NEW p \in Peer, Timer(p) \/ Deliver(p) \/ Environment(p)
    PROVE  TypeOK'
<1> USE DEF sessionVars, timerVars, threadVars, worldVars
<1>1. ASSUME OnTimeout(p)
      PROVE  TypeOK'
  <2>1. /\ error' \in [Peer -> Error]
        /\ callTimer' \in [Peer -> BOOLEAN]
        /\ queue' \in [Peer -> Seq(Posted)]
    BY <1>1, SetErrorType DEF OnTimeout, Error
  <2> QED BY <1>1, <2>1 DEF TypeOK, OnTimeout
<1>2. ASSUME OnTerminateCall(p)
      PROVE  TypeOK'
  <2>1. net' \in [Peer -> [Peer -> Seq(Stanza)]]
    BY <1>2, SendTerminateType DEF OnTerminateCall, TypeOK
  <2>2. state' \in [Peer -> State] /\ queue' \in [Peer -> Seq(Posted)]
    BY <1>2, SetStateType DEF OnTerminateCall, State, TypeOK
  <2> QED BY <1>2, <2>1, <2>2 DEF TypeOK, OnTerminateCall
<1>3. ASSUME NEW q \in Peer, Receive(p, q)
      PROVE  TypeOK'
  <2> DEFINE m == Head(net[q][p])
             d == [from |-> q, stanza |-> m]
  <2>1. m \in Stanza /\ Tail(net[q][p]) \in Seq(Stanza)
    BY <1>3 DEF Receive, TypeOK
  <2>2. d \in Delivery
    BY <2>1 DEF Delivery
  <2>3. /\ Append(inbox[p], d) \in Seq(Delivery)
        /\ Append(failed[p], d) \in Seq(Delivery)
    BY <2>2 DEF TypeOK
  <2>4. /\ inbox' \in [Peer -> Seq(Delivery)]
        /\ failed' \in [Peer -> Seq(Delivery)]
    BY <1>3, <2>3 DEF TypeOK, Receive
  <2>5. net' \in [Peer -> [Peer -> Seq(Stanza)]]
    BY <1>3, <2>1 DEF TypeOK, Receive
  <2>6. <<"run">> \in Seq(Posted)
    BY DEF Posted
  <2> QED BY <1>3, <2>4, <2>5, <2>6 DEF TypeOK, Receive
<1>4. ASSUME NEW q \in Peer, Bounce(p, q)
      PROVE  TypeOK'
  <2> DEFINE m == Head(net[q][p])
             popped == [net EXCEPT ![q][p] = Tail(@)]
  <2>1. m \in Stanza /\ Tail(net[q][p]) \in Seq(Stanza)
    BY <1>4 DEF Bounce, TypeOK
  <2>2. popped \in [Peer -> [Peer -> Seq(Stanza)]]
    BY <2>1 DEF TypeOK
  <2>3. Append(popped[p][q], ErrorReply(m)) \in Seq(Stanza)
    BY <2>1, <2>2, StanzaTypes
  <2>4. net' = [popped EXCEPT ![p][q] = IF m.kind = "set"
                    THEN Append(popped[p][q], ErrorReply(m)) ELSE popped[p][q]]
    BY <1>4 DEF Bounce
  <2>5. net' \in [Peer -> [Peer -> Seq(Stanza)]]
    BY ZenonT(80), <2>2, <2>3, <2>4
  <2> QED BY <1>4, <2>5 DEF TypeOK, Bounce
<1>5. TransportWritable(p) => TypeOK'
  BY DEF TypeOK, TransportWritable
<1>6. TransportUnwritable(p) => TypeOK'
  BY DEF TypeOK, TransportUnwritable
<1>7. ASSUME Crash(p)
      PROVE  TypeOK'
  BY <1>7 DEF TypeOK, Crash, State
<1> QED BY <1>1, <1>2, <1>3, <1>4, <1>5, <1>6, <1>7
        DEF Timer, Deliver, Environment

\* Every variable keeps its type: no handler puts a value into a queue, a
\* stanza or a session field that another handler does not know.
THEOREM TypeCorrect == Spec => []TypeOK
<1>1. Init => TypeOK
  BY PeerAssumption DEF Init, TypeOK, State, Error
<1>2. TypeOK /\ [Next]_vars => TypeOK'
  <2> SUFFICES ASSUME TypeOK, [Next]_vars
               PROVE  TypeOK'
    OBVIOUS
  <2>1. CASE Next
    BY <2>1, CommandType, DispatchType, HandleStanzaType, WorldType DEF Next
  <2>2. CASE UNCHANGED vars
    BY <2>2 DEF TypeOK, vars, sessionVars, timerVars, threadVars, worldVars
  <2> QED BY <2>1, <2>2
<1> QED BY <1>1, <1>2, PTL DEF Spec
----------------------------------------------------------------------------
(* The follow-up messages.                                                 *)
(*                                                                         *)
(* That a state which asks for a follow-up, and an error, have their       *)
(* message in the queue is not inductive: OnError would bring a deleted    *)
(* session back if its MSG_ERROR could outlive it, and Initiate would      *)
(* start one with an error nobody was told of.  Sound adds that the dead   *)
(* receive nothing and that a session is created without an error.         *)

Sound(p) ==
    /\ state[p] \in NeedsFollowUp => IsPosted(p, "state")
    /\ Exists(p) /\ error[p] # "NONE" =>
          state[p] \in Terminated \/ IsPosted(p, "error")
    /\ ~Exists(p) => /\ ~IsPosted(p, "state") /\ ~IsPosted(p, "error")
                     /\ ~timer[p]
                     /\ callTimer[p] => IsPosted(p, "checkcall")
    /\ state[p] = "NONE" => error[p] = "NONE"

\* A session whose fields and messages a step leaves alone stays sound.
LEMMA Untouched ==
    ASSUME NEW r \in Peer, Sound(r),
           state'[r] = state[r], error'[r] = error[r], queue'[r] = queue[r],
           timer'[r] = timer[r], callTimer'[r] = callTimer[r]
    PROVE  Sound(r)'
  BY DEF Sound, Exists, IsPosted

\* No step of one peer touches the session of another.
LEMMA OthersUntouched ==
    ASSUME TypeOK, NEW p \in Peer, NEW r \in Peer, r # p,
           \/ Command(p) \/ Dispatch(p) \/ HandleStanza(p)
           \/ Timer(p) \/ Deliver(p) \/ Environment(p)
    PROVE  /\ state'[r] = state[r] /\ error'[r] = error[r]
           /\ queue'[r] = queue[r]
           /\ timer'[r] = timer[r] /\ callTimer'[r] = callTimer[r]
           /\ writable'[r] = writable[r]
<1> USE DEF TypeOK, sessionVars, timerVars, threadVars, worldVars, SetState
<1>1. CASE Command(p)
  BY ZenonT(80), <1>1 DEF Command, Initiate, Accept, Reject, Redirect, Terminate
<1>2. CASE Dispatch(p)
  BY <1>2 DEF Dispatch, RunTasks, Progress, Conclude, Ignore, FollowUp,
              DestroySession, CheckAutoDestroy, OnError
<1>3. CASE HandleStanza(p)
  <2>1. ASSUME NEW q \in Peer, NEW answer \in {"later", "accept", "reject"},
               Ring(p, q, answer)
        PROVE  /\ state'[r] = state[r] /\ error'[r] = error[r]
               /\ queue'[r] = queue[r]
               /\ timer'[r] = timer[r] /\ callTimer'[r] = callTimer[r]
               /\ writable'[r] = writable[r]
    BY <2>1 DEF Ring
  <2>2. ASSUME NEW q \in Peer,
               \/ \E type \in MessageType : Refuse(p, q, type)
               \/ OnAcceptMessage(p, q) \/ OnRejectMessage(p, q)
               \/ OnRedirectMessage(p, q) \/ OnTransportAcceptMessage(p, q)
               \/ OnTerminateMessage(p, q)
        PROVE  /\ state'[r] = state[r] /\ error'[r] = error[r]
               /\ queue'[r] = queue[r]
               /\ timer'[r] = timer[r] /\ callTimer'[r] = callTimer[r]
               /\ writable'[r] = writable[r]
    <3>1. CASE \E type \in MessageType : Refuse(p, q, type)
      BY <3>1 DEF Refuse
    <3>2. CASE OnAcceptMessage(p, q)
      BY <3>2 DEF OnAcceptMessage
    <3>3. CASE OnRejectMessage(p, q)
      BY <3>3 DEF OnRejectMessage
    <3>4. CASE OnRedirectMessage(p, q) \/ OnTransportAcceptMessage(p, q)
      BY <3>4 DEF OnRedirectMessage, OnTransportAcceptMessage
    <3>5. CASE OnTerminateMessage(p, q)
      BY SMTT(40), <3>5 DEF OnTerminateMessage
    <3> QED BY <2>2, <3>1, <3>2, <3>3, <3>4, <3>5
  <2>3. CASE OnFailedSend(p)
    BY <2>3 DEF OnFailedSend, SetError
  <2> QED BY <1>3, <2>1, <2>2, <2>3 DEF HandleStanza
<1>4. CASE Timer(p)
  BY SMTT(40), <1>4 DEF Timer, OnTimeout, OnTerminateCall, SetError
<1>5. CASE Deliver(p)
  BY <1>5 DEF Deliver, Receive, Bounce
<1>6. CASE Environment(p)
  BY <1>6 DEF Environment, TransportWritable, TransportUnwritable, Crash
<1> QED BY <1>1, <1>2, <1>3, <1>4, <1>5, <1>6

\* SetState posts a MSG_STATE and loses no other message, so a session that
\* moves on keeps what announces its error.
LEMMA SetStateSound ==
    ASSUME TypeOK, NEW p \in Peer, NEW n \in Nat \ {0},
           NEW s \in State \ {"NONE", "DEINIT"}, SetState(p, s, n)
    PROVE  /\ state'[p] = s /\ Exists(p)'
           /\ IsPosted(p, "state")'
           /\ IsPosted(p, "error") => IsPosted(p, "error")'
<1>1. queue[p] \in Seq(Posted) /\ n \in Nat
  BY DEF TypeOK
<1>2. state'[p] = s /\ queue'[p] = queue[p] \o [i \in 1..n |-> "state"]
  BY DEF SetState, TypeOK
<1>3. Has(queue'[p], "state")
  BY <1>1, <1>2, PostedStates
<1>4. Has(queue[p], "error") => Has(queue'[p], "error")
  BY <1>1, <1>2, PostedStates DEF Posted
<1> QED BY <1>2, <1>3, <1>4 DEF IsPosted, Exists

LEMMA CommandSound ==
    ASSUME TypeOK, NEW p \in Peer, Sound(p), Command(p)
    PROVE  Sound(p)'
<1> USE DEF timerVars, worldVars
<1>1. ASSUME NEW q \in Peer, Initiate(p, q)
      PROVE  Sound(p)'
  <2>1. state'[p] = "SENTINITIATE" /\ Exists(p)' /\ error'[p] = "NONE"
    BY <1>1, SetStateSound DEF Initiate, Sound, State
  <2> QED BY <2>1 DEF Sound, NeedsFollowUp, Agreed, Declined, Terminated
<1>2. ASSUME Accept(p)
      PROVE  Sound(p)'
  <2>1. CASE transport[p]
    <3>1. SetState(p, "SENTACCEPT", 1) /\ error' = error /\ Exists(p)
      BY <1>2, <2>1 DEF Accept, Exists
    <3>2. /\ state'[p] = "SENTACCEPT" /\ Exists(p)' /\ IsPosted(p, "state")'
          /\ IsPosted(p, "error") => IsPosted(p, "error")'
      BY <3>1, SetStateSound DEF State
    <3>3. state[p] = "RECEIVEDINITIATE"
      BY <1>2 DEF Accept
    <3> QED BY <3>1, <3>2, <3>3 DEF Sound, Terminated
  <2>2. CASE ~transport[p]
    BY <1>2, <2>2, Untouched DEF Accept
  <2> QED BY <2>1, <2>2
<1>3. ASSUME Reject(p) \/ \E q \in Peer : Redirect(p, q)
      PROVE  Sound(p)'
  <2>1. PICK s \in {"SENTREJECT", "SENTREDIRECT"} : SetState(p, s, 1)
    BY <1>3 DEF Reject, Redirect
  <2>2. state[p] = "RECEIVEDINITIATE" /\ error' = error
    BY <1>3 DEF Reject, Redirect
  <2>3. /\ state'[p] = s /\ Exists(p)' /\ IsPosted(p, "state")'
        /\ IsPosted(p, "error") => IsPosted(p, "error")'
    BY <2>1, SetStateSound DEF State
  <2> QED BY <2>2, <2>3 DEF Sound, Terminated, Exists
<1>4. ASSUME Terminate(p)
      PROVE  Sound(p)'
  <2>1. /\ state'[p] = "SENTTERMINATE" /\ Exists(p)' /\ IsPosted(p, "state")'
    BY <1>4, SetStateSound DEF Terminate, State
  <2> QED BY <2>1 DEF Sound, Terminated
<1> QED BY <1>1, <1>2, <1>3, <1>4 DEF Command

LEMMA DispatchSound ==
    ASSUME TypeOK, NEW p \in Peer, Sound(p), Dispatch(p)
    PROVE  Sound(p)'
<1> USE DEF timerVars, worldVars, sessionVars
<1> DEFINE rest == Tail(queue[p])
<1>1. queue[p] \in Seq(Posted) /\ queue[p] # <<>>
  BY DEF TypeOK, Dispatch, RunTasks, Progress, Conclude, Ignore, FollowUp,
         DestroySession, CheckAutoDestroy, OnError, AtHead
<1>2. /\ rest \in Seq(Posted)
      /\ \A m \in Posted : m # Head(queue[p]) => (Has(rest, m) <=> IsPosted(p, m))
      /\ \A m \in Posted : Has(rest, m) => IsPosted(p, m)
  BY <1>1, Taken DEF IsPosted
<1>3. {"state", "error", "checkcall", "run"} = Posted
  BY DEF Posted
<1>4. Has(queue[p], Head(queue[p]))
  BY <1>1 DEF Has
<1> HIDE DEF rest
<1>5. ASSUME RunTasks(p)
      PROVE  Sound(p)'
  <2>1. queue'[p] = rest /\ Head(queue[p]) = "run"
    BY <1>5 DEF RunTasks, AtHead, TypeOK, rest
  <2>2. \A m \in Posted \ {"run"} : IsPosted(p, m)' <=> IsPosted(p, m)
    BY <1>2, <2>1 DEF IsPosted
  <2> QED BY <1>5, <2>2, <1>3 DEF RunTasks, Sound, Exists
<1>6. ASSUME NEW s \in State, FollowUp(p, s, 1), Exists(p),
             s \notin {"NONE", "DEINIT"},
             s \in Terminated \/ state[p] \notin Terminated
      PROVE  Sound(p)'
  <2>1. /\ queue'[p] = rest \o [i \in 1..1 |-> "state"]
        /\ state'[p] = s /\ error' = error /\ Head(queue[p]) = "state"
    BY <1>6 DEF FollowUp, AtHead, TypeOK, rest
  <2>2. IsPosted(p, "state")'
    <3>1. 1 \in Nat /\ 1 > 0
      OBVIOUS
    <3>2. Has(rest \o [i \in 1..1 |-> "state"], "state")
      BY <1>2, <3>1, PostedStates
    <3> QED BY <2>1, <3>2 DEF IsPosted
  <2>3. IsPosted(p, "error") => IsPosted(p, "error")'
    BY <1>2, <1>3, <2>1, PostedStates DEF IsPosted
  <2> QED BY <1>6, <2>1, <2>2, <2>3 DEF Sound, Exists
<1>7. ASSUME Progress(p) \/ Conclude(p)
      PROVE  Sound(p)'
  BY <1>6, <1>7 DEF Progress, Conclude, State, Exists, Agreed, Declined,
                    Terminated
<1>8. ASSUME Ignore(p)
      PROVE  Sound(p)'
  <2>1. /\ queue'[p] = rest \o [i \in 1..0 |-> "state"]
        /\ state'[p] = state[p] /\ error' = error /\ Head(queue[p]) = "state"
        /\ UNCHANGED <<timer, callTimer>>
    BY <1>8 DEF Ignore, FollowUp, AtHead, TypeOK, rest
  <2>2. queue'[p] = rest
    BY <1>2, <2>1
  <2>3. IsPosted(p, "state")
    BY <1>4, <2>1 DEF IsPosted
  <2>4. IsPosted(p, "error") => IsPosted(p, "error")'
    BY <1>2, <1>3, <2>1, <2>2 DEF IsPosted
  <2> QED BY <1>8, <2>1, <2>3, <2>4 DEF Sound, Exists, Ignore
<1>9. ASSUME DestroySession(p)
      PROVE  Sound(p)'
  <2>1. \/ queue'[p] = <<"run", "checkcall">>
        \/ queue'[p] = <<"checkcall">>
    BY <1>9 DEF DestroySession, TypeOK
  <2>2. IsPosted(p, "checkcall")' /\ ~IsPosted(p, "state")' /\ ~IsPosted(p, "error")'
    <3>1. /\ Has(<<"run", "checkcall">>, "checkcall")
          /\ Has(<<"checkcall">>, "checkcall")
      <4>1. /\ 2 \in 1..Len(<<"run", "checkcall">>)
            /\ <<"run", "checkcall">>[2] = "checkcall"
            /\ 1 \in 1..Len(<<"checkcall">>) /\ <<"checkcall">>[1] = "checkcall"
        OBVIOUS
      <4> QED BY <4>1 DEF Has
    <3>2. /\ ~Has(<<"run", "checkcall">>, "state")
          /\ ~Has(<<"run", "checkcall">>, "error")
          /\ ~Has(<<"checkcall">>, "state") /\ ~Has(<<"checkcall">>, "error")
      BY DEF Has
    <3> QED BY <2>1, <3>1, <3>2 DEF IsPosted
  <2>3. state'[p] = "DEINIT" /\ ~timer'[p]
    BY <1>9 DEF DestroySession, TypeOK
  <2> QED BY <2>2, <2>3 DEF Sound, Exists, NeedsFollowUp, Agreed, Declined,
                            Terminated
<1>10. ASSUME CheckAutoDestroy(p)
       PROVE  Sound(p)'
  <2>1. /\ queue'[p] = rest /\ Head(queue[p]) = "checkcall"
        /\ ~callTimer'[p]
    BY <1>10 DEF CheckAutoDestroy, AtHead, TypeOK, rest
  <2>2. \A m \in Posted \ {"checkcall"} : IsPosted(p, m)' <=> IsPosted(p, m)
    BY <1>2, <2>1 DEF IsPosted
  <2> QED BY <1>10, <2>1, <2>2, <1>3 DEF CheckAutoDestroy, Sound, Exists
<1>11. ASSUME OnError(p)
       PROVE  Sound(p)'
  <2>1. Head(queue[p]) = "error" /\ error' = error /\ Exists(p)
    BY <1>4, <1>11 DEF OnError, AtHead, Sound, IsPosted
  <2>2. CASE state[p] \in Terminated
    <3>1. queue'[p] = rest /\ state' = state
      BY <1>11, <2>2 DEF OnError, TypeOK, rest
    <3>2. IsPosted(p, "state") => IsPosted(p, "state")'
      BY <1>2, <1>3, <2>1, <3>1 DEF IsPosted
    <3> QED BY <2>1, <2>2, <3>1, <3>2 DEF Sound, Exists
  <2>3. CASE state[p] \notin Terminated
    <3>1. queue'[p] = Append(rest, "state") /\ state'[p] = "SENTTERMINATE"
      BY <1>11, <2>3 DEF OnError, TypeOK, rest
    <3>2. IsPosted(p, "state")'
      BY <1>2, <1>3, <3>1, Appended DEF IsPosted
    <3> QED BY <3>1, <3>2 DEF Sound, Exists, Terminated
  <2> QED BY <2>2, <2>3
<1> QED BY <1>5, <1>7, <1>8, <1>9, <1>10, <1>11 DEF Dispatch

LEMMA HandleStanzaSound ==
    ASSUME TypeOK, NEW p \in Peer, Sound(p), HandleStanza(p)
    PROVE  Sound(p)'
<1> USE DEF timerVars, worldVars, sessionVars
<1>1. ASSUME NEW q \in Peer, NEW answer \in {"later", "accept", "reject"},
             Ring(p, q, answer)
      PROVE  Sound(p)'
  <2>1. PICK s \in {"SENTREJECT", "SENTACCEPT", "RECEIVEDINITIATE"},
             n \in {1, 2} : SetState(p, s, n)
    BY <1>1 DEF Ring
  <2>2. state'[p] = s /\ Exists(p)' /\ IsPosted(p, "state")'
    BY <2>1, SetStateSound DEF State
  <2>3. error'[p] = "NONE"
    BY <1>1 DEF Ring, TypeOK
  <2> QED BY <2>2, <2>3 DEF Sound
<1>2. ASSUME NEW q \in Peer,
             \/ \E type \in MessageType : Refuse(p, q, type)
             \/ OnTransportAcceptMessage(p, q)
      PROVE  Sound(p)'
  BY <1>2, Untouched DEF Refuse, OnTransportAcceptMessage
<1>3. ASSUME NEW q \in Peer, OnRedirectMessage(p, q)
      PROVE  Sound(p)'
  <2>1. state[p] = "SENTINITIATE"
    BY <1>3 DEF OnRedirectMessage, OutOfPlace
  <2> QED BY <1>3, <2>1 DEF OnRedirectMessage, Sound, Exists, IsPosted
<1>4. ASSUME NEW s \in {"RECEIVEDACCEPT", "RECEIVEDREJECT", "SENTTERMINATE",
                        "RECEIVEDTERMINATE"},
             NEW n \in {1, 2}, SetState(p, s, n), error' = error, Exists(p),
             s \in Terminated \/ state[p] = "SENTINITIATE"
      PROVE  Sound(p)'
  <2>1. /\ state'[p] = s /\ Exists(p)' /\ IsPosted(p, "state")'
        /\ IsPosted(p, "error") => IsPosted(p, "error")'
    BY <1>4, SetStateSound DEF State
  <2> QED BY <1>4, <2>1 DEF Sound, Terminated
<1>5. ASSUME NEW q \in Peer, OnAcceptMessage(p, q) \/ OnRejectMessage(p, q)
      PROVE  Sound(p)'
  <2>1. state[p] = "SENTINITIATE" /\ Exists(p) /\ error' = error
    BY <1>5 DEF OnAcceptMessage, OnRejectMessage, OutOfPlace, Exists
  <2>2. PICK s \in {"RECEIVEDACCEPT", "RECEIVEDREJECT", "SENTTERMINATE"},
             n \in {1, 2} : SetState(p, s, n)
    BY <1>5 DEF OnAcceptMessage, OnRejectMessage
  <2> QED BY <1>4, <2>1, <2>2
<1>6. ASSUME NEW q \in Peer, OnTerminateMessage(p, q)
      PROVE  Sound(p)'
  <2>1. Exists(p) /\ error' = error
    BY <1>6 DEF OnTerminateMessage, OutOfPlace, FindSession
  <2>2. CASE state[p] = "RECEIVEDTERMINATE"
    BY <1>6, <2>2, Untouched DEF OnTerminateMessage
  <2>3. CASE state[p] # "RECEIVEDTERMINATE"
    BY <1>4, <1>6, <2>1, <2>3 DEF OnTerminateMessage, Terminated
  <2> QED BY <2>2, <2>3
<1>7. ASSUME OnFailedSend(p)
      PROVE  Sound(p)'
  <2>1. CASE UNCHANGED <<error, callTimer, queue>>
    BY <1>7, <2>1, Untouched DEF OnFailedSend
  <2>2. CASE ~UNCHANGED <<error, callTimer, queue>>
    <3>1. Exists(p) /\ SetError(p, "RESPONSE")
      BY <1>7, <2>2 DEF OnFailedSend, FindSession
    <3>2. queue'[p] = Append(queue[p], "error") /\ state' = state
      BY <1>7, <2>2, <3>1 DEF SetError, OnFailedSend, TypeOK
    <3>3. IsPosted(p, "error")' /\ (IsPosted(p, "state") => IsPosted(p, "state")')
      BY <3>2, Appended DEF TypeOK, Posted, IsPosted
    <3> QED BY <3>1, <3>2, <3>3 DEF Sound, Exists
  <2> QED BY <2>1, <2>2
<1> QED BY <1>1, <1>2, <1>3, <1>5, <1>6, <1>7 DEF HandleStanza

LEMMA WorldSound ==
    ASSUME TypeOK, NEW p \in Peer, Sound(p),
           Timer(p) \/ Deliver(p) \/ Environment(p)
    PROVE  Sound(p)'
<1> USE DEF timerVars, worldVars, sessionVars, threadVars
<1>1. ASSUME OnTimeout(p)
      PROVE  Sound(p)'
  <2>1. Exists(p) /\ SetError(p, "TIME") /\ state' = state
    BY <1>1 DEF OnTimeout, Sound
  <2>2. CASE error[p] = "TIME"
    BY <2>1, <2>2 DEF SetError, Sound, Exists, IsPosted
  <2>3. CASE error[p] # "TIME"
    <3>1. queue'[p] = Append(queue[p], "error")
      BY <2>1, <2>3 DEF SetError, TypeOK
    <3>2. IsPosted(p, "error")' /\ (IsPosted(p, "state") => IsPosted(p, "state")')
      BY <3>1, Appended DEF TypeOK, Posted, IsPosted
    <3> QED BY <2>1, <3>2 DEF Sound, Exists
  <2> QED BY <2>2, <2>3
<1>2. ASSUME OnTerminateCall(p)
      PROVE  Sound(p)'
  <2>1. CASE Exists(p) /\ state[p] \notin Terminated
    <3>1. state'[p] = "SENTTERMINATE" /\ Exists(p)' /\ IsPosted(p, "state")'
      BY <1>2, <2>1, SetStateSound DEF OnTerminateCall, State
    <3> QED BY <3>1 DEF Sound, Terminated
  <2>2. CASE ~(Exists(p) /\ state[p] \notin Terminated)
    <3>1. UNCHANGED <<state, queue, error, timer>> /\ ~callTimer'[p]
      BY <1>2, <2>2 DEF OnTerminateCall, TypeOK
    <3> QED BY <3>1 DEF Sound, Exists, IsPosted
  <2> QED BY <2>1, <2>2
<1>3. ASSUME NEW q \in Peer, Receive(p, q)
      PROVE  Sound(p)'
  <2>1. /\ queue[p] \in {<<>>, <<"run">>} /\ queue'[p] = <<"run">>
        /\ UNCHANGED <<state, error, timer, callTimer>>
    BY <1>3 DEF Receive, TypeOK
  <2>2. \A m \in {"state", "error", "checkcall"} :
            ~IsPosted(p, m) /\ ~IsPosted(p, m)'
    BY <2>1 DEF IsPosted, Has
  <2> QED BY <2>1, <2>2 DEF Sound, Exists
<1>4. ASSUME NEW q \in Peer, Bounce(p, q)
      PROVE  Sound(p)'
  BY <1>4, Untouched DEF Bounce
<1>5. ASSUME TransportWritable(p) \/ TransportUnwritable(p)
      PROVE  Sound(p)'
  <2>1. Exists(p) /\ UNCHANGED <<state, error, queue>>
    BY <1>5 DEF TransportWritable, TransportUnwritable
  <2> QED BY <2>1 DEF Sound, Exists, IsPosted
<1>6. ASSUME Crash(p)
      PROVE  Sound(p)'
  <2>1. state'[p] = "DEINIT" /\ queue'[p] = <<>> /\ ~timer'[p] /\ ~callTimer'[p]
    BY <1>6 DEF Crash, TypeOK
  <2> QED BY <2>1 DEF Sound, Exists, IsPosted, Has, NeedsFollowUp, Agreed,
                      Declined, Terminated
<1> QED BY <1>1, <1>2, <1>3, <1>4, <1>5, <1>6 DEF Timer, Deliver, Environment

AllSound == \A p \in Peer : Sound(p)

LEMMA Soundness == Spec => []AllSound
<1>1. Init => AllSound
  <2> SUFFICES ASSUME Init, NEW p \in Peer
               PROVE  Sound(p)
    BY DEF AllSound
  <2>1. /\ state[p] = "NONE" /\ error[p] = "NONE" /\ queue[p] = <<>>
        /\ ~timer[p] /\ ~callTimer[p]
    BY DEF Init
  <2> QED BY <2>1 DEF Sound, Exists, IsPosted, Has, NeedsFollowUp, Agreed,
                      Declined, Terminated
<1>2. TypeOK /\ AllSound /\ [Next]_vars => AllSound'
  <2> SUFFICES ASSUME TypeOK, AllSound, [Next]_vars, NEW r \in Peer
               PROVE  Sound(r)'
    BY DEF AllSound
  <2>1. Sound(r)
    BY DEF AllSound
  <2>2. ASSUME NEW p \in Peer,
               \/ Command(p) \/ Dispatch(p) \/ HandleStanza(p)
               \/ Timer(p) \/ Deliver(p) \/ Environment(p)
        PROVE  Sound(r)'
    <3>1. CASE r = p
      BY <2>1, <2>2, <3>1, CommandSound, DispatchSound, HandleStanzaSound,
         WorldSound
    <3>2. CASE r # p
      BY <2>1, <2>2, <3>2, OthersUntouched, Untouched
    <3> QED BY <3>1, <3>2
  <2>3. CASE UNCHANGED vars
    BY <2>1, <2>3, Untouched DEF vars, sessionVars, timerVars, threadVars
  <2> QED BY <2>2, <2>3 DEF Next
<1> QED BY <1>1, <1>2, TypeCorrect, PTL DEF Spec

\* For any number of peers, whatever is accepted, refused or ended is followed
\* up: its MSG_STATE is posted, also when SetState was called inside a callback
\* of SetState or several times before the thread came to its queue.
THEOREM StatesAreFollowedUp == Spec => []FollowUpPosted
<1>1. AllSound => FollowUpPosted
  BY DEF AllSound, Sound, FollowUpPosted
<1> QED BY <1>1, Soundness, PTL

\* A timeout or an error reply can never be forgotten: the MSG_ERROR that ends
\* the session stays posted until the session is over.
THEOREM ErrorsEndSessions == Spec => []ErrorsAreFatal
<1>1. AllSound => ErrorsAreFatal
  BY DEF AllSound, Sound, ErrorsAreFatal
<1> QED BY <1>1, Soundness, PTL

\* Nothing is ever dispatched to a deleted session: its destructor leaves no
\* message and no timer of it behind.
THEOREM DeadReceiveNothing == Spec => []NothingForTheDead
<1>1. AllSound => NothingForTheDead
  BY DEF AllSound, Sound, NothingForTheDead
<1> QED BY <1>1, Soundness, PTL

----------------------------------------------------------------------------
(* Where the question is.                                                  *)
(*                                                                         *)
(* AnswersAgree and CallSetup speak of two ends that know each other only  *)
(* by what is on its way between them.  What makes them true is that there *)
(* is one question: "will you take the call?" is with the caller before it *)
(* asks, in an initiate, with the peer that rings, in a redirect, or has   *)
(* been granted; never in two of these places.                             *)

\* s holds a member of S; at most one; none of S after one of R; one of A
\* before each of B.
Hits(s, S) == \E i \in 1..Len(s) : s[i] \in S
Single(s, S) == \A i, j \in 1..Len(s) : s[i] \in S /\ s[j] \in S => i = j
Last(s, R, S) == \A i, j \in 1..Len(s) : i < j /\ s[i] \in R => s[j] \notin S
Preceded(s, A, B) == \A j \in 1..Len(s) :
    s[j] \in B => \E i \in 1..Len(s) : i < j /\ s[i] \in A

\* Requests of a type, in the network and in an inbox.  An inbox holds no error
\* replies (Receive puts them elsewhere); that is left open here.
Sets(type) == [kind : {"set"}, type : {type}, target : Peer \cup {Nobody}]
AllSets    == [kind : {"set"}, type : MessageType, target : Peer \cup {Nobody}]
Refusals   == Sets("reject") \cup Sets("redirect")
Redirects(t)  == [kind : {"set"}, type : {"redirect"}, target : {t}]

Boxed(q, type) == [from : {q}, stanza : [kind : {"set", "error"}, type : {type},
                                        target : Peer \cup {Nobody}]]
BoxedRedirects(t) == [from : Peer, stanza : [kind : {"set", "error"},
                                        type : {"redirect"}, target : {t}]]

\* A request of q is on its way to p or waits for its thread.
Pending(q, p, type) ==
    Hits(net[q][p], Sets(type)) \/ Hits(inbox[p], Boxed(q, type))

Callee == Peer \ {Caller}

\* p has not taken part, or never will again.
Fresh(p) == state[p] = "NONE" \/ ~up[p]
\* Who is in one of these states sends no request any more.
Silent == Declined \cup Terminated \cup {"DEINIT"}

CallerStates == {"NONE", "SENTINITIATE", "RECEIVEDACCEPT", "RECEIVEDREJECT",
                 "SENTTERMINATE", "RECEIVEDTERMINATE", "INPROGRESS", "DEINIT"}
CalleeStates == {"NONE", "RECEIVEDINITIATE", "SENTACCEPT", "SENTREJECT",
                 "SENTREDIRECT", "SENTTERMINATE", "RECEIVEDTERMINATE",
                 "INPROGRESS", "DEINIT"}

\* Which end can be in which state, and what it knows there.
Roles ==
    /\ state[Caller] \in CallerStates
    /\ ~description[Caller]
    /\ state[Caller] \notin {"NONE", "DEINIT"} => remote[Caller] \in Callee
    /\ state[Caller] \in {"RECEIVEDACCEPT", "INPROGRESS"} =>
          transport[Caller] /\ description[remote[Caller]]
    /\ state[Caller] = "NONE" => \A p \in Callee : Fresh(p)
    /\ \A p \in Callee :
          /\ state[p] \in CalleeStates
          /\ state[p] \notin {"NONE", "DEINIT"} => remote[p] = Caller
          /\ state[p] \in {"RECEIVEDINITIATE", "SENTACCEPT", "INPROGRESS"} => transport[p]
          /\ state[p] \in {"SENTACCEPT", "INPROGRESS"} => description[p]
    /\ \A p \in Peer :
          /\ ~up[p] => state[p] = "DEINIT" /\ inbox[p] = <<>> /\ ~running[p]

\* Who asks whom, who redirects and where to, and who sends an accept.
Speech ==
    /\ \A p, q \in Peer :
          Pending(q, p, "initiate") => q = Caller /\ p \in Callee
    /\ \A q \in Peer : Pending(q, Caller, "redirect") => q \in Callee /\ redirects > 0
    /\ \A q \in Peer, t \in Peer \cup {Nobody} :
          Hits(net[q][Caller], Redirects(t)) \/ Hits(inbox[Caller], BoxedRedirects(t))
          => t \in Callee /\ Fresh(t)
    /\ \A q \in Peer : Pending(q, Caller, "accept") => description[q]

\* The question is with p, or was granted by p.
Holds(p) ==
    IF p = Caller THEN state[p] = "NONE"
    ELSE \/ Pending(Caller, p, "initiate") \/ state[p] = "RECEIVEDINITIATE"
         \/ Pending(p, Caller, "redirect") \/ description[p]

\* Wherever it is on its way through p, it is there once, and nowhere else.
Stage(p) ==
    /\ Pending(Caller, p, "initiate") =>
          /\ Fresh(p) /\ ~Pending(p, Caller, "redirect") /\ ~description[p]
          /\ ~(Hits(net[Caller][p], Sets("initiate")) /\ Hits(inbox[p], Boxed(Caller, "initiate")))
    /\ state[p] = "RECEIVEDINITIATE" => ~Pending(p, Caller, "redirect") /\ ~description[p]
    /\ Pending(p, Caller, "redirect") => ~description[p]
    /\ ~(Hits(net[p][Caller], Sets("redirect")) /\ Hits(inbox[Caller], Boxed(p, "redirect")))
    /\ Single(net[Caller][p], Sets("initiate"))
    /\ Single(inbox[p], Boxed(Caller, "initiate"))
    /\ Single(net[p][Caller], Sets("redirect"))
    /\ Single(inbox[Caller], Boxed(p, "redirect"))

OneQuestion ==
    /\ \A p, q \in Peer : Holds(p) /\ Holds(q) => p = q
    /\ \A p \in Callee : Stage(p)

\* No accept of q is handled before a transport-accept of q.
TransportFirst(q) ==
    /\ Preceded(inbox[Caller], Boxed(q, "transport-accept"), Boxed(q, "accept"))
    /\ \/ Hits(inbox[Caller], Boxed(q, "transport-accept"))
       \/ Preceded(net[q][Caller], Sets("transport-accept"), Sets("accept"))
    /\ state[q] = "RECEIVEDINITIATE" => Pending(q, Caller, "transport-accept")

Transports == state[Caller] = "SENTINITIATE" /\ ~transport[Caller] =>
    TransportFirst(remote[Caller])

\* Nothing is requested after a refusal.
LastWord == \A p, q \in Peer :
    /\ Last(net[p][q], Refusals, AllSets)
    /\ Hits(net[p][q], Refusals) => p \in Callee /\ state[p] \in Silent

AgreeInv == Roles /\ Speech /\ OneQuestion /\ Transports /\ LastWord

\* What appending does to what a queue holds, and in which order.
LEMMA Grown ==
    ASSUME NEW T, NEW s \in Seq(T), NEW x \in T
    PROVE  /\ \A S : Hits(Append(s, x), S) <=> Hits(s, S) \/ x \in S
           /\ \A S : Single(s, S) /\ (x \in S => ~Hits(s, S)) => Single(Append(s, x), S)
           /\ \A R, S : Last(s, R, S) /\ (x \in S => ~Hits(s, R)) => Last(Append(s, x), R, S)
           /\ \A A, B : Preceded(s, A, B) /\ (x \in B => Hits(s, A))
                 => Preceded(Append(s, x), A, B)
<1> DEFINE t == Append(s, x)
<1>1. Len(t) = Len(s) + 1 /\ Len(s) \in Nat
  OBVIOUS
<1>2. (\A i \in 1..Len(s) : t[i] = s[i]) /\ t[Len(s) + 1] = x
  OBVIOUS
<1> HIDE DEF t
<1>3. ASSUME NEW S PROVE Hits(t, S) <=> Hits(s, S) \/ x \in S
  <2>1. Hits(s, S) => Hits(t, S)
    BY <1>1, <1>2 DEF Hits
  <2>2. x \in S => Hits(t, S)
    <3>1. Len(s) + 1 \in 1..Len(t)
      BY <1>1
    <3> QED
      BY <3>1, <1>2 DEF Hits
  <2>3. Hits(t, S) => Hits(s, S) \/ x \in S
    BY <1>1, <1>2 DEF Hits
  <2> QED
    BY <2>1, <2>2, <2>3
<1>4. ASSUME NEW S, Single(s, S), x \in S => ~Hits(s, S) PROVE Single(t, S)
  BY <1>1, <1>2, <1>4 DEF Single, Hits
<1>5. ASSUME NEW R, NEW S, Last(s, R, S), x \in S => ~Hits(s, R) PROVE Last(t, R, S)
  BY <1>1, <1>2, <1>5 DEF Last, Hits
<1>6. ASSUME NEW A, NEW B, Preceded(s, A, B), x \in B => Hits(s, A)
      PROVE  Preceded(t, A, B)
  <2> SUFFICES ASSUME NEW j \in 1..Len(t), t[j] \in B
               PROVE  \E i \in 1..Len(t) : i < j /\ t[i] \in A
    BY DEF Preceded
  <2>1. CASE j <= Len(s)
    <3>1. PICK i \in 1..Len(s) : i < j /\ s[i] \in A
      BY <1>1, <1>2, <1>6, <2>1 DEF Preceded
    <3> QED
      BY <1>1, <1>2, <3>1
  <2>2. CASE j > Len(s)
    <3>1. t[j] = x /\ j = Len(s) + 1
      BY <1>1, <1>2, <2>2
    <3>2. PICK i \in 1..Len(s) : s[i] \in A
      BY <1>6, <3>1 DEF Hits
    <3> QED
      BY <1>1, <1>2, <3>1, <3>2
  <2> QED
    BY <2>1, <2>2, <1>1
<1> QED
  BY <1>3, <1>4, <1>5, <1>6 DEF t

\* What taking the head does to it.
LEMMA Shrunk ==
    ASSUME NEW T, NEW s \in Seq(T), s # <<>>
    PROVE  /\ \A S : Hits(s, S) <=> Head(s) \in S \/ Hits(Tail(s), S)
           /\ \A S : Single(s, S) =>
                 Single(Tail(s), S) /\ (Head(s) \in S => ~Hits(Tail(s), S))
           /\ \A R, S : Last(s, R, S) =>
                 Last(Tail(s), R, S) /\ (Head(s) \in R => ~Hits(Tail(s), S))
           /\ \A A, B : Preceded(s, A, B) =>
                 Head(s) \notin B /\ (Head(s) \in A \/ Preceded(Tail(s), A, B))
<1> DEFINE t == Tail(s)
<1>1. Len(s) = Len(t) + 1 /\ Len(t) \in Nat /\ Head(s) = s[1]
  OBVIOUS
<1>2. \A i \in 1..Len(t) : t[i] = s[i + 1]
  OBVIOUS
<1>3. \A i \in 2..Len(s) : i - 1 \in 1..Len(t) /\ t[i - 1] = s[i]
  <2> SUFFICES ASSUME NEW i \in 2..Len(s)
               PROVE  i - 1 \in 1..Len(t) /\ t[i - 1] = s[i]
    OBVIOUS
  <2>1. i - 1 \in 1..Len(t) /\ i = (i - 1) + 1
    BY <1>1
  <2> QED
    BY <2>1, <1>2
<1>4. 1 \in 1..Len(s) /\ \A i \in 1..Len(t) : i + 1 \in 1..Len(s) /\ i + 1 # 1
  BY <1>1
<1>5. \A i \in 1..Len(s) : i = 1 \/ i \in 2..Len(s)
  BY <1>1
<1> HIDE DEF t
<1>6. ASSUME NEW S PROVE Hits(s, S) <=> Head(s) \in S \/ Hits(t, S)
  <2>1. Hits(s, S) => Head(s) \in S \/ Hits(t, S)
    BY <1>1, <1>3, <1>5 DEF Hits
  <2>2. Head(s) \in S \/ Hits(t, S) => Hits(s, S)
    BY <1>1, <1>2, <1>4 DEF Hits
  <2> QED
    BY <2>1, <2>2
<1>7. ASSUME NEW S, Single(s, S)
      PROVE  Single(t, S) /\ (Head(s) \in S => ~Hits(t, S))
  <2>1. ASSUME NEW i \in 1..Len(t), NEW j \in 1..Len(t), t[i] \in S, t[j] \in S
        PROVE  i = j
    <3>1. i + 1 = j + 1
      BY <1>2, <1>4, <1>7, <2>1 DEF Single
    <3> QED
      BY <3>1
  <2>2. Head(s) \in S => ~Hits(t, S)
    BY <1>1, <1>2, <1>4, <1>7 DEF Single, Hits
  <2> QED
    BY <2>1, <2>2 DEF Single
<1>8. ASSUME NEW R, NEW S, Last(s, R, S)
      PROVE  Last(t, R, S) /\ (Head(s) \in R => ~Hits(t, S))
  <2>1. ASSUME NEW i \in 1..Len(t), NEW j \in 1..Len(t), i < j, t[i] \in R
        PROVE  t[j] \notin S
    <3>1. i + 1 < j + 1
      BY <2>1
    <3> QED
      BY <1>2, <1>4, <1>8, <2>1, <3>1 DEF Last
  <2>2. Head(s) \in R => ~Hits(t, S)
    <3>1. \A i \in 1..Len(t) : 1 < i + 1
      OBVIOUS
    <3> QED
      BY <1>1, <1>2, <1>4, <1>8, <3>1 DEF Last, Hits
  <2> QED
    BY <2>1, <2>2 DEF Last
<1>9. ASSUME NEW A, NEW B, Preceded(s, A, B)
      PROVE  Head(s) \notin B /\ (Head(s) \in A \/ Preceded(t, A, B))
  <2>1. Head(s) \notin B
    <3>1. \A i \in 1..Len(s) : ~(i < 1)
      OBVIOUS
    <3> QED
      BY <1>1, <1>4, <1>9, <3>1 DEF Preceded
  <2>2. ASSUME Head(s) \notin A, NEW j \in 1..Len(t), t[j] \in B
        PROVE  \E i \in 1..Len(t) : i < j /\ t[i] \in A
    <3>1. PICK i \in 1..Len(s) : i < j + 1 /\ s[i] \in A
      BY <1>2, <1>4, <1>9, <2>2 DEF Preceded
    <3>2. i # 1
      BY <1>1, <2>2, <3>1
    <3>3. i - 1 \in 1..Len(t) /\ t[i - 1] \in A /\ i - 1 < j
      BY <1>3, <1>5, <3>1, <3>2
    <3> QED
      BY <3>3
  <2> QED
    BY <2>1, <2>2 DEF Preceded
<1> QED
  BY <1>6, <1>7, <1>8, <1>9 DEF t
----------------------------------------------------------------------------
(* Steps that put the question nowhere new *)

\* Stanzas that neither ask, grant nor pass on the question.
Plain == [kind : {"error"}, type : MessageType, target : Peer \cup {Nobody}]
         \cup Sets("terminate") \cup Sets("reject") \cup Sets("transport-accept")

\* No session comes to hold the question; nothing but its head leaves an inbox
\* and nothing comes in; nothing but a plain stanza is sent.
FewerStates ==
    /\ description' = description /\ redirects' = redirects
    /\ \A r \in Peer :
          /\ state'[r] \in {"NONE", "RECEIVEDINITIATE"} => state'[r] = state[r]
          /\ Fresh(r) => Fresh(r)'

FewerBoxed == \A r \in Peer :
    \/ inbox'[r] \in {inbox[r], <<>>}
    \/ inbox[r] # <<>> /\ inbox'[r] = Tail(inbox[r])

FewerSent == \A q, r \in Peer : \E s \in {net[q][r], Tail(net[q][r])} :
    /\ s = net[q][r] \/ net[q][r] # <<>>
    /\ net'[q][r] = s \/ \E m \in Plain : net'[q][r] = Append(s, m)

\* The question is not in a plain stanza.
LEMMA PlainStanzas ==
    /\ Plain \subseteq Stanza
    /\ \A m \in Plain : /\ m \notin Sets("initiate") /\ m \notin Sets("accept")
                        /\ m \notin Sets("redirect")
                        /\ \A t \in Peer \cup {Nobody} : m \notin Redirects(t)
    /\ \A type \in MessageType : Sets(type) \subseteq Stanza
BY DEF Plain, Sets, Redirects, Stanza, MessageType

\* What plain stanzas and a taken head leave of a set of requests.
LEMMA FewerHits ==
    ASSUME TypeOK, FewerSent, NEW q \in Peer, NEW r \in Peer,
           NEW S, \A m \in Plain : m \notin S
    PROVE  /\ Hits(net'[q][r], S) => Hits(net[q][r], S)
           /\ Single(net[q][r], S) => Single(net'[q][r], S)
<1>1. PICK s \in {net[q][r], Tail(net[q][r])} :
          /\ s = net[q][r] \/ net[q][r] # <<>>
          /\ net'[q][r] = s \/ \E m \in Plain : net'[q][r] = Append(s, m)
  BY DEF FewerSent
<1>2. net[q][r] \in Seq(Stanza)
  BY DEF TypeOK
<1>3. /\ s \in Seq(Stanza)
      /\ Hits(s, S) => Hits(net[q][r], S)
      /\ Single(net[q][r], S) => Single(s, S)
  <2>1. CASE s = net[q][r]
    BY <1>2, <2>1
  <2>2. CASE net[q][r] # <<>> /\ s = Tail(net[q][r])
    <3>1. s \in Seq(Stanza)
      BY <1>2, <2>2
    <3> QED
      BY <1>2, <2>2, <3>1, Shrunk
  <2> QED
    BY <1>1, <2>1, <2>2
<1>4. ASSUME NEW m \in Plain, net'[q][r] = Append(s, m)
      PROVE  /\ Hits(net'[q][r], S) => Hits(net[q][r], S)
             /\ Single(net[q][r], S) => Single(net'[q][r], S)
  <2>1. m \in Stanza /\ m \notin S
    BY PlainStanzas
  <2> QED
    BY <1>3, <1>4, <2>1, Grown
<1> QED
  BY <1>1, <1>3, <1>4

LEMMA FewerInbox ==
    ASSUME TypeOK, FewerBoxed, NEW r \in Peer, NEW S
    PROVE  /\ Hits(inbox'[r], S) => Hits(inbox[r], S)
           /\ Single(inbox[r], S) => Single(inbox'[r], S)
<1>1. inbox[r] \in Seq(Delivery)
  BY DEF TypeOK
<1>2. CASE inbox'[r] = inbox[r]
  BY <1>2
<1>3. CASE inbox'[r] = <<>>
  BY <1>3 DEF Hits, Single
<1>4. CASE inbox[r] # <<>> /\ inbox'[r] = Tail(inbox[r])
  BY <1>1, <1>4, Shrunk
<1> QED
  BY <1>2, <1>3, <1>4 DEF FewerBoxed

\* So such a step leaves the question where it was, or loses it.
LEMMA QuestionFewer ==
    ASSUME TypeOK, FewerStates, FewerBoxed, FewerSent
    PROVE  (Speech => Speech') /\ (OneQuestion => OneQuestion')
<1> USE PeerAssumption
<1>1. \A q, r \in Peer, type \in {"initiate", "accept", "redirect"} :
          /\ Hits(net'[q][r], Sets(type)) => Hits(net[q][r], Sets(type))
          /\ Single(net[q][r], Sets(type)) => Single(net'[q][r], Sets(type))
  BY FewerHits, PlainStanzas
<1>2. \A q, r \in Peer, t \in Peer \cup {Nobody} :
          Hits(net'[q][r], Redirects(t)) => Hits(net[q][r], Redirects(t))
  BY FewerHits, PlainStanzas
<1>3. \A r \in Peer : \A S : /\ Hits(inbox'[r], S) => Hits(inbox[r], S)
                             /\ Single(inbox[r], S) => Single(inbox'[r], S)
  BY FewerInbox
<1>4. \A q, r \in Peer, type \in {"initiate", "accept", "redirect"} :
          Pending(q, r, type)' => Pending(q, r, type)
  BY <1>1, <1>3 DEF Pending
<1>5. ASSUME Speech PROVE Speech'
  <2>1. \A p, q \in Peer : Pending(q, p, "initiate")' => q = Caller /\ p \in Callee
    BY <1>4, <1>5 DEF Speech
  <2>2. ASSUME NEW q \in Peer, NEW t \in Peer \cup {Nobody},
               \/ Hits(net'[q][Caller], Redirects(t))
               \/ Hits(inbox'[Caller], BoxedRedirects(t))
        PROVE  t \in Callee /\ Fresh(t)'
    <3>1. t \in Callee /\ Fresh(t)
      BY <1>2, <1>3, <1>5, <2>2 DEF Speech
    <3> QED
      BY <3>1 DEF FewerStates, Callee
  <2>3. \A q \in Peer : Pending(q, Caller, "accept")' => description'[q]
    BY <1>4, <1>5 DEF Speech, FewerStates
  <2>4. \A q \in Peer : Pending(q, Caller, "redirect")' => q \in Callee /\ redirects' > 0
    BY <1>4, <1>5 DEF Speech, FewerStates
  <2> QED
    BY <2>1, <2>2, <2>3, <2>4 DEF Speech
<1>6. ASSUME OneQuestion PROVE OneQuestion'
  <2>1. \A p \in Peer : Holds(p)' => Holds(p)
    BY <1>4 DEF Holds, FewerStates
  <2>2. ASSUME NEW p \in Callee PROVE Stage(p)'
    <3>1. Stage(p) /\ p \in Peer
      BY <1>6 DEF OneQuestion, Callee
    <3> QED
      BY <1>1, <1>3, <1>4, <3>1 DEF Stage, FewerStates
  <2> QED
    BY <1>6, <2>1, <2>2 DEF OneQuestion
<1> QED
  BY <1>5, <1>6
----------------------------------------------------------------------------
(* Steps that move the question *)

\* What sending one stanza does to the network.
LEMMA Says ==
    ASSUME TypeOK, NEW p \in Peer, NEW r \in Peer, NEW m \in Stanza, SendTo(p, r, m)
    PROVE  /\ net'[p][r] = Append(net[p][r], m)
           /\ \A q1, q2 \in Peer : <<q1, q2>> # <<p, r>> => net'[q1][q2] = net[q1][q2]
           /\ \A S : Hits(net'[p][r], S) <=> Hits(net[p][r], S) \/ m \in S
           /\ \A S : Single(net[p][r], S) /\ (m \in S => ~Hits(net[p][r], S))
                     => Single(net'[p][r], S)
<1>1. net'[p][r] = Append(net[p][r], m) /\ net[p][r] \in Seq(Stanza)
  BY DEF SendTo, TypeOK
<1>2. \A q1, q2 \in Peer : <<q1, q2>> # <<p, r>> => net'[q1][q2] = net[q1][q2]
  BY DEF SendTo, TypeOK
<1> QED
  BY <1>1, <1>2, Grown

\* What the thread takes of its stanzas.
LEMMA Takes ==
    ASSUME TypeOK, NEW p \in Peer, NEW q \in Peer, NEW type \in MessageType,
           Arrived(p, q, type), TakeStanza(p)
    PROVE  /\ inbox[p] # <<>> /\ inbox'[p] = Tail(inbox[p])
           /\ \A r \in Peer : r # p => inbox'[r] = inbox[r]
           /\ Head(inbox[p]) \in Boxed(q, type)
           /\ Head(inbox[p]).stanza.target \in Peer \cup {Nobody}
           /\ type = "redirect" =>
                 Head(inbox[p]) \in BoxedRedirects(Head(inbox[p]).stanza.target)
           /\ \A S : Hits(inbox[p], S) <=> Head(inbox[p]) \in S \/ Hits(inbox'[p], S)
           /\ \A S : Single(inbox[p], S) =>
                 Single(inbox'[p], S) /\ (Head(inbox[p]) \in S => ~Hits(inbox'[p], S))
           /\ FewerBoxed
<1>1. /\ inbox[p] # <<>> /\ inbox'[p] = Tail(inbox[p]) /\ inbox[p] \in Seq(Delivery)
      /\ \A r \in Peer : r # p => inbox'[r] = inbox[r]
  BY DEF Arrived, TakeStanza, TypeOK
<1>2. Head(inbox[p]) \in Delivery
  BY <1>1
<1>3. /\ Head(inbox[p]) \in Boxed(q, type)
      /\ Head(inbox[p]).stanza.target \in Peer \cup {Nobody}
      /\ type = "redirect" =>
            Head(inbox[p]) \in BoxedRedirects(Head(inbox[p]).stanza.target)
  BY <1>2 DEF Arrived, Delivery, Stanza, Boxed, BoxedRedirects
<1>4. FewerBoxed
  BY <1>1 DEF FewerBoxed
<1>5. /\ \A S : Hits(inbox[p], S) <=> Head(inbox[p]) \in S \/ Hits(Tail(inbox[p]), S)
      /\ \A S : Single(inbox[p], S) =>
            Single(Tail(inbox[p]), S) /\ (Head(inbox[p]) \in S => ~Hits(Tail(inbox[p]), S))
  BY <1>1, Shrunk
<1> QED
  BY <1>1, <1>3, <1>4, <1>5

\* The stanzas of the question and the sets they are in.
LEMMA Questions ==
    /\ Request("initiate") \in Sets("initiate") /\ Request("accept") \in Sets("accept")
    /\ \A type \in MessageType : Request(type) \in Stanza
    /\ \A t \in Peer : RedirectTo(t) \in Sets("redirect") /\ RedirectTo(t) \in Stanza
    /\ \A t \in Peer, u \in Peer \cup {Nobody} : RedirectTo(t) \in Redirects(u) => u = t
    /\ \A type, other \in MessageType : Request(type) \in Sets(other) => type = other
    /\ \A type \in MessageType, t \in Peer \cup {Nobody} :
          type # "redirect" => Request(type) \notin Redirects(t)
    /\ \A t \in Peer, type \in MessageType : RedirectTo(t) \in Sets(type) => type = "redirect"
    /\ Request("terminate") \in Plain /\ Request("reject") \in Plain
    /\ Request("transport-accept") \in Plain
    /\ \A m \in Stanza : ErrorReply(m) \in Plain
BY DEF Request, RedirectTo, ErrorReply, Sets, Redirects, Plain, Stanza, MessageType

\* A stanza that redirects comes from somebody.
\* A redirect to t is a redirect.
LEMMA Redirected ==
    ASSUME NEW t \in Peer \cup {Nobody}, NEW q \in Peer
    PROVE  /\ Hits(net[q][Caller], Redirects(t)) => Hits(net[q][Caller], Sets("redirect"))
           /\ Hits(inbox[Caller], BoxedRedirects(t)) =>
                 \E r \in Peer : Hits(inbox[Caller], Boxed(r, "redirect"))
BY DEF Hits, Redirects, Sets, BoxedRedirects, Boxed

\* The caller asks the first one.
LEMMA QuestionInitiate ==
    ASSUME TypeOK, Roles, Speech, OneQuestion,
           NEW p \in Peer, NEW q \in Peer, Initiate(p, q)
    PROVE  Speech' /\ OneQuestion'
<1> USE PeerAssumption
<1>1. /\ p = Caller /\ q \in Callee /\ state[Caller] = "NONE"
      /\ SendTo(Caller, q, Request("initiate"))
      /\ UNCHANGED <<description, inbox, up, redirects>>
      /\ \A r \in Callee : state'[r] = state[r]
      /\ state'[Caller] = "SENTINITIATE"
  BY DEF Initiate, SetState, Callee, TypeOK, worldVars
<1>2. /\ net'[Caller][q] = Append(net[Caller][q], Request("initiate"))
      /\ \A q1, q2 \in Peer : <<q1, q2>> # <<Caller, q>> => net'[q1][q2] = net[q1][q2]
      /\ \A S : Hits(net'[Caller][q], S) <=> Hits(net[Caller][q], S) \/ Request("initiate") \in S
      /\ \A S : Single(net[Caller][q], S) /\ (Request("initiate") \in S => ~Hits(net[Caller][q], S))
                     => Single(net'[Caller][q], S)
  BY <1>1, Questions, Says DEF Callee, MessageType
<1>3. /\ Request("initiate") \in Sets("initiate") /\ Request("initiate") \notin Sets("accept")
      /\ Request("initiate") \notin Sets("redirect")
      /\ \A t \in Peer \cup {Nobody} : Request("initiate") \notin Redirects(t)
  BY Questions DEF MessageType
<1>4. /\ \A r \in Peer : r # Caller => ~Holds(r)
      /\ Holds(Caller)
  BY <1>1 DEF OneQuestion, Holds
<1>5. \A r \in Callee : Fresh(r) /\ Fresh(r)'
  BY <1>1 DEF Roles, Fresh
<1>6. \A q1, q2 \in Peer : \A type \in {"initiate", "accept", "redirect"} :
          Pending(q1, q2, type)'
          <=> Pending(q1, q2, type) \/ (type = "initiate" /\ q1 = Caller /\ q2 = q)
  BY ZenonT(80), <1>1, <1>2, <1>3 DEF Pending
<1>7. Speech'
  <2>1. \A q1, r \in Peer : Pending(q1, r, "initiate")' => q1 = Caller /\ r \in Callee
    BY <1>1, <1>6 DEF Speech
  <2>2. ASSUME NEW q1 \in Peer, NEW t \in Peer \cup {Nobody},
               \/ Hits(net'[q1][Caller], Redirects(t))
               \/ Hits(inbox'[Caller], BoxedRedirects(t))
        PROVE  t \in Callee /\ Fresh(t)'
    BY <1>1, <1>2, <1>3, <1>5, <2>2 DEF Speech
  <2>3. \A q1 \in Peer : Pending(q1, Caller, "accept")' => description'[q1]
    BY <1>1, <1>6 DEF Speech
  <2>4. \A q1 \in Peer : Pending(q1, Caller, "redirect")' => q1 \in Callee /\ redirects' > 0
    BY <1>1, <1>6 DEF Speech
  <2> QED
    BY <2>1, <2>2, <2>3, <2>4 DEF Speech
<1>8. \A r \in Peer : Holds(r)' => r = q
  BY <1>1, <1>4, <1>6 DEF Holds, Callee
<1>9. ASSUME NEW r \in Callee PROVE Stage(r)'
  <2>1. /\ r \in Peer /\ Stage(r) /\ r # Caller /\ ~Pending(Caller, r, "initiate")
        /\ ~Pending(r, Caller, "redirect") /\ ~description[r]
    BY <1>4 DEF OneQuestion, Holds, Callee
  <2>2. Single(net'[Caller][r], Sets("initiate")) /\ Single(net'[r][Caller], Sets("redirect"))
    BY <1>1, <1>2, <2>1 DEF Stage, Pending, Callee
  <2>3. ~Pending(r, Caller, "redirect")'
    BY <1>6, <2>1
  <2> QED
    BY <1>1, <1>5, <2>1, <2>2, <2>3 DEF Stage, Pending
<1> QED
  BY <1>7, <1>8, <1>9 DEF OneQuestion

\* The peer that rings grants it.
LEMMA QuestionAccept ==
    ASSUME TypeOK, Roles, Speech, OneQuestion, NEW p \in Peer, Accept(p)
    PROVE  Speech' /\ OneQuestion'
<1> USE PeerAssumption
<1>1. /\ p \in Callee /\ p # Caller /\ state[p] = "RECEIVEDINITIATE"
      /\ SendTo(p, Caller, Request("accept"))
      /\ UNCHANGED <<inbox, up, redirects>>
      /\ \A r \in Peer : r # p => state'[r] = state[r] /\ description'[r] = description[r]
      /\ state'[p] = "SENTACCEPT" /\ description'[p]
  BY ZenonT(80) DEF Accept, SetState, Callee, TypeOK, worldVars, Roles, CallerStates
<1>2. /\ net'[p][Caller] = Append(net[p][Caller], Request("accept"))
      /\ \A q1, q2 \in Peer : <<q1, q2>> # <<p, Caller>> => net'[q1][q2] = net[q1][q2]
      /\ \A S : Hits(net'[p][Caller], S) <=> Hits(net[p][Caller], S) \/ Request("accept") \in S
      /\ \A S : Single(net[p][Caller], S) /\ (Request("accept") \in S => ~Hits(net[p][Caller], S))
                     => Single(net'[p][Caller], S)
  BY <1>1, Questions, Says DEF MessageType
<1>3. /\ Request("accept") \notin Sets("initiate") /\ Request("accept") \in Sets("accept")
      /\ Request("accept") \notin Sets("redirect")
      /\ \A t \in Peer \cup {Nobody} : Request("accept") \notin Redirects(t)
  BY Questions DEF MessageType
<1>4. /\ \A r \in Peer : r # p => ~Holds(r)
      /\ Holds(p)
  BY <1>1 DEF OneQuestion, Holds
<1>5. \A r \in Callee : (Fresh(r) => Fresh(r)') /\ (state'[r] = "RECEIVEDINITIATE" => r # p)
  <2>1. up[p]
    BY DEF Accept, AtLoop
  <2> QED
    BY <1>1, <2>1 DEF Fresh, Callee
<1>6. \A q1, q2 \in Peer : \A type \in {"initiate", "accept", "redirect"} :
          Pending(q1, q2, type)'
          <=> Pending(q1, q2, type) \/ (type = "accept" /\ q1 = p /\ q2 = Caller)
  BY ZenonT(80), <1>1, <1>2, <1>3 DEF Pending
<1>7. Speech'
  <2>1. \A q1, r \in Peer : Pending(q1, r, "initiate")' => q1 = Caller /\ r \in Callee
    BY <1>1, <1>6 DEF Speech
  <2>2. ASSUME NEW q1 \in Peer, NEW t \in Peer \cup {Nobody},
               \/ Hits(net'[q1][Caller], Redirects(t))
               \/ Hits(inbox'[Caller], BoxedRedirects(t))
        PROVE  t \in Callee /\ Fresh(t)'
    BY <1>1, <1>2, <1>3, <1>5, <2>2 DEF Speech
  <2>3. \A q1 \in Peer : Pending(q1, Caller, "accept")' => description'[q1]
    BY <1>1, <1>6 DEF Speech
  <2>4. \A q1 \in Peer : Pending(q1, Caller, "redirect")' => q1 \in Callee /\ redirects' > 0
    BY <1>1, <1>6 DEF Speech
  <2> QED
    BY <2>1, <2>2, <2>3, <2>4 DEF Speech
<1>8. \A r \in Peer : Holds(r)' => r = p
  BY <1>1, <1>4, <1>6 DEF Holds, Callee
<1>9. ASSUME NEW r \in Callee PROVE Stage(r)'
  <2>1. /\ r \in Peer /\ Stage(r) /\ r # Caller
        /\ ~Pending(Caller, r, "initiate") /\ ~Pending(r, Caller, "redirect")
    BY <1>1, <1>4 DEF OneQuestion, Holds, Stage, Callee, Fresh, Roles
  <2>2. Single(net'[Caller][r], Sets("initiate")) /\ Single(net'[r][Caller], Sets("redirect"))
    BY <1>1, <1>2, <1>3, <2>1 DEF Stage
  <2>3. ~Pending(r, Caller, "redirect")' /\ ~Pending(Caller, r, "initiate")'
    BY <1>6, <2>1
  <2>4. state'[r] # "RECEIVEDINITIATE"
    BY <1>1, <1>4, <2>1 DEF Holds
  <2> QED
    BY <1>1, <2>1, <2>2, <2>3, <2>4 DEF Stage, Pending
<1> QED
  BY <1>7, <1>8, <1>9 DEF OneQuestion

\* The peer that rings passes it on.
LEMMA QuestionRedirect ==
    ASSUME TypeOK, Roles, Speech, OneQuestion,
           NEW p \in Peer, NEW t \in Peer, Redirect(p, t)
    PROVE  Speech' /\ OneQuestion'
<1> USE PeerAssumption
<1>1. /\ p \in Callee /\ p # Caller /\ state[p] = "RECEIVEDINITIATE"
      /\ t \in Callee /\ Fresh(t)
      /\ SendTo(p, Caller, RedirectTo(t))
      /\ redirects \in Nat /\ redirects' = redirects + 1
      /\ UNCHANGED <<inbox, up, description>>
      /\ \A r \in Peer : r # p => state'[r] = state[r]
      /\ state'[p] = "SENTREDIRECT"
  BY DEF Redirect, SetState, Callee, TypeOK, Roles, CallerStates, Fresh
<1>2. /\ net'[p][Caller] = Append(net[p][Caller], RedirectTo(t))
      /\ \A q1, q2 \in Peer : <<q1, q2>> # <<p, Caller>> => net'[q1][q2] = net[q1][q2]
      /\ \A S : Hits(net'[p][Caller], S) <=> Hits(net[p][Caller], S) \/ RedirectTo(t) \in S
      /\ \A S : Single(net[p][Caller], S) /\ (RedirectTo(t) \in S => ~Hits(net[p][Caller], S))
                     => Single(net'[p][Caller], S)
  BY <1>1, Questions, Says
<1>3. /\ RedirectTo(t) \notin Sets("initiate") /\ RedirectTo(t) \notin Sets("accept")
      /\ RedirectTo(t) \in Sets("redirect")
      /\ \A u \in Peer \cup {Nobody} : RedirectTo(t) \in Redirects(u) => u = t
  BY Questions DEF MessageType
<1>4. /\ \A r \in Peer : r # p => ~Holds(r)
      /\ Holds(p)
  BY <1>1 DEF OneQuestion, Holds
<1>5. \A r \in Callee : Fresh(r) => Fresh(r)'
  <2>1. up[p]
    BY DEF Redirect, AtLoop
  <2> QED
    BY <1>1, <2>1 DEF Fresh, Callee
<1>6. \A q1, q2 \in Peer : \A type \in {"initiate", "accept", "redirect"} :
          Pending(q1, q2, type)'
          <=> Pending(q1, q2, type) \/ (type = "redirect" /\ q1 = p /\ q2 = Caller)
  BY ZenonT(80), <1>1, <1>2, <1>3 DEF Pending
<1>7. Speech'
  <2>1. \A q1, r \in Peer : Pending(q1, r, "initiate")' => q1 = Caller /\ r \in Callee
    BY <1>1, <1>6 DEF Speech
  <2>2. ASSUME NEW q1 \in Peer, NEW u \in Peer \cup {Nobody},
               \/ Hits(net'[q1][Caller], Redirects(u))
               \/ Hits(inbox'[Caller], BoxedRedirects(u))
        PROVE  u \in Callee /\ Fresh(u)'
    <3>1. CASE u = t
      BY <1>1, <1>5, <3>1
    <3>2. CASE u # t
      <4>1. \/ Hits(net[q1][Caller], Redirects(u)) \/ Hits(inbox[Caller], BoxedRedirects(u))
        BY <1>1, <1>2, <1>3, <2>2, <3>2
      <4> QED
        BY <1>1, <1>5, <3>2, <4>1 DEF Speech, Callee
    <3> QED
      BY <3>1, <3>2
  <2>3. \A q1 \in Peer : Pending(q1, Caller, "accept")' => description'[q1]
    BY <1>1, <1>6 DEF Speech
  <2>4. \A q1 \in Peer : Pending(q1, Caller, "redirect")' => q1 \in Callee /\ redirects' > 0
    BY <1>1, <1>6 DEF Speech
  <2> QED
    BY <2>1, <2>2, <2>3, <2>4 DEF Speech
<1>8. \A r \in Peer : Holds(r)' => r = p
  BY <1>1, <1>4, <1>6 DEF Holds, Callee
<1>9. ASSUME NEW r \in Callee PROVE Stage(r)'
  <2>1. /\ r \in Peer /\ Stage(r) /\ r # Caller /\ ~description[r]
        /\ ~Pending(Caller, r, "initiate") /\ ~Pending(r, Caller, "redirect")
    BY <1>1, <1>4 DEF OneQuestion, Holds, Stage, Callee, Fresh, Roles
  <2>2. Single(net'[Caller][r], Sets("initiate")) /\ Single(net'[r][Caller], Sets("redirect"))
    BY <1>1, <1>2, <1>3, <2>1 DEF Stage, Pending
  <2>3. ~Pending(Caller, r, "initiate")'
    BY <1>6, <2>1
  <2>4. state'[r] # "RECEIVEDINITIATE"
    BY <1>1, <1>4, <2>1 DEF Holds
  <2>5. ~Hits(inbox'[Caller], Boxed(r, "redirect"))
    BY <1>1, <2>1 DEF Pending
  <2> QED
    BY <1>1, <2>1, <2>2, <2>3, <2>4, <2>5 DEF Stage, Pending
<1> QED
  BY <1>7, <1>8, <1>9 DEF OneQuestion

\* The peer the question is brought to rings, or answers at once.
LEMMA QuestionRing ==
    ASSUME TypeOK, Roles, Speech, OneQuestion, NEW p \in Peer, NEW q \in Peer,
           NEW answer \in {"later", "accept", "reject"}, Ring(p, q, answer)
    PROVE  /\ q = Caller /\ p \in Callee /\ Holds(p) /\ state[p] = "NONE" /\ ~description[p]
           /\ Speech' /\ OneQuestion'
<1> USE PeerAssumption
<1> DEFINE new == IF answer = "accept" THEN "accept" ELSE "reject"
<1>1. /\ Arrived(p, q, "initiate") /\ TakeStanza(p)
      /\ UNCHANGED <<up, redirects>>
      /\ \A r \in Peer : r # p => state'[r] = state[r] /\ description'[r] = description[r]
      /\ description'[p] = (answer = "accept")
      /\ state'[p] = CASE answer = "later"  -> "RECEIVEDINITIATE"
                       [] answer = "accept" -> "SENTACCEPT"
                       [] answer = "reject" -> "SENTREJECT"
  BY DEF Ring, SetState, TypeOK, worldVars
<1>2. /\ \A r \in Peer : r # p => inbox'[r] = inbox[r]
      /\ Head(inbox[p]) \in Boxed(q, "initiate")
      /\ \A S : Hits(inbox[p], S) <=> Head(inbox[p]) \in S \/ Hits(inbox'[p], S)
      /\ \A S : Single(inbox[p], S) =>
            Single(inbox'[p], S) /\ (Head(inbox[p]) \in S => ~Hits(inbox'[p], S))
  BY <1>1, Takes DEF MessageType
<1>3. Pending(q, p, "initiate")
  BY <1>2 DEF Pending
<1>4. q = Caller /\ p \in Callee /\ p # Caller /\ Stage(p) /\ Holds(p) /\ Fresh(p)
  BY <1>3 DEF Speech, OneQuestion, Callee, Holds, Stage
<1>5. /\ ~description[p] /\ ~Pending(p, Caller, "redirect")
      /\ ~Hits(net[Caller][p], Sets("initiate")) /\ ~Hits(inbox'[p], Boxed(Caller, "initiate"))
  BY <1>2, <1>3, <1>4 DEF Stage
<1>6. up[p] /\ state[p] = "NONE"
  BY <1>1, <1>4 DEF Arrived, Roles, Fresh
<1>7. /\ \A q1, q2 \in Peer : <<q1, q2>> # <<p, Caller>> => net'[q1][q2] = net[q1][q2]
      /\ \A S : Request("transport-accept") \notin S /\ Request("reject") \notin S
                /\ Request("accept") \notin S =>
                   /\ Hits(net'[p][Caller], S) <=> Hits(net[p][Caller], S)
                   /\ Single(net[p][Caller], S) => Single(net'[p][Caller], S)
      /\ answer # "accept" => (Hits(net'[p][Caller], Sets("accept"))
                               <=> Hits(net[p][Caller], Sets("accept")))
  <2>1. /\ Request("transport-accept") \in Stanza /\ Request("reject") \in Stanza
        /\ Request("accept") \in Stanza
        /\ Request("transport-accept") \notin Sets("accept")
        /\ Request("reject") \notin Sets("accept")
    BY Questions DEF MessageType
  <2>2. CASE answer = "later"
    <3>1. SendTo(p, Caller, Request("transport-accept"))
      BY <1>4, <2>2 DEF Ring
    <3> QED
      BY <2>1, <2>2, <3>1, Says
  <2>3. CASE answer = "reject"
    <3>1. SendTo(p, Caller, Request("reject"))
      BY <1>4, <2>3 DEF Ring
    <3> QED
      BY <2>1, <2>3, <3>1, Says
  <2>4. CASE answer = "accept"
    <3> DEFINE t == Append(net[p][Caller], Request("transport-accept"))
               u == Append(t, Request("accept"))
    <3>1. net[p][Caller] \in Seq(Stanza)
      BY DEF TypeOK
    <3>2. t \in Seq(Stanza)
      BY <2>1, <3>1
    <3>3. u = net[p][Caller] \o <<Request("transport-accept"), Request("accept")>>
      BY <2>1, <3>1
    <3>4. net' = [net EXCEPT ![p][Caller] = u]
      BY <1>4, <2>4, <3>3 DEF Ring
    <3> HIDE DEF u
    <3>5. net'[p][Caller] = u
      BY <3>4 DEF TypeOK
    <3>6. \A q1, q2 \in Peer : <<q1, q2>> # <<p, Caller>> => net'[q1][q2] = net[q1][q2]
      BY <3>4 DEF TypeOK
    <3>7. \A S : Request("transport-accept") \notin S =>
                 /\ Hits(t, S) <=> Hits(net[p][Caller], S)
                 /\ Single(net[p][Caller], S) => Single(t, S)
      BY <2>1, <3>1, Grown
    <3> HIDE DEF t
    <3>8. \A S : Request("accept") \notin S =>
                 (Hits(u, S) <=> Hits(t, S)) /\ (Single(t, S) => Single(u, S))
      BY <2>1, <3>2, Grown DEF u
    <3> QED
      BY <2>4, <3>5, <3>6, <3>7, <3>8
  <2> QED
    BY <2>2, <2>3, <2>4
<1>8. \A m \in {"transport-accept", "reject", "accept"} :
          /\ Request(m) \notin Sets("initiate") /\ Request(m) \notin Sets("redirect")
          /\ \A t \in Peer \cup {Nobody} : Request(m) \notin Redirects(t)
  BY Questions DEF MessageType
<1>9. \A q1, q2 \in Peer, type \in {"initiate", "redirect"} :
          /\ Hits(net'[q1][q2], Sets(type)) <=> Hits(net[q1][q2], Sets(type))
          /\ Single(net[q1][q2], Sets(type)) => Single(net'[q1][q2], Sets(type))
  BY <1>7, <1>8
<1>10. \A r \in Peer : \A S : /\ Hits(inbox'[r], S) => Hits(inbox[r], S)
                              /\ Single(inbox[r], S) => Single(inbox'[r], S)
  BY <1>2
<1>11. \A q1, q2 \in Peer, type \in {"initiate", "redirect"} :
          Pending(q1, q2, type)' => Pending(q1, q2, type)
  BY <1>9, <1>10 DEF Pending
<1>12. ~Pending(Caller, p, "initiate")' /\ ~Pending(p, Caller, "redirect")'
  BY <1>4, <1>5, <1>9, <1>11 DEF Pending
<1>13. \A r \in Callee : r # p => (Fresh(r) <=> Fresh(r)')
  BY <1>1 DEF Fresh, Callee
<1>14. \A r \in Peer : r # p => ~Holds(r)
  BY <1>4 DEF OneQuestion
<1>15. Speech'
  <2>1. \A q1, r \in Peer : Pending(q1, r, "initiate")' => q1 = Caller /\ r \in Callee
    BY <1>11 DEF Speech
  <2>2. ASSUME NEW q1 \in Peer, NEW t \in Peer \cup {Nobody},
               \/ Hits(net'[q1][Caller], Redirects(t))
               \/ Hits(inbox'[Caller], BoxedRedirects(t))
        PROVE  t \in Callee /\ Fresh(t)'
    <3>1. \/ Hits(net[q1][Caller], Redirects(t)) \/ Hits(inbox[Caller], BoxedRedirects(t))
      BY <1>7, <1>8, <1>10, <2>2
    <3>2. t \in Callee /\ Fresh(t)
      BY <3>1 DEF Speech
    <3>3. \E r \in Callee : Pending(r, Caller, "redirect")
      BY <3>1, Redirected DEF Speech, Pending
    <3>4. t # p
      <4>1. PICK r \in Callee : Pending(r, Caller, "redirect")
        BY <3>3
      <4>2. r = p
        BY <1>14, <4>1 DEF Holds, Callee
      <4> QED
        BY <1>5, <4>1, <4>2
    <3> QED
      BY <1>13, <3>2, <3>4
  <2>3. ASSUME NEW q1 \in Peer, Pending(q1, Caller, "accept")' PROVE description'[q1]
    <3>1. CASE q1 = p /\ answer = "accept"
      BY <1>1, <3>1
    <3>2. CASE ~(q1 = p /\ answer = "accept")
      <4>1. Pending(q1, Caller, "accept")
        BY <1>7, <1>10, <2>3, <3>2 DEF Pending
      <4> QED
        BY <1>1, <1>5, <4>1 DEF Speech
    <3> QED
      BY <3>1, <3>2
  <2>4. \A q1 \in Peer : Pending(q1, Caller, "redirect")' => q1 \in Callee /\ redirects' > 0
    BY <1>1, <1>11 DEF Speech
  <2> QED
    BY <2>1, <2>2, <2>3, <2>4 DEF Speech
<1>16. \A r \in Peer : Holds(r)' => r = p
  BY <1>1, <1>11, <1>14 DEF Holds, Callee
<1>17. ASSUME NEW r \in Callee PROVE Stage(r)'
  <2>1. r \in Peer /\ Stage(r) /\ r # Caller
    BY DEF OneQuestion, Callee
  <2>2. CASE r = p
    <3>1. ~(answer = "later") \/ ~description'[p]
      BY <1>1
    <3> QED
      BY <1>1, <1>9, <1>10, <1>12, <2>1, <2>2, <3>1 DEF Stage, Pending
  <2>3. CASE r # p
    <3>1. ~Pending(Caller, r, "initiate") /\ ~Pending(r, Caller, "redirect") /\ ~description[r]
          /\ state[r] # "RECEIVEDINITIATE"
      BY <1>14, <2>1, <2>3 DEF Holds
    <3>2. ~Pending(Caller, r, "initiate")' /\ ~Pending(r, Caller, "redirect")'
      BY <1>11, <2>1, <3>1
    <3> QED
      BY <1>1, <1>9, <1>10, <2>1, <2>3, <3>1, <3>2 DEF Stage, Pending
  <2> QED
    BY <2>2, <2>3
<1> QED
  BY <1>4, <1>5, <1>6, <1>15, <1>16, <1>17 DEF OneQuestion

\* The caller asks whom it was redirected to.
LEMMA QuestionForward ==
    ASSUME TypeOK, Roles, Speech, OneQuestion,
           NEW p \in Peer, NEW q \in Peer, OnRedirectMessage(p, q)
    PROVE  /\ p = Caller /\ q \in Callee /\ Holds(q)
           /\ \E t \in Callee : /\ remote'[Caller] = t /\ ~Pending(t, Caller, "accept")'
                               /\ state'[t] # "RECEIVEDINITIATE"
           /\ Speech' /\ OneQuestion'
<1> USE PeerAssumption
<1>0. PICK t : t = Head(inbox[Caller]).stanza.target
  OBVIOUS
<1>1. /\ p = Caller /\ Arrived(Caller, q, "redirect") /\ TakeStanza(Caller)
      /\ state[Caller] = "SENTINITIATE" /\ remote[Caller] = q /\ q \in Callee /\ q # Caller
      /\ SendTo(Caller, t, Request("initiate"))
      /\ remote'[Caller] = t
      /\ UNCHANGED <<state, description, up, redirects>>
  BY <1>0 DEF OnRedirectMessage, OutOfPlace, FindSession, Roles, CalleeStates, Callee, TypeOK,
         worldVars
<1>2. /\ \A r \in Peer : r # Caller => inbox'[r] = inbox[r]
      /\ Head(inbox[Caller]) \in Boxed(q, "redirect")
      /\ t \in Peer \cup {Nobody} /\ Head(inbox[Caller]) \in BoxedRedirects(t)
      /\ \A S : Hits(inbox[Caller], S) <=> Head(inbox[Caller]) \in S \/ Hits(inbox'[Caller], S)
      /\ \A S : Single(inbox[Caller], S) =>
            Single(inbox'[Caller], S) /\ (Head(inbox[Caller]) \in S => ~Hits(inbox'[Caller], S))
  BY <1>0, <1>1, Takes DEF MessageType
<1>3. t \in Callee /\ t \in Peer /\ t # Caller /\ Fresh(t)
  BY <1>2 DEF Speech, Callee
<1>4. Hits(inbox[Caller], Boxed(q, "redirect")) /\ Pending(q, Caller, "redirect")
  BY <1>2 DEF Pending
<1>5. Stage(q) /\ Holds(q) /\ \A r \in Peer : r # q => ~Holds(r)
  BY <1>1, <1>4 DEF OneQuestion, Holds, Callee
<1>6. /\ ~Pending(Caller, q, "initiate") /\ state[q] # "RECEIVEDINITIATE" /\ ~description[q]
      /\ ~Hits(net[q][Caller], Sets("redirect")) /\ ~Hits(inbox'[Caller], Boxed(q, "redirect"))
  BY <1>2, <1>4, <1>5 DEF Stage
<1>7. \A r \in Callee : /\ ~Pending(Caller, r, "initiate") /\ ~description[r]
                        /\ state[r] # "RECEIVEDINITIATE"
                        /\ r # q => ~Pending(r, Caller, "redirect")
  BY <1>5, <1>6 DEF Holds, Callee
<1>8. /\ \A q1, q2 \in Peer : <<q1, q2>> # <<Caller, t>> => net'[q1][q2] = net[q1][q2]
      /\ \A S : Hits(net'[Caller][t], S) <=> Hits(net[Caller][t], S) \/ Request("initiate") \in S
      /\ \A S : Single(net[Caller][t], S) /\ (Request("initiate") \in S => ~Hits(net[Caller][t], S))
                     => Single(net'[Caller][t], S)
  BY <1>1, <1>3, Questions, Says DEF MessageType
<1>9. /\ Request("initiate") \in Sets("initiate") /\ Request("initiate") \notin Sets("accept")
      /\ Request("initiate") \notin Sets("redirect")
      /\ \A u \in Peer \cup {Nobody} : Request("initiate") \notin Redirects(u)
  BY Questions DEF MessageType
<1>10. \A r \in Peer : \A S : /\ Hits(inbox'[r], S) => Hits(inbox[r], S)
                              /\ Single(inbox[r], S) => Single(inbox'[r], S)
  BY <1>2
<1>11. \A q1, q2 \in Peer : \A type \in {"initiate", "accept", "redirect"} :
          Pending(q1, q2, type)'
          => Pending(q1, q2, type) \/ (type = "initiate" /\ q1 = Caller /\ q2 = t)
  BY <1>8, <1>9, <1>10 DEF Pending
<1>12. ~Pending(q, Caller, "redirect")'
  BY <1>1, <1>3, <1>6, <1>8 DEF Pending
<1>13. \A r \in Callee : ~Pending(r, Caller, "redirect")'
  BY <1>7, <1>11, <1>12 DEF Callee
<1>14. \A r \in Callee : Fresh(r) => Fresh(r)'
  BY <1>1 DEF Fresh
<1>15. Speech'
  <2>1. \A q1, r \in Peer : Pending(q1, r, "initiate")' => q1 = Caller /\ r \in Callee
    BY <1>3, <1>11 DEF Speech
  <2>2. ASSUME NEW q1 \in Peer, NEW u \in Peer \cup {Nobody},
               \/ Hits(net'[q1][Caller], Redirects(u))
               \/ Hits(inbox'[Caller], BoxedRedirects(u))
        PROVE  u \in Callee /\ Fresh(u)'
    BY <1>3, <1>8, <1>9, <1>10, <1>14, <2>2 DEF Speech
  <2>3. \A q1 \in Peer : Pending(q1, Caller, "accept")' => description'[q1]
    BY <1>1, <1>11 DEF Speech
  <2>4. \A q1 \in Peer : Pending(q1, Caller, "redirect")' => q1 \in Callee /\ redirects' > 0
    BY <1>1, <1>11 DEF Speech
  <2> QED
    BY <2>1, <2>2, <2>3, <2>4 DEF Speech
<1>16. \A r \in Peer : Holds(r)' => r = t
  BY <1>1, <1>7, <1>11, <1>13 DEF Holds, Callee
<1>17. ASSUME NEW r \in Callee PROVE Stage(r)'
  <2>1. r \in Peer /\ Stage(r) /\ r # Caller
    BY DEF OneQuestion, Callee
  <2>2. /\ Single(net'[Caller][r], Sets("initiate")) /\ Single(net'[r][Caller], Sets("redirect"))
        /\ Single(inbox'[r], Boxed(Caller, "initiate"))
        /\ Single(inbox'[Caller], Boxed(r, "redirect"))
    BY <1>3, <1>7, <1>8, <1>9, <1>10, <2>1 DEF Stage, Pending
  <2>3. ~Hits(inbox'[r], Boxed(Caller, "initiate"))
    BY <1>7, <1>10, <2>1 DEF Pending
  <2>4. Pending(Caller, r, "initiate")' => Fresh(r)'
    BY <1>3, <1>7, <1>11, <1>14, <2>1
  <2> QED
    BY <1>1, <1>7, <1>13, <2>2, <2>3, <2>4 DEF Stage, Pending
<1>18. ~Pending(t, Caller, "accept")'
  BY <1>3, <1>7, <1>11 DEF Speech
<1> QED
  BY <1>1, <1>3, <1>5, <1>7, <1>15, <1>16, <1>17, <1>18 DEF OneQuestion

\* A stanza comes from the network into the thread's queue.
LEMMA QuestionReceive ==
    ASSUME TypeOK, Roles, Speech, OneQuestion,
           NEW p \in Peer, NEW q \in Peer, Receive(p, q)
    PROVE  Speech' /\ OneQuestion'
<1> USE PeerAssumption
<1> DEFINE m == Head(net[q][p])
           d == [from |-> q, stanza |-> m]
<1>1. /\ net[q][p] # <<>> /\ net'[q][p] = Tail(net[q][p]) /\ net[q][p] \in Seq(Stanza)
      /\ \A q1, q2 \in Peer : <<q1, q2>> # <<q, p>> => net'[q1][q2] = net[q1][q2]
      /\ UNCHANGED <<state, description, up, redirects>>
      /\ m \in Stanza /\ inbox[p] \in Seq(Delivery)
  <2>1. /\ net[q][p] # <<>> /\ net' = [net EXCEPT ![q][p] = Tail(net[q][p])]
        /\ UNCHANGED <<state, description, up, redirects>>
    BY DEF Receive, sessionVars, worldVars
  <2>2. net \in [Peer -> [Peer -> Seq(Stanza)]] /\ inbox[p] \in Seq(Delivery)
    BY DEF TypeOK
  <2>3. m \in Stanza
    BY <2>1, <2>2
  <2> HIDE DEF m
  <2> QED
    BY <2>1, <2>2, <2>3
<1>2. d \in Delivery
  BY <1>1 DEF Delivery
<1>3. /\ \A r \in Peer : r # p => inbox'[r] = inbox[r]
      /\ inbox'[p] = IF m.kind = "set" THEN Append(inbox[p], d) ELSE inbox[p]
  BY DEF Receive, TypeOK
<1>4. /\ \A S : Hits(net[q][p], S) <=> m \in S \/ Hits(net'[q][p], S)
      /\ \A S : Single(net[q][p], S) =>
            Single(net'[q][p], S) /\ (m \in S => ~Hits(net'[q][p], S))
  BY <1>1, Shrunk
<1>5. /\ \A S : Hits(inbox'[p], S) => Hits(inbox[p], S) \/ (m.kind = "set" /\ d \in S)
      /\ \A S : Single(inbox[p], S) /\ (m.kind = "set" /\ d \in S => ~Hits(inbox[p], S))
                   => Single(inbox'[p], S)
  BY <1>1, <1>2, <1>3, Grown
<1>6. /\ \A r \in Peer, type \in MessageType :
            m.kind = "set" /\ d \in Boxed(r, type) => r = q /\ m \in Sets(type)
      /\ \A t \in Peer \cup {Nobody} :
            m.kind = "set" /\ d \in BoxedRedirects(t) => m \in Redirects(t)
  BY <1>1 DEF Boxed, Sets, BoxedRedirects, Redirects, Stanza
<1> HIDE DEF m, d
<1>7. /\ {"initiate", "accept", "redirect"} \subseteq MessageType
  BY DEF MessageType
<1>8. \A q1, q2 \in Peer : \A type \in {"initiate", "accept", "redirect"} :
          /\ Hits(net'[q1][q2], Sets(type)) => Hits(net[q1][q2], Sets(type))
          /\ Single(net[q1][q2], Sets(type)) => Single(net'[q1][q2], Sets(type))
  BY <1>1, <1>4
<1>9. \A q1, r \in Peer : \A type \in {"initiate", "accept", "redirect"} :
          Hits(inbox'[r], Boxed(q1, type)) =>
             \/ Hits(inbox[r], Boxed(q1, type))
             \/ r = p /\ q1 = q /\ m \in Sets(type)
  BY <1>3, <1>5, <1>6, <1>7
<1>10. \A q1, r \in Peer : \A type \in {"initiate", "accept", "redirect"} :
          Pending(q1, r, type)' => Pending(q1, r, type)
  BY <1>4, <1>8, <1>9 DEF Pending
<1>11. \A q1, r \in Peer : \A type \in {"initiate", "accept", "redirect"} :
          /\ ~(Hits(net[q1][r], Sets(type)) /\ Hits(inbox[r], Boxed(q1, type)))
          /\ Single(net[q1][r], Sets(type)) /\ Single(inbox[r], Boxed(q1, type))
          => /\ ~(Hits(net[q1][r], Sets(type)) /\ Hits(inbox[r], Boxed(q1, type)))'
             /\ Single(inbox'[r], Boxed(q1, type))
  <2> SUFFICES ASSUME NEW q1 \in Peer, NEW r \in Peer,
                      NEW type \in {"initiate", "accept", "redirect"},
                      ~(Hits(net[q1][r], Sets(type)) /\ Hits(inbox[r], Boxed(q1, type))),
                      Single(net[q1][r], Sets(type)), Single(inbox[r], Boxed(q1, type))
               PROVE  /\ ~(Hits(net'[q1][r], Sets(type)) /\ Hits(inbox'[r], Boxed(q1, type)))
                      /\ Single(inbox'[r], Boxed(q1, type))
    OBVIOUS
  <2>1. CASE r = p /\ q1 = q /\ m \in Sets(type)
    <3>1. Hits(net[q][p], Sets(type)) /\ ~Hits(net'[q][p], Sets(type))
      BY <1>4, <2>1
    <3> QED
      BY <1>5, <2>1, <3>1
  <2>2. CASE ~(r = p /\ q1 = q /\ m \in Sets(type))
    <3>1. Hits(inbox'[r], Boxed(q1, type)) => Hits(inbox[r], Boxed(q1, type))
      BY <1>9, <2>2
    <3>2. Single(inbox'[r], Boxed(q1, type))
      BY <1>3, <1>5, <1>6, <1>7, <2>2
    <3> QED
      BY <1>8, <3>1, <3>2
  <2> QED
    BY <2>1, <2>2
<1>12. Speech'
  <2>1. \A q1, r \in Peer : Pending(q1, r, "initiate")' => q1 = Caller /\ r \in Callee
    BY <1>10 DEF Speech
  <2>2. ASSUME NEW q1 \in Peer, NEW t \in Peer \cup {Nobody},
               \/ Hits(net'[q1][Caller], Redirects(t))
               \/ Hits(inbox'[Caller], BoxedRedirects(t))
        PROVE  t \in Callee /\ Fresh(t)'
    <3>1. \E q2 \in Peer : \/ Hits(net[q2][Caller], Redirects(t))
                           \/ Hits(inbox[Caller], BoxedRedirects(t))
      BY <1>1, <1>3, <1>4, <1>5, <1>6, <2>2
    <3>2. t \in Callee /\ Fresh(t)
      BY <3>1 DEF Speech
    <3> QED
      BY <1>1, <3>2 DEF Fresh
  <2>3. \A q1 \in Peer : Pending(q1, Caller, "accept")' => description'[q1]
    BY <1>1, <1>10 DEF Speech
  <2>4. \A q1 \in Peer : Pending(q1, Caller, "redirect")' => q1 \in Callee /\ redirects' > 0
    BY <1>1, <1>10 DEF Speech
  <2> QED
    BY <2>1, <2>2, <2>3, <2>4 DEF Speech
<1>13. \A r \in Peer : Holds(r)' => Holds(r)
  BY <1>1, <1>10 DEF Holds
<1>14. ASSUME NEW r \in Callee PROVE Stage(r)'
  <2>1. r \in Peer /\ Stage(r)
    BY DEF OneQuestion, Callee
  <2>2. Fresh(r) => Fresh(r)'
    BY <1>1 DEF Fresh
  <2>3. /\ ~(Hits(net'[Caller][r], Sets("initiate")) /\ Hits(inbox'[r], Boxed(Caller, "initiate")))
        /\ Single(inbox'[r], Boxed(Caller, "initiate"))
    <3>1. ~(Hits(net[Caller][r], Sets("initiate")) /\ Hits(inbox[r], Boxed(Caller, "initiate")))
      BY <2>1 DEF Stage, Pending
    <3> QED
      BY <1>11, <2>1, <3>1 DEF Stage
  <2>4. /\ ~(Hits(net'[r][Caller], Sets("redirect")) /\ Hits(inbox'[Caller], Boxed(r, "redirect")))
        /\ Single(inbox'[Caller], Boxed(r, "redirect"))
    BY <1>11, <2>1 DEF Stage
  <2> QED
    BY <1>1, <1>8, <1>10, <2>1, <2>2, <2>3, <2>4 DEF Stage
<1> QED
  BY <1>12, <1>13, <1>14 DEF OneQuestion

----------------------------------------------------------------------------
(* Which end can be in which state *)

\* A session that goes on, or ends, with what its new state asks for.
LEMMA RolesMove ==
    ASSUME TypeOK, Roles, NEW p \in Peer, NEW s, state' = [state EXCEPT ![p] = s],
           state[p] \notin {"NONE", "DEINIT"}, s # "NONE",
           s \in IF p = Caller THEN CallerStates ELSE CalleeStates,
           s \in {"RECEIVEDACCEPT", "INPROGRESS"} /\ p = Caller =>
              transport[p] /\ description[remote[p]],
           s \in {"RECEIVEDINITIATE", "SENTACCEPT", "INPROGRESS"} /\ p # Caller => transport[p],
           s \in {"SENTACCEPT", "INPROGRESS"} /\ p # Caller => description[p],
           UNCHANGED <<remote, transport, description, up>>, up[p],
           \A r \in Peer : r # p => inbox'[r] = inbox[r] /\ running'[r] = running[r]
    PROVE  Roles'
<1>1. state'[p] = s /\ \A r \in Peer : r # p => state'[r] = state[r]
  BY DEF TypeOK
<1>2. up'[p] /\ \A r \in Callee : Fresh(r)' => Fresh(r)
  BY <1>1 DEF Fresh, Callee
<1>3. CASE p = Caller
  BY <1>1, <1>2, <1>3 DEF Roles, Callee
<1>4. CASE p # Caller
  BY <1>1, <1>2, <1>4 DEF Roles, Callee, Fresh
<1> QED
  BY <1>3, <1>4

LEMMA RolesCommand ==
    ASSUME TypeOK, Roles, OneQuestion, NEW p \in Peer, Command(p)
    PROVE  Roles'
<1> USE PeerAssumption DEF Roles, Callee, Fresh, worldVars, timerVars
<1>1. ASSUME NEW q \in Peer, Initiate(p, q) PROVE Roles'
  <2>1. /\ p = Caller /\ state' = [state EXCEPT ![p] = "SENTINITIATE"]
        /\ remote' = [remote EXCEPT ![p] = q] /\ q # p
        /\ UNCHANGED <<transport, description, up, inbox, running>> /\ up[p]
    BY <1>1 DEF Initiate, SetState, AtLoop
  <2> QED
    BY <2>1 DEF TypeOK, CallerStates
<1>2. ASSUME Accept(p) PROVE Roles'
  <2>1. /\ p # Caller /\ state' = [state EXCEPT ![p] = "SENTACCEPT"]
        /\ state[p] = "RECEIVEDINITIATE" /\ transport[p]
        /\ description' = [description EXCEPT ![p] = TRUE]
        /\ UNCHANGED <<transport, remote, up, inbox, running>> /\ up[p]
    BY <1>2 DEF Accept, SetState, AtLoop, CallerStates
  <2> QED
    BY <2>1 DEF TypeOK, CalleeStates
<1>3. ASSUME Reject(p) \/ \E t \in Peer : Redirect(p, t) PROVE Roles'
  <2>1. PICK s \in {"SENTREJECT", "SENTREDIRECT"} :
           /\ p # Caller /\ state' = [state EXCEPT ![p] = s]
           /\ state[p] = "RECEIVEDINITIATE"
           /\ UNCHANGED <<transport, description, remote, up, inbox, running>> /\ up[p]
    BY <1>3 DEF Reject, Redirect, SetState, AtLoop, CallerStates
  <2> QED
    BY ZenonT(80), <2>1 DEF TypeOK, CalleeStates
<1>4. ASSUME Terminate(p) PROVE Roles'
  <2>1. /\ state' = [state EXCEPT ![p] = "SENTTERMINATE"]
        /\ state[p] \notin {"NONE", "DEINIT"}
        /\ UNCHANGED <<transport, description, remote, up, inbox, running>> /\ up[p]
    BY <1>4 DEF Terminate, SetState, AtLoop, Exists
  <2> QED
    BY ZenonT(80), <2>1 DEF TypeOK, CalleeStates, CallerStates
<1> QED
  BY <1>1, <1>2, <1>3, <1>4 DEF Command

\* MSG_ERROR reaches no deleted session.
LEMMA ErrorsReachTheLiving ==
    ASSUME TypeOK, AllSound, NEW p \in Peer, OnError(p)
    PROVE  Exists(p)
<1>1. /\ queue[p] \in Seq(Posted) /\ queue[p] # <<>> /\ Head(queue[p]) = "error"
  BY DEF TypeOK, OnError, AtHead
<1>2. 1 \in 1..Len(queue[p]) /\ queue[p][1] = "error"
  BY <1>1
<1>3. IsPosted(p, "error")
  BY <1>2 DEF IsPosted, Has
<1> QED
  BY <1>3 DEF AllSound, Sound

LEMMA RolesDispatch ==
    ASSUME TypeOK, AllSound, Roles, NEW p \in Peer, Dispatch(p)
    PROVE  Roles'
<1> USE PeerAssumption DEF Roles, Callee, Fresh, worldVars, timerVars, sessionVars
<1>1. ASSUME RunTasks(p) \/ CheckAutoDestroy(p) \/ Ignore(p)
      PROVE  Roles'
  <2>1. /\ UNCHANGED <<state, remote, transport, description, up, inbox>> /\ up[p]
        /\ \A r \in Peer : r # p => running'[r] = running[r]
    BY <1>1 DEF RunTasks, CheckAutoDestroy, Ignore, FollowUp, AtHead, AtLoop, TypeOK
  <2> QED
    BY <2>1
<1>2. ASSUME NEW s \in {"INPROGRESS", "SENTTERMINATE", "DEINIT"},
             /\ state' = [state EXCEPT ![p] = s]
             /\ state[p] \notin {"NONE", "DEINIT"}
             /\ s = "INPROGRESS" => state[p] \in Agreed
             /\ UNCHANGED <<transport, description, remote, up, inbox, running>> /\ up[p]
      PROVE  Roles'
  BY <1>2, RolesMove DEF CalleeStates, CallerStates, Agreed
<1>3. ASSUME Progress(p) PROVE Roles'
  BY <1>2, <1>3 DEF Progress, FollowUp, AtHead, AtLoop, Agreed
<1>4. ASSUME Conclude(p) PROVE Roles'
  BY <1>2, <1>4 DEF Conclude, FollowUp, AtHead, AtLoop, Declined
<1>5. ASSUME DestroySession(p) PROVE Roles'
  BY <1>2, <1>5 DEF DestroySession, AtHead, AtLoop, Terminated
<1>6. ASSUME OnError(p) PROVE Roles'
  <2>1. CASE state[p] \in Terminated
    BY <1>6, <2>1 DEF OnError
  <2>2. CASE state[p] \notin Terminated
    BY <1>2, <1>6, <2>2, ErrorsReachTheLiving DEF OnError, AtHead, AtLoop, Exists
  <2> QED
    BY <2>1, <2>2
<1> QED
  BY <1>1, <1>3, <1>4, <1>5, <1>6 DEF Dispatch

\* What a step that takes a stanza does to everybody's inbox and thread.
LEMMA TakesQuietly ==
    ASSUME TypeOK, NEW p \in Peer, TakeStanza(p), running[p], inbox[p] # <<>>
    PROVE  /\ \A r \in Peer : r # p => inbox'[r] = inbox[r] /\ running'[r] = running[r]
           /\ running'[p] \in BOOLEAN
BY DEF TakeStanza, TypeOK

LEMMA RolesStanza ==
    ASSUME TypeOK, Roles, Speech, OneQuestion, Transports, NEW p \in Peer, HandleStanza(p)
    PROVE  Roles'
<1> USE PeerAssumption DEF Callee, Fresh, worldVars, timerVars, sessionVars
<1>1. running[p] /\ up[p]
  BY DEF HandleStanza, OnFailedSend, Ring, Refuse, OnAcceptMessage, OnRejectMessage,
         OnRedirectMessage, OnTransportAcceptMessage, OnTerminateMessage, Arrived, Roles
<1> DEFINE quiet == \A r \in Peer : r # p => inbox'[r] = inbox[r] /\ running'[r] = running[r]
<1>2. ASSUME OnFailedSend(p) PROVE Roles'
  <2>1. /\ UNCHANGED <<state, remote, transport, description, up, inbox>>
        /\ \A r \in Peer : r # p => running'[r] = running[r]
    BY <1>2 DEF OnFailedSend, TypeOK
  <2> QED
    BY <1>1, <2>1 DEF Roles
<1>3. ASSUME NEW q \in Peer,
             \/ \E type \in MessageType : Refuse(p, q, type)
             \/ OnTransportAcceptMessage(p, q)
      PROVE  Roles'
  <2>1. quiet
    BY <1>1, <1>3, TakesQuietly DEF Refuse, OnTransportAcceptMessage, Arrived
  <2>2. /\ UNCHANGED <<state, remote, description, up>>
        /\ \A r \in Peer : transport[r] => transport'[r]
    BY <1>3 DEF Refuse, OnTransportAcceptMessage, TypeOK
  <2> QED
    BY <1>1, <2>1, <2>2 DEF Roles
<1>4. ASSUME NEW q \in Peer, OnAcceptMessage(p, q) PROVE Roles'
  <2>1. quiet
    BY <1>1, <1>4, TakesQuietly DEF OnAcceptMessage, Arrived
  <2>2. /\ state' = [state EXCEPT ![p] = "RECEIVEDACCEPT"] /\ state[p] = "SENTINITIATE"
        /\ p = Caller /\ remote[p] = q
        /\ UNCHANGED <<remote, transport, description, up>>
    BY <1>4 DEF OnAcceptMessage, SetState, OutOfPlace, FindSession, Roles, CalleeStates
  <2>3. inbox[p] \in Seq(Delivery) /\ inbox[p] # <<>> /\ Head(inbox[p]) \in Boxed(q, "accept")
    BY SMTT(40), <1>4, Takes DEF OnAcceptMessage, MessageType, Arrived, TypeOK
  <2>4. description[q]
    <3>1. Hits(inbox[p], Boxed(q, "accept"))
      BY <2>3, Shrunk
    <3> QED
      BY <2>2, <3>1 DEF Pending, Speech
  <2>5. transport[p]
    <3>1. Preceded(inbox[p], Boxed(q, "transport-accept"), Boxed(q, "accept"))
          => Head(inbox[p]) \notin Boxed(q, "accept")
      BY <2>3, Shrunk
    <3> QED
      BY <2>2, <2>3, <3>1 DEF Transports, TransportFirst
  <2> QED
    BY <1>1, <2>1, <2>2, <2>4, <2>5, RolesMove DEF CallerStates
<1>5. ASSUME NEW q \in Peer, OnRejectMessage(p, q) PROVE Roles'
  <2>1. quiet
    BY <1>1, <1>5, TakesQuietly DEF OnRejectMessage, Arrived
  <2>2. PICK s \in {"SENTTERMINATE", "RECEIVEDREJECT"} :
           /\ state' = [state EXCEPT ![p] = s] /\ state[p] = "SENTINITIATE" /\ p = Caller
           /\ UNCHANGED <<remote, transport, description, up>>
    BY <1>5 DEF OnRejectMessage, SetState, OutOfPlace, CalleeStates, Roles
  <2> QED
    BY <1>1, <2>1, <2>2, RolesMove DEF CallerStates
<1>6. ASSUME NEW q \in Peer, OnTerminateMessage(p, q) PROVE Roles'
  <2>1. quiet
    BY <1>1, <1>6, TakesQuietly DEF OnTerminateMessage, Arrived
  <2>2. /\ state[p] \notin {"NONE", "DEINIT"}
        /\ UNCHANGED <<remote, transport, description, up>>
    BY <1>6 DEF OnTerminateMessage, OutOfPlace, FindSession, Exists
  <2>3. state' = [state EXCEPT ![p] = "RECEIVEDTERMINATE"]
    BY <1>6 DEF OnTerminateMessage, SetState, TypeOK
  <2> QED
    BY <1>1, <2>1, <2>2, <2>3, RolesMove DEF CallerStates, CalleeStates
<1>7. ASSUME NEW q \in Peer, OnRedirectMessage(p, q) PROVE Roles'
  <2>1. quiet
    BY <1>1, <1>7, TakesQuietly DEF OnRedirectMessage, Arrived
  <2>2. p = Caller /\ remote'[Caller] \in Callee
    BY <1>7, QuestionForward
  <2>3. /\ UNCHANGED <<state, transport, description, up>>
        /\ state[p] = "SENTINITIATE"
        /\ \A r \in Peer : r # p => remote'[r] = remote[r]
    BY <1>7 DEF OnRedirectMessage, OutOfPlace, TypeOK
  <2> QED
    BY <1>1, <2>1, <2>2, <2>3 DEF Roles
<1>8. ASSUME NEW q \in Peer, NEW answer \in {"later", "accept", "reject"},
             Ring(p, q, answer)
      PROVE  Roles'
  <2>1. /\ q = Caller /\ p \in Callee /\ state[p] = "NONE" /\ state[Caller] # "NONE"
        /\ ~description[p]
    BY <1>8, QuestionRing DEF OneQuestion, Holds
  <2>2. quiet
    BY <1>1, <1>8, TakesQuietly DEF Ring, Arrived
  <2>3. /\ \A r \in Peer : r # p => /\ remote'[r] = remote[r] /\ state'[r] = state[r]
                                    /\ transport'[r] = transport[r]
                                    /\ description'[r] = description[r]
        /\ remote'[p] = Caller /\ up' = up
        /\ transport'[p] = (answer # "reject") /\ description'[p] = (answer = "accept")
        /\ state'[p] = CASE answer = "later"  -> "RECEIVEDINITIATE"
                         [] answer = "accept" -> "SENTACCEPT"
                         [] answer = "reject" -> "SENTREJECT"
    BY <1>8, <2>1 DEF Ring, SetState, TypeOK
  <2>4. \/ state'[p] = "RECEIVEDINITIATE" /\ transport'[p]
        \/ state'[p] = "SENTACCEPT" /\ transport'[p] /\ description'[p]
        \/ state'[p] = "SENTREJECT"
    BY <2>3
  <2>5. \A r \in Peer : description[r] => description'[r]
    BY <2>1, <2>3
  <2> HIDE DEF quiet
  <2>6. /\ p \in Peer /\ Caller # p /\ remote'[Caller] = remote[Caller]
        /\ state'[Caller] = state[Caller] /\ ~description'[Caller]
        /\ transport'[Caller] = transport[Caller]
    BY <2>1, <2>3 DEF Roles
  <2>7. /\ state'[p] \in CalleeStates /\ remote'[p] = Caller
        /\ state'[p] \in {"RECEIVEDINITIATE", "SENTACCEPT", "INPROGRESS"} => transport'[p]
        /\ state'[p] \in {"SENTACCEPT", "INPROGRESS"} => description'[p]
    BY <2>3, <2>4 DEF CalleeStates
  <2>8. \A r \in Peer : ~up'[r] => state'[r] = "DEINIT" /\ inbox'[r] = <<>> /\ ~running'[r]
    BY <1>1, <2>2, <2>3 DEF Roles, quiet
  <2>9. \A r \in Callee :
          /\ state'[r] \in CalleeStates
          /\ state'[r] \notin {"NONE", "DEINIT"} => remote'[r] = Caller
          /\ state'[r] \in {"RECEIVEDINITIATE", "SENTACCEPT", "INPROGRESS"} => transport'[r]
          /\ state'[r] \in {"SENTACCEPT", "INPROGRESS"} => description'[r]
    BY <2>3, <2>7 DEF Roles
  <2> QED
    BY <2>1, <2>5, <2>6, <2>8, <2>9 DEF Roles
<1> QED
  BY SMTT(40), <1>2, <1>3, <1>4, <1>5, <1>6, <1>7, <1>8 DEF HandleStanza

LEMMA RolesWorld ==
    ASSUME TypeOK, Roles, NEW p \in Peer, Timer(p) \/ Deliver(p) \/ Environment(p)
    PROVE  Roles'
<1> USE PeerAssumption
    DEF Callee, Fresh, worldVars, timerVars, sessionVars, threadVars
<1>1. ASSUME OnTimeout(p) \/ TransportWritable(p) \/ TransportUnwritable(p)
      PROVE  Roles'
  <2>1. UNCHANGED <<state, remote, transport, description, up, inbox, running>>
    BY <1>1 DEF OnTimeout, TransportWritable, TransportUnwritable
  <2> QED
    BY <2>1 DEF Roles
<1>2. ASSUME OnTerminateCall(p) PROVE Roles'
  <2>1. /\ \/ state' = state
           \/ /\ state' = [state EXCEPT ![p] = "SENTTERMINATE"]
              /\ state[p] \notin {"NONE", "DEINIT"}
        /\ UNCHANGED <<remote, transport, description, up, inbox, running>> /\ up[p]
    BY <1>2 DEF OnTerminateCall, SetState, Exists, AtLoop
  <2>2. CASE state' = state
    BY <2>1, <2>2 DEF Roles
  <2>3. CASE state' # state
    BY <2>1, <2>3, RolesMove DEF CallerStates, CalleeStates
  <2> QED
    BY <2>2, <2>3
<1>3. ASSUME NEW q \in Peer, Receive(p, q) \/ Bounce(p, q) PROVE Roles'
  <2>1. /\ UNCHANGED <<state, remote, transport, description, up, running>>
        /\ \A r \in Peer : up[r] \/ inbox'[r] = inbox[r]
    BY ZenonT(80), <1>3 DEF Receive, Bounce, AtLoop, TypeOK
  <2> QED
    BY <2>1 DEF Roles
<1>4. ASSUME Crash(p) PROVE Roles'
  <2>1. /\ \A r \in Peer : r # p => /\ state'[r] = state[r] /\ up'[r] = up[r]
                                    /\ inbox'[r] = inbox[r] /\ running'[r] = running[r]
        /\ state'[p] = "DEINIT" /\ ~up'[p] /\ inbox'[p] = <<>> /\ ~running'[p]
        /\ UNCHANGED <<remote, transport, description>>
    BY <1>4 DEF Crash, TypeOK
  <2> QED
    BY <2>1 DEF Roles, CallerStates, CalleeStates
<1> QED
  BY <1>1, <1>2, <1>3, <1>4 DEF Timer, Deliver, Environment

----------------------------------------------------------------------------
(* A refusal is the last word *)

StaySilent == \A r \in Peer : state[r] \in Silent => state'[r] \in Silent

LEMMA LastWordSame ==
    ASSUME LastWord, StaySilent, net' = net
    PROVE  LastWord'
BY DEF LastWord, StaySilent

\* Only who is not silent yet sends a request, and who refuses falls silent.
LEMMA LastWordSays ==
    ASSUME TypeOK, LastWord, StaySilent, NEW p \in Peer, NEW r \in Peer, NEW m \in Stanza,
           SendTo(p, r, m),
           m.kind = "set" => state[p] \notin Silent,
           m \in Refusals => p \in Callee /\ state'[p] \in Silent
    PROVE  LastWord'
<1>1. /\ net'[p][r] = Append(net[p][r], m)
      /\ \A q1, q2 \in Peer : <<q1, q2>> # <<p, r>> => net'[q1][q2] = net[q1][q2]
      /\ Hits(net'[p][r], Refusals) <=> Hits(net[p][r], Refusals) \/ m \in Refusals
  BY Says
<1>2. m \in AllSets => ~Hits(net[p][r], Refusals)
  BY DEF AllSets, LastWord
<1>3. Last(net'[p][r], Refusals, AllSets)
  <2>1. net[p][r] \in Seq(Stanza) /\ Last(net[p][r], Refusals, AllSets)
    BY DEF TypeOK, LastWord
  <2> QED
    BY <1>1, <1>2, <2>1, Grown
<1> QED
  BY <1>1, <1>3 DEF LastWord, StaySilent

\* Delivery, to a client or to the server that answers for it.
LEMMA LastWordTaken ==
    ASSUME TypeOK, LastWord, StaySilent, NEW p \in Peer, NEW q \in Peer,
           Receive(p, q) \/ Bounce(p, q)
    PROVE  LastWord'
<1> DEFINE m == Head(net[q][p])
           popped == [net EXCEPT ![q][p] = Tail(net[q][p])]
<1>1. net \in [Peer -> [Peer -> Seq(Stanza)]] /\ net[q][p] # <<>>
  BY DEF TypeOK, Receive, Bounce
<1>2. m \in Stanza /\ Tail(net[q][p]) \in Seq(Stanza) /\ net[q][p] \in Seq(Stanza)
  BY <1>1
<1> HIDE DEF m
<1>3. popped \in [Peer -> [Peer -> Seq(Stanza)]]
  BY <1>1, <1>2
<1>4. \A q1, r \in Peer : /\ Last(popped[q1][r], Refusals, AllSets)
                          /\ Hits(popped[q1][r], Refusals) => Hits(net[q1][r], Refusals)
  <2> SUFFICES ASSUME NEW q1 \in Peer, NEW r \in Peer
               PROVE  /\ Last(popped[q1][r], Refusals, AllSets)
                      /\ Hits(popped[q1][r], Refusals) => Hits(net[q1][r], Refusals)
    OBVIOUS
  <2>1. Last(net[q1][r], Refusals, AllSets)
    BY DEF LastWord
  <2>2. CASE q1 = q /\ r = p
    <3>1. popped[q][p] = Tail(net[q][p])
      BY <1>1
    <3>2. /\ Last(Tail(net[q][p]), Refusals, AllSets)
          /\ Hits(Tail(net[q][p]), Refusals) => Hits(net[q][p], Refusals)
      BY <1>1, <1>2, <2>1, <2>2, Shrunk
    <3> QED
      BY <2>2, <3>1, <3>2
  <2>3. CASE ~(q1 = q /\ r = p)
    <3>1. popped[q1][r] = net[q1][r]
      BY <1>1, <2>3
    <3> QED
      BY <2>1, <3>1
  <2> QED
    BY <2>2, <2>3
<1>5. \/ net' = popped
      \/ net' = [popped EXCEPT ![p][q] = Append(popped[p][q], ErrorReply(m))]
  <2>1. CASE Receive(p, q)
    BY <2>1 DEF Receive
  <2>2. CASE Bounce(p, q)
    <3>1. net' = [popped EXCEPT ![p][q] = IF m.kind = "set"
                    THEN Append(popped[p][q], ErrorReply(m)) ELSE popped[p][q]]
      BY <2>2 DEF Bounce, m
    <3>2. [popped EXCEPT ![p][q] = popped[p][q]] = popped
      BY <1>3
    <3> HIDE DEF popped
    <3> QED
      BY <3>1, <3>2
  <2> QED
    BY <2>1, <2>2
<1> HIDE DEF popped
<1>6. CASE net' = popped
  BY <1>4, <1>6 DEF LastWord, StaySilent
<1>7. CASE net' = [popped EXCEPT ![p][q] = Append(popped[p][q], ErrorReply(m))]
  <2>1. /\ net'[p][q] = Append(popped[p][q], ErrorReply(m))
        /\ \A q1, r \in Peer : <<q1, r>> # <<p, q>> => net'[q1][r] = popped[q1][r]
    BY <1>3, <1>7
  <2>2. /\ ErrorReply(m) \in Stanza /\ ErrorReply(m) \notin AllSets
        /\ ErrorReply(m) \notin Refusals
    BY <1>2, StanzaTypes DEF AllSets, Refusals, Sets, ErrorReply
  <2>3. popped[p][q] \in Seq(Stanza)
    BY <1>3
  <2>4. /\ Last(net'[p][q], Refusals, AllSets)
        /\ Hits(net'[p][q], Refusals) => Hits(popped[p][q], Refusals)
    BY <1>4, <2>1, <2>2, <2>3, Grown
  <2>5. \A q1, r \in Peer : /\ Last(net'[q1][r], Refusals, AllSets)
                            /\ Hits(net'[q1][r], Refusals) => Hits(net[q1][r], Refusals)
    BY ZenonT(80), <1>4, <2>1, <2>4
  <2> QED
    BY <2>5 DEF LastWord, StaySilent
<1> QED
  BY <1>5, <1>6, <1>7

----------------------------------------------------------------------------
(* The caller has a transport before it is told of the accept *)

\* A caller that still waits for a transport was waiting before, for the same
\* peer, and the step took no transport-accept from it and no accept to it.
TransportsStay ==
    state'[Caller] = "SENTINITIATE" /\ ~transport'[Caller] =>
       /\ state[Caller] = "SENTINITIATE" /\ ~transport[Caller]
       /\ remote'[Caller] = remote[Caller] /\ remote[Caller] \in Peer
       /\ \/ inbox'[Caller] = inbox[Caller]
          \/ /\ inbox[Caller] # <<>> /\ inbox'[Caller] = Tail(inbox[Caller])
             /\ Head(inbox[Caller]) \notin Boxed(remote[Caller], "transport-accept")
       /\ \/ net'[remote[Caller]][Caller] = net[remote[Caller]][Caller]
          \/ \E m \in Stanza \ Sets("accept") :
                net'[remote[Caller]][Caller] = Append(net[remote[Caller]][Caller], m)
       /\ state'[remote[Caller]] = "RECEIVEDINITIATE"
          => state[remote[Caller]] = "RECEIVEDINITIATE"

LEMMA TransportsKept ==
    ASSUME TypeOK, Transports, TransportsStay
    PROVE  Transports'
<1> SUFFICES ASSUME state'[Caller] = "SENTINITIATE", ~transport'[Caller]
             PROVE  TransportFirst(remote[Caller])'
  BY DEF Transports
<1>1. PICK q \in Peer : q = remote[Caller] /\ q = remote'[Caller]
  BY DEF TransportsStay
<1> DEFINE ta == Boxed(q, "transport-accept")
           ac == Boxed(q, "accept")
           TA == Sets("transport-accept")
           AC == Sets("accept")
<1>2. /\ Preceded(inbox[Caller], ta, ac)
      /\ Hits(inbox[Caller], ta) \/ Preceded(net[q][Caller], TA, AC)
      /\ state[q] = "RECEIVEDINITIATE" => Hits(net[q][Caller], TA) \/ Hits(inbox[Caller], ta)
  BY <1>1 DEF Transports, TransportsStay, TransportFirst, Pending
<1>3. /\ \/ inbox'[Caller] = inbox[Caller]
         \/ /\ inbox[Caller] # <<>> /\ inbox'[Caller] = Tail(inbox[Caller])
            /\ Head(inbox[Caller]) \notin ta
      /\ \/ net'[q][Caller] = net[q][Caller]
         \/ \E m \in Stanza \ AC : net'[q][Caller] = Append(net[q][Caller], m)
      /\ state'[q] = "RECEIVEDINITIATE" => state[q] = "RECEIVEDINITIATE"
  BY <1>1 DEF TransportsStay
<1>4. inbox[Caller] \in Seq(Delivery) /\ net[q][Caller] \in Seq(Stanza)
  BY PeerAssumption DEF TypeOK
<1> HIDE DEF ta, ac, TA, AC
<1>5. /\ Preceded(inbox'[Caller], ta, ac)
      /\ Hits(inbox'[Caller], ta) <=> Hits(inbox[Caller], ta)
  <2>1. CASE inbox'[Caller] = inbox[Caller]
    BY <1>2, <2>1
  <2>2. CASE /\ inbox[Caller] # <<>> /\ inbox'[Caller] = Tail(inbox[Caller])
             /\ Head(inbox[Caller]) \notin ta
    BY <1>2, <1>4, <2>2, Shrunk
  <2> QED
    BY <1>3, <2>1, <2>2
<1>6. /\ Preceded(net[q][Caller], TA, AC) => Preceded(net'[q][Caller], TA, AC)
      /\ Hits(net[q][Caller], TA) => Hits(net'[q][Caller], TA)
  <2>1. ASSUME NEW m \in Stanza \ AC, net'[q][Caller] = Append(net[q][Caller], m)
        PROVE  /\ Preceded(net[q][Caller], TA, AC) => Preceded(net'[q][Caller], TA, AC)
               /\ Hits(net[q][Caller], TA) => Hits(net'[q][Caller], TA)
    BY <1>4, <2>1, Grown
  <2> QED
    BY <1>3, <2>1
<1>7. /\ Preceded(inbox'[Caller], ta, ac)
      /\ Hits(inbox'[Caller], ta) \/ Preceded(net'[q][Caller], TA, AC)
      /\ state'[q] = "RECEIVEDINITIATE"
         => Hits(net'[q][Caller], TA) \/ Hits(inbox'[Caller], ta)
  BY <1>2, <1>3, <1>5, <1>6
<1> QED
  BY <1>1, <1>7 DEF TransportFirst, Pending, ta, ac, TA, AC

\* A peer without a pending accept that does not ring has nothing to hurry.
LEMMA TransportsFresh ==
    ASSUME NEW t \in Peer, remote'[Caller] = t, ~Pending(t, Caller, "accept")',
           state'[t] # "RECEIVEDINITIATE"
    PROVE  Transports'
<1>1. /\ ~Hits(net'[t][Caller], Sets("accept"))
      /\ ~Hits(inbox'[Caller], Boxed(t, "accept"))
  BY DEF Pending
<1>2. /\ Preceded(net'[t][Caller], Sets("transport-accept"), Sets("accept"))
      /\ Preceded(inbox'[Caller], Boxed(t, "transport-accept"), Boxed(t, "accept"))
  BY <1>1 DEF Preceded, Hits
<1> QED
  BY <1>2 DEF Transports, TransportFirst

\* The peer that rings has sent its transport-accept.
LEMMA TransportsAccept ==
    ASSUME TypeOK, Roles, Transports, NEW p \in Peer, Accept(p)
    PROVE  Transports'
<1> USE PeerAssumption
<1>1. /\ p \in Callee /\ p # Caller /\ state[p] = "RECEIVEDINITIATE"
      /\ SendTo(p, Caller, Request("accept"))
      /\ UNCHANGED <<inbox, remote, transport>>
      /\ state'[p] = "SENTACCEPT" /\ \A r \in Peer : r # p => state'[r] = state[r]
  BY DEF Accept, SetState, Callee, TypeOK, Roles, CallerStates
<1>2. /\ net'[p][Caller] = Append(net[p][Caller], Request("accept"))
      /\ \A q1, q2 \in Peer : <<q1, q2>> # <<p, Caller>> => net'[q1][q2] = net[q1][q2]
      /\ Request("accept") \in Stanza
  BY <1>1, Questions, Says DEF MessageType
<1>3. CASE remote[Caller] = p
  <2> SUFFICES ASSUME state'[Caller] = "SENTINITIATE", ~transport'[Caller]
               PROVE  TransportFirst(remote[Caller])'
    BY DEF Transports
  <2>1. TransportFirst(p)
    BY <1>1, <1>3 DEF Transports
  <2>2. net[p][Caller] \in Seq(Stanza)
    BY DEF TypeOK
  <2>3. Hits(inbox[Caller], Boxed(p, "transport-accept"))
        \/ Preceded(net'[p][Caller], Sets("transport-accept"), Sets("accept"))
    BY <1>1, <1>2, <2>1, <2>2, Grown DEF TransportFirst, Pending
  <2> QED
    BY <1>1, <1>3, <2>1, <2>3 DEF TransportFirst
<1>4. CASE remote[Caller] # p
  <2>1. state[Caller] = "SENTINITIATE" => remote[Caller] \in Peer
    BY DEF Roles, Callee
  <2>2. TransportsStay
    BY <1>1, <1>2, <1>4, <2>1 DEF TransportsStay
  <2> QED
    BY <2>2, TransportsKept
<1> QED
  BY <1>3, <1>4

\* A peer that is asked sends its transport-accept first.
LEMMA TransportsRing ==
    ASSUME TypeOK, Roles, Speech, OneQuestion, Transports, NEW p \in Peer, NEW q \in Peer,
           NEW answer \in {"later", "accept", "reject"}, Ring(p, q, answer)
    PROVE  Transports'
<1> USE PeerAssumption
<1>1. q = Caller /\ p \in Callee /\ p # Caller /\ ~description[p]
  BY QuestionRing DEF Callee
<1>2. /\ \A r \in Peer : r # p => /\ state'[r] = state[r] /\ transport'[r] = transport[r]
                                  /\ remote'[r] = remote[r]
      /\ state'[p] = CASE answer = "later"  -> "RECEIVEDINITIATE"
                       [] answer = "accept" -> "SENTACCEPT"
                       [] answer = "reject" -> "SENTREJECT"
  BY DEF Ring, SetState, TypeOK
<1>3. \A r \in Peer : r # p => inbox'[r] = inbox[r]
  BY Takes DEF Ring, MessageType
<1>4. state[Caller] = "SENTINITIATE" => remote[Caller] \in Peer
  BY DEF Roles, Callee
<1>5. /\ Request("transport-accept") \in Sets("transport-accept")
      /\ Request("transport-accept") \notin Sets("accept")
      /\ \A type \in MessageType : Request(type) \in Stanza
  BY DEF Request, Sets, Stanza, MessageType
<1>6. net[p][Caller] \in Seq(Stanza) /\ net \in [Peer -> [Peer -> Seq(Stanza)]]
  BY DEF TypeOK
<1>7. \A q1, q2 \in Peer : <<q1, q2>> # <<p, Caller>> => net'[q1][q2] = net[q1][q2]
  <2>1. \E u : net' = [net EXCEPT ![p][Caller] = u]
    BY <1>1 DEF Ring, SendTo
  <2>2. PICK u : net' = [net EXCEPT ![p][Caller] = u]
    BY <2>1
  <2> QED
    BY <1>6, <2>2
<1>8. CASE remote[Caller] # p
  <2>1. TransportsStay
    BY <1>1, <1>2, <1>3, <1>4, <1>7, <1>8 DEF TransportsStay
  <2> QED
    BY <2>1, TransportsKept
<1>9. CASE remote[Caller] = p
  <2>1. ~Pending(p, Caller, "accept")
    BY <1>1 DEF Speech
  <2>2. /\ ~Hits(net[p][Caller], Sets("accept")) /\ ~Hits(inbox'[Caller], Boxed(p, "accept"))
    BY <1>1, <1>3, <2>1 DEF Pending
  <2>3. CASE answer = "reject"
    <3>1. SendTo(p, Caller, Request("reject")) /\ Request("reject") \notin Sets("accept")
      BY <1>1, <2>3 DEF Ring, Request, Sets
    <3>2. ~Pending(p, Caller, "accept")' /\ state'[p] # "RECEIVEDINITIATE"
      BY <1>2, <1>5, <2>2, <2>3, <3>1, Says DEF Pending, MessageType
    <3> QED
      BY <1>1, <1>2, <1>9, <3>2, TransportsFresh
  <2>4. CASE answer # "reject"
    <3> DEFINE t == Append(net[p][Caller], Request("transport-accept"))
    <3>1. Request("transport-accept") \in Stanza /\ Request("accept") \in Stanza
      BY <1>5 DEF MessageType
    <3>2. t \in Seq(Stanza)
      BY <1>6, <3>1
    <3>3. \/ net'[p][Caller] = t
          \/ net'[p][Caller] = Append(t, Request("accept"))
      <4>1. CASE answer = "later"
        BY <1>1, <1>6, <4>1 DEF Ring, SendTo
      <4>2. CASE answer = "accept"
        <5>1. net[p][Caller] \in Seq(Stanza)
          BY <1>6
        <5>2. Append(t, Request("accept"))
              = net[p][Caller] \o <<Request("transport-accept"), Request("accept")>>
          BY <3>1, <5>1
        <5> QED
          BY <1>1, <1>6, <4>2, <5>2 DEF Ring
      <4> QED
        BY <2>4, <4>1, <4>2
    <3>4. ~Hits(t, Sets("accept")) /\ Hits(t, Sets("transport-accept"))
      BY <1>5, <1>6, <2>2, <3>1, Grown
    <3>5. Preceded(t, Sets("transport-accept"), Sets("accept"))
      BY <3>4 DEF Preceded, Hits
    <3> HIDE DEF t
    <3>6. /\ Preceded(net'[p][Caller], Sets("transport-accept"), Sets("accept"))
          /\ Hits(net'[p][Caller], Sets("transport-accept"))
      <4>1. CASE net'[p][Caller] = t
        BY <3>4, <3>5, <4>1
      <4>2. CASE net'[p][Caller] = Append(t, Request("accept"))
        <5>1. /\ Preceded(t, Sets("transport-accept"), Sets("accept"))
                   /\ Hits(t, Sets("transport-accept"))
                 => Preceded(Append(t, Request("accept")), Sets("transport-accept"),
                             Sets("accept"))
          BY <3>1, <3>2, Grown
        <5>2. Hits(Append(t, Request("accept")), Sets("transport-accept"))
          BY <3>1, <3>2, <3>4, Grown
        <5> QED
          BY <3>4, <3>5, <4>2, <5>1, <5>2
      <4> QED
        BY <3>3, <4>1, <4>2
    <3>7. Preceded(inbox'[Caller], Boxed(p, "transport-accept"), Boxed(p, "accept"))
      BY <2>2 DEF Preceded, Hits
    <3> QED
      BY <1>1, <1>2, <1>9, <3>6, <3>7 DEF Transports, TransportFirst, Pending
  <2> QED
    BY <2>3, <2>4
<1> QED
  BY <1>8, <1>9
\* Whom the caller asks has nothing on its way yet.
LEMMA TransportsInitiate ==
    ASSUME TypeOK, Roles, Speech, OneQuestion,
           NEW p \in Peer, NEW q \in Peer, Initiate(p, q)
    PROVE  Transports'
<1> USE PeerAssumption
<1>1. /\ p = Caller /\ q # Caller /\ state[Caller] = "NONE" /\ inbox' = inbox
      /\ remote'[Caller] = q /\ state'[q] = state[q]
      /\ net'[q][Caller] = net[q][Caller]
  BY DEF Initiate, SetState, SendTo, TypeOK
<1>2. ~Holds(q)
  BY <1>1 DEF OneQuestion, Holds
<1>3. ~description[q] /\ state[q] # "RECEIVEDINITIATE"
  BY <1>1, <1>2 DEF Holds
<1>4. ~Pending(q, Caller, "accept")'
  BY <1>1, <1>3 DEF Speech, Pending
<1> QED
  BY <1>1, <1>3, <1>4, TransportsFresh

LEMMA TransportsForward ==
    ASSUME TypeOK, Roles, Speech, OneQuestion,
           NEW p \in Peer, NEW q \in Peer, OnRedirectMessage(p, q)
    PROVE  Transports'
<1>1. PICK t \in Callee : /\ remote'[Caller] = t /\ ~Pending(t, Caller, "accept")'
                          /\ state'[t] # "RECEIVEDINITIATE"
  BY QuestionForward
<1> QED
  BY <1>1, TransportsFresh DEF Callee

\* A transport-accept that left the network is in the thread's queue.
LEMMA TransportsReceive ==
    ASSUME TypeOK, Roles, Transports, NEW p \in Peer, NEW q \in Peer, Receive(p, q)
    PROVE  Transports'
<1> USE PeerAssumption
<1> DEFINE m == Head(net[q][p])
           d == [from |-> q, stanza |-> m]
<1>1. /\ net[q][p] # <<>> /\ net'[q][p] = Tail(net[q][p]) /\ net[q][p] \in Seq(Stanza)
      /\ \A q1, q2 \in Peer : <<q1, q2>> # <<q, p>> => net'[q1][q2] = net[q1][q2]
      /\ UNCHANGED <<state, remote, transport>>
      /\ inbox[p] \in Seq(Delivery)
  <2>1. /\ net[q][p] # <<>> /\ net' = [net EXCEPT ![q][p] = Tail(net[q][p])]
        /\ UNCHANGED <<state, remote, transport>>
    BY DEF Receive, sessionVars
  <2>2. net \in [Peer -> [Peer -> Seq(Stanza)]] /\ inbox[p] \in Seq(Delivery)
    BY DEF TypeOK
  <2> QED
    BY <2>1, <2>2
<1>2. m \in Stanza
  BY <1>1
<1>3. d \in Delivery
  BY <1>2 DEF Delivery
<1>4. /\ \A r \in Peer : r # p => inbox'[r] = inbox[r]
      /\ inbox'[p] = IF m.kind = "set" THEN Append(inbox[p], d) ELSE inbox[p]
  BY DEF Receive, TypeOK
<1>5. /\ \A S : Hits(net[q][p], S) <=> m \in S \/ Hits(net'[q][p], S)
      /\ \A A, B : Preceded(net[q][p], A, B) =>
                 m \notin B /\ (m \in A \/ Preceded(net'[q][p], A, B))
  BY <1>1, Shrunk
<1>6. \A r \in Peer : \A type \in MessageType :
         d \in Boxed(r, type) => r = q /\ (m.kind = "set" => m \in Sets(type))
  BY <1>2 DEF Boxed, Sets, Stanza
<1>7. \A type \in MessageType : m \in Sets(type) => m.kind = "set" /\ d \in Boxed(q, type)
  BY <1>2 DEF Boxed, Sets, Stanza
<1>8. {"transport-accept", "accept"} \subseteq MessageType
  BY DEF MessageType
<1> HIDE DEF m, d
<1> SUFFICES ASSUME state[Caller] = "SENTINITIATE", ~transport[Caller]
             PROVE  TransportFirst(remote[Caller])'
  BY <1>1 DEF Transports
<1>9. PICK r \in Peer : r = remote[Caller] /\ r = remote'[Caller]
  BY <1>1 DEF Roles, Callee
<1> DEFINE ta == Boxed(r, "transport-accept")
           ac == Boxed(r, "accept")
           TA == Sets("transport-accept")
           AC == Sets("accept")
<1>10. /\ Preceded(inbox[Caller], ta, ac)
       /\ Hits(inbox[Caller], ta) \/ Preceded(net[r][Caller], TA, AC)
       /\ state[r] = "RECEIVEDINITIATE" => Hits(net[r][Caller], TA) \/ Hits(inbox[Caller], ta)
  BY <1>9 DEF Transports, TransportFirst, Pending
<1>11. /\ r = q => (d \in ac /\ m.kind = "set" => m \in AC)
       /\ r = q => (m \in TA => m.kind = "set" /\ d \in ta)
       /\ r # q => d \notin ac
  BY <1>6, <1>7, <1>8
<1> HIDE DEF ta, ac, TA, AC
<1>12. /\ Preceded(inbox'[Caller], ta, ac)
       /\ Hits(inbox'[Caller], ta) \/ Preceded(net'[r][Caller], TA, AC)
       /\ state[r] = "RECEIVEDINITIATE" => Hits(net'[r][Caller], TA) \/ Hits(inbox'[Caller], ta)
  <2>1. CASE p # Caller
    BY <1>1, <1>4, <1>10, <2>1
  <2>2. CASE p = Caller /\ m.kind # "set"
    <3>1. inbox'[Caller] = inbox[Caller]
      BY <1>4, <2>2
    <3> QED
      BY <1>1, <1>5, <1>10, <1>11, <2>2, <3>1
  <2>3. CASE p = Caller /\ m.kind = "set"
    <3>1. inbox'[Caller] = Append(inbox[Caller], d)
      BY <1>4, <2>3
    <3>2. Hits(inbox'[Caller], ta) <=> Hits(inbox[Caller], ta) \/ d \in ta
      BY <1>1, <1>3, <2>3, <3>1, Grown
    <3>3. d \in ac => Hits(inbox[Caller], ta)
      BY <1>5, <1>10, <1>11, <2>3
    <3>4. Preceded(inbox'[Caller], ta, ac)
      BY <1>1, <1>3, <1>10, <2>3, <3>1, <3>3, Grown
    <3> QED
      BY <1>1, <1>5, <1>10, <1>11, <2>3, <3>2, <3>4
  <2> QED
    BY <2>1, <2>2, <2>3
<1> QED
  BY <1>1, <1>9, <1>12 DEF TransportFirst, Pending, ta, ac, TA, AC
----------------------------------------------------------------------------
(* All of it together *)

\* A step of p's thread that leaves the question, the transports and the
\* refusals where they are.
Meek(p) ==
    /\ description' = description /\ redirects' = redirects
    /\ \A r \in Peer : /\ r # p => state'[r] = state[r]
                       /\ ~up[r] => ~up'[r]
    /\ \/ state'[p] = state[p]
       \/ /\ state[p] # "NONE" \/ ~up'[p]
          /\ state'[p] \notin {"NONE", "RECEIVEDINITIATE", "SENTINITIATE"}
          /\ state[p] \in Silent => state'[p] \in Silent
    /\ remote'[Caller] = remote[Caller]
    /\ transport'[Caller] \in {transport[Caller], TRUE}
    /\ FewerBoxed
    /\ \/ inbox'[Caller] = inbox[Caller]
       \/ state'[Caller] # "SENTINITIATE" \/ transport'[Caller]
       \/ /\ inbox[Caller] # <<>> /\ inbox'[Caller] = Tail(inbox[Caller])
          /\ Head(inbox[Caller]) \notin Boxed(remote[Caller], "transport-accept")
    /\ \/ net' = net
       \/ \E r \in Peer, m \in Plain :
             /\ SendTo(p, r, m)
             /\ m.kind = "set" => state[p] \notin Silent
             /\ m \in Refusals => p \in Callee /\ state'[p] \in Silent

LEMMA MeekSteps ==
    ASSUME TypeOK, AgreeInv, Roles', NEW p \in Peer, Meek(p)
    PROVE  AgreeInv'
<1> USE PeerAssumption
<1>1. FewerStates
  BY DEF Meek, FewerStates, Fresh
<1>2. StaySilent
  BY DEF Meek, StaySilent
<1>3. \/ net' = net
      \/ \E r \in Peer, m \in Plain :
            /\ net'[p][r] = Append(net[p][r], m)
            /\ \A q1, q2 \in Peer : <<q1, q2>> # <<p, r>> => net'[q1][q2] = net[q1][q2]
            /\ m \in Stanza \ Sets("accept")
  BY PlainStanzas, Says DEF Meek
<1>4. FewerSent
  BY SMTT(40), <1>3 DEF FewerSent
<1>5. LastWord'
  <2>1. CASE net' = net
    BY <1>2, <2>1, LastWordSame DEF AgreeInv
  <2>2. CASE net' # net
    <3>1. PICK r \in Peer, m \in Plain :
             /\ SendTo(p, r, m)
             /\ m.kind = "set" => state[p] \notin Silent
             /\ m \in Refusals => p \in Callee /\ state'[p] \in Silent
      BY <2>2 DEF Meek
    <3>2. m \in Stanza
      BY PlainStanzas
    <3> QED
      BY <1>2, <3>1, <3>2, LastWordSays DEF AgreeInv
  <2> QED
    BY <2>1, <2>2
<1>6. TransportsStay
  <2> SUFFICES ASSUME state'[Caller] = "SENTINITIATE", ~transport'[Caller]
               PROVE  TransportsStay
    BY DEF TransportsStay
  <2>1. state[Caller] = "SENTINITIATE" /\ ~transport[Caller]
    BY DEF Meek
  <2>2. remote'[Caller] = remote[Caller] /\ remote[Caller] \in Peer
    BY <2>1 DEF Meek, AgreeInv, Roles, Callee
  <2>3. \/ inbox'[Caller] = inbox[Caller]
        \/ /\ inbox[Caller] # <<>> /\ inbox'[Caller] = Tail(inbox[Caller])
           /\ Head(inbox[Caller]) \notin Boxed(remote[Caller], "transport-accept")
    BY DEF Meek
  <2>4. \/ net'[remote[Caller]][Caller] = net[remote[Caller]][Caller]
        \/ \E m \in Stanza \ Sets("accept") :
              net'[remote[Caller]][Caller] = Append(net[remote[Caller]][Caller], m)
    BY <1>3, <2>2
  <2>5. state'[remote[Caller]] = "RECEIVEDINITIATE"
        => state[remote[Caller]] = "RECEIVEDINITIATE"
    BY <2>2 DEF Meek
  <2> QED
    BY <2>1, <2>2, <2>3, <2>4, <2>5 DEF TransportsStay
<1>7. Speech' /\ OneQuestion'
  BY <1>1, <1>4, QuestionFewer DEF AgreeInv, Meek
<1>8. Transports'
  BY <1>6, TransportsKept DEF AgreeInv
<1> QED
  BY <1>5, <1>7, <1>8 DEF AgreeInv

\* Steps that neither send nor take a stanza nor change a session.
LEMMA MeekQuiet ==
    ASSUME UNCHANGED <<state, remote, transport, description, up, redirects, inbox, net>>,
           NEW p \in Peer
    PROVE  Meek(p)
BY DEF Meek, FewerBoxed

\* Steps that end the session, with or without a word.
LEMMA MeekEnds ==
    ASSUME TypeOK, Roles, NEW p \in Peer, Exists(p), state[p] \notin Terminated,
           state' = [state EXCEPT ![p] = "SENTTERMINATE"], SendTerminate(p),
           UNCHANGED <<remote, transport, description, up, redirects, inbox>>
    PROVE  Meek(p)
<1>1. remote[p] \in Peer
  BY PeerAssumption DEF Roles, Exists, Callee
<1>2. /\ Request("terminate") \in Plain /\ Request("terminate") \notin Refusals
  BY DEF Plain, Sets, Refusals, Request
<1>3. \/ net' = net
      \/ \E r \in Peer, m \in Plain :
            /\ SendTo(p, r, m)
            /\ m.kind = "set" => state[p] \notin Silent
            /\ m \in Refusals => p \in Callee /\ state'[p] \in Silent
  BY <1>1, <1>2 DEF SendTerminate, Silent, Exists
<1>4. /\ state'[p] = "SENTTERMINATE" /\ \A r \in Peer : r # p => state'[r] = state[r]
      /\ state[p] # "NONE"
  BY DEF TypeOK, Exists
<1> QED
  BY <1>3, <1>4 DEF Meek, FewerBoxed, Silent, Terminated
LEMMA AgreeCommand ==
    ASSUME TypeOK, AgreeInv, NEW p \in Peer, Command(p)
    PROVE  AgreeInv'
<1> USE PeerAssumption
<1>0. TypeOK /\ Roles /\ Speech /\ OneQuestion /\ Transports /\ LastWord
  BY DEF AgreeInv
<1>1. Roles'
  BY <1>0, RolesCommand
<1>2. ASSUME Accept(p) PROVE AgreeInv'
  <2>1. /\ SendTo(p, remote[p], Request("accept")) /\ remote[p] \in Peer
        /\ state[p] = "RECEIVEDINITIATE" /\ state' = [state EXCEPT ![p] = "SENTACCEPT"]
    BY <1>0, <1>2 DEF Accept, SetState, Roles, CallerStates, Callee
  <2>2. Request("accept") \in Stanza /\ Request("accept") \notin Refusals
    BY StanzaTypes DEF MessageType, Refusals, Sets, Request
  <2>3. state[p] \notin Silent /\ StaySilent
    BY <2>1 DEF Silent, Declined, Terminated, StaySilent, TypeOK
  <2>4. LastWord'
    BY <1>0, <2>1, <2>2, <2>3, LastWordSays
  <2> QED
    BY <1>0, <1>1, <1>2, <2>4, QuestionAccept, TransportsAccept DEF AgreeInv
<1>3. ASSUME Reject(p) PROVE AgreeInv'
  <2>1. /\ SendTo(p, remote[p], Request("reject")) /\ remote[p] \in Peer
        /\ state[p] = "RECEIVEDINITIATE" /\ p \in Callee
        /\ state' = [state EXCEPT ![p] = "SENTREJECT"]
        /\ UNCHANGED <<remote, transport, description, up, redirects, inbox>>
    BY <1>0, <1>3 DEF Reject, SetState, Roles, CallerStates, Callee, worldVars
  <2>2. Request("reject") \in Plain
    BY DEF Plain, Sets, Request
  <2>3. /\ state'[p] = "SENTREJECT" /\ \A r \in Peer : r # p => state'[r] = state[r]
    BY <2>1 DEF TypeOK
  <2>4. /\ state'[p] \in Silent /\ state[p] \notin Silent
    BY <2>1, <2>3 DEF Silent, Declined, Terminated
  <2>5. Meek(p)
    BY <2>1, <2>2, <2>3, <2>4 DEF Meek, FewerBoxed
  <2> QED
    BY <1>1, <2>5, MeekSteps
<1>4. ASSUME Terminate(p) PROVE AgreeInv'
  <2>1. Meek(p)
    BY <1>0, <1>4, MeekEnds DEF Terminate, SetState, worldVars
  <2> QED
    BY <1>1, <2>1, MeekSteps
<1>5. ASSUME NEW q \in Peer, Initiate(p, q) PROVE AgreeInv'
  <2>1. /\ SendTo(p, q, Request("initiate"))
        /\ state[p] = "NONE" /\ state' = [state EXCEPT ![p] = "SENTINITIATE"]
    BY <1>5 DEF Initiate, SetState
  <2>2. Request("initiate") \in Stanza /\ Request("initiate") \notin Refusals
    BY StanzaTypes DEF MessageType, Refusals, Sets, Request
  <2>3. state[p] \notin Silent /\ StaySilent
    BY <2>1 DEF Silent, Declined, Terminated, StaySilent, TypeOK
  <2>4. LastWord'
    BY <1>0, <2>1, <2>2, <2>3, LastWordSays
  <2> QED
    BY <1>0, <1>1, <1>5, <2>4, QuestionInitiate, TransportsInitiate DEF AgreeInv
<1>6. ASSUME NEW t \in Peer, Redirect(p, t) PROVE AgreeInv'
  <2>1. /\ SendTo(p, remote[p], RedirectTo(t)) /\ remote[p] = Caller
        /\ state[p] = "RECEIVEDINITIATE" /\ p \in Callee /\ p # Caller
        /\ state' = [state EXCEPT ![p] = "SENTREDIRECT"]
        /\ UNCHANGED <<remote, transport, inbox>>
    BY <1>0, <1>6 DEF Redirect, SetState, Roles, CallerStates, Callee
  <2>2. RedirectTo(t) \in Stanza /\ RedirectTo(t) \notin Sets("accept")
    BY StanzaTypes DEF RedirectTo, Sets
  <2>3. /\ state'[p] = "SENTREDIRECT" /\ \A r \in Peer : r # p => state'[r] = state[r]
    BY <2>1 DEF TypeOK
  <2>4. state[p] \notin Silent /\ StaySilent /\ state'[p] \in Silent
    BY <2>1, <2>3 DEF Silent, Declined, Terminated, StaySilent
  <2>5. LastWord'
    BY <1>0, <2>1, <2>2, <2>4, LastWordSays
  <2>6. /\ net'[p][Caller] = Append(net[p][Caller], RedirectTo(t))
        /\ \A q1, q2 \in Peer : <<q1, q2>> # <<p, Caller>> => net'[q1][q2] = net[q1][q2]
    BY <2>1, <2>2, Says
  <2>7. state[Caller] = "SENTINITIATE" => remote[Caller] \in Peer
    BY <1>0 DEF Roles, Callee
  <2>8. TransportsStay
    BY SMTT(40), <2>1, <2>2, <2>3, <2>6, <2>7 DEF TransportsStay
  <2> QED
    BY <1>0, <1>1, <1>6, <2>5, <2>8, QuestionRedirect, TransportsKept DEF AgreeInv
<1> QED
  BY <1>2, <1>3, <1>4, <1>5, <1>6 DEF Command

LEMMA AgreeDispatch ==
    ASSUME TypeOK, AllSound, AgreeInv, NEW p \in Peer, Dispatch(p)
    PROVE  AgreeInv'
<1>0. Roles /\ Roles'
  BY RolesDispatch DEF AgreeInv
<1>1. ASSUME RunTasks(p) \/ CheckAutoDestroy(p) \/ Ignore(p) PROVE Meek(p)
  <2>1. UNCHANGED <<state, remote, transport, description, up, redirects, inbox, net>>
    BY <1>1 DEF RunTasks, CheckAutoDestroy, Ignore, FollowUp, TypeOK, worldVars, sessionVars
  <2> QED
    BY <2>1, MeekQuiet
<1>2. ASSUME NEW s \in {"INPROGRESS", "SENTTERMINATE", "DEINIT"},
             /\ state' = [state EXCEPT ![p] = s]
             /\ state[p] # "NONE" /\ (s = "INPROGRESS" => state[p] \notin Silent)
             /\ UNCHANGED <<transport, description, remote, up, redirects, inbox, net>>
      PROVE  Meek(p)
  <2>1. state'[p] = s /\ \A r \in Peer : r # p => state'[r] = state[r]
    BY <1>2 DEF TypeOK
  <2>2. s # "INPROGRESS" => s \in Silent
    BY DEF Silent, Terminated
  <2> QED
    BY <1>2, <2>1, <2>2 DEF Meek, FewerBoxed
<1>3. ASSUME Progress(p) PROVE Meek(p)
  BY <1>2, <1>3 DEF Progress, FollowUp, Agreed, Silent, Terminated, Declined, worldVars
<1>4. ASSUME Conclude(p) PROVE Meek(p)
  BY <1>2, <1>4 DEF Conclude, FollowUp, Declined, worldVars
<1>5. ASSUME DestroySession(p) PROVE Meek(p)
  BY <1>2, <1>5 DEF DestroySession, Terminated, worldVars
<1>6. ASSUME OnError(p) PROVE Meek(p)
  <2>1. CASE state[p] \in Terminated
    BY <1>6, <2>1, MeekQuiet DEF OnError, worldVars
  <2>2. CASE state[p] \notin Terminated
    BY <1>0, <1>6, <2>2, ErrorsReachTheLiving, MeekEnds DEF OnError, worldVars
  <2> QED
    BY <2>1, <2>2
<1> QED
  BY <1>0, <1>1, <1>3, <1>4, <1>5, <1>6, MeekSteps DEF Dispatch

\* Every handler takes its stanza and, but for three of them, is meek.
LEMMA MeekHandlers ==
    ASSUME TypeOK, AgreeInv, NEW p \in Peer, NEW q \in Peer,
           \/ \E type \in MessageType : Refuse(p, q, type)
           \/ OnAcceptMessage(p, q) \/ OnRejectMessage(p, q)
           \/ OnTransportAcceptMessage(p, q) \/ OnTerminateMessage(p, q)
    PROVE  Meek(p)
<1> USE PeerAssumption
<1>0. Roles
  BY DEF AgreeInv
<1>1. ASSUME NEW type \in MessageType, Arrived(p, q, type), TakeStanza(p)
      PROVE  /\ FewerBoxed
             /\ \/ inbox'[Caller] = inbox[Caller]
                \/ /\ p = Caller /\ inbox[Caller] # <<>> /\ inbox'[Caller] = Tail(inbox[Caller])
                   /\ \/ type = "transport-accept" /\ q = remote[Caller]
                      \/ Head(inbox[Caller]) \notin Boxed(remote[Caller], "transport-accept")
  <2>1. /\ inbox[p] # <<>> /\ inbox'[p] = Tail(inbox[p]) /\ FewerBoxed
        /\ \A r \in Peer : r # p => inbox'[r] = inbox[r]
        /\ Head(inbox[p]) \in Boxed(q, type)
    BY <1>1, Takes
  <2>2. \A r : Head(inbox[p]) \in Boxed(r, "transport-accept")
               => r = q /\ type = "transport-accept"
    BY <2>1 DEF Boxed
  <2> QED
    BY <2>1, <2>2
<1>2. ASSUME NEW type \in MessageType, Refuse(p, q, type) PROVE Meek(p)
  <2>1. /\ Arrived(p, q, type) /\ TakeStanza(p)
        /\ SendTo(p, q, ErrorReply(Head(inbox[p]).stanza))
        /\ UNCHANGED <<state, remote, transport, description, up, redirects>>
        /\ OutOfPlace(p, q, type) \/ type = "initiate"
    BY <1>2 DEF Refuse, sessionVars, worldVars
  <2>2. Head(inbox[p]).stanza \in Stanza
    <3>1. inbox[p] \in Seq(Delivery) /\ inbox[p] # <<>>
      BY <2>1 DEF TypeOK, Arrived
    <3>2. Head(inbox[p]) \in Delivery
      BY <3>1
    <3> QED
      BY <3>2 DEF Delivery
  <2>3. /\ ErrorReply(Head(inbox[p]).stanza) \in Plain
        /\ ErrorReply(Head(inbox[p]).stanza).kind = "error"
        /\ ErrorReply(Head(inbox[p]).stanza) \notin Refusals
    BY <2>2 DEF ErrorReply, Plain, Stanza, Refusals, Sets
  <2>4. type = "transport-accept" /\ p = Caller /\ q = remote[Caller]
        => state'[Caller] # "SENTINITIATE"
    BY <2>1 DEF OutOfPlace, FindSession, Exists
  <2> QED
    BY <1>1, <2>1, <2>3, <2>4 DEF Meek
<1>3. ASSUME OnAcceptMessage(p, q) PROVE Meek(p)
  <2>1. /\ Arrived(p, q, "accept") /\ TakeStanza(p) /\ "accept" \in MessageType
        /\ state[p] = "SENTINITIATE" /\ state' = [state EXCEPT ![p] = "RECEIVEDACCEPT"]
        /\ UNCHANGED <<remote, transport, description, up, redirects, net>>
    BY <1>3 DEF OnAcceptMessage, OutOfPlace, SetState, MessageType, worldVars
  <2>2. /\ state'[p] = "RECEIVEDACCEPT" /\ \A r \in Peer : r # p => state'[r] = state[r]
        /\ state[p] \notin Silent
    BY <2>1 DEF TypeOK, Silent, Declined, Terminated
  <2> QED
    BY <1>1, <2>1, <2>2 DEF Meek
<1>4. ASSUME OnRejectMessage(p, q) PROVE Meek(p)
  <2>1. PICK s \in {"SENTTERMINATE", "RECEIVEDREJECT"} :
        /\ Arrived(p, q, "reject") /\ TakeStanza(p) /\ "reject" \in MessageType
        /\ state[p] = "SENTINITIATE" /\ state' = [state EXCEPT ![p] = s]
        /\ UNCHANGED <<remote, transport, description, up, redirects, net>>
    BY <1>4 DEF OnRejectMessage, OutOfPlace, SetState, MessageType, worldVars
  <2>2. /\ state'[p] = s /\ \A r \in Peer : r # p => state'[r] = state[r]
        /\ state[p] \notin Silent
    BY <2>1 DEF TypeOK, Silent, Declined, Terminated
  <2> QED
    BY <1>1, <2>1, <2>2 DEF Meek
<1>5. ASSUME OnTransportAcceptMessage(p, q) PROVE Meek(p)
  <2>1. /\ Arrived(p, q, "transport-accept") /\ TakeStanza(p)
        /\ "transport-accept" \in MessageType
        /\ transport' = [transport EXCEPT ![p] = TRUE]
        /\ UNCHANGED <<state, remote, description, up, redirects, net>>
    BY <1>5 DEF OnTransportAcceptMessage, MessageType, worldVars
  <2>2. /\ transport'[Caller] \in {transport[Caller], TRUE}
        /\ p = Caller => transport'[Caller]
    BY <2>1 DEF TypeOK
  <2> QED
    BY <1>1, <2>1, <2>2 DEF Meek
<1>6. ASSUME OnTerminateMessage(p, q) PROVE Meek(p)
  <2>1. /\ Arrived(p, q, "terminate") /\ TakeStanza(p) /\ "terminate" \in MessageType
        /\ state[p] # "NONE"
        /\ state' = state \/ state' = [state EXCEPT ![p] = "RECEIVEDTERMINATE"]
        /\ UNCHANGED <<remote, transport, description, up, redirects, net>>
    BY <1>6 DEF OnTerminateMessage, OutOfPlace, FindSession, Exists, SetState, MessageType,
                worldVars
  <2>2. /\ \/ state'[p] = state[p]
           \/ state'[p] = "RECEIVEDTERMINATE"
        /\ \A r \in Peer : r # p => state'[r] = state[r]
        /\ "RECEIVEDTERMINATE" \in Silent
    BY <2>1 DEF TypeOK, Silent, Terminated
  <2> QED
    BY <1>1, <2>1, <2>2 DEF Meek
<1> QED
  BY <1>2, <1>3, <1>4, <1>5, <1>6
\* Who is asked has said nothing yet.
LEMMA LastWordRing ==
    ASSUME TypeOK, LastWord, NEW p \in Peer, NEW q \in Peer, state[p] = "NONE", p \in Callee,
           NEW answer \in {"later", "accept", "reject"}, Ring(p, q, answer)
    PROVE  LastWord'
<1>1. /\ Request("transport-accept") \in Stanza /\ Request("transport-accept") \notin Refusals
      /\ Request("accept") \in Stanza /\ Request("accept") \notin Refusals
      /\ Request("reject") \in Stanza
  BY StanzaTypes DEF MessageType, Refusals, Sets, Request
<1>2. /\ state[p] \notin Silent /\ StaySilent
      /\ answer = "reject" => state'[p] \in Silent
  BY DEF Ring, SetState, Silent, Declined, Terminated, StaySilent, TypeOK
<1>3. CASE answer # "accept"
  <2>1. \/ SendTo(p, q, Request("transport-accept"))
        \/ SendTo(p, q, Request("reject")) /\ answer = "reject"
    BY <1>3 DEF Ring
  <2> QED
    BY <1>1, <1>2, <2>1, LastWordSays
<1>4. CASE answer = "accept"
  <2> DEFINE t == Append(net[p][q], Request("transport-accept"))
             u == Append(t, Request("accept"))
  <2>1. net[p][q] \in Seq(Stanza)
    BY DEF TypeOK
  <2>2. t \in Seq(Stanza)
    BY <1>1, <2>1
  <2>3. u = net[p][q] \o <<Request("transport-accept"), Request("accept")>>
    BY <1>1, <2>1
  <2>4. net' = [net EXCEPT ![p][q] = u]
    BY <1>4, <2>3 DEF Ring
  <2>5. /\ net'[p][q] = u
        /\ \A q1, q2 \in Peer : <<q1, q2>> # <<p, q>> => net'[q1][q2] = net[q1][q2]
    <3> HIDE DEF u
    <3> QED
      BY <2>4 DEF TypeOK
  <2>6. Last(net[p][q], Refusals, AllSets) /\ ~Hits(net[p][q], Refusals)
    BY <1>2 DEF LastWord
  <2>7. Last(t, Refusals, AllSets) /\ ~Hits(t, Refusals)
    BY <1>1, <2>1, <2>6, Grown
  <2> HIDE DEF t
  <2>8. Last(u, Refusals, AllSets) /\ ~Hits(u, Refusals)
    BY <1>1, <2>2, <2>7, Grown
  <2> QED
    <3> SUFFICES ASSUME NEW q1 \in Peer, NEW r \in Peer
                 PROVE  /\ Last(net'[q1][r], Refusals, AllSets)
                        /\ Hits(net'[q1][r], Refusals) => q1 \in Callee /\ state'[q1] \in Silent
      BY DEF LastWord
    <3>1. CASE q1 = p /\ r = q
      BY <2>5, <2>8, <3>1
    <3>2. CASE ~(q1 = p /\ r = q)
      <4>1. net'[q1][r] = net[q1][r]
        BY <2>5, <3>2
      <4> QED
        BY <1>2, <4>1 DEF LastWord, StaySilent
    <3> QED
      BY <3>1, <3>2
<1> QED
  BY <1>3, <1>4

LEMMA AgreeStanza ==
    ASSUME TypeOK, AgreeInv, NEW p \in Peer, HandleStanza(p)
    PROVE  AgreeInv'
<1> USE PeerAssumption
<1>0. TypeOK /\ Roles /\ Speech /\ OneQuestion /\ Transports /\ LastWord
  BY DEF AgreeInv
<1>1. Roles'
  BY <1>0, RolesStanza
<1>2. ASSUME OnFailedSend(p) PROVE AgreeInv'
  <2>1. UNCHANGED <<state, remote, transport, description, up, redirects, inbox, net>>
    BY <1>2 DEF OnFailedSend, worldVars
  <2> QED
    BY <1>1, <2>1, MeekQuiet, MeekSteps
<1>3. ASSUME NEW q \in Peer, NEW answer \in {"later", "accept", "reject"}, Ring(p, q, answer)
      PROVE  AgreeInv'
  <2>1. /\ p \in Callee /\ state[p] = "NONE" /\ Speech' /\ OneQuestion'
    BY <1>0, <1>3, QuestionRing
  <2>2. LastWord'
    BY <1>0, <1>3, <2>1, LastWordRing
  <2>3. Transports'
    BY <1>0, <1>3, TransportsRing
  <2> QED
    BY <1>1, <2>1, <2>2, <2>3 DEF AgreeInv
<1>4. ASSUME NEW q \in Peer, OnRedirectMessage(p, q)
      PROVE  AgreeInv'
  <2>1. PICK t \in Callee : remote'[Caller] = t
    BY <1>0, <1>4, QuestionForward
  <2>2. /\ SendTo(p, remote'[Caller], Request("initiate")) /\ state' = state /\ p = Caller
        /\ state[p] = "SENTINITIATE"
    <3>1. p = Caller
      BY <1>0, <1>4, QuestionForward
    <3> QED
      BY <1>4, <3>1 DEF OnRedirectMessage, OutOfPlace, TypeOK
  <2>3. Request("initiate") \in Stanza /\ Request("initiate") \notin Refusals
    BY StanzaTypes DEF MessageType, Refusals, Sets, Request
  <2>4. state[p] \notin Silent /\ StaySilent
    BY <2>2 DEF Silent, Declined, Terminated, StaySilent
  <2>5. LastWord'
    BY <1>0, <2>1, <2>2, <2>3, <2>4, LastWordSays DEF Callee
  <2> QED
    BY <1>0, <1>1, <1>4, <2>5, QuestionForward, TransportsForward DEF AgreeInv
<1>5. ASSUME NEW q \in Peer,
             \/ \E type \in MessageType : Refuse(p, q, type)
             \/ OnAcceptMessage(p, q) \/ OnRejectMessage(p, q)
             \/ OnTransportAcceptMessage(p, q) \/ OnTerminateMessage(p, q)
      PROVE  AgreeInv'
  BY <1>1, <1>5, MeekHandlers, MeekSteps
<1> QED
  BY <1>2, <1>3, <1>4, <1>5 DEF HandleStanza

\* The server's answer for a peer that is gone.
LEMMA AgreeBounce ==
    ASSUME TypeOK, AgreeInv, Roles', NEW p \in Peer, NEW q \in Peer, Bounce(p, q)
    PROVE  AgreeInv'
<1> USE PeerAssumption
<1> DEFINE m == Head(net[q][p])
           popped == [net EXCEPT ![q][p] = Tail(net[q][p])]
<1>0. TypeOK /\ Roles /\ Speech /\ OneQuestion /\ Transports /\ LastWord
  BY DEF AgreeInv
<1>1. /\ net \in [Peer -> [Peer -> Seq(Stanza)]] /\ net[q][p] # <<>> /\ ~up[p]
      /\ UNCHANGED <<state, remote, transport, description, up, redirects, inbox>>
  BY DEF TypeOK, Bounce, sessionVars, worldVars, threadVars
<1>2. m \in Stanza /\ Tail(net[q][p]) \in Seq(Stanza)
  BY <1>1
<1>3. net' = [popped EXCEPT ![p][q] = IF m.kind = "set"
                 THEN Append(popped[p][q], ErrorReply(m)) ELSE popped[p][q]]
  BY DEF Bounce
<1> HIDE DEF m
<1>4. /\ popped \in [Peer -> [Peer -> Seq(Stanza)]]
      /\ popped[q][p] = Tail(net[q][p])
      /\ \A q1, q2 \in Peer : <<q1, q2>> # <<q, p>> => popped[q1][q2] = net[q1][q2]
  BY <1>1, <1>2
<1> HIDE DEF popped
<1>5. /\ \A q1, q2 \in Peer : <<q1, q2>> # <<p, q>> => net'[q1][q2] = popped[q1][q2]
      /\ \/ net'[p][q] = popped[p][q]
         \/ net'[p][q] = Append(popped[p][q], ErrorReply(m))
  BY <1>3, <1>4
<1>6. /\ ErrorReply(m) \in Plain /\ ErrorReply(m) \in Stanza
      /\ ErrorReply(m) \notin Sets("accept")
  BY <1>2 DEF Plain, Stanza, ErrorReply, Sets
<1>7. FewerSent
  <2> SUFFICES ASSUME NEW q1 \in Peer, NEW r \in Peer
               PROVE  \E s \in {net[q1][r], Tail(net[q1][r])} :
                         /\ s = net[q1][r] \/ net[q1][r] # <<>>
                         /\ net'[q1][r] = s \/ \E x \in Plain : net'[q1][r] = Append(s, x)
    BY DEF FewerSent
  <2>1. popped[q1][r] \in {net[q1][r], Tail(net[q1][r])}
        /\ (popped[q1][r] = net[q1][r] \/ net[q1][r] # <<>>)
    BY <1>1, <1>4
  <2>2. net'[q1][r] = popped[q1][r] \/ \E x \in Plain : net'[q1][r] = Append(popped[q1][r], x)
    BY SMTT(40), <1>5, <1>6
  <2> QED
    BY <2>1, <2>2
<1>8. FewerStates /\ FewerBoxed /\ StaySilent
  BY <1>1 DEF FewerStates, FewerBoxed, StaySilent, Fresh
<1>9. TransportsStay
  <2> SUFFICES ASSUME state[Caller] = "SENTINITIATE", ~transport[Caller]
               PROVE  TransportsStay
    BY <1>1 DEF TransportsStay
  <2>1. remote[Caller] \in Peer /\ p # Caller
    BY <1>0, <1>1 DEF Roles, Callee
  <2>2. \/ net'[remote[Caller]][Caller] = net[remote[Caller]][Caller]
        \/ net'[remote[Caller]][Caller] = Append(net[remote[Caller]][Caller], ErrorReply(m))
    <3>1. popped[remote[Caller]][Caller] = net[remote[Caller]][Caller]
      BY <1>4, <2>1
    <3>2. CASE remote[Caller] = p /\ Caller = q
      BY <1>5, <3>1, <3>2
    <3>3. CASE ~(remote[Caller] = p /\ Caller = q)
      BY <1>5, <2>1, <3>1, <3>3
    <3> QED
      BY <3>2, <3>3
  <2> QED
    BY <1>1, <1>6, <2>1, <2>2 DEF TransportsStay
<1>10. LastWord'
  BY <1>0, <1>8, LastWordTaken
<1> QED
  BY <1>0, <1>7, <1>8, <1>9, <1>10, QuestionFewer, TransportsKept DEF AgreeInv

LEMMA AgreeWorld ==
    ASSUME TypeOK, AgreeInv, NEW p \in Peer, Timer(p) \/ Deliver(p) \/ Environment(p)
    PROVE  AgreeInv'
<1> USE PeerAssumption
<1>0. TypeOK /\ Roles /\ Speech /\ OneQuestion /\ Transports /\ LastWord
  BY DEF AgreeInv
<1>1. Roles'
  BY <1>0, RolesWorld
<1>2. ASSUME OnTimeout(p) \/ TransportWritable(p) \/ TransportUnwritable(p)
      PROVE  AgreeInv'
  <2>1. UNCHANGED <<state, remote, transport, description, up, redirects, inbox, net>>
    BY <1>2 DEF OnTimeout, TransportWritable, TransportUnwritable, worldVars, sessionVars,
                threadVars
  <2> QED
    BY <1>1, <2>1, MeekQuiet, MeekSteps
<1>3. ASSUME OnTerminateCall(p) PROVE AgreeInv'
  <2>1. CASE Exists(p) /\ state[p] \notin Terminated
    BY <1>0, <1>1, <1>3, <2>1, MeekEnds, MeekSteps DEF OnTerminateCall, SetState, worldVars
  <2>2. CASE ~(Exists(p) /\ state[p] \notin Terminated)
    <3>1. UNCHANGED <<state, remote, transport, description, up, redirects, inbox, net>>
      BY <1>3, <2>2 DEF OnTerminateCall, worldVars
    <3> QED
      BY <1>1, <3>1, MeekQuiet, MeekSteps
  <2> QED
    BY <2>1, <2>2
<1>4. ASSUME NEW q \in Peer, Receive(p, q) PROVE AgreeInv'
  <2>1. StaySilent
    BY <1>4 DEF Receive, StaySilent, sessionVars
  <2> QED
    BY <1>0, <1>1, <1>4, <2>1, QuestionReceive, TransportsReceive, LastWordTaken DEF AgreeInv
<1>5. ASSUME NEW q \in Peer, Bounce(p, q) PROVE AgreeInv'
  BY <1>1, <1>5, AgreeBounce
<1>6. ASSUME Crash(p) PROVE AgreeInv'
  <2>1. /\ \A r \in Peer : r # p => /\ state'[r] = state[r] /\ up'[r] = up[r]
                                    /\ inbox'[r] = inbox[r]
        /\ state'[p] = "DEINIT" /\ ~up'[p] /\ inbox'[p] = <<>>
        /\ UNCHANGED <<remote, transport, description, net, redirects>>
    BY <1>6 DEF Crash, TypeOK
  <2>2. Meek(p)
    BY <2>1 DEF Meek, FewerBoxed, Silent
  <2> QED
    BY <1>1, <2>2, MeekSteps
<1> QED
  BY <1>2, <1>3, <1>4, <1>5, <1>6 DEF Timer, Deliver, Environment

\* The question is in one place, for ever.
LEMMA AgreeHolds == Spec => []AgreeInv
<1> USE PeerAssumption
<1>1. Init => AgreeInv
  <2> SUFFICES ASSUME Init PROVE AgreeInv
    OBVIOUS
  <2>1. /\ \A p \in Peer : /\ state[p] = "NONE" /\ remote[p] = Nobody /\ ~description[p]
                           /\ up[p] /\ inbox[p] = <<>>
        /\ \A p, q \in Peer : net[p][q] = <<>>
    BY DEF Init
  <2>2. Roles
    BY <2>1 DEF Roles, CallerStates, CalleeStates, Callee, Fresh
  <2>3. \A p, q \in Peer : \A S : /\ ~Hits(net[p][q], S) /\ ~Hits(inbox[p], S)
                                  /\ Single(net[p][q], S) /\ Single(inbox[p], S)
    BY <2>1 DEF Hits, Single
  <2>4. Speech
    BY <2>3 DEF Speech, Pending
  <2>5. OneQuestion
    BY <2>1, <2>3 DEF OneQuestion, Holds, Stage, Pending, Callee
  <2>6. Transports
    BY <2>1 DEF Transports
  <2>7. LastWord
    BY <2>1, <2>3 DEF LastWord, Last
  <2> QED
    BY <2>2, <2>4, <2>5, <2>6, <2>7 DEF AgreeInv
<1>2. TypeOK /\ AllSound /\ AgreeInv /\ [Next]_vars => AgreeInv'
  <2> SUFFICES ASSUME TypeOK, AllSound, AgreeInv, [Next]_vars
               PROVE  AgreeInv'
    OBVIOUS
  <2>1. ASSUME NEW p \in Peer,
               \/ Command(p) \/ Dispatch(p) \/ HandleStanza(p)
               \/ Timer(p) \/ Deliver(p) \/ Environment(p)
        PROVE  AgreeInv'
    BY <2>1, AgreeCommand, AgreeDispatch, AgreeStanza, AgreeWorld
  <2>2. CASE UNCHANGED vars
    BY <2>2 DEF vars, sessionVars, timerVars, threadVars, worldVars, AgreeInv, Roles, Speech,
                OneQuestion, Transports, LastWord, TransportFirst, Holds, Stage, Pending, Fresh
  <2> QED
    BY <2>1, <2>2 DEF Next
<1> QED
  BY <1>1, <1>2, TypeCorrect, Soundness, PTL DEF Spec

\* Of any peers, however they redirect and whoever crashes: an agreed session
\* has its transport and was accepted by the user it is connected to, and who
\* has rejected or redirected says nothing after it.
THEOREM AnswersStand == Spec => []AnswersAgree
<1> USE PeerAssumption
<1>1. TypeOK /\ AgreeInv => AnswersAgree
  <2> SUFFICES ASSUME TypeOK, AgreeInv PROVE AgreementIsMutual /\ RefusalIsLastWord
    BY DEF AnswersAgree
  <2>1. AgreementIsMutual
    BY DEF AgreeInv, Roles, AgreementIsMutual, Agreed, CallerStates, CalleeStates, Callee
  <2>2. ASSUME NEW p \in Peer, NEW q \in Peer, NEW i \in 1..Len(net[p][q]),
               NEW j \in 1..Len(net[p][q]),
               i < j, net[p][q][i].kind = "set", net[p][q][j].kind = "set"
        PROVE  net[p][q][i].type \notin {"reject", "redirect"}
    <3>1. net[p][q] \in Seq(Stanza)
      BY DEF TypeOK
    <3>2. net[p][q][i] \in Stanza /\ net[p][q][j] \in Stanza
      BY <3>1
    <3>3. net[p][q][j] \in AllSets
      BY <2>2, <3>2 DEF AllSets, Stanza
    <3>4. net[p][q][i] \notin Refusals
      BY <2>2, <3>3 DEF AgreeInv, LastWord, Last
    <3> QED
      BY <2>2, <3>2, <3>4 DEF Refusals, Sets, Stanza
  <2> QED
    BY <2>1, <2>2 DEF RefusalIsLastWord
<1> QED
  BY <1>1, TypeCorrect, AgreeHolds, PTL
----------------------------------------------------------------------------
(* Session implements CallSetup *)

\* A step of CallSetup, or none.
CallStep == [Abstract!Next]_(Abstract!callVars)

LEMMA Phases ==
    \A p \in Peer : Phase(p) \in {"idle", "asking", "asked", "agreed", "talking", "over"}
BY DEF Phase

\* A step of one end, seen from its users.
LEMMA OneEndMoves ==
    ASSUME NEW p \in Peer, \A r \in Peer : r # p => state'[r] = state[r]
    PROVE  Abstract!Move(p, Phase(p), Phase(p)')
<1>1. \A r \in Peer : r # p => Phase(r)' = Phase(r)
  BY DEF Phase
<1>2. [r \in Peer |-> Phase(r)]' = [[r \in Peer |-> Phase(r)] EXCEPT ![p] = Phase(p)']
  BY <1>1
<1> QED
  BY <1>2 DEF Abstract!Move

LEMMA SameGrants ==
    ASSUME description' = description
    PROVE  {p \in Peer : description[p]}' = {p \in Peer : description[p]}
OBVIOUS

\* What changes nothing for its user, or ends the call for him.
LEMMA EndsOrStutters ==
    ASSUME NEW p \in Peer, description' = description,
           \A r \in Peer : r # p => state'[r] = state[r],
           Phase(p)' \in {Phase(p), "over"}
    PROVE  CallStep
<1>1. Abstract!Move(p, Phase(p), Phase(p)') /\ Phase(p) \in Abstract!Phase
  BY OneEndMoves, Phases DEF Abstract!Phase
<1>2. UNCHANGED {r \in Peer : description[r]}
  BY SameGrants
<1>3. CASE Phase(p)' = Phase(p)
  <2>1. \A r \in Peer : Phase(r)' = Phase(r)
    BY <1>3 DEF Phase
  <2>2. UNCHANGED [r \in Peer |-> Phase(r)]
    BY <2>1
  <2> QED
    BY <1>2, <2>2 DEF CallStep, Abstract!callVars
<1>4. CASE Phase(p)' = "over" /\ Phase(p) # "over"
  <2>1. Abstract!End(p)
    BY <1>1, <1>2, <1>4 DEF Abstract!End
  <2> QED
    BY <2>1 DEF CallStep, Abstract!Next
<1> QED
  BY <1>3, <1>4

LEMMA StuttersForAll ==
    ASSUME UNCHANGED <<state, description>>
    PROVE  CallStep
BY DEF CallStep, Abstract!callVars, Phase

LEMMA CommandMaps ==
    ASSUME TypeOK, AgreeInv, NEW p \in Peer, Command(p)
    PROVE  CallStep
<1> USE PeerAssumption
<1>0. TypeOK /\ Roles /\ Speech /\ OneQuestion
  BY DEF AgreeInv
<1>1. ASSUME Accept(p) PROVE CallStep
  <2>1. /\ state[p] = "RECEIVEDINITIATE" /\ p # Caller
        /\ state' = [state EXCEPT ![p] = "SENTACCEPT"]
        /\ description' = [description EXCEPT ![p] = TRUE]
    BY <1>0, <1>1 DEF Accept, SetState, Roles, CallerStates, Callee
  <2>2. /\ Phase(p) = "asked" /\ Phase(p)' = "agreed"
        /\ \A r \in Peer : r # p => state'[r] = state[r]
    BY <2>1 DEF Phase, TypeOK, Agreed
  <2>3. \A r \in Peer : ~description[r]
    <3>1. Holds(p) /\ ~description[p]
      BY <1>0, <2>1 DEF Holds, OneQuestion, Stage, Callee
    <3> QED
      BY <1>0, <3>1 DEF OneQuestion, Holds, Roles
  <2>4. Phase(Caller) # "idle"
    <3>1. state[Caller] # "NONE"
      BY <1>0, <2>1 DEF OneQuestion, Holds
    <3> QED
      BY <3>1 DEF Phase, Agreed
  <2>5. {r \in Peer : description[r]} = {} /\ {r \in Peer : description[r]}' = {p}
    BY <2>1, <2>3 DEF TypeOK
  <2>6. Abstract!Move(p, "asked", "agreed")
    BY <2>2, OneEndMoves
  <2>7. Abstract!Grant(p)
    BY <2>1, <2>4, <2>5, <2>6 DEF Abstract!Grant
  <2> QED
    BY <2>7 DEF CallStep, Abstract!Next
<1>2. ASSUME Reject(p) \/ Terminate(p) \/ \E t \in Peer : Redirect(p, t) PROVE CallStep
  <2>1. PICK s \in {"SENTREJECT", "SENTREDIRECT", "SENTTERMINATE"} :
           state' = [state EXCEPT ![p] = s] /\ description' = description
    BY <1>2 DEF Reject, Terminate, Redirect, SetState
  <2>2. Phase(p)' = "over" /\ \A r \in Peer : r # p => state'[r] = state[r]
    BY <2>1 DEF Phase, Agreed, TypeOK
  <2> QED
    BY <2>1, <2>2, EndsOrStutters
<1>3. ASSUME NEW q \in Peer, Initiate(p, q) PROVE CallStep
  <2>1. /\ p = Caller /\ state[p] = "NONE" /\ description' = description
        /\ state' = [state EXCEPT ![p] = "SENTINITIATE"]
    BY <1>3 DEF Initiate, SetState
  <2>2. /\ Phase(p) = "idle" /\ Phase(p)' = "asking"
        /\ \A r \in Peer : r # p => state'[r] = state[r]
    BY <2>1 DEF Phase, TypeOK, Agreed
  <2>3. Abstract!Move(Caller, "idle", "asking")
    BY <2>1, <2>2, OneEndMoves
  <2>4. Abstract!Ask
    BY <2>1, <2>3, SameGrants DEF Abstract!Ask
  <2> QED
    BY <2>4 DEF CallStep, Abstract!Next
<1> QED
  BY <1>1, <1>2, <1>3 DEF Command

LEMMA DispatchMaps ==
    ASSUME TypeOK, NEW p \in Peer, Dispatch(p)
    PROVE  CallStep
<1>1. ASSUME Progress(p) PROVE CallStep
  <2>1. /\ state[p] \in Agreed /\ state' = [state EXCEPT ![p] = "INPROGRESS"]
        /\ description' = description
    BY <1>1 DEF Progress, FollowUp
  <2>2. /\ Phase(p) = "agreed" /\ Phase(p)' = "talking"
        /\ \A r \in Peer : r # p => state'[r] = state[r]
    BY <2>1 DEF Phase, TypeOK, Agreed
  <2>3. Abstract!Talk(p)
    BY <2>1, <2>2, OneEndMoves, SameGrants DEF Abstract!Talk
  <2> QED
    BY <2>3 DEF CallStep, Abstract!Next
<1>2. ASSUME Conclude(p) \/ DestroySession(p) \/ OnError(p) PROVE CallStep
  <2>1. /\ description' = description
        /\ \/ state' = state
           \/ \E s \in {"SENTTERMINATE", "DEINIT"} : state' = [state EXCEPT ![p] = s]
    BY <1>2 DEF Conclude, FollowUp, DestroySession, OnError
  <2>2. CASE \E s \in {"SENTTERMINATE", "DEINIT"} : state' = [state EXCEPT ![p] = s]
    <3>1. Phase(p)' = "over" /\ \A r \in Peer : r # p => state'[r] = state[r]
      BY <2>2 DEF Phase, Agreed, TypeOK
    <3> QED
      BY <2>1, <3>1, EndsOrStutters
  <2> QED
    BY <2>1, <2>2, StuttersForAll
<1>3. ASSUME RunTasks(p) \/ Ignore(p) \/ CheckAutoDestroy(p) PROVE CallStep
  <2>1. UNCHANGED <<state, description>>
    BY <1>3 DEF RunTasks, Ignore, FollowUp, CheckAutoDestroy, sessionVars, TypeOK
  <2> QED
    BY <2>1, StuttersForAll
<1> QED
  BY <1>1, <1>2, <1>3 DEF Dispatch

LEMMA StanzaMaps ==
    ASSUME TypeOK, AgreeInv, NEW p \in Peer, HandleStanza(p)
    PROVE  CallStep
<1> USE PeerAssumption
<1>0. TypeOK /\ Roles /\ Speech /\ OneQuestion
  BY DEF AgreeInv
<1>1. ASSUME NEW q \in Peer, NEW answer \in {"later", "accept", "reject"}, Ring(p, q, answer)
      PROVE  CallStep
  <2>1. /\ p \in Callee /\ p # Caller /\ Holds(p) /\ state[p] = "NONE" /\ ~description[p]
    BY <1>0, <1>1, QuestionRing DEF Callee
  <2>2. /\ state'[p] = CASE answer = "later"  -> "RECEIVEDINITIATE"
                         [] answer = "accept" -> "SENTACCEPT"
                         [] answer = "reject" -> "SENTREJECT"
        /\ \A r \in Peer : r # p => state'[r] = state[r]
        /\ description' = [description EXCEPT ![p] = answer = "accept"]
    BY <1>1 DEF Ring, SetState, TypeOK
  <2>3. /\ Phase(p) = "idle"
        /\ Phase(p)' = CASE answer = "later"  -> "asked"
                         [] answer = "accept" -> "agreed"
                         [] answer = "reject" -> "over"
    BY <2>1, <2>2 DEF Phase, Agreed
  <2>4. \A r \in Peer : ~description[r]
    BY <1>0, <2>1 DEF OneQuestion, Holds, Roles
  <2>5. Phase(Caller) # "idle"
    <3>1. state[Caller] # "NONE"
      BY <1>0, <2>1 DEF OneQuestion, Holds
    <3> QED
      BY <3>1 DEF Phase, Agreed
  <2>6. CASE answer = "accept"
    <3>1. {r \in Peer : description[r]} = {} /\ {r \in Peer : description[r]}' = {p}
      BY <2>2, <2>4, <2>6 DEF TypeOK
    <3>2. Abstract!Move(p, "idle", "agreed")
      BY <2>2, <2>3, <2>6, OneEndMoves
    <3>3. Abstract!Grant(p)
      BY <2>1, <2>5, <3>1, <3>2 DEF Abstract!Grant
    <3> QED
      BY <3>3 DEF CallStep, Abstract!Next
  <2>7. CASE answer # "accept"
    <3>1. description' = description
      BY <2>1, <2>2, <2>7 DEF TypeOK
    <3>2. CASE answer = "later"
      <4>1. Abstract!Move(p, "idle", "asked")
        BY <2>2, <2>3, <3>2, OneEndMoves
      <4>2. Abstract!BeAsked(p)
        BY <2>1, <2>5, <3>1, <4>1, SameGrants DEF Abstract!BeAsked
      <4> QED
        BY <4>2 DEF CallStep, Abstract!Next
    <3>3. CASE answer = "reject"
      <4>1. Phase(p)' = "over"
        BY <2>3, <3>3
      <4> QED
        BY <2>2, <3>1, <4>1, EndsOrStutters
    <3> QED
      BY <2>7, <3>2, <3>3
  <2> QED
    BY <2>6, <2>7
<1>2. ASSUME NEW q \in Peer, OnAcceptMessage(p, q) PROVE CallStep
  <2>1. /\ p = Caller /\ state[p] = "SENTINITIATE" /\ Arrived(p, q, "accept") /\ TakeStanza(p)
        /\ state' = [state EXCEPT ![p] = "RECEIVEDACCEPT"] /\ description' = description
    BY <1>0, <1>2 DEF OnAcceptMessage, OutOfPlace, SetState, Roles, CalleeStates, Callee
  <2>2. /\ Phase(p) = "asking" /\ Phase(p)' = "agreed"
        /\ \A r \in Peer : r # p => state'[r] = state[r]
    BY <2>1 DEF Phase, Agreed, TypeOK
  <2>3. Pending(q, Caller, "accept")
    BY <2>1, Takes DEF Pending, MessageType
  <2>4. {r \in Peer : description[r]} # {}
    BY <1>0, <2>3 DEF Speech
  <2>5. Abstract!Move(Caller, "asking", "agreed")
    BY <2>1, <2>2, OneEndMoves
  <2>6. Abstract!Learn
    BY <2>1, <2>4, <2>5, SameGrants DEF Abstract!Learn
  <2> QED
    BY <2>6 DEF CallStep, Abstract!Next
<1>3. ASSUME NEW q \in Peer, OnRejectMessage(p, q) \/ OnTerminateMessage(p, q)
      PROVE  CallStep
  <2>1. /\ description' = description
        /\ \/ state' = state
           \/ \E s \in {"SENTTERMINATE", "RECEIVEDREJECT", "RECEIVEDTERMINATE"} :
                 state' = [state EXCEPT ![p] = s]
    BY <1>3 DEF OnRejectMessage, OnTerminateMessage, SetState
  <2>2. CASE \E s \in {"SENTTERMINATE", "RECEIVEDREJECT", "RECEIVEDTERMINATE"} :
                 state' = [state EXCEPT ![p] = s]
    <3>1. Phase(p)' = "over" /\ \A r \in Peer : r # p => state'[r] = state[r]
      BY <2>2 DEF Phase, Agreed, TypeOK
    <3> QED
      BY <2>1, <3>1, EndsOrStutters
  <2> QED
    BY <2>1, <2>2, StuttersForAll
<1>4. ASSUME \/ OnFailedSend(p)
             \/ \E q \in Peer : \/ \E type \in MessageType : Refuse(p, q, type)
                                \/ OnRedirectMessage(p, q) \/ OnTransportAcceptMessage(p, q)
      PROVE  CallStep
  <2>1. UNCHANGED <<state, description>>
    BY <1>4 DEF OnFailedSend, Refuse, OnRedirectMessage, OnTransportAcceptMessage, sessionVars
  <2> QED
    BY <2>1, StuttersForAll
<1> QED
  BY <1>1, <1>2, <1>3, <1>4 DEF HandleStanza

LEMMA WorldMaps ==
    ASSUME TypeOK, NEW p \in Peer, Timer(p) \/ Deliver(p) \/ Environment(p)
    PROVE  CallStep
<1>1. /\ description' = description
      /\ \/ state' = state
         \/ \E s \in {"SENTTERMINATE", "DEINIT"} : state' = [state EXCEPT ![p] = s]
  BY DEF Timer, OnTimeout, OnTerminateCall, SetState, Deliver, Receive, Bounce, Environment,
         TransportWritable, TransportUnwritable, Crash, sessionVars
<1>2. CASE \E s \in {"SENTTERMINATE", "DEINIT"} : state' = [state EXCEPT ![p] = s]
  <2>1. Phase(p)' = "over" /\ \A r \in Peer : r # p => state'[r] = state[r]
    BY <1>2 DEF Phase, Agreed, TypeOK
  <2> QED
    BY <1>1, <2>1, EndsOrStutters
<1> QED
  BY <1>1, <1>2, StuttersForAll

\* Queues, stanzas, timers, redirects and crashes included, a session is to its
\* users the simple call of CallSetup: one peer at most grants it, the caller
\* takes it as granted only then, and what is over stays over.
THEOREM ImplementsSetup == Spec => ImplementsCallSetup
<1>1. Init => Abstract!Init
  <2> SUFFICES ASSUME Init PROVE Abstract!Init
    OBVIOUS
  <2>0. \A p \in Peer : state[p] = "NONE" /\ ~description[p]
    BY DEF Init
  <2>1. \A p \in Peer : Phase(p) = "idle" /\ ~description[p]
    BY <2>0 DEF Phase, Agreed
  <2> QED
    BY <2>1 DEF Abstract!Init
<1>2. TypeOK /\ AgreeInv /\ [Next]_vars => [Abstract!Next]_(Abstract!callVars)
  <2> SUFFICES ASSUME TypeOK, AgreeInv, [Next]_vars PROVE CallStep
    BY DEF CallStep
  <2>1. ASSUME NEW p \in Peer,
               \/ Command(p) \/ Dispatch(p) \/ HandleStanza(p)
               \/ Timer(p) \/ Deliver(p) \/ Environment(p)
        PROVE  CallStep
    BY <2>1, CommandMaps, DispatchMaps, StanzaMaps, WorldMaps
  <2>2. CASE UNCHANGED vars
    BY <2>2, StuttersForAll DEF vars, sessionVars
  <2> QED
    BY <2>1, <2>2 DEF Next
<1> QED
  BY <1>1, <1>2, TypeCorrect, AgreeHolds, PTL DEF Spec, ImplementsCallSetup, Abstract!Spec
----------------------------------------------------------------------------
(* The timers of a call                                                    *)
(*                                                                         *)
(* OnRedirectMessage stops the connection timer of a caller that has       *)
(* chosen its transport already, so only who was never redirected is       *)
(* watched for certain.                                                    *)

\* The states in which a session relies on its connection.
Lively == Agreed \cup {"SENTINITIATE", "RECEIVEDINITIATE", "INPROGRESS"}

WasRedirected(p) == p = Caller /\ redirects > 0

Timed(p) ==
    /\ p = Caller /\ state[p] \in {"RECEIVEDACCEPT", "INPROGRESS"} => ~callTimer[p]
    /\ ~Exists(p) => ~writable[p]
    /\ state[p] \in Lively /\ ~writable[p] =>
          timer[p] \/ error[p] # "NONE" \/ WasRedirected(p)

\* Timed is inductive for one peer at a time: the ones a step does not belong to
\* keep their fields, and redirects only grows.
TimedInv == /\ \A p \in Peer : Timed(p)
            /\ redirects \in 0..MaxRedirects

LEMMA RedirectsGrow ==
    ASSUME TypeOK, redirects \in 0..MaxRedirects, NEW p \in Peer,
           \/ Command(p) \/ Dispatch(p) \/ HandleStanza(p)
           \/ Timer(p) \/ Deliver(p) \/ Environment(p)
    PROVE  redirects' \in 0..MaxRedirects /\ redirects' >= redirects
<1> USE PeerAssumption DEF worldVars
<1>1. CASE Command(p)
  BY <1>1 DEF Command, Initiate, Accept, Reject, Redirect, Terminate
<1>2. CASE Dispatch(p)
  BY SMTT(120), <1>2 DEF Dispatch, RunTasks, Progress, Conclude, Ignore, FollowUp,
              DestroySession, CheckAutoDestroy, OnError
<1>3. CASE HandleStanza(p)
  BY SMTT(120), <1>3 DEF HandleStanza, Ring, Refuse, OnAcceptMessage, OnRejectMessage,
              OnRedirectMessage, OnTransportAcceptMessage, OnTerminateMessage, OnFailedSend
<1>4. CASE Timer(p)
  BY <1>4 DEF Timer, OnTimeout, OnTerminateCall
<1>5. CASE Deliver(p)
  <2>1. redirects' = redirects
    BY <1>5 DEF Deliver, Receive, Bounce
  <2>2. redirects >= redirects
    BY DEF TypeOK
  <2> QED
    BY <2>1, <2>2
<1>6. CASE Environment(p)
  BY <1>6 DEF Environment, TransportWritable, TransportUnwritable, Crash
<1> QED
  BY <1>1, <1>2, <1>3, <1>4, <1>5, <1>6

\* What a session does that keeps its timers, its error and its connection.
LEMMA TimersKept ==
    ASSUME TypeOK, NEW p \in Peer, Timed(p), redirects' >= redirects, redirects' \in Nat,
           writable'[p] = writable[p], timer'[p] = timer[p], error'[p] = error[p],
           callTimer'[p] \in {callTimer[p], FALSE},
           \/ state'[p] = state[p]
           \/ /\ Exists(p) /\ state'[p] \notin {"NONE", "DEINIT"}
              /\ state'[p] \in Lively => state[p] \in Lively
              /\ p = Caller /\ state'[p] = "INPROGRESS" => state[p] = "RECEIVEDACCEPT"
              /\ p = Caller /\ state'[p] = "RECEIVEDACCEPT" => ~callTimer'[p]
    PROVE  Timed(p)'
<1>1. WasRedirected(p) => WasRedirected(p)'
  BY DEF WasRedirected, TypeOK
<1>2. CASE state'[p] = state[p]
  BY <1>1, <1>2 DEF Timed, Exists
<1>3. CASE state'[p] # state[p]
  BY <1>1, <1>3 DEF Timed, Exists
<1> QED
  BY <1>2, <1>3

LEMMA TimedCommand ==
    ASSUME TypeOK, Roles, NEW p \in Peer, Timed(p), Command(p),
           redirects' >= redirects, redirects' \in Nat
    PROVE  Timed(p)'
<1> USE PeerAssumption DEF timerVars
<1>1. ASSUME Accept(p) \/ Reject(p) \/ Terminate(p) PROVE Timed(p)'
  <2>1. PICK s \in {"SENTACCEPT", "SENTREJECT", "SENTTERMINATE"} :
           /\ state' = [state EXCEPT ![p] = s] /\ Exists(p)
           /\ s = "SENTACCEPT" => state[p] = "RECEIVEDINITIATE"
           /\ UNCHANGED <<writable, timer, callTimer, error>>
    BY <1>1 DEF Accept, Reject, Terminate, SetState, Exists, Roles, CallerStates, Callee
  <2>2. state'[p] = s
    BY <2>1 DEF TypeOK
  <2> QED
    BY <2>1, <2>2, TimersKept DEF Lively, Agreed
<1>2. ASSUME NEW q \in Peer, Initiate(p, q) PROVE Timed(p)'
  <2>1. state'[p] = "SENTINITIATE" /\ timer'[p]
    BY <1>2 DEF Initiate, SetState, TypeOK
  <2> QED
    BY <2>1 DEF Timed, Exists
<1>3. ASSUME NEW t \in Peer, Redirect(p, t) PROVE Timed(p)'
  <2>1. state'[p] = "SENTREDIRECT"
    BY <1>3 DEF Redirect, SetState, TypeOK
  <2> QED
    BY <2>1 DEF Timed, Exists, Lively, Agreed
<1> QED
  BY <1>1, <1>2, <1>3 DEF Command

LEMMA TimedDispatch ==
    ASSUME TypeOK, AllSound, Roles, NEW p \in Peer, Timed(p), Dispatch(p),
           redirects' >= redirects, redirects' \in Nat
    PROVE  Timed(p)'
<1> USE PeerAssumption DEF timerVars, sessionVars
<1>1. ASSUME RunTasks(p) \/ CheckAutoDestroy(p) \/ Ignore(p) PROVE Timed(p)'
  <2>1. /\ UNCHANGED <<state, writable, timer, error>>
        /\ callTimer'[p] \in {callTimer[p], FALSE}
    <3>1. CASE Ignore(p)
      BY <3>1 DEF Ignore, FollowUp, TypeOK
    <3>2. CASE RunTasks(p) \/ CheckAutoDestroy(p)
      BY <3>2 DEF RunTasks, CheckAutoDestroy, TypeOK
    <3> QED
      BY <1>1, <3>1, <3>2
  <2> QED
    BY <2>1, TimersKept
<1>2. ASSUME Progress(p) PROVE Timed(p)'
  <2>1. /\ state'[p] = "INPROGRESS" /\ state[p] \in Agreed
        /\ UNCHANGED <<writable, timer, callTimer, error>>
    BY <1>2 DEF Progress, FollowUp, TypeOK
  <2>2. p = Caller => state[p] = "RECEIVEDACCEPT"
    BY <2>1 DEF Roles, CallerStates, Agreed
  <2> QED
    BY <2>1, <2>2, TimersKept DEF Lively, Agreed, Exists
<1>3. ASSUME Conclude(p) \/ OnError(p) PROVE Timed(p)'
  <2>1. /\ state' = state \/ state' = [state EXCEPT ![p] = "SENTTERMINATE"]
        /\ UNCHANGED <<writable, timer, callTimer, error>>
    BY <1>3 DEF Conclude, FollowUp, OnError
  <2>2. Exists(p)
    BY <1>3, ErrorsReachTheLiving DEF Conclude, Declined, Exists
  <2>3. state'[p] \in {state[p], "SENTTERMINATE"}
    BY <2>1 DEF TypeOK
  <2> QED
    BY <2>1, <2>2, <2>3, TimersKept DEF Lively, Agreed
<1>4. ASSUME DestroySession(p) PROVE Timed(p)'
  <2>1. state'[p] = "DEINIT" /\ ~writable'[p]
    BY <1>4 DEF DestroySession, TypeOK
  <2> QED
    BY <2>1 DEF Timed, Lively, Agreed
<1> QED
  BY <1>1, <1>2, <1>3, <1>4 DEF Dispatch

LEMMA TimedStanza ==
    ASSUME TypeOK, Roles, Speech, OneQuestion, NEW p \in Peer, Timed(p), HandleStanza(p),
           redirects' >= redirects, redirects' \in Nat
    PROVE  Timed(p)'
<1> USE PeerAssumption DEF timerVars, sessionVars
<1>1. ASSUME OnFailedSend(p) PROVE Timed(p)'
  <2>1. /\ UNCHANGED <<state, writable, timer>> /\ callTimer'[p] \in {callTimer[p], FALSE}
        /\ error' = error \/ error'[p] = "RESPONSE"
    BY <1>1 DEF OnFailedSend, SetError, TypeOK
  <2>2. CASE error' = error
    BY <2>1, <2>2, TimersKept
  <2>3. CASE error'[p] = "RESPONSE"
    BY <2>1, <2>3 DEF Timed, Exists
  <2> QED
    BY <2>1, <2>2, <2>3
<1>2. ASSUME NEW q \in Peer, NEW answer \in {"later", "accept", "reject"}, Ring(p, q, answer)
      PROVE  Timed(p)'
  <2>1. /\ p # Caller /\ ~Exists(p) /\ writable' = writable
        /\ timer'[p] = (answer # "reject")
        /\ state'[p] = CASE answer = "later"  -> "RECEIVEDINITIATE"
                         [] answer = "accept" -> "SENTACCEPT"
                         [] answer = "reject" -> "SENTREJECT"
    BY <1>2, QuestionRing DEF Ring, SetState, TypeOK, Callee
  <2> QED
    BY <2>1 DEF Timed, Exists, Lively, Agreed
<1>3. ASSUME NEW q \in Peer, OnRedirectMessage(p, q)
      PROVE  Timed(p)'
  <2>1. /\ p = Caller /\ Arrived(Caller, q, "redirect") /\ TakeStanza(Caller)
        /\ UNCHANGED <<state, writable, callTimer>>
    <3>1. p = Caller
      BY <1>3, QuestionForward
    <3> QED
      BY <1>3, <3>1 DEF OnRedirectMessage
  <2>2. Pending(q, Caller, "redirect")
    BY <2>1, Takes DEF Pending, MessageType
  <2>3. redirects > 0 /\ redirects \in Nat
    BY <2>2 DEF Speech, TypeOK
  <2>4. redirects' > 0
    BY <2>3
  <2> QED
    BY <2>1, <2>4 DEF Timed, Exists, WasRedirected
<1>4. ASSUME NEW q \in Peer, OnAcceptMessage(p, q)
      PROVE  Timed(p)'
  <2>1. /\ state[p] = "SENTINITIATE" /\ state'[p] = "RECEIVEDACCEPT"
        /\ callTimer'[p] = FALSE
        /\ UNCHANGED <<timer, writable, error>>
    BY <1>4 DEF OnAcceptMessage, OutOfPlace, SetState, TypeOK
  <2> QED
    BY <2>1, TimersKept DEF Lively, Agreed, Exists
<1>5. ASSUME NEW q \in Peer, OnRejectMessage(p, q) \/ OnTerminateMessage(p, q)
      PROVE  Timed(p)'
  <2>1. /\ state'[p] \in {state[p], "SENTTERMINATE", "RECEIVEDREJECT", "RECEIVEDTERMINATE"}
        /\ callTimer'[p] \in {callTimer[p], FALSE}
        /\ UNCHANGED <<timer, writable, error>> /\ Exists(p)
    BY <1>5 DEF OnRejectMessage, OnTerminateMessage, OutOfPlace, FindSession, SetState, TypeOK
  <2> QED
    BY <2>1, TimersKept DEF Lively, Agreed
<1>6. ASSUME \E q \in Peer : \/ \E type \in MessageType : Refuse(p, q, type)
                             \/ OnTransportAcceptMessage(p, q)
      PROVE  Timed(p)'
  <2>1. UNCHANGED <<state, timer, callTimer, writable, error>>
    BY <1>6 DEF Refuse, OnTransportAcceptMessage
  <2> QED
    BY <2>1, TimersKept
<1> QED
  BY <1>1, <1>2, <1>3, <1>4, <1>5, <1>6 DEF HandleStanza

LEMMA TimedWorld ==
    ASSUME TypeOK, NEW p \in Peer, Timed(p), Timer(p) \/ Deliver(p) \/ Environment(p),
           redirects' >= redirects, redirects' \in Nat
    PROVE  Timed(p)'
<1> USE DEF timerVars, sessionVars
<1>1. ASSUME OnTimeout(p) PROVE Timed(p)'
  <2>1. /\ UNCHANGED <<state, writable>> /\ callTimer'[p] \in {callTimer[p], FALSE}
        /\ error'[p] = "TIME"
    BY <1>1 DEF OnTimeout, SetError, TypeOK
  <2> QED
    BY <2>1 DEF Timed, Exists
<1>2. ASSUME OnTerminateCall(p) PROVE Timed(p)'
  <2>1. /\ \/ state'[p] = state[p]
           \/ Exists(p) /\ state'[p] = "SENTTERMINATE"
        /\ callTimer'[p] \in {callTimer[p], FALSE}
        /\ UNCHANGED <<timer, writable, error>>
    BY <1>2 DEF OnTerminateCall, SetState, TypeOK
  <2> QED
    BY <2>1, TimersKept DEF Lively, Agreed
<1>3. ASSUME Deliver(p) PROVE Timed(p)'
  <2>1. UNCHANGED <<state, timer, callTimer, writable, error>>
    BY <1>3 DEF Deliver, Receive, Bounce
  <2> QED
    BY SMTT(40), <2>1, TimersKept
<1>4. ASSUME TransportWritable(p) PROVE Timed(p)'
  <2>1. UNCHANGED <<state, callTimer>> /\ writable'[p] /\ Exists(p)
    BY <1>4 DEF TransportWritable, TypeOK
  <2> QED
    BY <2>1 DEF Timed, Exists
<1>5. ASSUME TransportUnwritable(p) PROVE Timed(p)'
  <2>1. UNCHANGED <<state, callTimer>> /\ timer'[p] /\ Exists(p)
    BY <1>5 DEF TransportUnwritable, TypeOK
  <2> QED
    BY <2>1 DEF Timed, Exists
<1>6. ASSUME Crash(p) PROVE Timed(p)'
  <2>1. state'[p] = "DEINIT" /\ ~writable'[p]
    BY <1>6 DEF Crash, TypeOK
  <2> QED
    BY <2>1 DEF Timed, Lively, Agreed
<1> QED
  BY <1>1, <1>2, <1>3, <1>4, <1>5, <1>6 DEF Timer, Environment

LEMMA TimersHold == Spec => []TimedInv
<1>1. Init => TimedInv
  BY PeerAssumption DEF Init, TimedInv, Timed, Exists, Lively, Agreed
<1>2. TypeOK /\ AllSound /\ AgreeInv /\ TimedInv /\ [Next]_vars => TimedInv'
  <2> SUFFICES ASSUME TypeOK, AllSound, AgreeInv, TimedInv, [Next]_vars
               PROVE  TimedInv'
    OBVIOUS
  <2>1. Roles /\ Speech /\ OneQuestion /\ MaxRedirects \in Nat
    BY PeerAssumption DEF AgreeInv
  <2>2. ASSUME NEW p \in Peer,
               \/ Command(p) \/ Dispatch(p) \/ HandleStanza(p)
               \/ Timer(p) \/ Deliver(p) \/ Environment(p)
        PROVE  TimedInv'
    <3>1. redirects' \in 0..MaxRedirects /\ redirects' >= redirects
      BY <2>2, RedirectsGrow DEF TimedInv
    <3>2. redirects' \in Nat /\ redirects \in Nat
      BY <2>1, <3>1 DEF TypeOK
    <3>3. Timed(p)'
      BY <2>1, <2>2, <3>1, <3>2, TimedCommand, TimedDispatch, TimedStanza, TimedWorld
         DEF TimedInv
    <3>4. ASSUME NEW r \in Peer, r # p PROVE Timed(r)'
      <4>1. /\ state'[r] = state[r] /\ error'[r] = error[r] /\ timer'[r] = timer[r]
            /\ callTimer'[r] = callTimer[r] /\ writable'[r] = writable[r]
        BY <2>2, <3>4, OthersUntouched
      <4> QED
        BY <3>1, <3>2, <4>1, TimersKept DEF TimedInv
    <3> QED
      BY <3>1, <3>3, <3>4 DEF TimedInv
  <2>3. CASE UNCHANGED vars
    BY <2>3 DEF vars, sessionVars, timerVars, worldVars, TimedInv, Timed, Exists, WasRedirected
  <2> QED
    BY <2>2, <2>3 DEF Next
<1> QED
  BY <1>1, <1>2, TypeCorrect, Soundness, AgreeHolds, PTL DEF Spec

\* With redirects or without, the timer that sends an unanswered call to
\* voicemail never ends one that was answered.
THEOREM AnsweredCallsLast == Spec => []AnsweredCallKeepsRunning
<1>1. TimedInv => AnsweredCallKeepsRunning
  BY PeerAssumption DEF TimedInv, Timed, AnsweredCallKeepsRunning
<1> QED
  BY <1>1, TimersHold, PTL

\* Where nobody redirects, no live session is left unwatched while its transport
\* cannot be written: the connection timer runs, or an error is ending it.
THEOREM TimersFit == (MaxRedirects = 0) /\ Spec => []TimersFitTheState
<1> DEFINE None == MaxRedirects = 0
<1>1. None /\ TimedInv => TimersFitTheState
  <2> SUFFICES ASSUME MaxRedirects = 0, TimedInv PROVE TimersFitTheState
    OBVIOUS
  <2>1. ~(redirects > 0)
    BY DEF TimedInv
  <2> QED
    BY <2>1, PeerAssumption DEF TimedInv, Timed, WasRedirected, Lively, Exists, Agreed,
       TimersFitTheState, AnsweredCallKeepsRunning, UnwritableIsWatched
<1>2. None /\ [Next]_vars => None'
  OBVIOUS
<1> HIDE DEF None
<1>3. None /\ Spec => []None
  BY <1>2, PTL DEF Spec
<1>4. None /\ Spec => []TimersFitTheState
  BY <1>1, <1>3, TimersHold, PTL
<1> QED
  BY <1>4 DEF None
=============================================================================
