------------------------------ MODULE Session ------------------------------
(***************************************************************************)
(* The negotiation of one call: session.cc, with the parts of              *)
(* sessionmanager.cc, call.cc and phonesessionclient.cc that create,       *)
(* time out and destroy a session.                                         *)
(*                                                                         *)
(* Every peer runs one signaling thread.  It executes user commands,       *)
(* stanzas that arrived from the XMPP server and the messages a session    *)
(* posts to itself, one at a time.  The stanzas of one peer reach another  *)
(* in the order they were sent.  A session id is the pair (initiator,      *)
(* number), so all the peers below talk about the same session: the one    *)
(* Caller initiates.                                                       *)
(*                                                                         *)
(* Commands and timers are posted by other threads and by the clock at     *)
(* arbitrary moments and carry no state of the session, so a command or a  *)
(* timeout runs here whenever the thread is between two messages; that is  *)
(* every order the posted messages can be taken in.                        *)
(***************************************************************************)
EXTENDS Naturals, Sequences

CONSTANTS Peer,          \* the XMPP clients
          Caller,        \* the one that initiates the session
          Nobody,        \* an empty remote_name_
          MaxRedirects,  \* bound: how often the callee may redirect
          Mortal         \* the peers whose process may end without a word

ASSUME PeerAssumption ==
    /\ Caller \in Peer
    /\ Nobody \notin Peer
    /\ MaxRedirects \in Nat
    /\ Mortal \subseteq Peer

VARIABLES
    state,        \* state_; NONE before the session object is created
    remote,       \* remote_name_
    transport,    \* transport_ != NULL
    description,  \* description_ != NULL, set by Accept; kept after deletion
    error,        \* error_
    timer,        \* MSG_TIMEOUT is in the delayed queue
    callTimer,    \* the call's MSG_TERMINATECALL is in the delayed queue
    writable,     \* transport->writable()
    queue,        \* what the signaling thread has posted to itself
    inbox,        \* stanza_queue_ of the SessionManagerTask
    failed,       \* error replies in the queues of the SessionSendTasks
    running,      \* the thread is inside TaskRunner::RunTasks
    net,          \* net[p][q]: stanzas on their way from p to q
    up,           \* the process is alive
    redirects     \* how many redirects were sent, for MaxRedirects

sessionVars == <<state, remote, transport, description, error>>
timerVars   == <<timer, callTimer>>
threadVars  == <<queue, inbox, failed, running>>
worldVars   == <<up, redirects>>
vars == <<sessionVars, timerVars, writable, threadVars, net, worldVars>>

----------------------------------------------------------------------------
(* Values *)

State == {"NONE", "SENTINITIATE", "RECEIVEDINITIATE", "SENTACCEPT",
          "RECEIVEDACCEPT", "SENTREJECT", "RECEIVEDREJECT", "SENTREDIRECT",
          "SENTTERMINATE", "RECEIVEDTERMINATE", "INPROGRESS", "DEINIT"}

Terminated == {"SENTTERMINATE", "RECEIVEDTERMINATE"}
Declined   == {"SENTREJECT", "SENTREDIRECT", "RECEIVEDREJECT"}
Agreed     == {"SENTACCEPT", "RECEIVEDACCEPT"}

\* The states OnMessage(MSG_STATE) does something about.
NeedsFollowUp == Agreed \cup Declined \cup Terminated

Error == {"NONE", "TIME", "RESPONSE"}

\* MSG_STATE and MSG_ERROR of the session, MSG_CHECKAUTODESTROY of its call,
\* and the XmppPump's message that runs the tasks.
Posted == {"state", "error", "checkcall", "run"}

MessageType == {"initiate", "accept", "reject", "redirect",
                "transport-accept", "terminate"}

\* A request ("set") or the error reply to one.  Acknowledgements change
\* nothing at their receiver (SessionManager::OnIncomingResponse) and are
\* left out.  Only a redirect has a target.
Stanza == [kind : {"set", "error"}, type : MessageType,
           target : Peer \cup {Nobody}]
Delivery == [from : Peer, stanza : Stanza]

Request(type)  == [kind |-> "set", type |-> type, target |-> Nobody]
RedirectTo(t)  == [kind |-> "set", type |-> "redirect", target |-> t]
\* Slip: the error reply loses what it quotes.
ErrorReplyCut(m) == [kind |-> "error", type |-> m.type]
ErrorReply(m) == [kind |-> "error", type |-> m.type, target |-> m.target]

----------------------------------------------------------------------------
(* Helpers *)

Has(s, m) == \E i \in 1..Len(s) : s[i] = m

\* The session is in session_map_.
Exists(p) == state[p] \notin {"NONE", "DEINIT"}

\* The signaling thread of p is between two messages.
AtLoop(p) == up[p] /\ ~running[p]

\* SessionManager::FindSessionForStanza: the id is there and the remote fits.
FindSession(p, q) == Exists(p) /\ remote[p] = q

\* The other end of p's session has no session object any more.
RemoteGone(p) == remote[p] \in Peer /\ ~Exists(remote[p])

\* Session::SetState to a state that differs from the current one: change it,
\* and post one MSG_STATE.  (With s the state, n > 1 when SignalState made the
\* client change the state again before SetState came to its own Post.)
SetState(p, s, n) ==
    /\ state' = [state EXCEPT ![p] = s]
    /\ queue' = [queue EXCEPT ![p] = @ \o [i \in 1..n |-> "state"]]

\* Session::SendSessionMessage, SessionManager::SendErrorMessage
SendTo(p, q, m) == net' = [net EXCEPT ![p][q] = Append(@, m)]

\* Slip: a terminate is sent in every state.
SendTerminateAlways(p) == SendTo(p, remote[p], Request("terminate"))

\* Session::Terminate stays silent when it follows a reject or a redirect.
SendTerminate(p) ==
    IF state[p] \in Declined THEN UNCHANGED net
    ELSE SendTo(p, remote[p], Request("terminate"))

\* Message m at the head of the queue is taken by MessageQueue::Get.
AtHead(p, m) == AtLoop(p) /\ queue[p] # <<>> /\ Head(queue[p]) = m

\* The next stanza the SessionManagerTask hands to the SessionManager.
Arrived(p, q, type) ==
    /\ running[p] /\ inbox[p] # <<>>
    /\ Head(inbox[p]).from = q /\ Head(inbox[p]).stanza.type = type

\* NextStanza, and RunTasks returns when no task has one left.
TakeStanza(p) ==
    /\ inbox' = [inbox EXCEPT ![p] = Tail(@)]
    /\ running' = [running EXCEPT ![p] = Len(inbox[p]) > 1 \/ failed[p] # <<>>]
    /\ UNCHANGED failed

----------------------------------------------------------------------------
Init ==
    /\ state = [p \in Peer |-> "NONE"]
    /\ remote = [p \in Peer |-> Nobody]
    /\ transport = [p \in Peer |-> FALSE]
    /\ description = [p \in Peer |-> FALSE]
    /\ error = [p \in Peer |-> "NONE"]
    /\ timer = [p \in Peer |-> FALSE]
    /\ callTimer = [p \in Peer |-> FALSE]
    /\ writable = [p \in Peer |-> FALSE]
    /\ queue = [p \in Peer |-> <<>>]
    /\ inbox = [p \in Peer |-> <<>>]
    /\ failed = [p \in Peer |-> <<>>]
    /\ running = [p \in Peer |-> FALSE]
    /\ net = [p \in Peer |-> [q \in Peer |-> <<>>]]
    /\ up = [p \in Peer |-> TRUE]
    /\ redirects = 0

----------------------------------------------------------------------------
(* Commands of the user, through Call *)

\* Call::InitiateSession: the session is created and initiated, its transport
\* starts connecting (which starts the connection timer), and the call's own
\* timer runs until the callee answers.
Initiate(p, q) ==
    /\ AtLoop(p) /\ p = Caller /\ q # p
    /\ state[p] = "NONE"
    /\ SetState(p, "SENTINITIATE", 1)
    /\ remote' = [remote EXCEPT ![p] = q]
    /\ SendTo(p, q, Request("initiate"))
    /\ timer' = [timer EXCEPT ![p] = TRUE]
    /\ callTimer' = [callTimer EXCEPT ![p] = TRUE]
    /\ UNCHANGED <<transport, description, error, writable, inbox, failed,
                   running, worldVars>>

\* Session::Accept.  Without a transport it only remembers the answer, and
\* ChooseTransport sends it.
Accept(p) ==
    /\ AtLoop(p)
    /\ state[p] = "RECEIVEDINITIATE"
    /\ description' = [description EXCEPT ![p] = TRUE]
    /\ IF transport[p]
       THEN /\ SendTo(p, remote[p], Request("accept"))
            /\ SetState(p, "SENTACCEPT", 1)
       ELSE UNCHANGED <<state, queue, net>>
    /\ UNCHANGED <<remote, transport, error, timerVars, writable, inbox,
                   failed, running, worldVars>>

\* Session::Reject
Reject(p) ==
    /\ AtLoop(p)
    /\ state[p] = "RECEIVEDINITIATE"
    /\ SendTo(p, remote[p], Request("reject"))
    /\ SetState(p, "SENTREJECT", 1)
    /\ UNCHANGED <<remote, transport, description, error, timerVars, writable,
                   inbox, failed, running, worldVars>>

\* Call::RedirectSession to a peer that has not taken part yet.
Redirect(p, t) ==
    /\ AtLoop(p)
    /\ state[p] = "RECEIVEDINITIATE"
    /\ t \notin {p, Caller} /\ state[t] = "NONE"
    /\ redirects < MaxRedirects
    /\ redirects' = redirects + 1
    /\ SendTo(p, remote[p], RedirectTo(t))
    /\ SetState(p, "SENTREDIRECT", 1)
    /\ callTimer' = [callTimer EXCEPT ![p] = TRUE]
    /\ UNCHANGED <<remote, transport, description, error, timer, writable,
                   inbox, failed, running, up>>

\* Session::Terminate
Terminate(p) ==
    /\ AtLoop(p)
    /\ Exists(p) /\ state[p] \notin Terminated
    /\ SendTerminate(p)
    /\ SetState(p, "SENTTERMINATE", 1)
    /\ UNCHANGED <<remote, transport, description, error, timerVars, writable,
                   inbox, failed, running, worldVars>>

----------------------------------------------------------------------------
(* The signaling thread's messages *)

\* XmppPump::OnMessage enters TaskRunner::RunTasks.
RunTasks(p) ==
    /\ AtHead(p, "run")
    /\ queue' = [queue EXCEPT ![p] = Tail(@)]
    /\ running' = [running EXCEPT ![p] = TRUE]
    /\ UNCHANGED <<sessionVars, timerVars, writable, inbox, failed, net,
                   worldVars>>

\* Slip: state_ is assigned and nothing is posted.
FollowUpUnposted(p, s, n) ==
    /\ AtHead(p, "state")
    /\ state' = [state EXCEPT ![p] = s]
    /\ queue' = [queue EXCEPT ![p] = Tail(@)]
    /\ UNCHANGED <<remote, transport, description, error, timerVars, writable,
                   inbox, failed, running, net, worldVars>>

\* Session::OnMessage(MSG_STATE) looks at the state of now, not of the Post.
FollowUp(p, s, n) ==
    /\ AtHead(p, "state")
    /\ state' = [state EXCEPT ![p] = s]
    /\ queue' = [queue EXCEPT ![p] = Tail(@) \o [i \in 1..n |-> "state"]]
    /\ UNCHANGED <<remote, transport, description, error, timerVars, writable,
                   inbox, failed, running, net, worldVars>>

Progress(p) == state[p] \in Agreed /\ FollowUp(p, "INPROGRESS", 1)

\* Terminate() after a refusal: nothing is sent.
Conclude(p) == state[p] \in Declined /\ FollowUp(p, "SENTTERMINATE", 1)

Ignore(p) == state[p] \notin NeedsFollowUp /\ FollowUp(p, state[p], 0)

\* Slip: the destructor leaves the session's messages in the queue.
DestroySessionUncleared(p) ==
    /\ AtHead(p, "state")
    /\ state[p] \in Terminated
    /\ state' = [state EXCEPT ![p] = "DEINIT"]
    /\ queue' = [queue EXCEPT ![p] = Append(Tail(@), "checkcall")]
    /\ timer' = [timer EXCEPT ![p] = FALSE]
    /\ writable' = [writable EXCEPT ![p] = FALSE]
    /\ UNCHANGED <<remote, transport, description, error, callTimer, inbox,
                   failed, running, net, worldVars>>

\* SessionManager::DestroySession.  The call loses its session and posts
\* MSG_CHECKAUTODESTROY; deleting the session clears its messages and timer,
\* so of the queue only the pump's message is left.
DestroySession(p) ==
    /\ AtHead(p, "state")
    /\ state[p] \in Terminated
    /\ state' = [state EXCEPT ![p] = "DEINIT"]
    /\ queue' = [queue EXCEPT ![p] =
                    IF Has(@, "run")
                    THEN <<"run", "checkcall">> ELSE <<"checkcall">>]
    /\ timer' = [timer EXCEPT ![p] = FALSE]
    /\ writable' = [writable EXCEPT ![p] = FALSE]
    /\ UNCHANGED <<remote, transport, description, error, callTimer, inbox,
                   failed, running, net, worldVars>>

\* Call::OnMessage(MSG_CHECKAUTODESTROY): the call has no session left, and
\* its destructor clears the timer that runs for it.
CheckAutoDestroy(p) ==
    /\ AtHead(p, "checkcall")
    /\ queue' = [queue EXCEPT ![p] = Tail(@)]
    /\ callTimer' = [callTimer EXCEPT ![p] = FALSE]
    /\ UNCHANGED <<sessionVars, timer, writable, inbox, failed, running, net,
                   worldVars>>

\* Slip: only an established session is terminated by an error.
OnErrorInCall(p) ==
    /\ AtHead(p, "error")
    /\ IF state[p] # "INPROGRESS"
       THEN /\ queue' = [queue EXCEPT ![p] = Tail(@)]
            /\ UNCHANGED <<state, net>>
       ELSE /\ SendTerminate(p)
            /\ state' = [state EXCEPT ![p] = "SENTTERMINATE"]
            /\ queue' = [queue EXCEPT ![p] = Append(Tail(@), "state")]
    /\ UNCHANGED <<remote, transport, description, error, timerVars, writable,
                   inbox, failed, running, worldVars>>

\* Session::OnMessage(MSG_ERROR) calls Terminate(), which does nothing when
\* the session is over already.
OnError(p) ==
    /\ AtHead(p, "error")
    /\ IF state[p] \in Terminated
       THEN /\ queue' = [queue EXCEPT ![p] = Tail(@)]
            /\ UNCHANGED <<state, net>>
       ELSE /\ SendTerminate(p)
            /\ state' = [state EXCEPT ![p] = "SENTTERMINATE"]
            /\ queue' = [queue EXCEPT ![p] = Append(Tail(@), "state")]
    /\ UNCHANGED <<remote, transport, description, error, timerVars, writable,
                   inbox, failed, running, worldVars>>

\* Session::SetError, and Call::OnSessionError behind SignalError.
SetError(p, e) ==
    IF error[p] = e THEN UNCHANGED <<error, callTimer, queue>>
    ELSE /\ error' = [error EXCEPT ![p] = e]
         /\ callTimer' = [callTimer EXCEPT ![p] = FALSE]
         /\ queue' = [queue EXCEPT ![p] = Append(@, "error")]

\* Session::OnMessage(MSG_TIMEOUT): the transport stayed unwritable too long.
OnTimeout(p) ==
    /\ AtLoop(p) /\ timer[p]
    /\ timer' = [timer EXCEPT ![p] = FALSE]
    /\ SetError(p, "TIME")
    /\ UNCHANGED <<state, remote, transport, description, writable, inbox,
                   failed, running, net, worldVars>>

\* Call::OnMessage(MSG_TERMINATECALL) terminates every session of the call
\* that still has one to terminate.
OnTerminateCall(p) ==
    /\ AtLoop(p) /\ callTimer[p]
    /\ callTimer' = [callTimer EXCEPT ![p] = FALSE]
    /\ IF Exists(p) /\ state[p] \notin Terminated
       THEN SendTerminate(p) /\ SetState(p, "SENTTERMINATE", 1)
       ELSE UNCHANGED <<state, queue, net>>
    /\ UNCHANGED <<remote, transport, description, error, timer, writable,
                   inbox, failed, running, worldVars>>

----------------------------------------------------------------------------
(* Stanzas, handled inside RunTasks *)

\* SessionManager::OnIncomingMessage creates the session for an initiate with
\* an unknown id, and Session::OnInitiateMessage makes it RECEIVEDINITIATE.
\* Inside that callback the client may reject (PhoneSessionClient does, when no
\* codec is common), or accept at once; otherwise it leaves the answer to the
\* user.  Unless it was rejected, ChooseTransport follows: it answers with the
\* transport, connects it, and sends the accept that was waiting for it.
Ring(p, q, answer) ==
    /\ Arrived(p, q, "initiate") /\ TakeStanza(p)
    /\ ~Exists(p)
    /\ remote' = [remote EXCEPT ![p] = q]
    /\ error' = [error EXCEPT ![p] = "NONE"]
    /\ transport' = [transport EXCEPT ![p] = answer # "reject"]
    /\ timer' = [timer EXCEPT ![p] = answer # "reject"]
    /\ description' = [description EXCEPT ![p] = answer = "accept"]
    /\ \/ /\ answer = "reject"
          /\ SendTo(p, q, Request("reject"))
          /\ SetState(p, "SENTREJECT", 2)
       \/ /\ answer = "accept"
          /\ net' = [net EXCEPT ![p][q] =
                        @ \o <<Request("transport-accept"), Request("accept")>>]
          /\ SetState(p, "SENTACCEPT", 2)
       \/ /\ answer = "later"
          /\ SendTo(p, q, Request("transport-accept"))
          /\ SetState(p, "RECEIVEDINITIATE", 1)
    /\ UNCHANGED <<callTimer, writable, worldVars>>

\* Slip: no CheckState.
OutOfPlaceUnchecked(p, q, type) ==
    IF type = "initiate" THEN Exists(p) ELSE ~FindSession(p, q)

\* What CheckState (or a failed FindSessionForStanza) does not let through.
OutOfPlace(p, q, type) ==
    CASE type = "initiate"  -> Exists(p)
      [] type = "terminate" -> ~FindSession(p, q)
      [] OTHER              -> ~FindSession(p, q) \/ state[p] # "SENTINITIATE"

\* Session::CheckState, or SessionManager::OnIncomingMessage for an unknown
\* session or an initiate whose description no client knows: an error reply.
Refuse(p, q, type) ==
    /\ Arrived(p, q, type) /\ TakeStanza(p)
    /\ OutOfPlace(p, q, type) \/ type = "initiate"
    /\ SendTo(p, q, ErrorReply(Head(inbox[p]).stanza))
    /\ UNCHANGED <<sessionVars, timerVars, writable, queue, worldVars>>

\* Slip: the call's timer is not stopped by the answer.
OnAcceptMessageTimed(p, q) ==
    /\ Arrived(p, q, "accept") /\ TakeStanza(p)
    /\ ~OutOfPlace(p, q, "accept")
    /\ SetState(p, "RECEIVEDACCEPT", 1)
    /\ UNCHANGED <<remote, transport, description, error, timerVars, writable,
                   net, worldVars>>

\* Session::OnAcceptMessage; Call::OnSessionState stops the call's timer.
OnAcceptMessage(p, q) ==
    /\ Arrived(p, q, "accept") /\ TakeStanza(p)
    /\ ~OutOfPlace(p, q, "accept")
    /\ SetState(p, "RECEIVEDACCEPT", 1)
    /\ callTimer' = [callTimer EXCEPT ![p] = FALSE]
    /\ UNCHANGED <<remote, transport, description, error, timer, writable, net,
                   worldVars>>

\* Session::OnRejectMessage.  The client may terminate inside the callback
\* (CallClient does), or leave it to MSG_STATE.
OnRejectMessage(p, q) ==
    /\ Arrived(p, q, "reject") /\ TakeStanza(p)
    /\ ~OutOfPlace(p, q, "reject")
    /\ SetState(p, "SENTTERMINATE", 2) \/ SetState(p, "RECEIVEDREJECT", 1)
    /\ callTimer' = [callTimer EXCEPT ![p] = FALSE]
    /\ UNCHANGED <<remote, transport, description, error, timer, writable, net,
                   worldVars>>

\* Session::OnRedirectMessage initiates with the target, in the same state.
\* It stops the connection timer; a transport that was chosen already is
\* neither reset nor connected again (ConnectChannels_w returns early).
OnRedirectMessage(p, q) ==
    /\ Arrived(p, q, "redirect") /\ TakeStanza(p)
    /\ ~OutOfPlace(p, q, "redirect")
    /\ LET target == Head(inbox[p]).stanza.target
       IN  /\ remote' = [remote EXCEPT ![p] = target]
           /\ SendTo(p, target, Request("initiate"))
    /\ timer' = [timer EXCEPT ![p] = ~transport[p]]
    /\ UNCHANGED <<state, transport, description, error, callTimer, writable,
                   queue, worldVars>>

\* Session::OnTransportAcceptMessage and SetTransport
OnTransportAcceptMessage(p, q) ==
    /\ Arrived(p, q, "transport-accept") /\ TakeStanza(p)
    /\ ~OutOfPlace(p, q, "transport-accept")
    /\ transport' = [transport EXCEPT ![p] = TRUE]
    /\ UNCHANGED <<state, remote, description, error, timerVars, writable,
                   queue, net, worldVars>>

\* Session::OnTerminateMessage does not look at the state it comes from.
OnTerminateMessage(p, q) ==
    /\ Arrived(p, q, "terminate") /\ TakeStanza(p)
    /\ ~OutOfPlace(p, q, "terminate")
    /\ IF state[p] = "RECEIVEDTERMINATE" THEN UNCHANGED <<state, queue, callTimer>>
       ELSE /\ SetState(p, "RECEIVEDTERMINATE", 1)
            /\ callTimer' = [callTimer EXCEPT ![p] = FALSE]
    /\ UNCHANGED <<remote, transport, description, error, timer, writable, net,
                   worldVars>>

\* SessionSendTask::ProcessResponse with an error, SessionManager::OnFailedSend
\* and Session::OnFailedSend.  The send tasks were started after the
\* SessionManagerTask and run after it.
OnFailedSend(p) ==
    /\ running[p] /\ inbox[p] = <<>> /\ failed[p] # <<>>
    /\ failed' = [failed EXCEPT ![p] = Tail(@)]
    /\ running' = [running EXCEPT ![p] = Len(failed[p]) > 1]
    /\ IF FindSession(p, Head(failed[p]).from)
       THEN SetError(p, "RESPONSE") ELSE UNCHANGED <<error, callTimer, queue>>
    /\ UNCHANGED <<state, remote, transport, description, timer, writable,
                   inbox, net, worldVars>>

----------------------------------------------------------------------------
(* The world around the thread *)

\* XmppTask::QueueStanza, from the socket.  The thread reads its socket only
\* when it has nothing posted to itself; Task::Wake posts the pump's message
\* for the first stanza only.
Receive(p, q) ==
    /\ AtLoop(p)
    /\ queue[p] \in {<<>>, <<"run">>}
    /\ net[q][p] # <<>>
    /\ net' = [net EXCEPT ![q][p] = Tail(@)]
    /\ queue' = [queue EXCEPT ![p] = <<"run">>]
    /\ LET d == [from |-> q, stanza |-> Head(net[q][p])]
       IN  IF d.stanza.kind = "set"
           THEN /\ inbox' = [inbox EXCEPT ![p] = Append(@, d)]
                /\ UNCHANGED failed
           ELSE /\ failed' = [failed EXCEPT ![p] = Append(@, d)]
                /\ UNCHANGED inbox
    /\ UNCHANGED <<sessionVars, timerVars, writable, running, worldVars>>

\* The server answers a request to a client that is gone with an error.
Bounce(p, q) ==
    /\ ~up[p] /\ net[q][p] # <<>>
    /\ LET m == Head(net[q][p])
       IN  net' = [[net EXCEPT ![q][p] = Tail(@)]
                       EXCEPT ![p][q] = IF m.kind = "set"
                                        THEN Append(@, ErrorReply(m)) ELSE @]
    /\ UNCHANGED <<sessionVars, timerVars, writable, threadVars, worldVars>>

\* Session::OnTransportWritable: both transports are there and got through.
TransportWritable(p) ==
    /\ AtLoop(p)
    /\ Exists(p) /\ transport[p] /\ ~writable[p]
    /\ remote[p] # Nobody /\ Exists(remote[p]) /\ transport[remote[p]]
    /\ writable' = [writable EXCEPT ![p] = TRUE]
    /\ timer' = [timer EXCEPT ![p] = FALSE]
    /\ UNCHANGED <<sessionVars, callTimer, threadVars, net, worldVars>>

\* Slip: losing the connection starts no timer.
TransportUnwritableUntimed(p) ==
    /\ AtLoop(p)
    /\ Exists(p) /\ writable[p]
    /\ writable' = [writable EXCEPT ![p] = FALSE]
    /\ UNCHANGED <<sessionVars, timerVars, threadVars, net, worldVars>>

\* Session::OnTransportWritable: the connection was lost.
TransportUnwritable(p) ==
    /\ AtLoop(p)
    /\ Exists(p) /\ writable[p]
    /\ writable' = [writable EXCEPT ![p] = FALSE]
    /\ timer' = [timer EXCEPT ![p] = TRUE]
    /\ UNCHANGED <<sessionVars, callTimer, threadVars, net, worldVars>>

\* The process of p ends, and with it all it kept in memory.
Crash(p) ==
    /\ p \in Mortal /\ up[p]
    /\ up' = [up EXCEPT ![p] = FALSE]
    /\ state' = [state EXCEPT ![p] = "DEINIT"]
    /\ timer' = [timer EXCEPT ![p] = FALSE]
    /\ callTimer' = [callTimer EXCEPT ![p] = FALSE]
    /\ writable' = [writable EXCEPT ![p] = FALSE]
    /\ queue' = [queue EXCEPT ![p] = <<>>]
    /\ inbox' = [inbox EXCEPT ![p] = <<>>]
    /\ failed' = [failed EXCEPT ![p] = <<>>]
    /\ running' = [running EXCEPT ![p] = FALSE]
    /\ UNCHANGED <<remote, transport, description, error, net, redirects>>

----------------------------------------------------------------------------
Command(p) ==
    \/ Accept(p) \/ Reject(p) \/ Terminate(p)
    \/ \E q \in Peer : Initiate(p, q) \/ Redirect(p, q)

\* What the signaling thread does next; at most one of these is enabled.
Dispatch(p) ==
    \/ RunTasks(p) \/ Progress(p) \/ Conclude(p) \/ Ignore(p)
    \/ DestroySession(p) \/ CheckAutoDestroy(p) \/ OnError(p)

HandleStanza(p) ==
    \/ OnFailedSend(p)
    \/ \E q \in Peer :
          \/ \E answer \in {"later", "accept", "reject"} : Ring(p, q, answer)
          \/ \E type \in MessageType : Refuse(p, q, type)
          \/ OnAcceptMessage(p, q) \/ OnRejectMessage(p, q)
          \/ OnRedirectMessage(p, q) \/ OnTransportAcceptMessage(p, q)
          \/ OnTerminateMessage(p, q)

Timer(p) == OnTimeout(p) \/ OnTerminateCall(p)

Deliver(p) == \E q \in Peer : Receive(p, q) \/ Bounce(p, q)

Environment(p) == TransportWritable(p) \/ TransportUnwritable(p) \/ Crash(p)

Next == \E p \in Peer :
    \/ Command(p) \/ Dispatch(p) \/ HandleStanza(p)
    \/ Timer(p) \/ Deliver(p) \/ Environment(p)

Spec == Init /\ [][Next]_vars

\* The thread keeps dispatching, the server keeps delivering, a timer that
\* stays armed expires, and a connection to a session that is gone is noticed.
\* Nothing obliges a user to give a command.
Fairness == \A p \in Peer :
    /\ WF_vars(Dispatch(p)) /\ WF_vars(HandleStanza(p))
    /\ WF_vars(OnTimeout(p)) /\ WF_vars(OnTerminateCall(p))
    /\ \A q \in Peer : WF_vars(Receive(p, q)) /\ WF_vars(Bounce(p, q))
    /\ WF_vars(RemoteGone(p) /\ TransportUnwritable(p))

FairSpec == Spec /\ Fairness

----------------------------------------------------------------------------
(* Safety *)

\* Every variable has its type.
TypeOK ==
    /\ state \in [Peer -> State]
    /\ remote \in [Peer -> Peer \cup {Nobody}]
    /\ transport \in [Peer -> BOOLEAN]
    /\ description \in [Peer -> BOOLEAN]
    /\ error \in [Peer -> Error]
    /\ timer \in [Peer -> BOOLEAN]
    /\ callTimer \in [Peer -> BOOLEAN]
    /\ writable \in [Peer -> BOOLEAN]
    /\ queue \in [Peer -> Seq(Posted)]
    /\ inbox \in [Peer -> Seq(Delivery)]
    /\ failed \in [Peer -> Seq(Delivery)]
    /\ running \in [Peer -> BOOLEAN]
    /\ net \in [Peer -> [Peer -> Seq(Stanza)]]
    /\ up \in [Peer -> BOOLEAN]
    /\ redirects \in Nat

\* m is posted and not yet taken.
IsPosted(p, m) == Has(queue[p], m)

\* A session is never stuck half way: whenever its state asks for a follow-up
\* (an agreed session must become INPROGRESS, a refused one must end, an ended
\* one must be deleted), a MSG_STATE that will see that state is still posted,
\* however many changes were made inside callbacks or in one RunTasks.
FollowUpPosted == \A p \in Peer :
    state[p] \in NeedsFollowUp => IsPosted(p, "state")

\* An error always ends the session: while it has one and is not over, the
\* MSG_ERROR that terminates it is posted.
ErrorsAreFatal == \A p \in Peer :
    Exists(p) /\ error[p] # "NONE" =>
        state[p] \in Terminated \/ IsPosted(p, "error")

\* A deleted session receives nothing: none of its messages and no timer
\* survives its destructor, and its call's timer only while the call, too, is
\* still there, waiting for the message that deletes it.
NothingForTheDead == \A p \in Peer : ~Exists(p) =>
    /\ ~IsPosted(p, "state") /\ ~IsPosted(p, "error") /\ ~timer[p]
    /\ callTimer[p] => IsPosted(p, "checkcall")

\* What an agreed session rests on, at both ends at once: each end has a
\* transport (the assertion in OnMessage(MSG_STATE)), and the caller's side
\* agreed only because the user it is connected to accepted.
AgreementIsMutual == \A p \in Peer :
    state[p] \in Agreed \cup {"INPROGRESS"} =>
        /\ transport[p]
        /\ description[IF p = Caller THEN remote[p] ELSE p]

\* The timer that sends an unanswered call to voicemail never ends an answered
\* one.
AnsweredCallKeepsRunning ==
    state[Caller] \in {"RECEIVEDACCEPT", "INPROGRESS"} => ~callTimer[Caller]

\* A live session whose transport cannot be written is watched: the
\* connection timer runs, or an error is ending the session already.
UnwritableIsWatched == \A p \in Peer :
    /\ Exists(p) /\ ~writable[p]
    /\ state[p] \in Agreed \cup {"SENTINITIATE", "RECEIVEDINITIATE", "INPROGRESS"}
    => timer[p] \/ error[p] # "NONE"

\* Every timer of a call runs exactly as long as it may: the answer stops the
\* one, and the loss of the connection starts the other.
TimersFitTheState == AnsweredCallKeepsRunning /\ UnwritableIsWatched

\* "We must not send terminate if we redirect", and a reject implies one: what
\* a peer sends after a refusal holds no terminate, and the refusal comes after
\* everything else it had to say about the session.
RefusalIsLastWord == \A p, q \in Peer : \A i, j \in 1..Len(net[p][q]) :
    /\ i < j /\ net[p][q][i].kind = "set" /\ net[p][q][j].kind = "set"
    => net[p][q][i].type \notin {"reject", "redirect"}

\* What the two ends were told about their agreement, or its refusal, stands.
AnswersAgree == AgreementIsMutual /\ RefusalIsLastWord

\* How the negotiation looks to its users.
Phase(p) ==
    CASE state[p] = "NONE"             -> "idle"
      [] state[p] = "SENTINITIATE"     -> "asking"
      [] state[p] = "RECEIVEDINITIATE" -> "asked"
      [] state[p] \in Agreed           -> "agreed"
      [] state[p] = "INPROGRESS"       -> "talking"
      [] OTHER                         -> "over"

Abstract == INSTANCE CallSetup WITH
    phase <- [p \in Peer |-> Phase(p)],
    granted <- {p \in Peer : description[p]}

\* The negotiation keeps every promise of CallSetup: at most one peer accepts,
\* the caller takes the call as accepted only then, and no late answer, error
\* or timer brings a call back that is over.
ImplementsCallSetup == Abstract!Spec

----------------------------------------------------------------------------
(* Liveness *)

\* A call does not ring for ever: it is answered, refused, or given up.
RingingEnds ==
    state[Caller] = "SENTINITIATE" ~> state[Caller] # "SENTINITIATE"

\* When one end is over, by whatever side, the other follows, and neither
\* session object stays behind.  (A callee that redirects leaves the caller to
\* the target, so this is for the calls that are not redirected.)
EndReachesBothSides == \A p \in Peer :
    state[p] \in Terminated \cup Declined \cup {"DEINIT"}
        ~> \A q \in Peer : ~Exists(q)

\* A call always comes to an end, on every side.
CallsEnd == RingingEnds /\ EndReachesBothSides
=============================================================================
