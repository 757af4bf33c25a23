----------------------------- MODULE XmppSession -----------------------------
(***************************************************************************)
(* The XMPP session below the calls: the pump that owns the tasks          *)
(* (xmpppump.cc, taskrunner.cc, task.cc), the client task (xmppclient.cc), *)
(* the engine with its login (xmppengineimpl.cc, xmpplogintask.cc), the    *)
(* task that takes session requests (sessionmanagertask.h) and one task    *)
(* for each stanza that is sent (sessionsendtask.h), on their one thread,  *)
(* against a server.                                                       *)
(*                                                                         *)
(* A step is one callback of the thread, but for two: RunTasks goes task   *)
(* by task, and HandleInput stanza by stanza; nothing else happens between *)
(* their steps.  What the login sends has the name of the login's state    *)
(* that waits for the reply.                                               *)
(***************************************************************************)
EXTENDS FiniteSets, SequencesExt, Queues

CONSTANTS Requests,  \* the requests sent through the session manager
          Incoming,  \* the requests peers send; the task that answers one
                     \* has its name
          Raw,       \* stanzas sent through XmppPump::SendStanza
          MayLose    \* whether the connection may break

\* The ids of requests and of what the login asks for are all NextId's
\* (xmppengineimpl.cc:285), so they differ.
ASSUME XmppSessionAssumption ==
    /\ IsFiniteSet(Requests) /\ IsFiniteSet(Incoming) /\ IsFiniteSet(Raw)
    /\ Requests \cap Incoming = {} /\ Raw \cap (Requests \cup Incoming) = {}
    /\ {"client", "manager"} \cap (Requests \cup Incoming) = {}
    /\ {"BIND_REQUESTED", "SESSION_REQUESTED"} \cap Requests = {}
    /\ MayLose \in BOOLEAN

SendTasks == Requests \cup Incoming   \* SessionSendTasks
Children  == SendTasks \cup {"manager"}
Task      == Children \cup {"client"}

VARIABLES
    eng,          \* XmppEngineImpl and its XmppLoginTask
    input,        \* HandleInput: the stanzas still to parse, the state_ of
                  \* its EnterExit ("none": it is not running), output_, and
                  \* raised_reset_
    sock,         \* XmppSocket's state_, "CONNECTING" while it connects and
                  \* "none" before DoLogin
    up, down,     \* what is on its way to the server and back
    lost,         \* the connection broke
    server,       \* what the server knows of this client
    pump,         \* XmppPump's state_
    signalClosed, \* signal_closed_
    pool,         \* the tasks and their runner
    accepted,     \* the stanzas SendStanza took
    pending,      \* those of them that did not arrive, oldest first
    told          \* what the session manager was told of each request

vars == <<eng, input, sock, up, down, lost, server, pump, signalClosed, pool,
          accepted, pending, told>>

Stanza(kind, id) == [kind |-> kind, id |-> id]
Plain(kind) == Stanza(kind, kind)

\* What the engine and the login write themselves; Handed is the rest of what
\* is written, which went through SendStanza.
Own == {Plain(kind) : kind \in {"start", "TLS_REQUESTED", "SASL_RUNNING", "abort",
                                "BIND_REQUESTED", "SESSION_REQUESTED", "end"}}
Handed(written) == Without(written, Own)

----------------------------------------------------------------------------
(* Tasks and their runner *)

NewTask == [state |-> "INIT", blocked |-> FALSE, done |-> FALSE,
            inbox |-> << >>]
NoTask  == [NewTask EXCEPT !.state = "NONE"]

NotRunning == input.entry = "none" /\ pool.at = 0
Exists(t)  == pool.of[t].state \notin {"NONE", "DELETED"}

\* Slip: the runner is not told.
WakeQuietly(p, t) ==
    IF p.of[t].done THEN p ELSE [p EXCEPT !.of[t].blocked = FALSE]

\* Task::Wake, TaskRunner's WakeTasks
Wake(p, t) ==
    IF p.of[t].done \/ ~p.of[t].blocked THEN p
    ELSE [p EXCEPT !.of[t].blocked = FALSE, !.posted = TRUE]

\* TaskRunner::StartTask
StartTask(p, t) ==
    [p EXCEPT !.queue = Append(@, t), !.posted = TRUE]

\* XmppTask::XmppTask and Task::Start.  A closed engine takes no handlers.
Launch(p, e, t) ==
    StartTask([p EXCEPT !.of[t] = NewTask,
                        !.handlers = IF e.state = "CLOSED" THEN @
                                     ELSE @ \cup {t}], t)

\* Task::AbortAllChildren of the client: Abort and Stop of each one that is
\* not done.
AbortAllChildren(p) ==
    LET Gone == {t \in Children : /\ p.of[t].state \notin {"NONE", "DELETED"}
                                  /\ ~p.of[t].done}
    IN  [p EXCEPT !.of = [t \in Task |-> IF t \in Gone
                              THEN [p.of[t] EXCEPT !.done = TRUE,
                                       !.blocked = TRUE, !.inbox = << >>]
                              ELSE p.of[t]],
                  !.handlers = @ \ Gone]

\* Stop of a task that is done.
Stop(p, t) ==
    IF t = "client" THEN AbortAllChildren(p)
    ELSE [p EXCEPT !.of[t].inbox = << >>, !.handlers = @ \ {t}]

\* Slip: STATE_BLOCKED is taken for a state.
SteppedBlocked(p, t, state) ==
    LET q == [p EXCEPT !.did = TRUE, !.of[t].state = state,
                       !.of[t].blocked = state = "BLOCKED"]
    IN  IF state \in {"DONE", "ERROR"}
        THEN Stop([q EXCEPT !.of[t].done = TRUE, !.of[t].blocked = TRUE], t)
        ELSE q

\* The end of Task::Step: what Process returned is the next state.
Stepped(p, t, state) ==
    LET q == [p EXCEPT !.did = TRUE]
    IN  IF state = "BLOCKED" THEN [q EXCEPT !.of[t].blocked = TRUE]
        ELSE IF state \in {"DONE", "ERROR"}
        THEN Stop([q EXCEPT !.of[t].state = state, !.of[t].done = TRUE,
                            !.of[t].blocked = TRUE], t)
        ELSE [q EXCEPT !.of[t].state = state, !.of[t].blocked = FALSE]

----------------------------------------------------------------------------
(* The engine *)

\* XmppEngineImpl::XmppEngineImpl, XmppLoginTask::XmppLoginTask.  The wrapper
\* asks for TLS.
NewEngine == [state |-> "START", error |-> FALSE, login |-> "INIT",
              auth |-> TRUE, tls |-> TRUE, encrypted |-> FALSE,
              queued |-> << >>]

NoInput == [left |-> 0, entry |-> "none", output |-> << >>, reset |-> FALSE]

\* SignalError, and the end of the login with all it has queued
Fail(e) == [e EXCEPT !.state = "CLOSED", !.error = TRUE,
                     !.login = "none", !.queued = << >>]

\* XmppClient::EnsureClosed: the pump hears of it, once.
EnsureClosed ==
    /\ signalClosed' = TRUE
    /\ pump' = IF signalClosed THEN pump ELSE "CLOSED"

\* Slip: the client task is not woken.
OnStateChangeAsleep(e, p) ==
    /\ IF e.state = "CLOSED" THEN EnsureClosed
       ELSE pump' = e.state /\ UNCHANGED signalClosed
    /\ pool' = IF e.state = "OPEN" THEN Launch(p, e, "manager") ELSE p

\* Private::OnStateChange: the signal's slots are those of the call client,
\* which starts the session manager's task on OPEN (InitPhone), and the pump.
OnStateChange(e, p) ==
    /\ IF e.state = "CLOSED" THEN EnsureClosed
       ELSE pump' = e.state /\ UNCHANGED signalClosed
    /\ pool' = Wake(IF e.state = "OPEN" THEN Launch(p, e, "manager") ELSE p,
                    "client")

\* XmppSocket::Close does nothing once TLS was started.
Closed(s) == IF s = "OPEN" THEN "CLOSED" ELSE s

\* The outermost ~EnterExit: write what there is, close the connection, and
\* report the new state.
Leave(e, entry, output, s, p) ==
    /\ eng' = e
    /\ up' = IF lost THEN up ELSE up \o output
    /\ sock' = IF e.state # entry /\ e.state = "CLOSED" THEN Closed(s) ELSE s
    /\ IF e.state # entry THEN OnStateChange(e, p)
       ELSE pool' = p /\ UNCHANGED <<pump, signalClosed>>

\* XmppEngineImpl::SendStanza from outside of HandleInput; while the login
\* runs, the stanza waits for its end.
SendStanza(s, p) ==
    IF eng.state = "CLOSED"
    THEN pool' = p /\ UNCHANGED <<eng, up, sock, pump, signalClosed, accepted,
                                  pending>>
    ELSE /\ accepted' = accepted \cup {s.id}
         /\ pending' = Append(pending, s)
         /\ IF eng.login # "none"
            THEN Leave([eng EXCEPT !.queued = Append(@, s)], eng.state,
                       << >>, sock, p)
            ELSE Leave(eng, eng.state, <<s>>, sock, p)

\* XmppEngineImpl::Disconnect
Disconnect ==
    Leave([eng EXCEPT !.state = "CLOSED"], eng.state,
          IF eng.state = "OPEN" THEN <<Plain("end")>> ELSE << >>, sock, pool)

\* OnSocketConnected, XmppEngineImpl::Connect: the login begins.
Connected ==
    /\ NotRunning
    /\ sock = "CONNECTING" /\ ~lost
    /\ IF eng.state = "START"
       THEN Leave([eng EXCEPT !.state = "OPENING", !.login = "STREAMSTART_SENT"],
                  "START", <<Plain("start")>>, "OPEN", pool)
       ELSE sock' = "OPEN" /\ UNCHANGED <<eng, up, pool, pump, signalClosed>>
    /\ UNCHANGED <<input, down, lost, server, accepted, pending, told>>

\* The handshake is done, XmppSocket::OnConnectEvent.
TlsConnected ==
    /\ NotRunning
    /\ sock = "TLS_CONNECTING" /\ ~lost
    /\ sock' = "TLS_OPEN"
    /\ UNCHANGED <<eng, input, up, down, lost, server, pump, signalClosed,
                   pool, accepted, pending, told>>

\* OnSocketRead, HandleInput: n stanzas have come with one read.
HandleInput(n) ==
    /\ NotRunning
    /\ sock \in {"OPEN", "TLS_OPEN"}
    /\ eng.state \in {"OPENING", "OPEN"}
    /\ input' = [NoInput EXCEPT !.left = n, !.entry = eng.state]
    /\ UNCHANGED <<eng, sock, up, down, lost, server, pump, signalClosed,
                   pool, accepted, pending, told>>

\* The same when the engine is closed: what was read is forgotten.
ReadClosed ==
    /\ NotRunning
    /\ sock \in {"OPEN", "TLS_OPEN"} /\ eng.state = "CLOSED"
    /\ down # << >>
    /\ down' = << >>
    /\ UNCHANGED <<eng, input, sock, up, lost, server, pump, signalClosed,
                   pool, accepted, pending, told>>

\* One stanza is taken from the input; the rest of the step is up to the caller.
Parse(e, output, reset) ==
    /\ eng' = e
    /\ down' = Tail(down)
    /\ input' = [input EXCEPT !.left = @ - 1, !.output = @ \o output,
                              !.reset = @ \/ reset]
    /\ UNCHANGED <<up, lost, server, pump, signalClosed, told>>

Parsing == input.entry # "none" /\ input.left > 0

\* Nothing is taken any more after an error, or until the parser was reset.
ParseIgnored ==
    /\ Parsing
    /\ eng.error \/ input.reset
    /\ Parse(eng, << >>, FALSE)
    /\ UNCHANGED <<sock, pool, accepted, pending>>

\* IncomingEnd, SignalStreamError, and IncomingStart after the login
EndsStream(s) == \/ s.kind \in {"streamEnd", "streamError"}
                 \/ s.kind = "stream" /\ eng.login = "none"

\* It is an error.
ParseEnd ==
    /\ Parsing
    /\ ~eng.error /\ ~input.reset
    /\ EndsStream(Head(down))
    /\ Parse([eng EXCEPT !.state = "CLOSED", !.error = TRUE], << >>, FALSE)
    /\ UNCHANGED <<sock, pool, accepted, pending>>

\* XmppLoginTask::Advance sends what the features call for next.
Negotiate(has) ==
    LET SendAndWait(login) ==
            Parse([eng EXCEPT !.login = login], <<Plain(login)>>, FALSE)
    IN  \/ /\ eng.tls \/ "tls" \in has
           /\ IF "tls" \in has THEN SendAndWait("TLS_REQUESTED")
              ELSE Parse(Fail(eng), << >>, FALSE)
        \/ /\ ~eng.tls /\ "tls" \notin has /\ eng.auth
           /\ IF "mechanisms" \in has /\ eng.encrypted
              THEN SendAndWait("SASL_RUNNING")
              ELSE Parse(Fail(eng), << >>, FALSE)
        \/ /\ ~eng.tls /\ "tls" \notin has /\ ~eng.auth
           /\ IF {"bind", "session"} \subseteq has
              THEN SendAndWait("BIND_REQUESTED")
              ELSE Parse(Fail(eng), << >>, FALSE)

\* Slip: the stanzas of the login are forgotten with it.
BoundAlone(e) ==
    Parse([e EXCEPT !.login = "none", !.state = "OPEN", !.queued = << >>],
          << >>, FALSE)

\* SignalBound and FlushQueuedStanzas
Bound(e) ==
    Parse([e EXCEPT !.login = "none", !.queued = << >>,
                    !.state = IF @ = "OPENING" THEN "OPEN" ELSE @],
          e.queued, FALSE)

\* Is s an answer to the iq the login has sent?
Answers(s, id) == s.kind \in {"result", "error"} /\ s.id = id

\* XmppLoginTask::Advance with a stanza, except for the end of the login.
Advance(s) ==
    LET Restart(e) == Parse([e EXCEPT !.login = "STREAMSTART_SENT"],
                            <<Plain("start")>>, TRUE)
        Failure == Parse(Fail(eng), << >>, FALSE)
        Stay == Parse(eng, << >>, FALSE)
    IN  \/ /\ eng.login = "STREAMSTART_SENT"
           /\ IF s.kind = "stream"
              THEN Parse([eng EXCEPT !.login = "STARTED_XMPP"], << >>, FALSE)
              ELSE Failure
           /\ UNCHANGED sock
        \/ /\ eng.login = "STARTED_XMPP"
           /\ IF s.kind = "features" THEN Negotiate(s.has) ELSE Failure
           /\ UNCHANGED sock
        \/ /\ eng.login = "TLS_REQUESTED"
           /\ IF s.kind = "proceed"
              THEN /\ Restart([eng EXCEPT !.encrypted = TRUE, !.tls = FALSE])
                   /\ sock' = "TLS_CONNECTING"
              ELSE Failure /\ UNCHANGED sock
        \/ /\ eng.login = "SASL_RUNNING"
           /\ CASE s.kind = "challenge" ->
                     Parse(eng, <<Plain("abort")>>, FALSE)
                [] s.kind = "success" -> Restart([eng EXCEPT !.auth = FALSE])
                [] OTHER -> Failure
           /\ UNCHANGED sock
        \/ /\ eng.login = "BIND_REQUESTED"
           /\ IF Answers(s, "BIND_REQUESTED")
              THEN IF s.kind = "result"
                   THEN Parse([eng EXCEPT !.login = "SESSION_REQUESTED"],
                              <<Plain("SESSION_REQUESTED")>>, FALSE)
                   ELSE Failure
              ELSE Stay
           /\ UNCHANGED sock
        \/ /\ eng.login = "SESSION_REQUESTED"
           /\ ~(s.kind = "result" /\ s.id = "SESSION_REQUESTED")
           /\ IF Answers(s, "SESSION_REQUESTED") THEN Failure ELSE Stay
           /\ UNCHANGED sock

ParseLogin ==
    /\ Parsing
    /\ ~eng.error /\ ~input.reset
    /\ ~EndsStream(Head(down))
    /\ eng.login # "none"
    /\ \/ Advance(Head(down))
       \/ /\ eng.login = "SESSION_REQUESTED"
          /\ Answers(Head(down), "SESSION_REQUESTED")
          /\ Head(down).kind = "result"
          /\ Bound(eng) /\ UNCHANGED sock
    /\ UNCHANGED <<pool, accepted, pending>>

\* XmppTask::QueueStanza
QueueStanza(p, t, s) == Wake([p EXCEPT !.of[t].inbox = Append(@, s)], t)

\* Slip: any answer will do.
HandlerOfAny(s) ==
    {t \in pool.handlers :
        \/ t = "manager" /\ s.kind = "set"
        \/ t \in SendTasks /\ s.kind \in {"result", "error"}}

\* The registered handler whose HandleStanza takes the stanza, if there is one:
\* SessionManagerTask takes requests, a SessionSendTask the answers to its own.
HandlerOf(s) ==
    {t \in pool.handlers :
        \/ t = "manager" /\ s.kind = "set"
        \/ t \in SendTasks /\ s.kind \in {"result", "error"} /\ s.id = t}

\* XmppEngineImpl::IncomingStanza once the login is over.  A request nobody
\* takes is refused.
ParseStanza ==
    LET s == Head(down)
    IN  /\ Parsing
        /\ ~eng.error /\ ~input.reset
        /\ ~EndsStream(s)
        /\ eng.login = "none"
        /\ \/ \E t \in HandlerOf(s) :
                /\ pool' = QueueStanza(pool, t, s)
                /\ Parse(eng, << >>, FALSE) /\ UNCHANGED <<accepted, pending>>
           \/ /\ HandlerOf(s) = {}
              /\ IF s.kind = "set" /\ eng.state # "CLOSED"
                 THEN /\ Parse(eng, <<Stanza("error", s.id)>>, FALSE)
                      /\ accepted' = accepted \cup {s.id}
                      /\ pending' = Append(pending, Stanza("error", s.id))
                 ELSE Parse(eng, << >>, FALSE) /\ UNCHANGED <<accepted, pending>>
              /\ UNCHANGED pool
        /\ UNCHANGED sock

\* The end of HandleInput.
HandleInputDone ==
    /\ input.entry # "none" /\ input.left = 0
    /\ input' = NoInput
    /\ Leave(eng, input.entry, input.output, sock, pool)
    /\ UNCHANGED <<down, lost, server, accepted, pending, told>>

----------------------------------------------------------------------------
(* XmppPump *)

\* XmppPump::DoLogin and XmppClient::Connect; every pump is told to log in
\* once.
DoLogin ==
    /\ NotRunning
    /\ sock = "none"
    /\ sock' = "CLOSED"
    /\ pump' = "START"
    /\ pool' = StartTask(pool, "client")
    /\ UNCHANGED <<eng, input, up, down, lost, server, signalClosed, accepted,
                   pending, told>>

\* XmppPump::DoDisconnect; AllChildrenDone once the client task is done.
DoDisconnect ==
    /\ NotRunning
    /\ pump # "CLOSED"   \* again it would change nothing
    /\ IF ~pool.of["client"].done /\ sock # "none" /\ eng.state # "CLOSED"
       THEN Disconnect
       ELSE pump' = "CLOSED" /\ UNCHANGED <<eng, up, sock, pool, signalClosed>>
    /\ UNCHANGED <<input, down, lost, server, accepted, pending, told>>

\* XmppPump::SendStanza
PumpSend(x) ==
    /\ NotRunning
    /\ sock # "none" /\ ~pool.of["client"].done
    /\ x \notin accepted
    /\ SendStanza(Stanza("raw", x), pool)
    /\ UNCHANGED <<input, down, lost, server, told>>

\* SessionManagerTask::OnOutgoingMessage for a request.
SendRequest(r) ==
    /\ NotRunning
    /\ Exists("manager") /\ pool.of[r].state = "NONE"
    /\ pool' = Launch(pool, eng, r)
    /\ UNCHANGED <<eng, input, sock, up, down, lost, server, pump,
                   signalClosed, accepted, pending, told>>

----------------------------------------------------------------------------
(* TaskRunner::RunTasks *)

\* XmppPump::OnMessage
RunTasks ==
    /\ NotRunning
    /\ pool.posted
    /\ pool' = [pool EXCEPT !.posted = FALSE, !.at = 1, !.did = FALSE]
    /\ UNCHANGED <<eng, input, sock, up, down, lost, server, pump,
                   signalClosed, accepted, pending, told>>

Stepping(t) ==
    /\ pool.at \in 1..Len(pool.queue) /\ pool.queue[pool.at] = t
    /\ ~pool.of[t].blocked
    /\ UNCHANGED <<input, down, lost, server>>

\* Task::Process in STATE_INIT
StepInit(t) ==
    /\ Stepping(t)
    /\ pool.of[t].state = "INIT"
    /\ pool' = Stepped(pool, t, "START")
    /\ UNCHANGED <<eng, sock, up, pump, signalClosed, accepted, pending, told>>

\* XmppClient::ProcessStart without pre-authentication, ProcessStartXmppLogin
StepConnect ==
    /\ Stepping("client")
    /\ \/ /\ pool.of["client"].state = "START"
          /\ pool' = Stepped(pool, "client", "START_XMPP_LOGIN")
          /\ UNCHANGED <<sock, pump, signalClosed>>
       \/ /\ pool.of["client"].state = "START_XMPP_LOGIN"
          /\ \/ /\ sock' = "CONNECTING"
                /\ pool' = Stepped(pool, "client", "RESPONSE")
                /\ UNCHANGED <<pump, signalClosed>>
             \/ /\ EnsureClosed
                /\ pool' = Stepped(pool, "client", "ERROR")
                /\ UNCHANGED sock
    /\ UNCHANGED <<eng, up, accepted, pending, told>>

\* XmppClient::ProcessResponse
StepClient ==
    /\ Stepping("client")
    /\ pool.of["client"].state = "RESPONSE"
    /\ pool' = Stepped(pool, "client",
                       IF eng.state = "CLOSED" THEN "DONE" ELSE "BLOCKED")
    /\ UNCHANGED <<eng, sock, up, pump, signalClosed, accepted, pending, told>>

\* SessionManagerTask::ProcessStart.  The session manager answers each request
\* (see Session) and may send one of its own.
StepManager ==
    /\ Stepping("manager")
    /\ pool.of["manager"].state = "START"
    /\ LET inbox == pool.of["manager"].inbox
           Fresh == {r \in Requests : pool.of[r].state = "NONE"}
       IN  IF inbox = << >> THEN pool' = Stepped(pool, "manager", "BLOCKED")
           ELSE LET p == Launch([pool EXCEPT !.of["manager"].inbox = Tail(@)],
                                eng, Head(inbox).id)
                IN  \/ pool' = Stepped(p, "manager", "START")
                    \/ \E r \in Fresh :
                         pool' = Stepped(Launch(p, eng, r), "manager", "START")
    /\ UNCHANGED <<eng, sock, up, pump, signalClosed, accepted, pending, told>>

\* SessionSendTask::ProcessStart
StepSend(t) ==
    /\ Stepping(t)
    /\ pool.of[t].state = "START"
    /\ IF t \in Requests
       THEN SendStanza(Stanza("set", t), Stepped(pool, t, "RESPONSE"))
       ELSE SendStanza(Stanza("result", t), Stepped(pool, t, "DONE"))
    /\ UNCHANGED told

\* SessionSendTask::ProcessResponse, which tells the session manager.
StepAwait(t) ==
    LET inbox == pool.of[t].inbox
    IN  /\ Stepping(t)
        /\ pool.of[t].state = "RESPONSE"
        /\ told' = IF eng.state = "OPEN" /\ inbox # << >>
                   THEN [told EXCEPT ![t] = Head(inbox).kind] ELSE told
        /\ pool' = Stepped(pool, t, IF eng.state = "OPEN" /\ inbox = << >>
                                    THEN "BLOCKED" ELSE "DONE")
        /\ UNCHANGED <<eng, sock, up, pump, signalClosed, accepted, pending>>

\* The task is blocked: the next one's turn, or all of them again.
NextTask ==
    /\ pool.at > 0
    /\ \/ /\ pool.at <= Len(pool.queue)
          /\ pool.of[pool.queue[pool.at]].blocked
          /\ pool' = [pool EXCEPT !.at = @ + 1]
       \/ /\ pool.at > Len(pool.queue) /\ pool.did
          /\ pool' = [pool EXCEPT !.at = 1, !.did = FALSE]
    /\ UNCHANGED <<eng, input, sock, up, down, lost, server, pump,
                   signalClosed, accepted, pending, told>>

\* RunTasks deletes the tasks that are done.  The engine and the socket go
\* with the client.
DeleteDone ==
    /\ pool.at > Len(pool.queue) /\ ~pool.did
    /\ pool' = [pool EXCEPT
                  !.of = [t \in Task |->
                            IF t \in Range(pool.queue) /\ pool.of[t].done
                            THEN [NoTask EXCEPT !.state = "DELETED",
                                                !.done = TRUE]
                            ELSE pool.of[t]],
                  !.queue = Without(@, {t \in Task : pool.of[t].done}),
                  !.at = 0]
    /\ sock' = IF pool.of["client"].done THEN "CLOSED" ELSE sock
    /\ UNCHANGED <<eng, input, up, down, lost, server, pump, signalClosed,
                   accepted, pending, told>>

----------------------------------------------------------------------------
(* The network and the server.  What they do while the thread is inside a  *)
(* callback they may as well do behind it.                                 *)

\* What the server offers, or refuses to.
Offers(srv) ==
    {{}} \cup
    IF ~srv.secure THEN {{"tls"}, {"tls", "mechanisms"}, {"mechanisms"}}
    ELSE IF ~srv.known THEN {{"mechanisms"}}
    ELSE {{"bind", "session"}}

Features(has) == [kind |-> "features", id |-> "features", has |-> has]

\* The server takes what came first and replies to what belongs to the login.
Reply ==
    LET s == Head(up)
        Say(reply) == down' = down \o reply
    IN  /\ NotRunning
        /\ up # << >> /\ sock # "TLS_CONNECTING"
        /\ up' = Tail(up)
        /\ CASE s.kind = "start" ->
                  /\ \E has \in Offers(server) :
                       Say(<<Plain("stream"), Features(has)>>)
                  /\ UNCHANGED server
             [] s.kind = "TLS_REQUESTED" ->
                  \/ Say(<<Plain("proceed")>>)
                     /\ server' = [server EXCEPT !.secure = TRUE]
                  \/ Say(<<Plain("failure"), Plain("streamEnd")>>)
                     /\ UNCHANGED server
             [] s.kind = "SASL_RUNNING" ->
                  \/ Say(<<Plain("success")>>)
                     /\ server' = [server EXCEPT !.known = TRUE]
                  \/ \E kind \in {"challenge", "failure"} :
                       Say(<<Plain(kind)>>) /\ UNCHANGED server
             [] s.kind = "abort" -> Say(<<Plain("failure")>>) /\ UNCHANGED server
             [] s.kind = "BIND_REQUESTED" ->
                  \E kind \in {"result", "error"} :
                    Say(<<Stanza(kind, s.id)>>) /\ UNCHANGED server
             [] s.kind = "SESSION_REQUESTED" ->
                  \/ Say(<<Stanza("result", s.id)>>)
                     /\ server' = [server EXCEPT !.bound = TRUE]
                  \/ Say(<<Stanza("error", s.id)>>) /\ UNCHANGED server
             [] s.kind = "end" ->
                  Say(<<Plain("streamEnd")>>)
                  /\ server' = [server EXCEPT !.over = TRUE]
             [] s.kind = "set" ->
                  /\ server' = [server EXCEPT !.asked = @ \cup {s.id}]
                  /\ UNCHANGED down
             [] OTHER -> UNCHANGED <<down, server>>
        /\ pending' = IF s \in Own THEN pending ELSE Tail(pending)
        /\ UNCHANGED <<eng, input, sock, lost, pump, signalClosed, pool,
                       accepted, told>>

ServerSends(s, srv) ==
    /\ NotRunning
    /\ server.bound /\ ~server.over /\ ~lost
    /\ down' = Append(down, s)
    /\ server' = srv
    /\ UNCHANGED <<eng, input, sock, up, lost, pump, signalClosed, pool,
                   accepted, pending, told>>

\* The peer answers a request, or the server does for it.
Answer(r) ==
    /\ r \in server.asked
    /\ \E kind \in {"result", "error"} :
         ServerSends(Stanza(kind, r),
                     [server EXCEPT !.asked = @ \ {r},
                                    !.answer = [@ EXCEPT ![r] = kind]])

\* A peer sends a request.
PeerRequest(i) ==
    /\ i \notin server.sent
    /\ ServerSends(Stanza("set", i), [server EXCEPT !.sent = @ \cup {i}])

\* The server ends the stream.
ServerEnds ==
    \E kind \in {"streamEnd", "streamError"} :
        ServerSends(Plain(kind), [server EXCEPT !.over = TRUE])

\* The connection breaks, or is never made.  XmppSocket does not listen to
\* the event that says so.
Lose ==
    /\ NotRunning
    /\ MayLose /\ ~lost
    /\ sock \notin {"none", "CLOSED"}
    /\ lost' = TRUE /\ up' = << >> /\ down' = << >>
    /\ UNCHANGED <<eng, input, sock, server, pump, signalClosed, pool,
                   accepted, pending, told>>

----------------------------------------------------------------------------

Init ==
    /\ eng = NewEngine /\ input = NoInput /\ sock = "none"
    /\ up = << >> /\ down = << >> /\ lost = FALSE
    /\ server = [secure |-> FALSE, known |-> FALSE, bound |-> FALSE,
                 over |-> FALSE, asked |-> {}, sent |-> {},
                 answer |-> [r \in Requests |-> "none"]]
    /\ pump = "NONE" /\ signalClosed = FALSE
    /\ pool = [of |-> [t \in Task |-> IF t = "client" THEN NewTask ELSE NoTask],
               queue |-> << >>, at |-> 0, did |-> FALSE, posted |-> FALSE,
               handlers |-> {}]
    /\ accepted = {} /\ pending = << >>
    /\ told = [r \in Requests |-> "none"]

Parser == ParseIgnored \/ ParseEnd \/ ParseLogin \/ ParseStanza \/ HandleInputDone

Steps ==
    \/ \E t \in Task : StepInit(t)
    \/ StepConnect \/ StepClient \/ StepManager
    \/ \E t \in SendTasks : StepSend(t)
    \/ \E t \in Requests : StepAwait(t)
    \/ NextTask \/ DeleteDone

Sockets == Connected \/ TlsConnected \/ ReadClosed
           \/ \E n \in 1..Len(down) : HandleInput(n)

Next ==
    \/ DoLogin \/ DoDisconnect
    \/ \E x \in Raw : PumpSend(x)
    \/ \E r \in Requests : SendRequest(r)
    \/ RunTasks \/ Steps \/ Parser \/ Sockets
    \/ Reply \/ ServerEnds \/ Lose
    \/ \E r \in Requests : Answer(r)
    \/ \E i \in Incoming : PeerRequest(i)

Spec == Init /\ [][Next]_vars

----------------------------------------------------------------------------
(* Fairness *)

\* The thread dispatches its messages and socket events, and every callback
\* comes to its end.
FairThread ==
    /\ WF_vars(RunTasks) /\ WF_vars(Steps) /\ WF_vars(Parser)
    /\ WF_vars(Sockets)

\* The server takes what it is sent and goes on with the login, for good or
\* bad; nothing says that it ever answers a request.
ThreadSpec == Spec /\ FairThread /\ WF_vars(Reply)

\* It answers every request, too.
FairSpec == ThreadSpec /\ \A r \in Requests : WF_vars(Answer(r))

----------------------------------------------------------------------------
(* Properties *)

StanzaKinds ==
    {"start", "TLS_REQUESTED", "SASL_RUNNING", "abort", "BIND_REQUESTED",
     "SESSION_REQUESTED", "end", "stream", "proceed", "failure", "success",
     "challenge", "result", "error", "set", "raw", "streamEnd", "streamError"}
StanzaIds == StanzaKinds \cup Requests \cup Incoming \cup Raw
Stanzas == [kind : StanzaKinds, id : StanzaIds]
Offered == [kind : {"features"}, id : {"features"},
            has : SUBSET {"tls", "mechanisms", "bind", "session"}]

\* Every variable has its type.
TypeOK ==
    /\ eng \in [state : {"START", "OPENING", "OPEN", "CLOSED"},
                error : BOOLEAN, auth : BOOLEAN, tls : BOOLEAN,
                encrypted : BOOLEAN, queued : Seq(Stanzas),
                login : {"none", "INIT", "STREAMSTART_SENT", "STARTED_XMPP",
                         "TLS_REQUESTED", "SASL_RUNNING", "BIND_REQUESTED",
                         "SESSION_REQUESTED"}]
    /\ input \in [left : Nat, entry : {"none", "OPENING", "OPEN"},
                  output : Seq(Stanzas), reset : BOOLEAN]
    /\ input.left <= Len(down)
    /\ sock \in {"none", "CLOSED", "CONNECTING", "OPEN", "TLS_CONNECTING",
                 "TLS_OPEN"}
    /\ up \in Seq(Stanzas) /\ down \in Seq(Stanzas \cup Offered)
    /\ lost \in BOOLEAN
    /\ pump \in {"NONE", "START", "OPENING", "OPEN", "CLOSED"}
    /\ signalClosed \in BOOLEAN
    /\ pool \in [of : [Task -> [state : {"NONE", "INIT", "START", "RESPONSE",
                                       "START_XMPP_LOGIN", "DONE", "ERROR",
                                       "DELETED"},
                              blocked : BOOLEAN, done : BOOLEAN,
                              inbox : Seq(Stanzas)]],
                 queue : Seq(Task), at : Nat, did : BOOLEAN,
                 posted : BOOLEAN, handlers : SUBSET Children]
    /\ accepted \subseteq Raw \cup SendTasks
    /\ pending \in Seq({s \in Stanzas : s.id \in accepted})
    /\ told \in [Requests -> {"none", "result", "error"}]

\* What SendStanza has taken goes to the server once and in that order, and
\* nothing else does, whether it was sent before the login, while it ran or
\* after it: whatever has not arrived is under way, or written but not yet
\* flushed, or queued by the login (xmpplogintask.cc:395).
StanzasInOrder ==
    ~lost /\ eng.state # "CLOSED" =>
        pending = Handed(up) \o Handed(input.output) \o Handed(eng.queued)

\* No task is ready to run without RunTasks being called: it runs, or it is
\* posted.  RunTasks does not stop while a task is ready (taskrunner.cc:61),
\* although tasks wake each other and start new ones while it runs.
ReadyTasksAreRun ==
    \A t \in Range(pool.queue) :
        pool.of[t].blocked \/ pool.posted \/ pool.at > 0

\* The engine hands stanzas to tasks that can take them: its handlers are
\* neither stopped nor deleted (xmpptask.cc:56), and no task outlives the
\* client, whose engine it would use.
HandlersLive ==
    /\ \A t \in pool.handlers : Exists(t) /\ ~pool.of[t].done
    /\ pool.of["client"].done => \A t \in Children : Exists(t) => pool.of[t].done
    /\ pool.of["client"].state = "DELETED" => \A t \in Children : ~Exists(t)

\* No task is forgotten by the runner and none is used after its end.
TasksAreServed == ReadyTasksAreRun /\ HandlersLive

\* While the session is open, every answer that was read is told to the
\* session manager or waits for the task of its request, and of no other
\* (sessionsendtask.h:119); every request that was read is with the
\* session manager's task, or has one task that answers it, or was refused.
NothingIsDropped ==
    LET Unread == {down[n].id : n \in 1..Len(down)}
        Waiting(t) == {pool.of[t].inbox[n].id : n \in 1..Len(pool.of[t].inbox)}
    IN  ~lost /\ eng.state = "OPEN" =>
          /\ \A r \in Requests :
                server.answer[r] = "none" \/ r \in Unread
                \/ r \in Waiting(r) \/ told[r] = server.answer[r]
          /\ \A i \in server.sent \ Unread :
                Cardinality({s \in {"manager", "task", "refused"} :
                    \/ s = "manager" /\ i \in Waiting("manager")
                    \/ s = "task" /\ pool.of[i].state # "NONE"
                    \/ /\ s = "refused" /\ pool.of[i].state = "NONE"
                       /\ i \in accepted}) = 1

\* Once the engine is closed and has told so (xmppengineimpl.cc:492), it stays
\* closed, the pump knows, and nothing is written behind the end of the
\* stream.
ClosedIsFinal ==
    [][eng.state = "CLOSED" /\ input.entry = "none" =>
        /\ pump = "CLOSED" /\ pump' = "CLOSED" /\ eng'.state = "CLOSED"
        /\ IsSuffix(up', up)]_vars

\* A login comes to its end unless the connection breaks, and once the pump
\* reports the end of a session all its tasks are deleted.
SessionsEnd ==
    /\ sock = "OPEN" ~> eng.state \in {"OPEN", "CLOSED"} \/ lost
    /\ pump = "CLOSED" /\ sock # "none" ~> \A t \in Task : ~Exists(t)

\* A session ends once, completely and for good.
SessionsEndForGood == SessionsEnd /\ ClosedIsFinal

\* Violated: "If not response happens within 5 seconds, it will signal failure
\* on a SessionManager" (sessionsendtask.h:42).  The time-out is of 15 seconds,
\* and nothing polls the tasks for it.
UnansweredFails ==
    \A r \in Requests : pool.of[r].state = "RESPONSE" ~> ~Exists(r)
=============================================================================
