------------------------------ MODULE CallClient ------------------------------
(***************************************************************************)
(* The calls of one user: the client that shows one call at a time         *)
(* (callclient.cpp), the calls and the phone client that owns them         *)
(* (call.cc, phonesessionclient.cc), and their voice channels              *)
(* (channelmanager.cc, voicechannel.cc, linphonemediaengine.cc).           *)
(*                                                                         *)
(* Two threads work on it.  A step of the signaling thread is a message of *)
(* its queue, a command of the user or a stanza of a peer; a step of the   *)
(* worker thread is a message for a voice channel.  Every call has the one *)
(* session it was made for, so a call's name is its session's too.         *)
(* CreateVoiceChannel and DestroyVoiceChannel are sent to the worker: the  *)
(* signaling thread waits, and the step does what they do.                 *)
(***************************************************************************)
EXTENDS Naturals, Sequences, Queues

CONSTANTS Call, NoCall,
          MayFail   \* the calls whose session may meet an error

ASSUME CallClientAssumption == NoCall \notin Call /\ MayFail \subseteq Call

VARIABLES
    calls,          \* the Call objects: "none" before, "deleted" after
    session,        \* the state_ of each call's Session
    errors,         \* the sessions whose error_ is set
    noAnswer,       \* the calls whose MSG_TERMINATECALL is delayed
    queue,          \* what is posted to the signaling thread
    call_,          \* CallClient: the call the user sees
    incoming_call_, \* ... which waits for "accept" or "reject"
    connected,      \* ... SignalCallDestroy is connected to it
    focus_call_,    \* PhoneSessionClient: the call that has the audio
    channel,        \* the voice channel of each session
    workerQueue,    \* what is posted to the worker thread
    failed          \* "assert": the assertion in ParseLine; "deleted": a
                    \* deleted call was used

clientVars  == <<call_, incoming_call_, connected>>
sessionVars == <<calls, session, errors, noAnswer, queue>>
mediaVars   == <<focus_call_, channel, workerQueue>>
vars        == <<sessionVars, clientVars, mediaVars, failed>>

Msg(kind, c) == [kind |-> kind, of |-> c]

Over == {"SENTTERMINATE", "RECEIVEDTERMINATE"}
Gone == {"none", "deleted"}

Live(c) == session[c] \notin Gone

\* What CallClient holds is a call that is deleted.
Dangling == call_ # NoCall /\ calls[call_] = "deleted"

Running == failed = "no"

----------------------------------------------------------------------------
(* Pieces of the handlers *)

\* Session::Terminate, s being the states of the sessions
MayTerminate(s, c) == c # NoCall /\ s[c] \notin Over \cup Gone
Terminated(s, c) ==
    IF MayTerminate(s, c) THEN [s EXCEPT ![c] = "SENTTERMINATE"] ELSE s

\* Slip: a message is posted for whatever call, or none.
PostedAlways(s, c) == <<Msg("state", c)>>

Posted(s, c) ==
    IF MayTerminate(s, c) THEN <<Msg("state", c)>> ELSE <<>>

\* The end of a Session, and ~Call: nothing is left for them in the queue.
Cleared(q, kinds, c) == Without(q, [kind : kinds, of : {c}])

\* VoiceChannel::VoiceChannel.  What enabled_ allows is sent once the transport
\* is writable.
NoChannel  == [live |-> FALSE, enabled |-> FALSE, ring |-> FALSE]
NewChannel == [NoChannel EXCEPT !.live = TRUE]

\* Slip: the call that had the focus keeps its channel enabled.
FocusAdded(c) == IF focus_call_ = c THEN <<>> ELSE <<Msg("enable", c)>>

\* PhoneSessionClient::SetFocus on a call with a session: EnableChannels of
\* the call that loses the focus and of the one that gets it.
FocusPosts(c) ==
    IF focus_call_ = c THEN <<>>
    ELSE (IF focus_call_ # NoCall /\ Live(focus_call_)
          THEN <<Msg("disable", focus_call_)>> ELSE <<>>)
         \o <<Msg("enable", c)>>

----------------------------------------------------------------------------
Init ==
    /\ calls = [c \in Call |-> "none"]
    /\ session = [c \in Call |-> "none"]
    /\ errors = {} /\ noAnswer = {}
    /\ queue = <<>> /\ workerQueue = <<>>
    /\ call_ = NoCall /\ incoming_call_ = FALSE /\ connected = FALSE
    /\ focus_call_ = NoCall
    /\ channel = [c \in Call |-> NoChannel]
    /\ failed = "no"

----------------------------------------------------------------------------
(* The user: CallClient::ParseLine *)

\* MakeCallTo a contact that is found, PhoneSessionClient::CreateCall and
\* Call::InitiateSession.  OnSessionState is connected a second time, and what
\* it does the second time changes nothing.
MakeCallTo(c) ==
    /\ Running /\ call_ = NoCall /\ calls[c] = "none"
    /\ calls' = [calls EXCEPT ![c] = "exists"]
    /\ session' = [session EXCEPT ![c] = "SENTINITIATE"]
    /\ queue' = Append(queue, Msg("state", c))
    /\ noAnswer' = noAnswer \cup {c}
    /\ call_' = c /\ connected' = TRUE
    /\ channel' = [channel EXCEPT ![c] = NewChannel]
    /\ workerQueue' = workerQueue \o <<Msg("ring", c)>> \o FocusPosts(c)
    /\ focus_call_' = c
    /\ UNCHANGED <<errors, incoming_call_, failed>>

\* "accept" of a call with its session.  The focus moves even when the session
\* is past accepting.
Accept ==
    /\ Running /\ call_ # NoCall /\ incoming_call_ /\ ~Dangling /\ Live(call_)
    /\ IF session[call_] = "RECEIVEDINITIATE"
       THEN /\ session' = [session EXCEPT ![call_] = "SENTACCEPT"]
            /\ queue' = Append(queue, Msg("state", call_))
            /\ workerQueue' = workerQueue \o <<Msg("codec", call_)>>
                                          \o FocusPosts(call_)
       ELSE /\ UNCHANGED <<session, queue>>
            /\ workerQueue' = workerQueue \o FocusPosts(call_)
    /\ focus_call_' = call_
    /\ incoming_call_' = FALSE
    /\ UNCHANGED <<calls, errors, noAnswer, call_, connected, channel, failed>>

\* "reject": RejectSession, then Terminate of the call.
Reject ==
    /\ Running /\ call_ # NoCall /\ incoming_call_ /\ ~Dangling /\ Live(call_)
    /\ session' = Terminated(session, call_)
    /\ queue' = queue
           \o (IF session[call_] = "RECEIVEDINITIATE"
               THEN <<Msg("state", call_)>> ELSE <<>>)
           \o Posted(session, call_)
    /\ call_' = NoCall /\ incoming_call_' = FALSE
    /\ UNCHANGED <<calls, errors, noAnswer, connected, mediaVars, failed>>

HangUp ==
    /\ Running /\ call_ # NoCall /\ ~incoming_call_ /\ ~Dangling
    /\ session' = Terminated(session, call_)
    /\ queue' = queue \o Posted(session, call_)
    /\ call_' = NoCall
    /\ UNCHANGED <<calls, errors, noAnswer, incoming_call_, connected,
                   mediaVars, failed>>

\* "accept" and "reject" take the first session of a call that may have none:
\* its MSG_CHECKAUTODESTROY is still posted.
AnswerNothing ==
    /\ Running /\ call_ # NoCall /\ incoming_call_ /\ ~Dangling /\ ~Live(call_)
    /\ failed' = "assert"
    /\ UNCHANGED <<sessionVars, clientVars, mediaVars>>

\* Any command on a call that was deleted, or another call's end that is
\* taken for its own.
UseDeleted ==
    /\ Running /\ Dangling
    /\ failed' = "deleted"
    /\ UNCHANGED <<sessionVars, clientVars, mediaVars>>

User == \/ \E c \in Call : MakeCallTo(c)
        \/ Accept \/ Reject \/ HangUp \/ AnswerNothing \/ UseDeleted

----------------------------------------------------------------------------
(* The peers: stanzas for the sessions *)

\* An initiate: OnSessionCreate, Session::OnInitiateMessage and the three that
\* hear of it.  PhoneSessionClient rejects an offer without a codec it knows;
\* CallClient shows the call all the same, and its channel rings.
PeerInitiate(c) ==
    /\ Running /\ calls[c] = "none"
    /\ calls' = [calls EXCEPT ![c] = "exists"]
    /\ \/ /\ session' = [session EXCEPT ![c] = "RECEIVEDINITIATE"]
          /\ queue' = Append(queue, Msg("state", c))
       \/ /\ session' = [session EXCEPT ![c] = "SENTREJECT"]
          /\ queue' = queue \o <<Msg("state", c), Msg("state", c)>>
    /\ call_' = c /\ incoming_call_' = TRUE
    /\ channel' = [channel EXCEPT ![c] = NewChannel]
    /\ workerQueue' = Append(workerQueue, Msg("ring", c))
    /\ UNCHANGED <<errors, noAnswer, connected, focus_call_, failed>>

\* Session::OnAcceptMessage
PeerAccept(c) ==
    /\ Running /\ session[c] = "SENTINITIATE"
    /\ session' = [session EXCEPT ![c] = "RECEIVEDACCEPT"]
    /\ queue' = Append(queue, Msg("state", c))
    /\ noAnswer' = noAnswer \ {c}
    /\ workerQueue' = Append(workerQueue, Msg("codec", c))
    /\ UNCHANGED <<calls, errors, clientVars, focus_call_, channel, failed>>

\* CallClient::OnSessionState, RECEIVEDREJECT and RECEIVEDTERMINATE, from
\* within SetState(state): the call that is shown ends, whichever it is.
EndedByPeer(c, state) ==
    LET s == [session EXCEPT ![c] = state]
    IN  /\ ~Dangling
        /\ session' = Terminated(s, call_)
        /\ queue' = queue \o Posted(s, call_) \o <<Msg("state", c)>>
        /\ noAnswer' = noAnswer \ {c}
        /\ call_' = NoCall /\ incoming_call_' = FALSE
        /\ UNCHANGED <<calls, errors, connected, mediaVars, failed>>

\* Session::OnRejectMessage
PeerReject(c) ==
    /\ Running /\ session[c] = "SENTINITIATE"
    /\ EndedByPeer(c, "RECEIVEDREJECT")

\* Session::OnTerminateMessage, at any time
PeerTerminate(c) ==
    /\ Running /\ Live(c) /\ session[c] # "RECEIVEDTERMINATE"
    /\ EndedByPeer(c, "RECEIVEDTERMINATE")

Peers == \E c \in Call : PeerInitiate(c) \/ PeerAccept(c) \/ PeerReject(c)
                         \/ PeerTerminate(c)

\* Session::SetError: MSG_TIMEOUT, or a request that failed.
SetError(c) ==
    /\ Running /\ Live(c) /\ c \in MayFail \ errors
    /\ errors' = errors \cup {c}
    /\ noAnswer' = noAnswer \ {c}
    /\ queue' = Append(queue, Msg("error", c))
    /\ UNCHANGED <<calls, session, clientVars, mediaVars, failed>>

----------------------------------------------------------------------------
(* The signaling thread: its queue and its timer *)

AtHead(kind, c) == Running /\ queue # <<>> /\ Head(queue) = Msg(kind, c)

\* Session::OnMessage, MSG_STATE, while the session goes on
OnState(c) ==
    /\ AtHead("state", c) /\ session[c] \notin Over
    /\ LET next == IF session[c] \in {"SENTACCEPT", "RECEIVEDACCEPT"}
                   THEN "INPROGRESS"
                   ELSE IF session[c] \in {"SENTREJECT", "RECEIVEDREJECT"}
                   THEN "SENTTERMINATE"
                   ELSE session[c]
       IN  /\ session' = [session EXCEPT ![c] = next]
           /\ queue' = Tail(queue) \o (IF next = session[c] THEN <<>>
                                       ELSE <<Msg("state", c)>>)
    /\ UNCHANGED <<calls, errors, noAnswer, clientVars, mediaVars, failed>>

\* Slip: the call is not asked whether it is empty.
DestroySessionOnly(c) ==
    /\ AtHead("state", c) /\ session[c] \in Over
    /\ session' = [session EXCEPT ![c] = "deleted"]
    /\ errors' = errors \ {c}
    /\ channel' = [channel EXCEPT ![c] = NoChannel]
    /\ workerQueue' = Cleared(workerQueue, {"enable", "disable", "ring", "codec"}, c)
    /\ queue' = Cleared(Tail(queue), {"state", "error"}, c)
    /\ UNCHANGED <<calls, noAnswer, clientVars, focus_call_, failed>>

\* ... and when it is over: SessionManager::DestroySession, with
\* Call::RemoveSession and ~VoiceChannel.
DestroySession(c) ==
    /\ AtHead("state", c) /\ session[c] \in Over
    /\ session' = [session EXCEPT ![c] = "deleted"]
    /\ errors' = errors \ {c}
    /\ channel' = [channel EXCEPT ![c] = NoChannel]
    /\ workerQueue' = Cleared(workerQueue, {"enable", "disable", "ring", "codec"}, c)
    /\ queue' = Append(Cleared(Tail(queue), {"state", "error"}, c),
                       Msg("check", c))
    /\ UNCHANGED <<calls, noAnswer, clientVars, focus_call_, failed>>

\* Session::OnMessage, MSG_ERROR
OnError(c) ==
    /\ AtHead("error", c)
    /\ session' = Terminated(session, c)
    /\ queue' = Tail(queue) \o Posted(session, c)
    /\ UNCHANGED <<calls, errors, noAnswer, clientVars, mediaVars, failed>>

\* Slip: the client is not told.
DestroyCallQuietly(c) ==
    /\ AtHead("check", c) /\ ~Live(c)
    /\ calls' = [calls EXCEPT ![c] = "deleted"]
    /\ focus_call_' = IF focus_call_ = c THEN NoCall ELSE focus_call_
    /\ noAnswer' = noAnswer \ {c}
    /\ queue' = Tail(queue)
    /\ UNCHANGED <<session, errors, clientVars, channel, workerQueue, failed>>

\* Call::OnMessage, MSG_CHECKAUTODESTROY of a call without sessions (it gets
\* no other): PhoneSessionClient::DestroyCall,
\* CallClient::OnCallDestroy once that is connected, and ~Call.
DestroyCall(c) ==
    /\ AtHead("check", c) /\ ~Live(c)
    /\ calls' = [calls EXCEPT ![c] = "deleted"]
    /\ focus_call_' = IF focus_call_ = c THEN NoCall ELSE focus_call_
    /\ IF connected /\ call_ = c
       THEN call_' = NoCall /\ incoming_call_' = FALSE
       ELSE UNCHANGED <<call_, incoming_call_>>
    /\ noAnswer' = noAnswer \ {c}
    /\ queue' = Tail(queue)
    /\ UNCHANGED <<session, errors, connected, channel, workerQueue, failed>>

Dispatch == \E c \in Call :
    OnState(c) \/ DestroySession(c) \/ OnError(c) \/ DestroyCall(c)

\* Call::OnMessage, MSG_TERMINATECALL, after 20 s without an answer
OnTerminateCall(c) ==
    /\ Running /\ c \in noAnswer
    /\ noAnswer' = noAnswer \ {c}
    /\ session' = Terminated(session, c)
    /\ queue' = queue \o Posted(session, c)
    /\ UNCHANGED <<calls, errors, clientVars, mediaVars, failed>>

----------------------------------------------------------------------------
(* The worker thread *)

\* Slip: the ring goes on under the call.
PlayedOver(ch, kind) ==
    CASE kind = "enable"  -> [ch EXCEPT !.enabled = TRUE]
      [] kind = "disable" -> [ch EXCEPT !.enabled = FALSE]
      [] kind = "ring"    -> [ch EXCEPT !.ring = TRUE]
      [] kind = "codec"   -> ch

\* VoiceChannel::OnMessage: EnableMedia_w, DisableMedia_w, StartRing_w, and
\* SetSendCodec_w, which stops the ring.
Played(ch, kind) ==
    CASE kind = "enable"  -> [ch EXCEPT !.enabled = TRUE]
      [] kind = "disable" -> [ch EXCEPT !.enabled = FALSE]
      [] kind = "ring"    -> [ch EXCEPT !.ring = TRUE]
      [] kind = "codec"   -> [ch EXCEPT !.ring = FALSE]

Work ==
    /\ Running /\ workerQueue # <<>>
    /\ LET m == Head(workerQueue)
       IN  channel' = [channel EXCEPT ![m.of] = Played(@, m.kind)]
    /\ workerQueue' = Tail(workerQueue)
    /\ UNCHANGED <<sessionVars, clientVars, focus_call_, failed>>

----------------------------------------------------------------------------
Next == \/ User \/ Peers \/ Dispatch \/ Work
        \/ \E c \in Call : SetError(c) \/ OnTerminateCall(c)

Spec == Init /\ [][Next]_vars

\* Both threads take their messages, and the timer expires.
FairSpec == /\ Spec /\ WF_vars(Dispatch) /\ WF_vars(Work)
            /\ \A c \in Call : WF_vars(OnTerminateCall(c))

----------------------------------------------------------------------------
(* Properties *)

States == {"none", "SENTINITIATE", "RECEIVEDINITIATE", "SENTACCEPT",
           "RECEIVEDACCEPT", "INPROGRESS", "SENTREJECT", "RECEIVEDREJECT",
           "SENTTERMINATE", "RECEIVEDTERMINATE", "deleted"}

TypeOK ==
    /\ calls \in [Call -> {"none", "exists", "deleted"}]
    /\ session \in [Call -> States]
    /\ errors \subseteq Call /\ noAnswer \subseteq Call
    /\ queue \in Seq([kind : {"state", "error", "check"}, of : Call])
    /\ workerQueue \in Seq([kind : {"enable", "disable", "ring", "codec"}, of : Call])
    /\ call_ \in Call \cup {NoCall} /\ focus_call_ \in Call \cup {NoCall}
    /\ incoming_call_ \in BOOLEAN /\ connected \in BOOLEAN
    /\ channel \in [Call -> [live : BOOLEAN, enabled : BOOLEAN,
                             ring : BOOLEAN]]
    /\ failed \in {"no", "assert", "deleted"}

Pending(c) == \E n \in DOMAIN workerQueue : workerQueue[n].of = c

\* "If this call has the focus, enable this channel": once the worker has done
\* what was posted, the call with the focus, and no other, has its channel
\* enabled.
AudioFollowsFocus == \A c \in Call : channel[c].live /\ ~Pending(c) =>
    (channel[c].enabled <=> focus_call_ = c)

\* The focus is never on a deleted call, and once the client has made a call it
\* hears of every deletion, and does not show a deleted call either.  (A client
\* that only took calls may.)
HeldCallsExist ==
    /\ focus_call_ # NoCall => calls[focus_call_] = "exists"
    /\ connected /\ call_ # NoCall => calls[call_] = "exists"

\* A call that was answered does not ring, once the worker has done what was
\* posted.  (The ring of a call that ends stops with its channel.)
RingingStops == \A c \in Call : channel[c].ring /\ ~Pending(c) =>
    session[c] \notin {"SENTACCEPT", "RECEIVEDACCEPT", "INPROGRESS"}

\* A call nobody answers ends, and a call that ends, by whatever message, is
\* deleted, and does not keep the focus.
CallsEnd == \A c \in Call :
    session[c] = "SENTINITIATE" \/ session[c] \in Over \cup {"SENTREJECT", "RECEIVEDREJECT"}
    ~> \/ session[c] \in {"RECEIVEDACCEPT", "INPROGRESS"}
       \/ calls[c] = "deleted" /\ focus_call_ # c
       \/ ~Running
=============================================================================
