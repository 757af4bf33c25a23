----------------------------- MODULE Transport -----------------------------
(***************************************************************************)
(* The transport of a session, transport.cc, with what its channels        *)
(* (p2ptransportchannel.cc) and its session (session.cc) do with it.       *)
(*                                                                         *)
(* The transport lives on two threads.  Its methods run on the signaling   *)
(* thread, where the session is; its channels live on the worker thread,   *)
(* where the sockets are.  The threads post each other messages; creating  *)
(* and destroying channels is sent, so both threads take that step         *)
(* together.  Readability is handled exactly like writability and left     *)
(* out, and so are the messages forwarded to a channel.                    *)
(***************************************************************************)
EXTENDS Queues, FiniteSets

CONSTANTS Channel,        \* the names of the channels
          Destroying,     \* whether channels are destroyed one by one
          MaxRedirects,   \* bound: how often the call is redirected
          MaxCandidates,  \* bound: how many candidates the channels find
          MaxPosted       \* bound: the client and the channels pause when so
                          \* many messages are posted to a thread

ASSUME TransportAssumption ==
    /\ Destroying \in BOOLEAN
    /\ MaxRedirects \in Nat /\ MaxCandidates \in Nat /\ MaxPosted \in Nat

VARIABLES
    channels,      \* channels_
    chWritable,    \* the channels whose writable_ is set
    waiting,       \* the channels whose waiting_for_signaling_ is set
    allocated,     \* the channels that have an allocator session, thus ports
    delayed,       \* the channels whose MSG_ALLOCATE is in the delayed queue
    connectRequested,  \* connect_requested_
    messages,      \* messages_: for each candidate, to whom it belongs
    writable,      \* writable_
    signalingQueue,  \* what is posted to the signaling thread
    workerQueue,     \* what is posted to the worker thread
    initiated,     \* the session is the caller's and has sent its initiate
    chosen,        \* the session has chosen this transport (transport_)
    target,        \* the session's remote side, as the number of redirects
    late,          \* history: how many of these came after the choice
    timer,         \* the session's MSG_TIMEOUT is in the delayed queue
    found,         \* how many candidates were found, for MaxCandidates
    sent           \* pairs (to whom a candidate belonged, to whom it was sent)

channelVars == <<channels, chWritable, waiting, allocated, delayed>>
sessionVars == <<initiated, chosen, target, late, timer, sent>>
queueVars   == <<signalingQueue, workerQueue>>
vars == <<channelVars, connectRequested, messages, writable, queueVars,
          sessionVars, found>>

ToSignaling == {"connecting", "writestate", "requestsignaling", "channelmessage"}
ToWorker    == {"connectchannels", "resetchannels", "signalingready"}

AtHead(s, m) == s # <<>> /\ Head(s) = m

\* The message m of each channel of the set C, as CallChannels_w posts them.
Each(C, m) == [i \in 1..Cardinality(C) |-> m]

\* No thread has so many messages that the model stops for a while.
Paused == Len(signalingQueue) >= MaxPosted \/ Len(workerQueue) >= MaxPosted

\* The remote side the channels were last reset for.  Only a redirect that came
\* before the choice posts a reset.
Served == target - late
    - Cardinality({i \in DOMAIN workerQueue : workerQueue[i] = "resetchannels"})

\* Session::OnTransportWritable: MSG_TIMEOUT runs while there are channels and
\* the transport is not writable.
Watch(isWritable) == timer' = (channels # {} /\ ~isWritable)

----------------------------------------------------------------------------
Init ==
    /\ channels = {} /\ chWritable = {}
    /\ waiting = {} /\ allocated = {} /\ delayed = {}
    /\ connectRequested = FALSE
    /\ messages = <<>>
    /\ writable = FALSE
    /\ signalingQueue = <<>> /\ workerQueue = <<>>
    /\ initiated = FALSE /\ chosen = FALSE
    /\ target = 0 /\ late = 0 /\ timer = FALSE /\ sent = {}
    /\ found = 0

----------------------------------------------------------------------------
(* The signaling thread: what the session asks for *)

\* Slip: the channel connects before its signals are connected.
CreateChannelUnsignaled(c) ==
    /\ c \notin channels /\ ~Paused
    /\ channels' = channels \cup {c}
    /\ waiting' = IF connectRequested THEN waiting \cup {c} ELSE waiting
    /\ signalingQueue' = IF connectRequested /\ channels = {}
                         THEN Append(signalingQueue, "connecting")
                         ELSE signalingQueue
    /\ UNCHANGED <<chWritable, allocated, delayed, connectRequested, messages,
                   writable, workerQueue, sessionVars, found>>

\* Transport::CreateChannel and CreateChannel_w.  Once connecting was requested
\* a new channel connects at once: OnAllocate asks for signaling.
CreateChannel(c) ==
    /\ c \notin channels /\ ~Paused
    /\ channels' = channels \cup {c}
    /\ IF connectRequested
       THEN /\ waiting' = waiting \cup {c}
            /\ signalingQueue' = signalingQueue
                   \o <<"requestsignaling">>
                   \o (IF channels = {} THEN <<"connecting">> ELSE <<>>)
       ELSE UNCHANGED <<waiting, signalingQueue>>
    /\ UNCHANGED <<chWritable, allocated, delayed, connectRequested, messages,
                   writable, workerQueue, sessionVars, found>>

\* Slip: the session is not told that nothing is left to connect.
DestroyChannelSilently(c) ==
    /\ Destroying
    /\ c \in channels /\ ~Paused
    /\ channels' = channels \ {c}
    /\ chWritable' = chWritable \ {c}
    /\ waiting' = waiting \ {c}
    /\ allocated' = allocated \ {c}
    /\ delayed' = delayed \ {c}
    /\ UNCHANGED <<connectRequested, messages, writable, queueVars,
                   sessionVars, found>>

\* Transport::DestroyChannel and DestroyChannel_w.  What the channel has
\* posted to itself goes with it.
DestroyChannel(c) ==
    /\ Destroying
    /\ c \in channels /\ ~Paused
    /\ channels' = channels \ {c}
    /\ chWritable' = chWritable \ {c}
    /\ waiting' = waiting \ {c}
    /\ allocated' = allocated \ {c}
    /\ delayed' = delayed \ {c}
    /\ signalingQueue' = IF connectRequested /\ channels' = {}
                         THEN Append(signalingQueue, "connecting")
                         ELSE signalingQueue
    /\ UNCHANGED <<connectRequested, messages, writable, workerQueue,
                   sessionVars, found>>

\* Transport::ConnectChannels
ConnectChannels == workerQueue' = Append(workerQueue, "connectchannels")

\* Session::Initiate: the caller connects the transport before it is chosen.
Initiate ==
    /\ ~initiated /\ ~chosen /\ ~Paused
    /\ initiated' = TRUE
    /\ ConnectChannels
    /\ UNCHANGED <<channelVars, connectRequested, messages, writable,
                   signalingQueue, chosen, target, late, timer, sent, found>>

\* Session::SetTransport, when the callee answers the offer or the caller takes
\* the transport-accept.  The caller does so again for a redirect that came
\* after the choice; without assertions it only posts the order again.
SetTransport ==
    /\ chosen => late > 0
    /\ ~Paused
    /\ chosen' = TRUE
    /\ ConnectChannels
    /\ UNCHANGED <<channelVars, connectRequested, messages, writable,
                   signalingQueue, initiated, target, late, timer, sent, found>>

\* Session::OnRedirectMessage: the session talks to the new target from now on
\* and stops its timer.  It resets the channels of the potential transports, of
\* which SetTransport leaves none, and connects those of its transport.
Redirect ==
    /\ initiated /\ target < MaxRedirects /\ ~Paused
    /\ target' = target + 1
    /\ timer' = FALSE
    /\ IF chosen
       THEN late' = late + 1 /\ ConnectChannels
       ELSE /\ workerQueue' = workerQueue \o <<"resetchannels", "connectchannels">>
            /\ UNCHANGED late
    /\ UNCHANGED <<channelVars, connectRequested, messages, writable,
                   signalingQueue, initiated, chosen, sent, found>>

----------------------------------------------------------------------------
(* The signaling thread: what the worker thread posted *)

\* Transport::OnConnecting_s, Session::OnTransportConnecting
OnConnecting_s ==
    /\ AtHead(signalingQueue, "connecting")
    /\ signalingQueue' = Tail(signalingQueue)
    /\ Watch(writable)
    /\ UNCHANGED <<channelVars, connectRequested, messages, writable,
                   workerQueue, initiated, chosen, target, late, sent, found>>

\* Transport::OnChannelWritableState_s and GetTransportState_s: a change of
\* the transport's state is signaled, to Session::OnTransportWritable.
OnChannelWritableState_s ==
    /\ AtHead(signalingQueue, "writestate")
    /\ signalingQueue' = Tail(signalingQueue)
    /\ writable' = (chWritable # {})
    /\ IF writable' # writable THEN Watch(writable') ELSE UNCHANGED timer
    /\ UNCHANGED <<channelVars, connectRequested, messages, workerQueue,
                   initiated, chosen, target, late, sent, found>>

\* Transport::OnChannelRequestSignaling_s.  The client is connected, so the
\* SessionManager answers in the callback, and the transport forwards it.
OnChannelRequestSignaling_s ==
    /\ AtHead(signalingQueue, "requestsignaling")
    /\ signalingQueue' = Tail(signalingQueue)
    /\ workerQueue' = Append(workerQueue, "signalingready")
    /\ UNCHANGED <<channelVars, connectRequested, messages, writable,
                   sessionVars, found>>

\* Transport::OnChannelMessage_s: the session sends whatever is held now.
OnChannelMessage_s ==
    /\ AtHead(signalingQueue, "channelmessage")
    /\ signalingQueue' = Tail(signalingQueue)
    /\ sent' = sent \cup {<<messages[i], target>> : i \in DOMAIN messages}
    /\ messages' = <<>>
    /\ UNCHANGED <<channelVars, connectRequested, writable, workerQueue,
                   initiated, chosen, target, late, timer, found>>

----------------------------------------------------------------------------
(* The worker thread: what the signaling thread posted *)

\* Slip: the session is told only when it asked for the first time.
ConnectChannelsOnce_w ==
    /\ AtHead(workerQueue, "connectchannels")
    /\ workerQueue' = Tail(workerQueue)
    /\ connectRequested' = TRUE
    /\ IF connectRequested
       THEN UNCHANGED <<waiting, signalingQueue>>
       ELSE /\ waiting' = channels
            /\ signalingQueue' = signalingQueue
                   \o <<"channelmessage">>
                   \o Each(channels, "requestsignaling")
                   \o (IF channels = {} \/ target > 0 THEN <<>>
                       ELSE <<"connecting">>)
    /\ UNCHANGED <<channels, chWritable, allocated, delayed, messages, writable,
                   sessionVars, found>>

\* Transport::ConnectChannels_w: every channel asks for signaling.
ConnectChannels_w ==
    /\ AtHead(workerQueue, "connectchannels")
    /\ workerQueue' = Tail(workerQueue)
    /\ connectRequested' = TRUE
    /\ IF connectRequested
       THEN UNCHANGED <<waiting, signalingQueue>>
       ELSE /\ waiting' = channels
            /\ signalingQueue' = signalingQueue
                   \o <<"channelmessage">>
                   \o Each(channels, "requestsignaling")
                   \o (IF channels = {} THEN <<>> ELSE <<"connecting">>)
    /\ UNCHANGED <<channels, chWritable, allocated, delayed, messages, writable,
                   sessionVars, found>>

\* Slip: the messages a channel has posted to itself are left.
ResetChannelsUncleared_w ==
    /\ AtHead(workerQueue, "resetchannels")
    /\ workerQueue' = Tail(workerQueue)
    /\ connectRequested' = FALSE
    /\ messages' = <<>>
    /\ chWritable' = {} /\ waiting' = {} /\ allocated' = {}
    /\ signalingQueue' = signalingQueue \o Each(chWritable, "writestate")
    /\ UNCHANGED <<channels, delayed, writable, sessionVars, found>>

\* Slip: writable_ is cleared without the signal.
ResetChannelsSilently_w ==
    /\ AtHead(workerQueue, "resetchannels")
    /\ workerQueue' = Tail(workerQueue)
    /\ connectRequested' = FALSE
    /\ messages' = <<>>
    /\ chWritable' = {} /\ waiting' = {} /\ allocated' = {} /\ delayed' = {}
    /\ UNCHANGED <<channels, signalingQueue, writable, sessionVars, found>>

\* Transport::ResetChannels_w and P2PTransportChannel::Reset.  The flag is
\* cleared first, so no channel allocates again.
ResetChannels_w ==
    /\ AtHead(workerQueue, "resetchannels")
    /\ workerQueue' = Tail(workerQueue)
    /\ connectRequested' = FALSE
    /\ messages' = <<>>
    /\ chWritable' = {} /\ waiting' = {} /\ allocated' = {} /\ delayed' = {}
    /\ signalingQueue' = signalingQueue \o Each(chWritable, "writestate")
    /\ UNCHANGED <<channels, writable, sessionVars, found>>

\* P2PTransportChannel::OnSignalingReady of every channel
OnSignalingReady_w ==
    /\ AtHead(workerQueue, "signalingready")
    /\ workerQueue' = Tail(workerQueue)
    /\ allocated' = allocated \cup waiting
    /\ delayed' = delayed \cup waiting
    /\ waiting' = {}
    /\ UNCHANGED <<channels, chWritable, connectRequested, messages, writable,
                   signalingQueue, sessionVars, found>>

----------------------------------------------------------------------------
(* The worker thread: the sockets and timers of the channels *)

\* P2PTransportChannel::OnCandidatesReady, Transport::OnChannelMessage.  The
\* candidate belongs to the remote side the channels were last reset for.
OnChannelMessage(c) ==
    /\ c \in allocated /\ found < MaxCandidates /\ ~Paused
    /\ found' = found + 1
    /\ messages' = Append(messages, Served)
    /\ signalingQueue' = IF connectRequested
                         THEN Append(signalingQueue, "channelmessage")
                         ELSE signalingQueue
    /\ UNCHANGED <<channelVars, connectRequested, writable, workerQueue,
                   sessionVars>>

\* P2PTransportChannel::HandleWritable: a connection gets through.
HandleWritable(c) ==
    /\ c \in allocated \ chWritable /\ ~Paused
    /\ chWritable' = chWritable \cup {c}
    /\ delayed' = delayed \ {c}
    /\ signalingQueue' = Append(signalingQueue, "writestate")
    /\ UNCHANGED <<channels, waiting, allocated, connectRequested, messages,
                   writable, workerQueue, sessionVars, found>>

\* HandleNotWritable and HandleAllTimedOut: no connection gets through, the
\* channel allocates again.  It does so too when it was not writable and its
\* last connection times out (was_timed_out_ is left open).
HandleNotWritable(c) ==
    /\ c \in allocated /\ ~Paused
    /\ waiting' = waiting \cup {c}
    /\ chWritable' = chWritable \ {c}
    /\ signalingQueue' = signalingQueue
           \o <<"requestsignaling">>
           \o (IF c \in chWritable THEN <<"writestate">> ELSE <<>>)
    /\ UNCHANGED <<channels, allocated, delayed, connectRequested, messages,
                   writable, workerQueue, sessionVars, found>>

\* P2PTransportChannel::OnMessage, MSG_ALLOCATE: the channel allocates again.
\* Another MSG_ALLOCATE may still be delayed.
OnAllocate(c) ==
    /\ c \in delayed /\ ~Paused
    /\ delayed' \in {delayed, delayed \ {c}}
    /\ waiting' = waiting \cup {c}
    /\ signalingQueue' = Append(signalingQueue, "requestsignaling")
    /\ UNCHANGED <<channels, chWritable, allocated, connectRequested, messages,
                   writable, workerQueue, sessionVars, found>>

----------------------------------------------------------------------------
Client ==
    \/ \E c \in Channel : CreateChannel(c) \/ DestroyChannel(c)
    \/ Initiate \/ SetTransport \/ Redirect

SignalingThread == OnConnecting_s \/ OnChannelWritableState_s
                   \/ OnChannelRequestSignaling_s \/ OnChannelMessage_s

WorkerThread == ConnectChannels_w \/ ResetChannels_w \/ OnSignalingReady_w

Network == \E c \in Channel :
    OnChannelMessage(c) \/ HandleWritable(c) \/ HandleNotWritable(c)
    \/ OnAllocate(c)

Next == Client \/ SignalingThread \/ WorkerThread \/ Network

Spec == Init /\ [][Next]_vars

\* Both threads keep taking their messages.
FairSpec == Spec /\ WF_vars(SignalingThread) /\ WF_vars(WorkerThread)

----------------------------------------------------------------------------
TypeOK ==
    /\ channels \subseteq Channel
    /\ chWritable \subseteq channels
    /\ waiting \subseteq channels
    /\ allocated \subseteq channels
    /\ delayed \subseteq allocated
    /\ connectRequested \in BOOLEAN
    /\ messages \in Seq(0..MaxRedirects)
    /\ writable \in BOOLEAN
    /\ signalingQueue \in Seq(ToSignaling)
    /\ workerQueue \in Seq(ToWorker)
    /\ initiated \in BOOLEAN /\ chosen \in BOOLEAN
    /\ target \in 0..MaxRedirects /\ late \in 0..MaxRedirects
    /\ timer \in BOOLEAN
    /\ found \in 0..MaxCandidates
    /\ sent \subseteq (0..MaxRedirects) \X (0..MaxRedirects)

\* "These bits are the ORs of the corresponding bits on the managed channels.
\* Each time one of these states changes, a signal is raised": when the two
\* disagree, the message that brings them together is posted.
WritableIsTheOr ==
    writable # (chWritable # {}) => Has(signalingQueue, "writestate")

\* A candidate that may be sent is not forgotten in messages_.
HeldIsAnnounced ==
    messages # <<>> /\ connectRequested => Has(signalingQueue, "channelmessage")

\* A channel that waits for the signaling channel has asked for it, and the
\* question or the answer is under way, whatever was reset meanwhile.
WaitingIsAnswered ==
    waiting # {} => \/ Has(signalingQueue, "requestsignaling")
                    \/ Has(workerQueue, "signalingready")

\* The transport is connecting, and none of its channels gets through.
Connecting == connectRequested /\ channels # {} /\ chWritable = {}

\* The session's timer runs, or a message that starts it is on its way: posted
\* to the session, or to the worker that resets the channels and connects them
\* again.
WatchUnderWay ==
    \/ timer
    \/ \E m \in {"connecting", "writestate"} : Has(signalingQueue, m)
    \/ Has(workerQueue, "resetchannels")

\* While channels are connecting and none gets through, the session's timer
\* runs or will, unless the call was redirected after its transport was chosen.
ConnectingIsWatched == late = 0 /\ Connecting => WatchUnderWay

\* Whatever one thread waits for is under way in the queue of the other.
RequestsAreUnderWay == HeldIsAnnounced /\ WaitingIsAnswered /\ ConnectingIsWatched

\* When no channel is left, the session's timer stops, or the message that
\* stops it is posted.
NoChannelsNoTimer ==
    timer /\ channels = {} => Has(signalingQueue, "connecting")

\* Whatever the channels find is sent, or cleared by a reset.
CandidatesAreSent == messages # <<>> ~> messages = <<>>

\* A channel that was told to connect gets its ports (or is destroyed).
ChannelsAllocate == \A c \in Channel :
    c \in channels /\ connectRequested ~> c \in allocated \/ c \notin channels

\* "We will start the connection timer from scratch when SignalConnecting
\* fires", says OnRedirectMessage: when the worker has done what was posted to
\* it, the timer of a redirected session runs or will.
RedirectRestartsTimer ==
    target > 0 /\ workerQueue = <<>> /\ Connecting => WatchUnderWay

\* "Clear out the old messages, they aren't relevant": what was found for the
\* old target can go to the new one only while the reset that would clear it is
\* still on its way to the worker, never after it.  A redirect that came after
\* the choice posts no reset, and its session is excluded.
OldMessagesAreCleared ==
    [][\A s \in sent' \ sent :
           late = 0 /\ s[1] # s[2] => Has(workerQueue, "resetchannels")]_vars

\* Signaling between the transport and its session completes, for the right
\* target unless it was redirected after the choice.
SignalingCompletes == CandidatesAreSent /\ ChannelsAllocate /\ OldMessagesAreCleared
=============================================================================
