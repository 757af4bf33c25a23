# A verification of the call core of gtalx / libjingle

The repository holds gtalx 0.1.0, a Qt voice-call client for Google Talk, with
everything it links: a modified libjingle (`src/0.1.0/libjingle-modified`),
oRTP, mediastreamer2 and speex, and, beside it, small web experiments (a page
with two racing text boxes, RSA in PHP, a prime number page). The program's own
core is the libjingle part: the negotiation of a call, the threads that carry
it, and the transport that connects it. That is what these modules are about.
Paths below are relative to `src/0.1.0/libjingle-modified/talk` unless they
start with `src/`.

## 1. The system

### Parts and how they interact

A gtalx client runs two threads that matter here. The **signaling thread**
handles the user's commands, the stanzas of the XMPP server and every message a
session posts to itself. The **worker thread** owns the sockets and the
transport channels. They talk by `Post` (asynchronous) and `Send` (synchronous,
and while it waits the sender executes what is sent to it).

| component | source | state | operations | interacts with |
|---|---|---|---|---|
| session | `p2p/base/session.cc` | `state_`, `remote_name_`, `transport_`, `potential_transports_`, `description_`, `error_`, its messages in the thread's queue | Initiate, Accept, Reject, Redirect, Terminate; one handler per kind of stanza; MSG_STATE, MSG_ERROR, MSG_TIMEOUT | posts to itself; calls back the client inside SetState and SetError; sends stanzas through the session manager; owns transports |
| session manager | `p2p/base/sessionmanager.cc` | `session_map_` | CreateSession, DestroySession, OnIncomingMessage, OnFailedSend, error replies | finds the session of a stanza; called by the XMPP tasks |
| call, phone session client | `session/phone/call.cc`, `phonesessionclient.cc` | `sessions_`, MSG_TERMINATECALL, MSG_CHECKAUTODESTROY, `session_map_`, focus | InitiateSession, RedirectSession, Terminate, OnSessionState, OnSessionDestroy | callbacks of the session; timer of the thread |
| XMPP session and tasks | `login/xmpppump.cc`, `login/xmppsocket.cc`, `xmpp/xmppclient.cc`, `xmpp/xmppengineimpl.cc`, `xmpp/xmpplogintask.cc`, `xmpp/xmpptask.cc`, `base/task.cc`, `base/taskrunner.cc`, `p2p/client/sessionmanagertask.h`, `sessionsendtask.h` | states of pump, engine, log-in, socket and tasks; queued stanzas, handlers, stanza queues | DoLogin, DoDisconnect, SendStanza, HandleInput; Start, Step, Wake, Stop, RunTasks | the server; woken by the socket, run by the pump's posted message; the session manager |
| thread messaging | `base/messagequeue.cc`, `base/thread.cc` | `msgq_`, `dmsgq_`, `sendlist_`, `has_sends_`, `fStop_`, the `ready` flag of each Send | Post, PostDelayed, Send, Get, ReceiveSends, Clear, Stop | the wake-up event of `base/physicalsocketserver.cc` |
| transport | `p2p/base/transport.cc` | `channels_`, `connect_requested_`, `messages_`, `readable_`, `writable_` | CreateChannel, DestroyChannel, ConnectChannels, ResetChannels and their `_w`/`_s` halves | the session above, the channels below, on two threads |
| P2P channel | `p2p/base/p2ptransportchannel.cc`, `port.cc` | `connections_` with their read and write states, `best_connection_`, `sort_dirty_`, `was_writable_`, `was_timed_out_`, `waiting_for_signaling_`, allocator sessions | Connect, Reset, OnSignalingReady, CreateConnections, SortConnections, OnPing, OnAllocate; packets and MSG_DELETE of connections | ports and sockets of the worker thread; itself, by MSG_SORT, MSG_PING and MSG_ALLOCATE |
| voice channel, media engine | `session/phone/voicechannel.cc`, `linphonemediaengine.cc` | enabled, ringing, muted, writable | Enable, Mute, StartRing, SetSendCodec, by messages to the worker | session state, focus, transport writability |
| pseudo TCP | `p2p/base/pseudotcp.cc`, `session/tunnel/pseudotcpchannel.cc` | send and receive buffers, segments, windows, three clocks | Connect, Send, Recv, Close, NotifyPacket, NotifyClock | a transport channel below, a stream on another thread above |
| call client | `src/0.1.0/libjingle-modified/interface/callclient.cpp` | `call_`, `session_`, `incoming_call_` | call, accept, reject, hang up; OnSessionState, OnCallDestroy | calls, user interface |
| everything else | file sharing, sockets, proxies, HTTP, STUN, relay, user interface, vendored libraries, web pages | | | see section 7 |

### What is hard

* **Crossing messages.** Both ends of a call act on their own; an accept, a
  reject or a redirect meets a session that has just been ended or redirected.
* **Posted to itself.** SetState posts MSG_STATE and the handler acts on the
  state of *then*. Callbacks inside SetState change the state again, and several
  stanzas may be handled before the queue is looked at.
* **Death with messages pending.** Sessions are deleted while their own
  messages and timers, and those of their call, are queued.
* **Nested loops.** A Send that waits executes other Sends, which send again.
  Wake-ups are one event per thread, so a nested wait can eat the wake-up of the
  wait below it. `has_sends_`, `fStop_` and `ready` are read without the lock.
* **Two threads, one transport.** The transport's bits are recomputed on one
  thread from what channels do on the other; a redirect changes whom the session
  talks to at once and resets the channels later, or not at all when the
  transport was already chosen.
* **A sort inside a sort.** A channel sorts its connections, which ages and
  prunes them, which requests another sort; connections post their own deletion
  and may come back to life before it is handled.
* **Losses.** A client disappears without a word; a connection is lost; the
  server answers for somebody who is gone; packets are lost, repeated, reordered.
* **Tasks that change their own list.** Tasks wake, start and abort each other
  while the runner steps through them, and an engine closes inside its own
  callbacks.
* **Byte arithmetic.** Segments are split and acknowledged in part, data lies in
  a buffer before its turn has come, windows open in steps.
* **One call shown, several alive.** The client holds one call; the library has
  as many as peers make.

Correctness, per component: a session always gets the follow-up its state needs
and ends at both sides, with an agreement only when somebody accepted; no
wake-up of a thread is lost and every Send is answered exactly once; the
transport's view of its channels is up to date or about to be, and while
nothing gets through a timer runs; a channel uses a connection that exists and
can be written to if there is one, and otherwise asks for new ports; a stream delivers what was written, once and
in order, and closes after that; stanzas arrive in the order they were sent and
no answer or task is forgotten; the audio is that of the call with the focus,
and nobody holds a deleted call.

## 2. The modules

| module | what it is |
|---|---|
| `Session` | one call between any number of clients: sessions, their manager, their calls and the threads' queues |
| `CallSetup` | what the negotiation promises to its users; `Session` implements it |
| `SessionProof` | theorems about `Session` |
| `Queues` | what a queue holds, and a queue without some of its messages |
| `QueueTheorems` | lemmas about queues that several proofs need |
| `ThreadMessaging` | Post, Send, Get, ReceiveSends, Clear and Stop of any number of threads |
| `ThreadMessagingProof` | theorems about `ThreadMessaging`: types, Sends and their `ready` flags, wake-ups |
| `Transport` | the transport of one session with its channels, on two threads |
| `TransportProof` | theorems about `Transport` |
| `P2PChannel` | one channel of a transport with its connections |
| `P2PChannelProof` | theorems about `P2PChannel` |
| `PseudoTcp` | the two ends of a pseudo-TCP connection with their streams, and the network between them |
| `ByteStream` | what such a connection promises; `PseudoTcp` implements it |
| `PseudoTcpProof` | theorems about `PseudoTcp`, and the refinement of `ByteStream` |
| `XmppSession` | pump, tasks, engine, log-in and socket of one XMPP session, and the server |
| `XmppSessionProof` | theorems about `XmppSession` |
| `CallClient` | the calls of one user, the one the client shows, their voice channels on the worker |
| `CallClientProof` | theorems about `CallClient` |
| `MCSession`, `MCThreadMessaging`, `MCTransport`, `MCP2PChannel`, `MCPseudoTcp`, `MCXmppSession`, `MCCallClient` | the instances TLC checks |

How they divide the program: `CallClient` and `Session` both have sessions and
their MSG_STATE. `Session` has both ends of one call with the stanzas between
them and is exact about who may do what; `CallClient` has one end of several
calls, lets the peers do what `Session` shows they do, and is exact about who
holds which call. `Session` takes stanzas as delivered in order while the
connection lives, which is what `XmppSession` shows of one client; `Transport`
lets its channels become writable and not, as `P2PChannel` makes them.

Definitions whose comment begins with "Slip:" are mutated copies of the
definition they stand before: a plausible mistake in that code. Nothing uses
them; putting one in the place of its original must break a property.

### Session

Every client is a peer with one signaling thread: a FIFO `queue` of what it
posted to itself, an `inbox` (the stanza queue of SessionManagerTask), `failed`
(the error replies for its send tasks), and `running` while it is inside
`TaskRunner::RunTasks`. `net[p][q]` is the FIFO stream of stanzas the server
delivers from p to q. All peers talk about one session id, the Caller's.

* A state is the `STATE_*` of session.h, plus NONE before the object exists;
  STATE_DEINIT is the deleted session. `transport` says whether a transport was
  chosen, `description` whether Accept was called. After deletion `description`
  is kept as history for the properties.
* User commands (`Initiate`, `Accept`, `Reject`, `Redirect`, `Terminate`) and
  timers run whenever the thread is between two messages. In the code they are
  posted by other threads and by the clock and carry no state of the session,
  so this is every order in which they can be taken.
* `Ring` is OnInitiateMessage with its callback: the client may reject inside it
  (PhoneSessionClient does when no codec is common), accept inside it, or wait;
  then ChooseTransport sends transport-accept and an accept that was waiting.
* `Refuse` is CheckState, FindSessionForStanza and the error reply.
* `FollowUp` (`Progress`, `Conclude`, `Ignore`) and `DestroySession` are
  OnMessage(MSG_STATE). DestroySession leaves nothing of the session in the
  queue, and the call's MSG_CHECKAUTODESTROY at its end.
* `Receive` puts a stanza in the queue of its task. A thread reads its socket
  only when nothing is posted to it except the pump's message, because Get looks
  at its queue before it waits on sockets.
* `Crash` ends the process of a mortal peer; from then on the server answers
  its stanzas with errors (`Bounce`).

Left out: the compatibility mode for old clients, candidates and info messages
(no state of the session depends on them), offers without a transport we
support, acknowledgements (OnIncomingResponse does nothing), TerminateAll (its
only caller is commented out). Assertions have the meaning they have in a
release build, none; one of them, of the channel, is stated as a property
(`UpdateChannelStateAssertion`). A redirect goes to a peer that has not taken part.

### ThreadMessaging

A thread is a stack of activities: Get at the bottom, above it the handler Get
dispatched to, a Send that handler waits in, the handler of a message sent
meanwhile, and so on. Everything under the queue's lock is one step; the
unlocked reads of `has_sends_` (`ReceiveNothing`/`BeginReceive`), `fStop_`
(`BeginPost`, `BeginSend`, `Exit`/`GoOn`) and `ready` (`StillWaiting`/`EndSend`)
are steps of their own. `signaled` is the wake-up event, reset by Wait. Handlers
are arbitrary: they post, send, stop threads and destroy other handlers (whose
messages Clear takes out of all queues), in any order, and return. The model
counts its messages; a message is its number.

Left out: delayed posts, Peek, MQID_DISPOSE, the manager's lock order and the
destruction of threads.

### Transport

`signalingQueue` and `workerQueue` are the messages the two threads have posted
to each other; `CreateChannel` and `DestroyChannel` are sent, so one step. A
channel is in `waiting` (`waiting_for_signaling_`), `allocated` (it has ports),
`delayed` (its next MSG_ALLOCATE is pending) and `chWritable`. The network makes
allocated channels writable or not, and lets them find candidates. A candidate
is the remote side that the channels were last reset for (`Served`, in
redirects), so that a candidate sent to the wrong target can be seen.

Of the session, the client's actions `Initiate`, `SetTransport` and `Redirect`
order channels to connect. `chosen` is `transport_ != NULL`. A redirect before
the choice resets and connects the channels of the potential transports.
`SetTransport` leaves no potential transport, so a redirect after it (`late`
counts them, as history) only stops the timer and posts an order to connect that
ConnectChannels_w ignores, for `connect_requested_` is still set. Left open:
whether a channel that times out was writable before; several MSG_ALLOCATE may
be delayed at once.

Left out: readability (the same code as writability), messages forwarded to a
channel, DestroyAllChannels, and the session's timer firing (in `Session`).
Session assumes of the transport what `ConnectingIsWatched`, a part of
`RequestsAreUnderWay`, says here of sessions without a late redirect: while
nothing gets through, the timer runs or is about to.

### P2PChannel

`conn` maps each connection in `connections_` to its read and write state, its
`pruned_` flag, the number of pings since the last response (`pinged`), whether
a request is in flight (`requests_` is not empty) and its round trip time.
`SortConnections` is one operator that every caller ends with, as in the code:
it ages the connections (`Updated`), sorts, switches, prunes (`Superfluous`) and
calls one of the Handle operators. `Posted` is what set_read_state and
set_write_state post: MSG_SORT unless `sort_dirty_`, and the MSG_DELETE of a
connection that is lost both ways.

`queue` holds MSG_SORT and MSG_DELETE only. MSG_PING and MSG_ALLOCATE come due at
any time, and so does what the signaling thread posts, hence they may be handled
between any two messages; that MSG_PING is posted is a flag, the delayed
MSG_ALLOCATEs are counted. Packets are handled inside the socket server's Wait,
which Get calls when its queue is empty: `Poll` begins a pass only then, and one
pass may handle several packets, which is how a connection can die and revive
before its MSG_DELETE is looked at.

Time is left out: a state may age as soon as the pings allow it, so every timing
is included, and some that the 5, 15 and 30 seconds exclude. Left out as well:
ports, remote candidates and generations (which connections can be created is
open), TCP connections that are not connected, Port's own time-out, options.

### PseudoTcp

`tcp[e]` has the members of PseudoTcp for each end: `slist` is m_slist (number,
length, transmissions, control flag of each segment), `sbuf` and `rbuf` the two
buffers, `rlist` the segments that lie behind a gap. A byte is the number it has
among the bytes its writer wrote, so that a byte in the wrong place can be seen;
byte 0 is the connect control code.

* `Handle` is process(), in the order of the code: state, acknowledgement
  (`Acknowledged`, `Duplicate`), flags for the answer, receive window, data
  (`Received`), and then attemptSend.
* attemptSend is a loop that sends one packet a round: `SendSegment` is a round,
  `StopSending` its end. While it runs (`sending`) the channel has its lock.
* `Sent` is TcpWritePacket: the packet is under way, or lost. `PathMss` is the
  answer WR_TOO_LARGE, after which transmit() splits what it sends.
* `Read` keeps what Recv does with the buffer: the bytes behind the readable ones
  move up with them.
* NotifyClock's three parts are the actions `Retransmit`, `Probe` and
  `DelayedAck`. Each clock is a flag that says whether it runs.
* `Adjusted` is AdjustClock: clock_check says when a closed connection is
  deleted.

Time is left out, so a clock that runs may be due at any moment, and the
congestion window is left open. Left out as well: keep-alives, a channel that is
destroyed under its stream, packets that the network refuses for another reason
than their size or however small they are ("MTU too small"), a NotifyMTU that
raises the segment size again after it has shrunk, and m_dup_acks coming round
at 256. Sequence numbers are taken modulo `SeqSpace`, which is larger
than either buffer (2^32 against 90 and 60 KB in the code), but the instances
end before they wrap: `process` compares them without regard to wrapping, and a
stream of more than 4 GB is beyond what it can do. The theorems state this as
their hypothesis, `NoWrap`.

### XmppSession

One thread; a step is one of its callbacks, except that RunTasks goes task by
task (`Steps`: one action for each Process method, `NextTask`, `DeleteDone`) and
HandleInput stanza by stanza (`Parser`), because stanzas and tasks meet inside
them. `pool` holds the tasks (state, `blocked_`, `done_`, stanza queue), the
runner's list and position, whether RunTasks is posted, and the engine's
handlers. `input` is a HandleInput that runs, with the state its EnterExit has
seen: `Leave` is the destructor of EnterExit, which writes the output, closes
the connection and tells of the new state. `eng.login` is the state of the
log-in task, `Negotiate` and `Advance` its loop, `Bound` its success, which puts
the queued stanzas behind its own.

The server (external) takes what is sent in order, replies to the log-in for
good or bad, answers requests, sends its own and may end the stream; `Lose`
breaks the connection. `pending` is history: what SendStanza took and the server
has not got.

Left out: pre-authentication, iq handlers (SendIq), partial writes, a TLS start
that fails, a second log-in of the same pump, and time-outs of tasks, which
never happen (section 5).

### CallClient

A call and its one session have the same name. `queue` is what is posted to the
signaling thread (MSG_STATE, MSG_ERROR, MSG_CHECKAUTODESTROY), `workerQueue`
what is posted for voice channels; CreateVoiceChannel and DestroyVoiceChannel
are sent, so parts of a step. The user's commands follow `ParseLine`, the peers'
stanzas Session's handlers with everybody who hears of the new state, the
phone client first. `connected` says whether `SignalCallDestroy` is connected,
which only MakeCallTo does.

`failed` records the two ways this code goes wrong and stops the program:
`AnswerNothing` is the assertion on `sessions().size()` when the session has just
gone, `UseDeleted` a command on a call that was deleted under the client.

Left out: JoinCalls (nobody calls it), redirecting (in Session), muting, the
monitors, the contacts list, writability of the channels (in Transport).

## 3. The runs

| run | instance | checks | result |
|---|---|---|---|
| `SessionCall` | 2 clients, the callee may crash, fair | type, `FollowUpPosted`, `ErrorsAreFatal`, `NothingForTheDead`, `TimersFitTheState`, `ImplementsCallSetup`, `CallsEnd` | holds, 68,872 states |
| `SessionRedirect` | 3 clients, 1 redirect, without clock | `AnswersAgree`, `ImplementsCallSetup` | holds, 61,993 states |
| `Threads` | 2 threads, 4 messages, handlers destroyed, threads stopped and joined, fair | type, `ReadyFlagsLive`, `SendIsSynchronous`, `NoWorkIsMissed`, `EverythingReturns` | holds, 1,205,127 states |
| `TransportRedirect` | 2 channels, 1 redirect before or after the choice, 2 candidates, fair | type, `WritableIsTheOr`, `RequestsAreUnderWay`, `SignalingCompletes` | holds, 651,051 states |
| `TransportDestroy` | 2 channels that are destroyed one by one | `NoChannelsNoTimer` | holds, 79,587 states |
| `TransportLate` | 2 channels, 1 redirect | `RedirectRestartsTimer` | violated |
| `P2PChannel` | 2 connections of one network, one preferred | type, `DeadAreDeleted`, `WritableMeansBest`, `UpdateChannelStateAssertion`, `KeepsAllocating` | holds, 190,182 states |
| `PseudoTcp` | 3 bytes written and closed, loss, reordering, 2 segment sizes | type, `SegmentsCoverBuffer`, `WindowIsKept`, `CloseDeliversAll`, `ImplementsByteStream` | holds, 406,557 states |
| `PseudoTcpLive` | 2 bytes through a window of 1, loss, a repeated packet, fair | `EverythingArrives` | holds, 48,759 states |
| `XmppSession` | 2 requests sent, 1 received, 1 raw stanza, losses, fair | type, `StanzasInOrder`, `TasksAreServed`, `NothingIsDropped`, `SessionsEndForGood` | holds, 447,517 states |
| `CallClient` | 2 calls, one of which may fail, fair | type, `AudioFollowsFocus`, `HeldCallsExist`, `RingingStops`, `CallsEnd` | holds, 202,390 states |
| `XmppUnanswered` | 1 request, no losses, a server that need not answer | `UnansweredFails` | violated |

Several properties are conjunctions of named parts that belong together:

* `TimersFitTheState`: the call's timer stops when it was answered
  (`AnsweredCallKeepsRunning`), the connection timer runs while a live session
  has no connection (`UnwritableIsWatched`).
* `AnswersAgree`: nobody is in a call the other has not agreed to
  (`AgreementIsMutual`), and who refused sends nothing after it (`RefusalIsLastWord`).
* `CallsEnd` of Session: ringing ends (`RingingEnds`), and an end reaches the
  other side (`EndReachesBothSides`).
* `NoWorkIsMissed`: no thread sleeps while there is work for it
  (`NobodySleepsThroughWork`), and `has_sends_` is false only when there is none
  (`HasSendsIsSafe`).
* `RequestsAreUnderWay`: for held candidates (`HeldIsAnnounced`), waiting
  channels (`WaitingIsAnswered`) and a connection that is being made
  (`ConnectingIsWatched`), the message or timer that goes on with them exists.
  `SignalingCompletes`: they do go on (`CandidatesAreSent`, `ChannelsAllocate`),
  and an old candidate goes to the new target only while the reset is still
  queued (`OldMessagesAreCleared`). `ConnectingIsWatched` and
  `OldMessagesAreCleared` exclude a session that was redirected after its
  transport was chosen (`late`), of which the code has neither; the other three
  parts hold for it too. `RedirectRestartsTimer` has no such exception, and is
  violated.
* `TasksAreServed`: ready tasks are run (`ReadyTasksAreRun`), handlers are live
  tasks (`HandlersLive`). `SessionsEndForGood`: sessions end and log-ins come to
  an end (`SessionsEnd`), and closed is final (`ClosedIsFinal`).

### Why the bounds are enough

* *Session.* Nothing in a session counts: its queues hold a bounded number of
  different messages, and the only unbounded thing a user can do is redirect. A
  call needs two ends; a redirect a third; a second redirect brings the caller
  back to the situation of the first. The redirect run leaves out the clock
  (no timer, no connection won or lost) to stay small; without it every order of
  stanzas remains.
* *ThreadMessaging.* Three messages are needed for a Send within a handler that
  answers a Send, in both directions at once; the fourth is needed for a wake-up
  that a nested Send eats. `EverythingReturns` says nothing of a behaviour in
  which a thread is stopped; those in which none is are all in the run. They
  come to rest because their messages are bounded. A third thread would add
  senders to the same `sendlist_`, which two messages in it do already.
* *Transport.* `MaxPosted` = 3 pauses the client and the network, not the
  handlers, when a queue is long; the cases that matter (a reset between a post
  and its handling) need two. Two channels tell "all" from "some".
* *P2PChannel.* Two connections of one network compete, prune and revive each
  other. `Failures` is 2 instead of 5 (one ping in vain does not count, the last
  one does), `MaxAllocations` = 2 because two periods can run at once and then
  merge. `MaxPackets` = 2 packets in one pass are a death and a revival.
  `MaxQueue` = 2 pauses pings and new connections while a sort and a deletion
  are queued, not packets or messages. With one preferred connection round trip
  times decide nothing, so `Rtts` has one value. A third connection would add
  networks on which the best connection is not; it is beyond these runs.
* *PseudoTcp.* Three bytes and the connect code make segments that are split
  (sizes 1 and 2), acknowledged in part, out of order behind a gap, and retransmitted;
  a receive buffer of 3 read byte by byte closes and reopens. `MaxPackets` = 2
  packets each way are enough to overtake each other; a third one waits, which is
  no loss the code could see. `DupAcks` = 2 instead of 3 and `MaxXmit` = 2
  instead of 15 bring fast retransmission and giving up within reach. Only one
  end writes: data in the other direction uses the other half of the record,
  and meets it in the acknowledgement that every packet carries anyway. The
  liveness run has a window and a segment size of 1, so that the window closes
  at every byte, and one packet that arrives twice.
* *XmppSession.* Two requests are needed to tell whose answer arrives; one
  request received, one raw stanza. The log-in is complete with every refusal.
* *CallClient.* The client holds one call and the focus is on one: the second
  call is the one that overwrites, takes the focus, or is left behind. One call
  that may fail and one that may not are both cases.

Deadlock is not checked: calls, sessions and streams end, handlers have nothing
more to post, and then nothing happens. The liveness properties say what must not
stop before. `P2PChannel` is the exception, and never stops.

### Fairness

* *Session*: weak fairness of Dispatch and HandleStanza (the thread runs its
  loop for ever), of Receive and Bounce (the XMPP server delivers), of the two
  timers (a delayed message that stays in the queue comes due) and of losing the
  connection to a session that is gone (its pings stay unanswered). Users are
  not obliged to do anything; the call's own timer ends ringing.
* *ThreadMessaging*: weak fairness of each thread's own progress, which is what
  the operating system gives a running thread; handlers return. Nothing is
  assumed about what handlers choose.
* *Transport*: weak fairness of the two threads taking their messages. The
  network promises nothing.
* *PseudoTcp*: weak fairness of the loop that sends. Strong fairness of reading
  and of the retransmission and probing clocks: they compete for the channel's
  lock with packets that keep coming, and a waiting thread gets it at last. The
  network promises nothing: retransmissions and probes are counted, and after
  the last one the connection is closed.
* *XmppSession*: weak fairness of the thread (RunTasks, its steps, the parser,
  the sockets) and of the server's replies to the log-in; `FairSpec` adds that
  every request is answered, `ThreadSpec`, for `XmppUnanswered`, does not.
* *CallClient*: weak fairness of both threads and of each call's timer.

## 4. What is proved

`SessionProof` proves, for any set of clients, any number of redirects and any
clients that may crash (assuming only `PeerAssumption`):

* `TypeCorrect`: `Spec => []TypeOK`.
* `StatesAreFollowedUp`: `Spec => []FollowUpPosted`. In each state that needs a
  follow-up a MSG_STATE is still posted.
* `ErrorsEndSessions`: `Spec => []ErrorsAreFatal`.
* `DeadReceiveNothing`: `Spec => []NothingForTheDead`.

The last three are not inductive one by one: MSG_ERROR may be dropped only
because a session that is over is deleted by its MSG_STATE, and a deleted
session stays without messages only because nothing posts to it, which depends
on `running`, `failed` and the state at once. `Sound(p)` is the conjunction that
is inductive. Lemmas say what the queue operations do to the messages they hold
(`PostedStates`, `Appended`, `Taken`), that a step of one client leaves the
others sound (`Untouched`, `OthersUntouched`), and that each group of actions
keeps `Sound` of its own client (`CommandSound`, `DispatchSound`,
`HandleStanzaSound`, `WorldSound`); `Soundness` joins them.

* `AnswersStand`: `Spec => []AnswersAgree`, and `ImplementsSetup`:
  `Spec => ImplementsCallSetup`, the refinement. Both relate ends that know each
  other only by the stanzas between them, and follow from one inductive
  invariant, `AgreeInv`. Its centre is that there is *one question* ("will you
  take the call?"): it is with the caller before it asks, in an initiate, with
  the peer that rings, in a redirect, or has been granted, and in no two of these
  places (`OneQuestion`; `Stage` says the same of the places of one peer). Around
  it: who may ask, redirect and accept, and that a redirect leads to a peer that
  has not taken part (`Speech`); which end can be in which state (`Roles`); that a
  caller without a transport has a transport-accept before it on the way
  whenever it has an accept (`Transports`, the assertion in
  `OnMessage(MSG_STATE)`); and that nothing is requested after a refusal, whose
  sender is silent (`LastWord`). Most steps are `Meek`: they take or send nothing
  that belongs to the question, and one lemma covers them (`MeekSteps`). The
  others (Initiate, Accept, Redirect, Ring, OnRedirectMessage, Receive, Bounce)
  move the question, and have a lemma per part of the invariant. In the
  refinement Initiate is Ask, Ring is BeAsked, Grant or End by its answer, Accept
  is Grant, OnAcceptMessage is Learn, Progress is Talk; whatever rejects,
  redirects, terminates or crashes is End, and the rest stutters.
* `AnsweredCallsLast`: `Spec => []AnsweredCallKeepsRunning`, and `TimersFit`:
  `(MaxRedirects = 0) /\ Spec => []TimersFitTheState`. The assumption is needed:
  a redirect stops the timer of a caller that has chosen its transport (section
  5). The inductive `TimedInv` has no such assumption; it says that every session
  but a redirected caller's is watched.

`CallClientProof` proves, for any set of calls (assuming `CallClientAssumption`):

* `HeldCalls`: `Spec => []HeldCallsExist`. The focus is on a call that exists,
  and so is what the client shows once it has made a call. The inductive
  `HeldInv` adds that a session that is not gone has its call
  (`SessionsHaveCalls`): "accept" gives the focus to the call the client shows,
  which may have been deleted if the client never made a call, but then its
  session is gone and there is nothing to accept.
* `CallTypes`: `Spec => []TypeOK`.
* `AudioIsWithTheFocus` and `AnsweredIsSilent`: `[]AudioFollowsFocus` and
  `[]RingingStops`. Both speak of a channel for which nothing is posted. The
  inductive `MediaInv` says what the worker's queue leads to, for whatever is
  posted: the last message of a kind that turns a channel on or off decides
  (`Outcome`), and for a channel that is gone, or was not made, nothing is
  posted. `OutcomePosted`, `OutcomeTaken` and `OutcomeCleared` say how posting,
  the worker's step and a cleared channel change it.

`TransportProof` proves, for any set of channels, any number of redirects and
candidates and queues of any length (assuming `TransportAssumption`):

* `TransportTypes`: `Spec => []TypeOK`. It needs that the resets posted to the
  worker are no more than the redirects before the choice (a candidate belongs
  to the target of the last reset that was done), and that the set of channels
  is finite, for what CallChannels_w posts is a sequence (`TypeInv`).
* `OldMessages`: `Spec => OldMessagesAreCleared`, by the invariant `UnderWay`: a
  held candidate of an earlier target has a reset posted (`StaleIsCleared`). It
  says nothing of a session that was redirected after its transport was chosen:
  no reset is posted for it.
* `WritableAgrees` and `RequestsUnderWay`: `[]WritableIsTheOr` and
  `[]RequestsAreUnderWay`, both on the assumption `~Destroying`. It is needed:
  DestroyChannel_w does not recompute the transport's bits (section 5). What
  `RequestsAreUnderWay` says of the session's timer, but not of candidates and
  signaling, excludes a redirect after the choice, as `TransportLate` shows it
  must.
  `ConnectingIsWatched` is not inductive: it speaks of the channels, while the
  session is told of `writable_`. `Watched` says the same of `writable_`, which
  is inductive, and `WritableIsTheOr` carries it over to the channels.
* `TimerStops`: `[]NoChannelsNoTimer`, for a transport that is not redirected or
  whose channels are not destroyed one by one. With both it is false (section
  5), so the proof has two cases: without redirects a transport that was not
  asked to connect has done nothing yet (`Idle`), and where no channel is
  destroyed there is one as soon as the timer runs (`Keeping`).

What each step posts is a lemma of its own (`CreatePosts`, `ConnectPosts`,
`ResetPosts`, `NetworkPosts`, `OrderPosts`); the invariants then follow action by
action from these.

`ThreadMessagingProof` proves, for any set of threads, any number of messages
and handlers nested to any depth (assuming `ThreadAssumption`):

* `ThreadsTypeOK`: `Spec => []TypeOK`.
* `SendReturnsAnswered`: `Spec => []SendIsSynchronous`, and `ReadyFlagsOutlive`:
  `Spec => []ReadyFlagsLive`. Every stack has Get at its bottom and nowhere else,
  and below its top only what can have called something: ReceiveSends of a Get or
  a Send, a handler in its own call (`Shape`, without which the types are not
  inductive). A message is in one place of all queues and stacks, and neither
  handled nor cleared as long as it is in one (`Unique`); it has one sender
  (`Senders`), and whoever has it finds that sender's Send on its stack (`Live`).
  `SendInv` is the conjunction of these.

* `WakeUpsAreNotLost`: `Spec => []NoWorkIsMissed`. For each thread whose event is
  not signaled, `WakeInv` says what its topmost activities have already seen: Get
  that is about to wait has found its queue empty and `fStop_` false (`GetSees`);
  a Send that is about to wait and was answered is covered by a Send above it,
  which gives the wake-up back when it ends (`AnswerSeen`); and whoever has passed
  ReceiveSends was sent nothing since, except by a thread that is still about to
  wake it (`Received` and what follows).

`P2PChannelProof` proves, for any finite set of connections on any networks
(assuming `P2PChannelAssumption`):

* `P2PTypeOK`, `DeadConnectionsGo` (`[]DeadAreDeleted`), `SortingIsEnough`
  (`[]WritableMeansBest`), `AllocationGoesOn` (`[]KeepsAllocating`) and
  `UpdateChannelStateHolds`, the action property `UpdateChannelStateAssertion`.

They are one inductive invariant, `P2PInv`, kept by SortConnections, which every
caller ends with, and by Aged, which it begins with: aging may kill the best
connection, so what holds of a channel is proved of the state that the sort
leaves and not of the one it starts from.

`PseudoTcpProof` proves, for buffers, segment sizes and windows of any size and any
number of packets under way that may be lost, repeated and overtaken (assuming
`PseudoTcpAssumption`, and `NoWrap`: an end writes fewer bytes than there are
sequence numbers):

* `TypeCorrect` (`[]TypeOK`), `WindowsKept` (`[]WindowIsKept`), `SegmentsCover`
  (`[]SegmentsCoverBuffer`) and `ClosingDelivers` (`[]CloseDeliversAll`).
* `ByteStreamImplemented`: `Spec => ImplementsByteStream`, the refinement: what a
  program reads are the bytes the other one wrote, in their order, and none is
  there twice or left out. A packet changes nothing the programs see;
  `ReadInOrder` and `StreamStep` map the rest.

All of them follow from one inductive invariant, `TcpInv` (theorem
`TcpInvariant`). None of the properties is inductive: that a byte in the receive
buffer is the right one depends on the packet that brought it, and what a packet
may still do when it arrives late depends on both ends at that later time. So
`TcpInv` says

* of an end as a sender (`Sender`): its segments lie one behind the other from
  `sndUna` to the end of its buffer, those that were sent before those that were
  not, and the connect code in a segment of its own;
* of an end as a receiver (`Receiver`): the buffer holds the bytes up to `rcvNxt`
  that were not read, and each entry of `rlist` stands for bytes that lie where
  they will be read once the gap is filled;
* of the two together (`Pair`): numbers and windows are in order
  (`sndUna <= rcvNxt <= sndNxt`, and what may be sent ends where the receive
  buffer ends), and neither `rcvNxt` nor the end of what lies behind a gap falls
  into the middle of one of the sender's segments (`Uncut`), which is why an
  acknowledgement removes whole segments, as the code assumes;
* of each packet under way (`Fits`), however old: its bytes are those its numbers
  say, and its acknowledgement and window are no more than the ends know now;
* who can be in which state (`Role`), and that the acceptor has heard of the
  initiator before it sends (`Heard`).

The operations of an end (acknowledging, receiving, splitting and sending a
segment, closing, reading, writing) keep what `TcpInv` says of that end, which is
`Fine`; a lemma for each (`ClosedFine` to `WrittenFine`) says so, `StepKeeps` lifts
it to both ends and the packets, and one lemma for each action joins them. `SumLen`
adds the lengths of segments as a recursive function over a sequence; that a
split, or a sending, changes no sum is shown with a least counterexample, as
described below.

`XmppSessionProof` proves, for any set of requests and stanzas, and for inputs,
outputs and task lists of any length (assuming `XmppSessionAssumption`):

* `XmppTypeOK`: `Spec => []TypeOK`.
* `StanzasKeepOrder`: `Spec => []StanzasInOrder`. The inductive `XmppInv` says
  more than the order: what was taken begins with what is written, also when the
  engine is closed and has given up the rest, and what follows is what the
  log-in holds back, which is nothing once the log-in is over (`Ordered`,
  `Follows`). It needs that a HandleInput runs by itself, with an engine that was
  open when it began (`InputFits`).
* `TasksRunToTheirEnd`: `Spec => []TasksAreServed`. `ServedInv` adds what the
  runner's list holds (the tasks that exist and no others), that a task which is
  done is blocked and no handler, how far the client task is with its engine and
  its socket, and that the tasks the runner has passed in a round in which
  nothing was done are all blocked (`Pooled`, `Linked`, `Checked`).
* `NothingIsLost`: `Spec => []NothingIsDropped`. The inductive `KeptInv` follows
  each thing a task waits for from its sender to its taker, while the connection
  holds and the engine is not closed. A request is to be sent, with the server, or
  answered, one at a time, and until the answer is read its task is in
  `RESPONSE`, registered with the engine, with an empty queue; afterwards the
  answer is in that queue or told (`Stage`). A peer's request is to be read,
  with the session manager's task, started, or refused, and the first two exclude
  each other and the rest (`Place`). `LoginFits` is what makes this hold from the
  start: nothing a task waits for is read before the answer that ends the log-in,
  because the server sends none before it has been asked for a session, so no
  stanza of a task is taken for one of the log-in. The proof uses that the ids of
  requests are not those of the log-in's own stanzas, an assumption of the module
  (both come from `NextId`), and `XmppInv` and `ServedInv` besides.
* `ClosedStaysClosed`: `Spec => ClosedIsFinal`, by `EndInv`: once closed, the
  engine writes nothing, because what could still run (a task, a stanza in the
  input, the pump) finds the engine closed or the client's end already told.

Queues and stacks have any length in these proofs. What `Append`, `\o`, `Tail` and
`Without` do to what a queue holds is stated once, in `QueueTheorems`. The
library's induction theorems take an operator as a parameter, which no prover
here instantiates. For `Without`, a recursive function over a queue, the
induction is done with a least counterexample instead (`Induct`): the set of
lengths for which a statement about queues is false has a least element, for
which it is then shown to be true.

Only model-checked: all liveness, which is out of the prover's reach
(`EverythingArrives` of PseudoTcp and its like). Every invariant of the runs that
pass is proved.

## 5. What the violated runs show, and other disagreements

* `TransportLate`: session.cc:781 says of the timer that OnRedirectMessage stops:
  "We will start the connection timer from scratch when SignalConnecting fires."
  It does not fire when the transport was chosen before. SetTransport has emptied
  `potential_transports_` (session.cc:461), so the loop at :786 resets nothing,
  `connect_requested_` stays set, and ConnectChannels_w returns before it posts
  MSG_CONNECTING. The trace: the caller initiates and takes the
  transport-accept, its timer runs, the redirect stops it; when all messages are
  handled the channels are still connecting, and no timer runs. It starts again
  only if a connection gets through and is lost. This is the ordinary
  redirect: a callee of this program sends transport-accept as soon as it rings,
  before its user can redirect. Nothing being reset, what the channels have
  found for the old target, and find later, goes to the new one, and the
  candidates that were sent before the redirect are never sent to it.
* `XmppUnanswered`: sessionsendtask.h:42 promises that a request without a
  response signals failure after 5 seconds. The constructor sets 15, nothing
  calls `TaskRunner::PollTasks`, and if something did,
  `Task::ResetTimeout` adds 100 ns units to a clock in milliseconds. A request
  that is never answered stays for as long as the session lasts. `Session`
  therefore does not count on it: its calls end by their own timers.

Met while modelling and seen in these models or in smaller instances of them,
without a run of their own:

* session.cc:447 asserts that no transport was chosen. After a redirect as in
  `TransportLate` the caller still has the transport it chose for the first
  callee, and the target's transport-accept meets the assertion. Because such a
  session may have no timer, `TimersFitTheState` of Session is checked, and
  proved, without redirects, and `ConnectingIsWatched` and
  `OldMessagesAreCleared` of Transport exclude them.
* messagequeue.h:163 promises that pending posts are delivered before Get returns
  false. Get looks at its queue and then at `fStop_`, without the lock; a Post
  and a Stop in between lose the message.
* transport.cc:205 "Clear out the old messages": between the redirect and the
  worker's reset the signaling thread still finds the old target's candidates in
  `messages_` and sends them to the new one, breaking
  `ASSERT(connect_requested_)` in OnChannelMessage_s.
* p2ptransportchannel.cc:68, :907: a channel waits for signaling, becomes
  writable by a connection it already has, and only then is told that signaling
  is ready: it allocates again, and MSG_ALLOCATE comes every 20 seconds for as
  long as the channel stays writable, because HandleWritable clears it only on
  the way to writable. Every round adds an allocator session with all its ports.
* p2ptransportchannel.cc:161: `kMinImprovement` is added to the wrong side, so
  that the channel switches for any improvement, however small.
* `WritableIsTheOr` does not hold when single channels are destroyed, because
  DestroyChannel_w posts no MSG_WRITESTATE. `NoChannelsNoTimer` is checked
  without redirects: with one, a MSG_CONNECTING from before it starts the timer
  of a session whose channels were destroyed in between.
* `ASSERT(state_ == state)` in CheckState fails whenever an answer crosses the
  caller's own hang-up; the next line of the code handles exactly that case.
* A P2P connection that revives while its MSG_DELETE is queued is deleted all the
  same, which leaves `readable_` set when it was the last readable one and not
  the best, and a pruned connection that a late response revives is never pruned
  again.
* pseudotcp.cc:384: what has arrived but was not read cannot be read any more
  once the connection is closed by its clock. pseudotcpchannel.cc:237 and :259:
  AdjustClock stands behind a return in every branch, so that reading and
  writing never set the clock again.
* xmppsocket.cc:52: the close event is not connected, so that a connection the
  server or the network closes is not noticed; the session ends only when
  something else does. `XmppSocket::Close` does nothing once TLS is open. A
  stanza in the same input as the end of the log-in meets no handler, because
  the tasks' handlers are added after the callback of EnterExit.
* `Task::Abort` of a task that is busy leaves it for ever undone, were it ever
  aborted from within its own step.
* callclient.cpp:124 and :131 take the first session of a call that may have
  none. callclient.cpp:370: only a client that has made a call is told that
  calls are deleted. A call that comes in overwrites the one in `call_`, and the
  end of either ends the one that is shown.

## 6. Plan

What would add most, in this order:

1. That a P2P channel does to its transport what the network actions of
   `Transport` allow, as a refinement.
2. *Delayed messages* (`messagequeue.cc`, `Time()` modulo 2^32): order, wrap.

## 7. Not modelled

* Vendored libraries (oRTP, mediastreamer2, speex), the larger part of the
  repository's lines: not this program's logic.
* Sockets, proxies, HTTP, STUN and relay formats: byte streams and parsing; the
  network appears as delivery, loss and order of packets.
* The port allocator and STUN's retransmissions: which connections come, and
  when, is left open in `P2PChannel`.
* The raw transport: `CreateTransports` never creates it.
* File sharing: HTTP over a stream that is modelled, opened by a session that is
  modelled; what remains is formats and files.
* Qt dialogs and the wrapper library: windows and forwarding.
* PHP and JavaScript pages, the text boxes and the primes: no state shared
  between requests, no promise to check; several are unfinished.
