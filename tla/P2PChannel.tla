----------------------------- MODULE P2PChannel -----------------------------
(***************************************************************************)
(* One P2P transport channel, p2ptransportchannel.cc, and its connections, *)
(* class Connection of port.cc.                                            *)
(*                                                                         *)
(* Everything happens on the worker thread.  Timers and what the signaling *)
(* thread posts are handled between any two queued messages; the queue     *)
(* holds what the channel and its connections post to themselves.  Packets *)
(* are handled by the socket server, which is polled when the queue is     *)
(* empty; one pass may handle several packets before the next message.     *)
(* Time is left out: a state may grow old whenever its conditions on the   *)
(* pings allow it.  Ports are left out: which connections they make        *)
(* possible is open.  TCP connections, that may not be connected, are left *)
(* out too.                                                                *)
(***************************************************************************)
EXTENDS FiniteSets, SequencesExt, Queues

CONSTANTS Connection,     \* the connections that ports can create
          NoConnection,   \* NULL
          NetworkOf,      \* the network of a connection's port
          Preference,     \* CompareConnectionCandidates compares these
          Failures,       \* CONNECTION_WRITE_CONNECT_FAILURES
          MinImprovement, \* kMinImprovement
          Rtts,           \* the round trip times that responses show
          MaxAllocations, \* bound: MSG_ALLOCATEs in the delayed queue
          MaxPackets,     \* bound: packets that one pass handles
          MaxQueue        \* bound: no pings and no new connections when so
                          \* many messages are queued

ASSUME P2PChannelAssumption ==
    /\ IsFiniteSet(Connection) /\ NoConnection \notin Connection
    /\ Preference \in [Connection -> Nat]
    /\ DOMAIN NetworkOf = Connection
    /\ Failures \in Nat \ {0}
    /\ MinImprovement \in Nat /\ Rtts \subseteq Nat
    /\ MaxAllocations \in Nat /\ MaxPackets \in Nat /\ MaxQueue \in Nat

VARIABLES
    conn,          \* connections_: the state of each connection there is
    best,          \* best_connection_
    sortDirty,     \* sort_dirty_
    writable,      \* writable_ of the channel
    readable,      \* readable_ of the channel
    wasWritable,   \* was_writable_
    wasTimedOut,   \* was_timed_out_
    connectRequested, \* connect_requested_ of the transport
    waiting,       \* waiting_for_signaling_
    allocated,     \* allocator_sessions_ is not empty
    allocations,   \* how many MSG_ALLOCATEs are in the delayed queue
    pinging,       \* MSG_PING is posted, and posted again when handled
    queue,         \* MSG_SORTs, and the MSG_DELETEs of connections
    polled         \* how many packets this pass has handled; messages wait

sortVars == <<conn, best, sortDirty, writable, readable, wasWritable,
              wasTimedOut, queue>>
allocVars == <<waiting, allocated, allocations>>
vars == <<sortVars, allocVars, connectRequested, pinging, polled>>

\* Connection::WriteState.  Better states have lower values.
WRITABLE == 0
CONNECT  == 1
TIMEOUT  == 2

Sort      == <<"sort">>
Delete(c) == <<"delete", c>>

\* Connection::Connection
NewConnection == [read |-> FALSE, write |-> CONNECT, pruned |-> FALSE,
                  pinged |-> 0,  \* pings_since_last_response_, its length
                  requested |-> FALSE,  \* requests_ has a request in flight
                  rtt |-> 0]

Is(conns, c, state) == c \in DOMAIN conns /\ conns[c].write = state
Readable(conns) == \E c \in DOMAIN conns : conns[c].read
Dead(k) == ~k.read /\ k.write = TIMEOUT

----------------------------------------------------------------------------
(* The states of connections *)

Differs(old, new) == old.read # new.read \/ old.write # new.write

\* Connection::set_read_state and set_write_state, of every connection that
\* changes: the channel requests a sort unless one is due, and a connection
\* that can neither be read nor written any more is to be deleted.
Posted(old, new, dirty) ==
    LET changed == {c \in DOMAIN old : Differs(old[c], new[c])}
        dead    == {c \in changed : Dead(new[c])}
    IN  (IF changed # {} /\ ~dirty THEN <<Sort>> ELSE <<>>)
        \o SetToSeq({Delete(c) : c \in dead})

Changes(old, new) == \E c \in DOMAIN old : Differs(old[c], new[c])

\* Connection::UpdateState: nothing was heard for 30 seconds from the connections
\* of R, Failures pings and 5 seconds were in vain for those of U, and a ping is
\* unanswered since 15 seconds for those of T.
Aged(conns, R, U, T) ==
    [c \in DOMAIN conns |->
        [conns[c] EXCEPT !.read = @ /\ c \notin R,
                         !.write = IF c \in T THEN TIMEOUT
                                   ELSE IF c \in U THEN CONNECT ELSE @]]

\* UpdateConnectionStates: what time makes of the connections.  Those that were
\* just read stay readable.
Updated(conns, fresh) ==
    LET unheard == {c \in DOMAIN conns : conns[c].read /\ c \notin fresh}
        failing == {c \in DOMAIN conns : /\ Is(conns, c, WRITABLE)
                                         /\ conns[c].pinged >= Failures}
        pinged == {c \in DOMAIN conns : Is(conns, c, CONNECT) /\ conns[c].pinged > 0}
    IN  UNION {{Aged(conns, R, U, T) : R \in SUBSET unheard,
                                       T \in SUBSET (U \cup pinged)} :
               U \in SUBSET failing}

\* Connection::Prune of each connection in the set P that was not pruned.
Prune(conns, P) ==
    [c \in DOMAIN conns |->
        IF c \in P /\ ~conns[c].pruned
        THEN [conns[c] EXCEPT !.pruned = TRUE, !.requested = FALSE,
                              !.write = TIMEOUT]
        ELSE conns[c]]

----------------------------------------------------------------------------
(* Sorting *)

\* CompareConnections(a, b) > 0
Better(conns, a, b) ==
    \/ conns[a].write < conns[b].write
    \/ /\ conns[a].write = conns[b].write
       /\ Preference[a] > Preference[b]

\* ConnectionCompare: who is sorted before whom.
Before(conns, a, b) ==
    \/ Better(conns, a, b)
    \/ ~Better(conns, b, a) /\ conns[a].rtt < conns[b].rtt

\* The orders that stable_sort can produce.  The best connection came first
\* and stays before its equals; other equals are in any order.
Sorted(conns) ==
    {s \in [1..Cardinality(DOMAIN conns) -> DOMAIN conns] :
        \A i, j \in DOMAIN s : i < j =>
            /\ s[i] # s[j] /\ ~Before(conns, s[j], s[i])
            /\ s[j] = best => Before(conns, s[i], best)}

ShouldSwitch(conns, a, b) ==
    /\ a # b
    /\ \/ a = NoConnection \/ b = NoConnection
       \/ Better(conns, b, a)
       \/ /\ ~Better(conns, a, b)
          /\ conns[b].rtt <= conns[a].rtt + MinImprovement

\* GetBestConnectionOnNetwork, of a network that some connection is on.
BestOnNetwork(s, b, network) ==
    IF b # NoConnection /\ NetworkOf[b] = network
    THEN b
    ELSE SelectSeq(s, LAMBDA c : NetworkOf[c] = network)[1]

\* Slip: the connection in use is pruned with the others.
SuperfluousToo(conns, s, b) ==
    {c \in DOMAIN conns :
        LET primier == BestOnNetwork(s, b, NetworkOf[c])
        IN  /\ conns[primier].write = WRITABLE
            /\ Preference[primier] >= Preference[c]}

\* The connections that SortConnections prunes.
Superfluous(conns, s, b) ==
    {c \in DOMAIN conns :
        LET primier == BestOnNetwork(s, b, NetworkOf[c])
        IN  /\ c # primier
            /\ conns[primier].write = WRITABLE
            /\ Preference[primier] >= Preference[c]}

\* HandleWritable: allocating stops.
HandleWritable ==
    /\ wasWritable' = TRUE /\ wasTimedOut' = FALSE /\ writable' = TRUE
    /\ allocations' = IF writable THEN allocations ELSE 0
    /\ UNCHANGED waiting

\* Slip: new ports are allocated only when all connections timed out.
HandleNotWritableYet ==
    /\ wasWritable' = FALSE /\ wasTimedOut' = FALSE /\ writable' = FALSE
    /\ UNCHANGED <<waiting, allocations>>

\* HandleNotWritable; OnAllocate waits for signaling.
HandleNotWritable ==
    /\ waiting' = (waiting \/ wasWritable)
    /\ wasWritable' = FALSE /\ wasTimedOut' = FALSE /\ writable' = FALSE
    /\ UNCHANGED allocations

\* HandleAllTimedOut
HandleAllTimedOut ==
    /\ waiting' = (waiting \/ ~wasTimedOut)
    /\ wasWritable' = FALSE /\ wasTimedOut' = TRUE /\ writable' = FALSE
    /\ UNCHANGED allocations

\* SortConnections, when the handler has left the connections and the queue
\* as given, dirty tells whether a sort is due, and fresh was just read.
SortConnections(conns, q, dirty, fresh) ==
    \E new \in Updated(conns, fresh) : \E s \in Sorted(new) :
        LET top == IF s = <<>> THEN NoConnection ELSE s[1]
            b == IF ShouldSwitch(new, best, top) THEN top ELSE best
            pruned == Prune(new, Superfluous(new, s, b))
        IN  /\ conn' = pruned
            /\ best' = b
            /\ queue' = q \o Posted(conns, new, dirty) \o Posted(new, pruned, FALSE)
            /\ sortDirty' = Changes(new, pruned)
            /\ IF \E c \in DOMAIN pruned : Is(pruned, c, WRITABLE)
               THEN HandleWritable
               ELSE IF \E c \in DOMAIN pruned : Is(pruned, c, CONNECT)
               THEN HandleNotWritable
               ELSE HandleAllTimedOut
            /\ readable' = Readable(pruned)
            /\ UNCHANGED allocated

----------------------------------------------------------------------------
Init ==
    /\ conn = [c \in {} |-> NewConnection] /\ best = NoConnection
    /\ sortDirty = FALSE /\ queue = <<>> /\ polled = 0
    /\ writable = FALSE /\ readable = FALSE
    /\ wasWritable = FALSE /\ wasTimedOut = TRUE
    /\ connectRequested = FALSE
    /\ waiting = FALSE /\ allocated = FALSE /\ allocations = 0
    /\ pinging = FALSE

----------------------------------------------------------------------------
(* What the transport calls *)

\* Connect
Connect ==
    /\ ~connectRequested /\ connectRequested' = TRUE
    /\ waiting' = TRUE
    /\ pinging' = TRUE
    /\ polled' = 0
    /\ UNCHANGED <<sortVars, allocated, allocations>>

\* Reset, after ResetChannels_w has reset connect_requested_.
Reset ==
    /\ connectRequested' = FALSE
    /\ conn' = [c \in {} |-> NewConnection] /\ best' = NoConnection
    /\ writable' = FALSE /\ readable' = FALSE
    /\ waiting' = FALSE /\ allocated' = FALSE
    /\ sortDirty' = FALSE /\ wasWritable' = FALSE /\ wasTimedOut' = TRUE
    /\ allocations' = 0 /\ queue' = <<>>
    /\ pinging' = TRUE
    /\ polled' = 0

\* OnSignalingReady, AddAllocatorSession
OnSignalingReady ==
    /\ waiting /\ allocations < MaxAllocations
    /\ waiting' = FALSE /\ allocated' = TRUE
    /\ allocations' = allocations + 1
    /\ polled' = 0
    /\ UNCHANGED <<sortVars, connectRequested, pinging>>

\* The socket server handles packets when no message is queued.
Poll ==
    /\ polled > 0 \/ queue = <<>>
    /\ polled < MaxPackets
    /\ polled' = polled + 1

\* Connections are created when a port is ready (OnPortReady), a candidate was
\* received (OnChannelMessage) or an unknown address pings (OnUnknownAddress).
CreateConnections(C, pinged) ==
    /\ allocated /\ Len(queue) < MaxQueue
    /\ C \subseteq Connection \ DOMAIN conn /\ pinged \subseteq C
    /\ IF pinged = {} THEN polled' = 0 ELSE Poll
    /\ LET conns == [c \in DOMAIN conn \cup C |->
                        IF c \in DOMAIN conn THEN conn[c]
                        ELSE [NewConnection EXCEPT !.read = c \in pinged]]
           q == IF pinged # {} /\ ~sortDirty THEN Append(queue, Sort) ELSE queue
       IN  SortConnections(conns, q, sortDirty \/ pinged # {}, pinged)
    /\ UNCHANGED <<connectRequested, pinging>>

----------------------------------------------------------------------------
(* The messages of the channel and its connections *)

\* OnSort
OnSort ==
    /\ queue # <<>> /\ Head(queue) = Sort
    /\ SortConnections(conn, Tail(queue), sortDirty, {})
    /\ polled' = 0
    /\ UNCHANGED <<connectRequested, pinging>>

\* Slip: the connection stays in use.
OnDeleteInUse(c) ==
    /\ queue # <<>> /\ Head(queue) = Delete(c)
    /\ conn' = [d \in DOMAIN conn \ {c} |-> conn[d]]
    /\ queue' = Without(queue, {Delete(c)})
    /\ polled' = 0
    /\ UNCHANGED <<best, sortDirty, writable, readable, wasWritable, wasTimedOut,
                   allocVars, connectRequested, pinging>>

\* Slip: no sort chooses the next connection.
OnDeleteUnsorted(c) ==
    /\ queue # <<>> /\ Head(queue) = Delete(c)
    /\ conn' = [d \in DOMAIN conn \ {c} |-> conn[d]]
    /\ queue' = Without(queue, {Delete(c)})
    /\ best' = IF best = c THEN NoConnection ELSE best
    /\ polled' = 0
    /\ UNCHANGED <<sortDirty, writable, readable, wasWritable, wasTimedOut,
                   allocVars, connectRequested, pinging>>

\* Slip: the other messages to the connection stay queued.
OnDeleteOnce(c) ==
    /\ queue # <<>> /\ Head(queue) = Delete(c)
    /\ conn' = [d \in DOMAIN conn \ {c} |-> conn[d]]
    /\ IF best = c
       THEN /\ best' = NoConnection
            /\ queue' = IF sortDirty THEN Tail(queue) ELSE Append(Tail(queue), Sort)
            /\ sortDirty' = TRUE
       ELSE queue' = Tail(queue) /\ UNCHANGED <<best, sortDirty>>
    /\ polled' = 0
    /\ UNCHANGED <<writable, readable, wasWritable, wasTimedOut, allocVars,
                   connectRequested, pinging>>

\* Connection::OnMessage, OnConnectionDestroyed.  What else is posted to the
\* connection goes with it.
OnDelete(c) ==
    /\ queue # <<>> /\ Head(queue) = Delete(c)
    /\ conn' = [d \in DOMAIN conn \ {c} |-> conn[d]]
    /\ LET q == Without(queue, {Delete(c)})
       IN  IF best = c
           THEN /\ best' = NoConnection
                /\ queue' = IF sortDirty THEN q ELSE Append(q, Sort)
                /\ sortDirty' = TRUE
           ELSE queue' = q /\ UNCHANGED <<best, sortDirty>>
    /\ polled' = 0
    /\ UNCHANGED <<writable, readable, wasWritable, wasTimedOut, allocVars,
                   connectRequested, pinging>>

\* set_read_state and set_write_state outside of SortConnections.
Become(new) ==
    /\ conn' = new
    /\ queue' = queue \o Posted(conn, new, sortDirty)
    /\ sortDirty' = (sortDirty \/ Changes(conn, new))
    /\ UNCHANGED <<best, writable, readable, wasWritable, wasTimedOut, allocVars,
                   connectRequested, pinging>>

IsPingable(k) == k.write # TIMEOUT \/ (~writable /\ k.read)

\* Connection::Ping; more than Failures unanswered pings change nothing.
Ping(k) == [k EXCEPT !.requested = TRUE,
                     !.pinged = IF @ < Failures THEN @ + 1 ELSE @]

\* OnPing; the next MSG_PING is posted.  Which of the pingable connections is
\* next depends on the times.
OnPing ==
    /\ pinging /\ Len(queue) < MaxQueue
    /\ \E new \in Updated(conn, {}) :
        LET pingable == {c \in DOMAIN new : IsPingable(new[c])}
        IN  IF pingable = {} THEN Become(new)
            ELSE \E c \in pingable :
                    Become([new EXCEPT ![c] = Ping(@)])
    /\ polled' = 0

\* OnMessage(MSG_ALLOCATE), OnAllocate
OnAllocate ==
    /\ allocations > 0 /\ allocations' = allocations - 1
    /\ waiting' = TRUE
    /\ polled' = 0
    /\ UNCHANGED <<sortVars, allocated, connectRequested, pinging>>

\* StunRequest::OnMessage: the last request in flight gets no response.
RequestTimesOut(c) ==
    /\ c \in DOMAIN conn /\ conn[c].requested
    /\ conn' = [conn EXCEPT ![c].requested = FALSE]
    /\ polled' = 0
    /\ UNCHANGED <<best, sortDirty, writable, readable, wasWritable,
                   wasTimedOut, queue, allocVars, connectRequested, pinging>>

----------------------------------------------------------------------------
(* Packets *)

\* If timed out sending writability checks, start up again.
StartUpAgain(k) ==
    IF ~k.pruned /\ k.write = TIMEOUT THEN [k EXCEPT !.write = CONNECT] ELSE k

\* Connection::OnReadPacket of a binding request.
OnBindingRequest(c) ==
    /\ c \in DOMAIN conn /\ Poll
    /\ Become([conn EXCEPT ![c] = StartUpAgain([@ EXCEPT !.read = TRUE])])

\* Connection::OnReadPacket of data.
OnData(c) ==
    /\ c \in DOMAIN conn /\ Poll
    /\ conn[c].read
    /\ Become([conn EXCEPT ![c] = StartUpAgain(@)])

\* What an answer makes of the connection k.
Answered(k, more, rtt) ==
    [k EXCEPT !.write = WRITABLE, !.pinged = 0, !.requested = more,
              !.rtt = (3 * @ + rtt) \div 4]

\* OnConnectionRequestResponse; other requests may still be in flight.
OnBindingResponse(c) ==
    /\ c \in DOMAIN conn /\ conn[c].requested /\ Poll
    /\ \E more \in BOOLEAN, rtt \in Rtts :
        Become([conn EXCEPT ![c] = Answered(@, more, rtt)])

\* What an error makes of it.
Refused(k, more, retry) ==
    [k EXCEPT !.requested = more, !.write = IF retry THEN @ ELSE TIMEOUT]

\* OnConnectionRequestErrorResponse; some errors are retried.
OnBindingError(c) ==
    /\ c \in DOMAIN conn /\ conn[c].requested /\ Poll
    /\ \E more, retry \in BOOLEAN :
        Become([conn EXCEPT ![c] = Refused(@, more, retry)])

----------------------------------------------------------------------------
Next ==
    \/ Connect \/ Reset \/ OnSignalingReady
    \/ \E C \in SUBSET Connection : \E pinged \in SUBSET C :
          CreateConnections(C, pinged)
    \/ OnSort \/ OnPing \/ OnAllocate
    \/ \E c \in Connection :
          \/ OnDelete(c) \/ RequestTimesOut(c)
          \/ OnBindingRequest(c) \/ OnData(c)
          \/ OnBindingResponse(c) \/ OnBindingError(c)

Spec == Init /\ [][Next]_vars

----------------------------------------------------------------------------
(* Properties *)

\* Every variable has its type.
TypeOK ==
    /\ DOMAIN conn \subseteq Connection
    /\ conn \in [DOMAIN conn -> [read : BOOLEAN, write : {WRITABLE, CONNECT, TIMEOUT},
                                 pruned : BOOLEAN, pinged : 0..Failures,
                                 requested : BOOLEAN, rtt : Nat]]
    /\ best \in DOMAIN conn \cup {NoConnection}
    /\ {sortDirty, writable, readable, wasWritable, wasTimedOut,
        connectRequested, waiting, allocated, pinging} \subseteq BOOLEAN
    /\ polled \in 0..MaxPackets /\ allocations \in 0..MaxAllocations
    /\ queue \in Seq({Sort} \cup {Delete(c) : c \in Connection})

Queued(m) == Has(queue, m)

\* A connection that is neither readable nor writable has its MSG_DELETE
\* queued, and every MSG_DELETE is for a connection that exists.
DeadAreDeleted ==
    /\ \A c \in DOMAIN conn : Dead(conn[c]) => Queued(Delete(c))
    /\ \A c \in Connection : Queued(Delete(c)) => c \in DOMAIN conn

\* Once MSG_SORT is handled the channel is writable exactly when its best
\* connection is, and it uses a writable connection if it has one: every
\* change of a connection leads to a sort.
WritableMeansBest ==
    Queued(Sort) \/
        /\ ~sortDirty
        /\ writable <=> Is(conn, best, WRITABLE)
        /\ (\E c \in DOMAIN conn : Is(conn, c, WRITABLE)) => writable

\* UpdateChannelState asserts that the channel is writable exactly when its
\* best connection is: it is when the channel's state changes, and no sort
\* prunes the connection that it leaves in use.
UpdateChannelStateAssertion ==
    [][/\ writable' # writable => (writable' <=> Is(conn', best', WRITABLE))
       /\ best' \in DOMAIN conn /\ conn'[best'].pruned => conn[best'].pruned]_vars

\* While a channel tries to connect and is not writable, the next allocation
\* is waited for or its time is running: a channel that has lost all its
\* connections gets new ports.
KeepsAllocating ==
    connectRequested /\ ~writable => waiting \/ allocations > 0
=============================================================================
