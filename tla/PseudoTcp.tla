----------------------------- MODULE PseudoTcp ------------------------------
(***************************************************************************)
(* A pseudo-TCP connection, pseudotcp.cc, between two ends, each used      *)
(* through the stream of its PseudoTcpChannel, pseudotcpchannel.cc, over a *)
(* transport channel that loses, repeats and reorders packets.             *)
(*                                                                         *)
(* A byte is the number it has among the bytes its writer wrote; byte 0 is *)
(* the connect control code, which has a sequence number as well.  Time is *)
(* left out: each of the three clocks may be due whenever it runs.  The    *)
(* congestion window is left open: at any time any window that lets one    *)
(* segment pass.  Everything an end does happens under the lock of its     *)
(* channel.  The loop of attemptSend is one step for each packet; while it *)
(* runs (`sending') the end does nothing else, and what the other end may  *)
(* do meanwhile it may as well do later, so that it waits.                 *)
(***************************************************************************)
EXTENDS Naturals, Sequences, FiniteSets, SequencesExt

CONSTANTS Initiator, Acceptor, \* the two ends
          SndBuf, RcvBuf,      \* kSndBufSize, kRcvBufSize
          Mss,                 \* the segment sizes of PACKET_MAXIMUMS
          Cwnd,                \* the sizes the congestion window can have
          DupAcks,             \* 3: acknowledgements that mean a loss
          MaxXmit,             \* 15: transmissions of one segment
          MaxConnectXmit,      \* 30: the same while the connection is made
          SeqSpace,            \* 2^32: sequence numbers are unsigned ints
          MaxProbes,           \* how many probes fit into 15 seconds
          Closing,             \* bound: ends whose programs close
          MaxWritten,          \* bound: bytes that each end writes
          WriteSize, ReadSize, \* bounds: bytes of one call
          MaxPackets,          \* bound: packets under way to one end
          MaxRepeats           \* bound: packets that arrive twice

Side == {Initiator, Acceptor}
Peer(e) == IF e = Initiator THEN Acceptor ELSE Initiator

ASSUME PseudoTcpAssumption ==
    /\ Initiator # Acceptor
    /\ SndBuf \in Nat \ {0} /\ RcvBuf \in Nat \ {0}
    /\ Mss \subseteq Nat \ {0} /\ Mss # {} /\ IsFiniteSet(Mss)
    /\ Cwnd \subseteq Nat /\ \A m \in Mss : \E w \in Cwnd : w >= m
    /\ DupAcks \in Nat \ {0} /\ MaxXmit \in Nat \ {0}
    /\ MaxConnectXmit \in Nat \ {0} /\ MaxProbes \in Nat
    /\ SeqSpace \in Nat /\ SndBuf < SeqSpace /\ RcvBuf < SeqSpace
    /\ MaxWritten \in [Side -> Nat] /\ Closing \subseteq Side
    /\ WriteSize \in Nat /\ ReadSize \in Nat
    /\ MaxPackets \in Nat /\ MaxRepeats \in Nat

VARIABLES
    tcp,      \* tcp[e]: the members of PseudoTcp, see NewTcp
    sending,  \* the end whose attemptSend loops, the flags it was called with
              \* and whether OnTcpReadable is called behind it
    net,      \* net[e]: the packets under way to e
    repeats,  \* how many packets the network has repeated
    events,   \* events[e]: the MSG_ST_EVENTs posted to e's stream
    written,  \* how many bytes each end has written
    received  \* the bytes each end has read

vars == <<tcp, sending, net, repeats, events, written, received>>

Smallest(S) == CHOOSE m \in S : \A n \in S : m <= n
Largest(S)  == CHOOSE m \in S : \A n \in S : m >= n
Least(m, n) == IF m <= n THEN m ELSE n

Plus(m, n)  == (m + n) % SeqSpace
Minus(m, n) == (SeqSpace + m - n) % SeqSpace

----------------------------------------------------------------------------
(* Connections *)

\* PseudoTcp::PseudoTcp
NewTcp ==
    [state |-> "LISTEN",  \* m_state, or "DELETED" once tcp_ is NULL
     closing |-> FALSE,   \* m_shutdown = SD_GRACEFUL
     mss |-> Smallest(Mss),
     sbuf |-> << >>,      \* m_sbuf, its first m_slen bytes
     slist |-> << >>,     \* m_slist
     sndUna |-> 0, sndNxt |-> 0, sndWnd |-> 1,
     rbuf |-> [i \in 1..RcvBuf |-> 0],
     rlen |-> 0,
     rlist |-> {},        \* m_rlist, whose order is that of its numbers
     rcvNxt |-> 0, rcvWnd |-> RcvBuf,
     readEnable |-> TRUE, writeEnable |-> FALSE,
     tAck |-> FALSE,      \* m_t_ack: the delayed acknowledgement's clock runs
     rtoBase |-> FALSE,   \* m_rto_base: the retransmission clock runs
     dupAcks |-> 0, recover |-> 0,
     silent |-> 0]        \* probes since m_lastrecv

Idle == [flags |-> "idle", end |-> Initiator, readable |-> FALSE]

Init ==
    /\ tcp = [e \in Side |-> NewTcp]
    /\ sending = Idle
    /\ net = [e \in Side |-> {}]
    /\ repeats = 0
    /\ events = [e \in Side |-> {}]
    /\ written = [e \in Side |-> 0]
    /\ received = [e \in Side |-> << >>]

InFlight(t) == Minus(t.sndNxt, t.sndUna)

\* How many bytes the segments have.
SumLen(slist) ==
    LET sum[i \in 0..Len(slist)] ==
            IF i = 0 THEN 0 ELSE sum[i - 1] + slist[i].len
    IN  sum[Len(slist)]

\* A segment is given up after so many transmissions, twice as many while the
\* connection is being made.
XmitLimit(t) == IF t.state = "ESTABLISHED" THEN MaxXmit ELSE MaxConnectXmit

\* More of a segment that was not sent yet, or a new one.
Enqueued(slist, seq, len, ctl) ==
    LET n == Len(slist)
    IN  IF n > 0 /\ slist[n].ctl = ctl /\ slist[n].xmit = 0
        THEN [slist EXCEPT ![n].len = @ + len]
        ELSE Append(slist, [seq |-> seq, len |-> len, ctl |-> ctl, xmit |-> 0])

\* PseudoTcp::queue
Queue(t, data, ctl) ==
    [t EXCEPT
      !.sbuf = @ \o data,
      !.slist = Enqueued(@, Plus(t.sndUna, Len(t.sbuf)), Len(data), ctl)]

\* PseudoTcp::packet
Packet(t, seq, ctl, data) ==
    [seq |-> seq, ack |-> t.rcvNxt, wnd |-> t.rcvWnd, ctl |-> ctl,
     data |-> data]

\* PseudoTcpChannel::TcpWritePacket.  The packet gets lost or gets under way.
Sent(packets, e, p) ==
    {packets} \cup
    IF Cardinality(packets[Peer(e)]) < MaxPackets
    THEN {[packets EXCEPT ![Peer(e)] = @ \cup {p}]} ELSE {}

\* Slip: the rest keeps the number of the whole.
SplitUnnumbered(slist, i, n) ==
    LET s == slist[i]
    IN  IF n = s.len THEN slist
        ELSE SubSeq(slist, 1, i - 1)
             \o <<[s EXCEPT !.len = n], [s EXCEPT !.len = @ - n]>>
             \o SubSeq(slist, i + 1, Len(slist))

\* The first n bytes of the segment are one, the rest becomes another.
Split(slist, i, n) ==
    LET s == slist[i]
    IN  IF n = s.len THEN slist
        ELSE SubSeq(slist, 1, i - 1)
             \o <<[s EXCEPT !.len = n],
                  [s EXCEPT !.seq = Plus(@, n), !.len = @ - n]>>
             \o SubSeq(slist, i + 1, Len(slist))

\* PseudoTcp::transmit.  The path may be too narrow for the segment, then
\* the segment size falls until the path takes it.
PathMss(t, i) ==
    {t.mss} \cup {m \in Mss : m < Least(t.slist[i].len, t.mss)}

SegmentSize(t, i, mss) == Least(t.slist[i].len, mss)

SegmentPacket(t, i, mss) ==
    LET s == t.slist[i]
        offset == Minus(s.seq, t.sndUna)
    IN  Packet(t, s.seq, s.ctl,
               SubSeq(t.sbuf, offset + 1, offset + SegmentSize(t, i, mss)))

Counted(slist, i) == [slist EXCEPT ![i].xmit = @ + 1]

Transmitted(t, i, mss) ==
    LET s == t.slist[i]
        n == SegmentSize(t, i, mss)
    IN  [t EXCEPT
          !.mss = mss,
          !.slist = Counted(Split(@, i, n), i),
          !.sndNxt = IF s.xmit = 0 THEN Plus(@, n) ELSE @,
          !.rtoBase = TRUE,
          !.tAck = FALSE]

\* PseudoTcp::closedown
Closed(t) == [t EXCEPT !.state = "CLOSED", !.sbuf = << >>]

\* Slip: what the peer has not acknowledged does not count.
AdjustedEarly(t) == IF t.closing THEN [t EXCEPT !.state = "DELETED"] ELSE t

\* PseudoTcpChannel::AdjustClock deletes tcp_ when PseudoTcp::clock_check
\* says that nothing is left to do.
Adjusted(t) ==
    IF t.closing
       /\ (t.state # "ESTABLISHED" \/ (t.sbuf = << >> /\ ~t.tAck))
    THEN [t EXCEPT !.state = "DELETED"]
    ELSE t

\* The stream of an end that closed it gets no more events.
Post(e, t, E) == events' = [events EXCEPT ![e] = IF t.closing THEN {}
                                                 ELSE @ \cup E]

AttemptSend(e, flags, readable) ==
    sending' = [flags |-> flags, end |-> e, readable |-> readable]

Free == sending = Idle

----------------------------------------------------------------------------
(* The programs at the two ends *)

\* PseudoTcpChannel::OnChannelWritableState: the initiator connects.
Connect ==
    LET t == tcp[Initiator]
    IN  /\ Free /\ t.state = "LISTEN"
        /\ tcp' = [tcp EXCEPT ![Initiator] =
                     Queue([t EXCEPT !.state = "SYN_SENT"], <<0>>, TRUE)]
        /\ AttemptSend(Initiator, "none", FALSE)
        /\ UNCHANGED <<net, events, repeats, written, received>>

\* A program writes while its stream is writable: PseudoTcp::Send.  What does
\* not fit is left to the program.
Write(e, n) ==
    LET t == tcp[e]
        m == Least(n, SndBuf - Len(t.sbuf))
    IN  /\ Free /\ "write" \in events[e] /\ t.state = "ESTABLISHED"
        /\ IF Len(t.sbuf) = SndBuf
           THEN /\ tcp' = [tcp EXCEPT ![e].writeEnable = TRUE]
                /\ events' = [events EXCEPT ![e] = @ \ {"write"}]
                /\ UNCHANGED <<sending, written>>
           ELSE /\ written[e] + n <= MaxWritten[e]
                /\ tcp' = [tcp EXCEPT ![e] =
                             Queue(t, [i \in 1..m |-> written[e] + i], FALSE)]
                /\ written' = [written EXCEPT ![e] = @ + m]
                /\ AttemptSend(e, "none", FALSE)
                /\ UNCHANGED events
        /\ UNCHANGED <<net, repeats, received>>

\* Slip: only the bytes move that are in order.
TakenInOrder(t, m) ==
    [t EXCEPT !.rlen = @ - m,
              !.rbuf = [i \in 1..RcvBuf |-> IF i + m <= t.rlen THEN @[i + m]
                                            ELSE 0]]

\* What is left of the receive buffer when the first m bytes are read: the
\* whole rest moves up, with what has arrived out of order behind a gap.
Taken(t, m) ==
    [t EXCEPT !.rlen = @ - m,
              !.rbuf = [i \in 1..RcvBuf |-> IF i + m <= RcvBuf THEN @[i + m]
                                            ELSE 0]]

\* Slip: what is not read yet is forgotten.
OpenedWide(t) == [t EXCEPT !.rcvWnd = RcvBuf]

\* A window opens as far as there is room.
Opened(t) == [t EXCEPT !.rcvWnd = RcvBuf - t.rlen]

\* A program reads when its stream says so: PseudoTcpChannel::Read and
\* PseudoTcp::Recv.  As long as it gets something, Read posts the event again.
\* The window opens when enough is free, and is announced when it was shut.
Read(e, n) ==
    LET t == tcp[e]
        m == Least(n, t.rlen)
        u == Taken(t, m)
        opens == RcvBuf - u.rlen - t.rcvWnd >= Least(RcvBuf \div 2, t.mss)
    IN  /\ Free /\ "read" \in events[e] /\ t.state = "ESTABLISHED"
        /\ IF t.rlen = 0
           THEN /\ tcp' = [tcp EXCEPT ![e].readEnable = TRUE]
                /\ events' = [events EXCEPT ![e] = @ \ {"read"}]
                /\ UNCHANGED <<sending, received>>
           ELSE /\ tcp' = [tcp EXCEPT ![e] = IF opens THEN Opened(u) ELSE u]
                /\ received' = [received EXCEPT ![e] =
                                  @ \o SubSeq(t.rbuf, 1, m)]
                /\ IF opens /\ t.rcvWnd = 0
                   THEN AttemptSend(e, "immediate", FALSE)
                   ELSE UNCHANGED sending
                /\ UNCHANGED events
        /\ UNCHANGED <<net, repeats, written>>

\* PseudoTcpChannel::Close
Close(e) ==
    /\ Free /\ e \in Closing /\ ~tcp[e].closing
    /\ tcp' = [tcp EXCEPT ![e] = Adjusted([@ EXCEPT !.closing = TRUE])]
    /\ events' = [events EXCEPT ![e] = {}]
    /\ UNCHANGED <<sending, net, repeats, written, received>>

----------------------------------------------------------------------------
(* PseudoTcp::attemptSend *)

\* What the windows let pass now, and nothing rather than a sliver.
Available(t, cwnd) ==
    LET window == Least(t.sndWnd, cwnd)
        useable == IF InFlight(t) < window THEN window - InFlight(t) ELSE 0
        wanted == Least(Len(t.sbuf) - InFlight(t), t.mss)
    IN  IF wanted <= useable THEN wanted
        ELSE IF useable * 4 < window THEN 0 ELSE useable

\* While something is in flight only full segments follow.
Holds(t, n) == t.sndNxt # t.sndUna /\ n < t.mss

FirstUnsent(t) == Smallest({i \in DOMAIN t.slist : t.slist[i].xmit = 0})

SendSegment(e) ==
    LET t == tcp[e]
    IN  /\ ~Free /\ sending.end = e
        /\ \E cwnd \in {w \in Cwnd : w >= t.mss} :
             LET n == Available(t, cwnd)
                 i == FirstUnsent(t)
                 u == IF t.slist[i].len > n
                      THEN [t EXCEPT !.slist = Split(@, i, n)] ELSE t
             IN  /\ n > 0 /\ ~Holds(t, n)
                 /\ \E mss \in PathMss(u, i) :
                      /\ net' \in Sent(net, e, SegmentPacket(u, i, mss))
                      /\ tcp' = [tcp EXCEPT ![e] = Transmitted(u, i, mss)]
        /\ AttemptSend(e, "none", sending.readable)
        /\ UNCHANGED <<events, repeats, written, received>>

\* The end of attemptSend and of its caller, which calls OnTcpReadable if
\* there is something to read, and AdjustClock.
StopSending(e) ==
    LET t == tcp[e]
        flags == sending.flags
        readable == sending.readable /\ t.readEnable
        u == [t EXCEPT !.readEnable = @ /\ ~readable]
    IN  /\ ~Free /\ sending.end = e
        /\ \E cwnd \in {w \in Cwnd : w >= t.mss} :
             \/ /\ Available(t, cwnd) = 0
                /\ \/ /\ flags = "none"
                      /\ tcp' = [tcp EXCEPT ![e] = Adjusted(u)]
                      /\ UNCHANGED net
                   \/ /\ flags = "immediate" \/ (flags = "delayed" /\ t.tAck)
                      /\ net' \in Sent(net, e, Packet(t, t.sndNxt, FALSE, << >>))
                      /\ tcp' = [tcp EXCEPT ![e] =
                                   Adjusted([u EXCEPT !.tAck = FALSE])]
                   \/ /\ flags = "delayed" /\ ~t.tAck
                      /\ tcp' = [tcp EXCEPT ![e] =
                                   Adjusted([u EXCEPT !.tAck = TRUE])]
                      /\ UNCHANGED net
             \/ /\ Available(t, cwnd) > 0 /\ Holds(t, Available(t, cwnd))
                /\ tcp' = [tcp EXCEPT ![e] = Adjusted(u)]
                /\ UNCHANGED net
        /\ Post(e, t, IF readable THEN {"read"} ELSE {})
        /\ sending' = Idle
        /\ UNCHANGED <<repeats, written, received>>

----------------------------------------------------------------------------
(* PseudoTcp::process *)

\* A connect from the peer.
Established(t) == [t EXCEPT !.state = "ESTABLISHED", !.mss = Largest(Mss)]

Connected(t, p) ==
    IF ~p.ctl THEN t
    ELSE CASE t.state = "LISTEN" ->
                Queue([t EXCEPT !.state = "SYN_RECEIVED"], <<0>>, TRUE)
           [] t.state = "SYN_SENT" -> Established(t)
           [] OTHER -> t

\* The packet acknowledges something that was not acknowledged yet.
Acknowledges(t, p) == p.ack > t.sndUna /\ p.ack <= t.sndNxt

\* Slip: a segment that is acknowledged to its last byte is left, empty.
UnacknowledgedEmpty(slist, n) ==
    LET whole == {i \in DOMAIN slist : SumLen(SubSeq(slist, 1, i)) < n}
        k == Cardinality(whole)
        left == SubSeq(slist, k + 1, Len(slist))
    IN  IF left = << >> THEN left
        ELSE [left EXCEPT ![1].len = @ - (n - SumLen(SubSeq(slist, 1, k)))]

\* The segments that are left when the first n bytes are acknowledged.
Unacknowledged(slist, n) ==
    LET whole == {i \in DOMAIN slist : SumLen(SubSeq(slist, 1, i)) <= n}
        k == Cardinality(whole)
        left == SubSeq(slist, k + 1, Len(slist))
    IN  IF left = << >> THEN left
        ELSE [left EXCEPT ![1].len = @ - (n - SumLen(SubSeq(slist, 1, k)))]

Acknowledged(t, p) ==
    LET n == Minus(p.ack, t.sndUna)
        sbuf == SubSeq(t.sbuf, n + 1, Len(t.sbuf))
        opened == t.state = "SYN_RECEIVED" /\ ~p.ctl
        u == [t EXCEPT
               !.sndWnd = p.wnd, !.sndUna = p.ack,
               !.rtoBase = p.ack # t.sndNxt,
               !.sbuf = sbuf,
               !.slist = Unacknowledged(@, n),
               !.dupAcks = IF @ >= DupAcks /\ p.ack < t.recover THEN @ ELSE 0,
               !.writeEnable = @ /\ Len(sbuf) >= (SndBuf + RcvBuf) \div 2]
    IN  IF opened THEN Established(u) ELSE u

\* Slip: an old acknowledgement says nothing of the window either.
DuplicateIgnored(t, p) == t

\* The packet has no data and acknowledges what was acknowledged already.
Duplicate(t, p) ==
    [t EXCEPT
      !.sndWnd = p.wnd,
      !.dupAcks = IF p.data # << >> THEN @
                  ELSE IF t.sndUna = t.sndNxt THEN 0
                  ELSE Least(@ + 1, DupAcks + 1),
      !.recover = IF /\ p.data = << >> /\ t.sndUna # t.sndNxt
                     /\ t.dupAcks + 1 = DupAcks
                  THEN t.sndNxt ELSE @]

AckHandled(t, p) ==
    IF Acknowledges(t, p) THEN Acknowledged(t, p)
    ELSE IF p.ack = t.sndUna THEN Duplicate(t, p)
    ELSE t

\* Fast retransmit, when one duplicate too many has come or an
\* acknowledgement during the recovery does not reach its end.
Retransmits(t, p) ==
    IF Acknowledges(t, p) THEN t.dupAcks >= DupAcks /\ p.ack < t.recover
    ELSE /\ p.ack = t.sndUna /\ p.data = << >>
         /\ t.sndUna # t.sndNxt /\ t.dupAcks + 1 = DupAcks

\* The data of the packet that is new and fits: where it begins and its end.
NewData(t, p) ==
    LET skip == IF p.seq < t.rcvNxt THEN Minus(t.rcvNxt, p.seq) ELSE 0
        data == SubSeq(p.data, skip + 1, Len(p.data))
        seq  == IF skip < Len(p.data) THEN Plus(p.seq, skip) ELSE p.seq
        room == RcvBuf - t.rlen
        end  == Minus(Plus(seq, Len(data)), t.rcvNxt)
        over == IF end > room THEN end - room ELSE 0
    IN  [seq |-> seq, data |-> SubSeq(data, 1, IF over < Len(data)
                                               THEN Len(data) - over ELSE 0)]

\* From here on the segments of m_rlist are in order.
InOrder(t, next) ==
    {s \in t.rlist : \A q \in next..(s.seq - 1) :
        \E r \in t.rlist : r.seq <= q /\ q < r.seq + r.len}

Received(t, p) ==
    LET d == NewData(t, p)
        n == Len(d.data)
        offset == Minus(d.seq, t.rcvNxt)
        rbuf == [i \in 1..RcvBuf |->
                   IF i - t.rlen - offset \in 1..n
                   THEN d.data[i - t.rlen - offset] ELSE t.rbuf[i]]
        joined == {s.seq + s.len : s \in InOrder(t, d.seq + n)} \cup {d.seq + n}
        more == Minus(Largest(joined), t.rcvNxt)
    IN  IF n = 0 THEN t
        ELSE IF p.ctl \/ t.closing
        THEN [t EXCEPT !.rcvNxt = IF d.seq = @ THEN Plus(@, n) ELSE @]
        ELSE IF d.seq = t.rcvNxt
        THEN [t EXCEPT !.rbuf = rbuf, !.rlen = @ + more,
                       !.rcvNxt = Plus(@, more), !.rcvWnd = Minus(@, more),
                       !.rlist = @ \ InOrder(t, d.seq + n)]
        ELSE [t EXCEPT !.rbuf = rbuf,
                       !.rlist = @ \cup {[seq |-> d.seq, len |-> n]}]

\* Out of order packets, and packets that fill a gap, are acknowledged at once.
AckFlags(t, p) ==
    LET u == Received(t, p)
    IN  IF p.seq # t.rcvNxt
           \/ u.rlen > t.rlen + Len(NewData(t, p).data)
        THEN "immediate"
        ELSE IF p.data # << >> THEN "delayed" ELSE "none"

\* The events of OnTcpOpen and OnTcpWriteable
Events(t, u) ==
    IF t.state # "ESTABLISHED" /\ u.state = "ESTABLISHED" THEN {"read", "write"}
    ELSE IF t.writeEnable /\ ~u.writeEnable THEN {"write"}
    ELSE {}

\* `packets' is what is under way when this one has been taken.
Handle(e, p, packets) ==
    LET t == [tcp[e] EXCEPT !.silent = 0]
        u == Connected(t, p)
        v == AckHandled(u, p)
        Finish(w) ==
          /\ tcp' = [tcp EXCEPT ![e] = Received(w, p)]
          /\ AttemptSend(e, AckFlags(w, p), Received(w, p).rlen > w.rlen)
          /\ Post(e, t, Events(t, w))
    IN  IF ~Retransmits(u, p)
        THEN Finish(v) /\ net' = packets
        ELSE IF v.slist[1].xmit >= XmitLimit(v)
        THEN /\ tcp' = [tcp EXCEPT ![e] = Adjusted(Closed(v))]
             /\ Post(e, t, {"close"})
             /\ net' = packets
             /\ UNCHANGED sending
        ELSE \E mss \in PathMss(v, 1) :
               /\ Finish(Transmitted(v, 1, mss))
               /\ net' \in Sent(packets, e, SegmentPacket(v, 1, mss))

Live(e) == tcp[e].state \notin {"CLOSED", "DELETED"}

\* PseudoTcpChannel::OnChannelRead
Receive(e) ==
    /\ Free /\ Live(e)
    /\ \E p \in net[e] : Handle(e, p, [net EXCEPT ![e] = @ \ {p}])
    /\ UNCHANGED <<repeats, written, received>>

\* The network delivers a packet and delivers it again later.
ReceiveTwice(e) ==
    /\ Free /\ Live(e) /\ repeats < MaxRepeats
    /\ \E p \in net[e] : Handle(e, p, net)
    /\ repeats' = repeats + 1
    /\ UNCHANGED <<written, received>>

----------------------------------------------------------------------------
(* PseudoTcp::NotifyClock *)

\* The connection ends, from this side's point of view.
CloseDown(e) ==
    /\ tcp' = [tcp EXCEPT ![e] = Adjusted(Closed(@))]
    /\ Post(e, tcp[e], {"close"})
    /\ UNCHANGED net

\* An acknowledgement is overdue.
Retransmit(e) ==
    LET t == tcp[e]
    IN  /\ Free /\ Live(e) /\ t.rtoBase /\ t.slist # << >>
        /\ \/ t.slist[1].xmit >= XmitLimit(t) /\ CloseDown(e)
           \/ /\ t.slist[1].xmit < XmitLimit(t)
              /\ \E mss \in PathMss(t, 1) :
                   /\ net' \in Sent(net, e, SegmentPacket(t, 1, mss))
                   /\ tcp' = [tcp EXCEPT ![e] =
                                Adjusted(Transmitted(t, 1, mss))]
              /\ UNCHANGED events
        /\ UNCHANGED <<sending, repeats, written, received>>

\* The peer's window is closed: ask whether it still is.
Probe(e) ==
    LET t == tcp[e]
    IN  /\ Free /\ Live(e) /\ t.sndWnd = 0
        /\ \/ t.silent >= MaxProbes /\ CloseDown(e)
           \/ /\ t.silent < MaxProbes
              /\ net' \in Sent(net, e, Packet(t, Minus(t.sndNxt, 1), FALSE, << >>))
              /\ tcp' = [tcp EXCEPT ![e] =
                           Adjusted([t EXCEPT !.silent = @ + 1, !.tAck = FALSE])]
              /\ UNCHANGED events
        /\ UNCHANGED <<sending, repeats, written, received>>

DelayedAck(e) ==
    LET t == tcp[e]
    IN  /\ Free /\ Live(e) /\ t.tAck
        /\ net' \in Sent(net, e, Packet(t, t.sndNxt, FALSE, << >>))
        /\ tcp' = [tcp EXCEPT ![e] = Adjusted([t EXCEPT !.tAck = FALSE])]
        /\ UNCHANGED <<sending, events, repeats, written, received>>

----------------------------------------------------------------------------
Next ==
    \/ Connect
    \/ \E e \in Side :
         \/ \E n \in 1..WriteSize : Write(e, n)
         \/ \E n \in 1..ReadSize : Read(e, n)
         \/ Close(e) \/ SendSegment(e) \/ StopSending(e)
         \/ Receive(e) \/ ReceiveTwice(e)
         \/ Retransmit(e) \/ Probe(e) \/ DelayedAck(e)

\* The threads run, a thread that waits for the lock gets it, due clocks are
\* handled, and a program reads when its stream tells it to.  Nothing is
\* assumed of the network, nor that anyone writes or closes.
Fairness ==
    /\ WF_vars(\E e \in Side : SendSegment(e) \/ StopSending(e))
    /\ \A e \in Side :
         /\ SF_vars(\E n \in 1..ReadSize : Read(e, n))
         /\ SF_vars(Retransmit(e)) /\ SF_vars(Probe(e))

Spec == Init /\ [][Next]_vars

FairSpec == Spec /\ Fairness

----------------------------------------------------------------------------
(* Properties *)

TypeOK ==
    /\ \A e \in Side :
         /\ tcp[e].state \in {"LISTEN", "SYN_SENT", "SYN_RECEIVED",
                               "ESTABLISHED", "CLOSED", "DELETED"}
         /\ tcp[e].mss \in Mss
         /\ Len(tcp[e].sbuf) <= SndBuf
         /\ \A i \in DOMAIN tcp[e].slist : tcp[e].slist[i].len \in 1..SndBuf
         /\ tcp[e].rlen \in 0..RcvBuf /\ tcp[e].rcvWnd \in 0..RcvBuf
    /\ sending \in [flags : {"none", "delayed", "immediate", "idle"},
                    end : Side, readable : BOOLEAN]
    /\ events \in [Side -> SUBSET {"read", "write", "close"}]
    /\ repeats \in 0..MaxRepeats

\* The segments of a connection lie one behind the other in its send buffer,
\* from the first byte that is not acknowledged to the last one written, and
\* those that were sent are as many bytes as are in flight: transmit finds
\* the bytes of a segment by its number.
SegmentsCoverBuffer ==
    \A e \in Side : Live(e) =>
      LET t == tcp[e]
          Before(i) == SumLen(SubSeq(t.slist, 1, i - 1))
      IN  /\ \A i \in DOMAIN t.slist :
                 t.slist[i].seq = Plus(t.sndUna, Before(i))
          /\ Len(t.sbuf) = SumLen(t.slist)
          /\ InFlight(t) = SumLen([i \in DOMAIN t.slist |->
                                    IF t.slist[i].xmit > 0 THEN t.slist[i]
                                    ELSE [t.slist[i] EXCEPT !.len = 0]])
          /\ t.rtoBase <=> InFlight(t) > 0

\* What an end has announced of its window never exceeds what is free in its
\* buffer, and nothing in flight lies beyond it: no byte that was sent within
\* the window is thrown away on arrival.
WindowIsKept ==
    \A e \in Side : Live(e) /\ Live(Peer(e)) =>
      LET t == tcp[e]
          u == tcp[Peer(e)]
      IN  /\ t.rcvWnd + t.rlen <= RcvBuf
          /\ u.state = "ESTABLISHED" /\ t.state = "ESTABLISHED" /\ ~t.closing =>
                u.sndNxt <= t.rcvNxt + t.rcvWnd

\* The connection broke before all that was written was acknowledged.
GaveUp(e) ==
    tcp[e].state \in {"CLOSED", "DELETED"}
    /\ tcp[e].sbuf = << >> /\ tcp[e].slist # << >>

\* A stream that was closed leaves nothing undelivered: once the connection
\* is deleted the other end has all of its bytes, unless the connection broke.
CloseDeliversAll ==
    \A e \in Side :
      tcp[e].state = "DELETED" /\ written[e] > 0 /\ ~GaveUp(e) =>
        tcp[Peer(e)].rcvNxt = Plus(written[e], 1)

\* A reader catches up with the writer again and again, unless it closes or
\* the connection breaks; that the writer closes is no excuse.
EverythingArrives ==
    \A e \in Side :
      []<>(\/ Len(received[Peer(e)]) = written[e]
           \/ tcp[Peer(e)].closing \/ ~Live(Peer(e))
           \/ tcp[e].state = "CLOSED" \/ GaveUp(e))

BS == INSTANCE ByteStream

\* What a program reads are the bytes the other one wrote, in order.
ImplementsByteStream == BS!Spec
=============================================================================
