--------------------------- MODULE PseudoTcpProof ---------------------------
(***************************************************************************)
(* A pseudo-TCP connection delivers what was written, keeps its windows    *)
(* and its segments, for buffers, segment sizes and windows of any size    *)
(* and any number of packets under way, as long as its sequence numbers    *)
(* do not wrap (NoWrap).                                                   *)
(***************************************************************************)
EXTENDS PseudoTcp, QueueTheorems, FiniteSetTheorems

\* An end writes fewer bytes than there are sequence numbers.
NoWrap == \A e \in Side : MaxWritten[e] + 1 < SeqSpace

----------------------------------------------------------------------------
(* The inductive invariant *)

States == {"LISTEN", "SYN_SENT", "SYN_RECEIVED", "ESTABLISHED", "CLOSED",
           "DELETED"}
Opening == {"LISTEN", "SYN_SENT", "SYN_RECEIVED"}

\* An entry of m_slist.
Segment == [seq : Nat, len : 1..SndBuf, ctl : BOOLEAN, xmit : Nat]
\* An entry of m_rlist: data that has arrived behind a gap.
Range1 == [seq : Nat, len : Nat \ {0}]

\* The members of a PseudoTcp.
Connection ==
    [state : States, closing : BOOLEAN, mss : Mss, sbuf : Seq(Nat),
     slist : Seq(Segment), sndUna : Nat, sndNxt : Nat, sndWnd : Nat,
     rbuf : [1..RcvBuf -> Nat], rlen : 0..RcvBuf, rlist : SUBSET Range1,
     rcvNxt : Nat, rcvWnd : 0..RcvBuf, readEnable : BOOLEAN,
     writeEnable : BOOLEAN, tAck : BOOLEAN, rtoBase : BOOLEAN, dupAcks : Nat,
     recover : Nat, silent : Nat]

PacketType == [seq : Nat, ack : Nat, wnd : Nat, ctl : BOOLEAN, data : Seq(Nat)]

Alive(t) == t.state \notin {"CLOSED", "DELETED"}

Types ==
    /\ tcp \in [Side -> Connection]
    /\ sending \in [flags : {"none", "delayed", "immediate", "idle"},
                    end : Side, readable : BOOLEAN]
    /\ ~Free => Alive(tcp[sending.end])
    /\ net \in [Side -> SUBSET PacketType]
    /\ repeats \in 0..MaxRepeats
    /\ events \in [Side -> SUBSET {"read", "write", "close"}]
    /\ \A e \in Side : tcp[e].closing => events[e] = {}
    /\ written \in [Side -> Nat] /\ \A e \in Side : written[e] <= MaxWritten[e]
    /\ received \in [Side -> Seq(Nat)]

\* The bytes that begin with byte a.
Bytes(s, a) == \A i \in 1..Len(s) : s[i] = a + i - 1

End(s) == s.seq + s.len

\* The segments lie one behind the other from a to b.
Chain(slist, a, b) ==
    /\ slist = << >> => a = b
    /\ slist # << >> => slist[1].seq = a /\ End(slist[Len(slist)]) = b
    /\ \A i \in 1..(Len(slist) - 1) : slist[i + 1].seq = End(slist[i])
    /\ \A i \in 1..Len(slist) : a <= slist[i].seq /\ End(slist[i]) <= b
    /\ \A i, j \in 1..Len(slist) : i < j => End(slist[i]) <= slist[j].seq

\* What was sent is what lies before b.
SentUpTo(slist, b) ==
    \A i \in 1..Len(slist) : IF slist[i].xmit > 0 THEN End(slist[i]) <= b
                             ELSE b <= slist[i].seq

\* The connect control code is byte 0 and in a segment of its own.
ControlFirst(slist) ==
    \A i \in 1..Len(slist) : IF slist[i].ctl THEN slist[i].seq = 0 /\ slist[i].len = 1
                             ELSE slist[i].seq > 0

\* No segment has its middle at q.
Uncut(slist, q) ==
    \A i \in 1..Len(slist) : q <= slist[i].seq \/ End(slist[i]) <= q

\* An end as a sender, which has written w bytes.
Sender(t, w) ==
    /\ t.sndUna <= t.sndNxt /\ t.sndNxt <= w + 1
    /\ t.recover <= t.sndNxt
    /\ t.state \in Opening => w = 0
    /\ Len(t.sbuf) <= SndBuf
    /\ Alive(t) =>
         /\ Bytes(t.sbuf, t.sndUna)
         /\ t.sndUna + Len(t.sbuf) = IF t.state = "LISTEN" THEN 0 ELSE w + 1
         /\ t.sndNxt <= t.sndUna + Len(t.sbuf)
         /\ Chain(t.slist, t.sndUna, t.sndUna + Len(t.sbuf))
         /\ SentUpTo(t.slist, t.sndNxt)
         /\ ControlFirst(t.slist)
         /\ t.rtoBase <=> t.sndNxt > t.sndUna
    /\ ~Alive(t) => \/ t.sbuf = << >> /\ t.slist # << >>
                    \/ w = 0
                    \/ t.sndUna = w + 1

\* An end as a receiver, whose program has read r.
Receiver(t, r) ==
    /\ t.rcvWnd + t.rlen <= RcvBuf
    /\ Bytes(r, 1)
    /\ IF t.rcvNxt = 0 THEN r = << >> /\ t.rlen = 0 /\ t.rlist = {}
       ELSE Len(r) < t.rcvNxt
    /\ ~t.closing =>
         /\ t.rcvNxt > 0 => t.rcvNxt = Len(r) + t.rlen + 1
         /\ \A i \in 1..t.rlen : t.rbuf[i] + t.rlen = t.rcvNxt + i - 1
         /\ \A s \in t.rlist :
              /\ t.rcvNxt <= s.seq
              /\ \A q \in s.seq..(End(s) - 1) :
                   t.rbuf[t.rlen + (q - t.rcvNxt) + 1] = q

Edge(t) == t.rcvNxt + t.rcvWnd

\* t sends to u.
Pair(t, u, w) ==
    /\ u.rcvNxt <= t.sndNxt /\ t.sndNxt <= Edge(u)
    /\ t.sndUna <= u.rcvNxt
    /\ t.sndUna + t.sndWnd <= Edge(u)
    /\ \A s \in u.rlist : End(s) <= t.sndNxt
    /\ Alive(t) => /\ Uncut(t.slist, u.rcvNxt)
                   /\ \A s \in u.rlist : Uncut(t.slist, End(s))
    /\ t.state = "ESTABLISHED" \/ w > 0 => u.rcvNxt > 0

\* A packet p from t to u.
Fits(p, t, u) ==
    /\ p.data # << >> =>
         /\ Bytes(p.data, p.seq)
         /\ p.seq + Len(p.data) <= t.sndNxt
         /\ Alive(t) => Uncut(t.slist, p.seq + Len(p.data))
         /\ ~p.ctl => p.seq > 0
    /\ p.ctl => p.seq = 0 /\ Len(p.data) = 1
    /\ p.ack <= t.rcvNxt /\ p.ack + p.wnd <= Edge(t)
    /\ Alive(u) => Uncut(u.slist, p.ack)

\* Who connects and who accepts.
Role(e, t) == t.state # IF e = Initiator THEN "SYN_RECEIVED" ELSE "SYN_SENT"

\* The acceptor only answers.
Heard(e, t) ==
    e = Acceptor /\ ((Alive(t) /\ t.state # "LISTEN") \/ t.sndNxt > 0)
      => t.rcvNxt > 0

TcpInv ==
    /\ Types
    /\ \A e \in Side :
         /\ Sender(tcp[e], written[e])
         /\ Receiver(tcp[e], received[e])
         /\ Pair(tcp[e], tcp[Peer(e)], written[e])
         /\ \A p \in net[Peer(e)] : Fits(p, tcp[e], tcp[Peer(e)])
         /\ Role(e, tcp[e]) /\ Heard(e, tcp[e])

----------------------------------------------------------------------------
(* Numbers *)

\* The order of integers is transitive.
LEMMA AtMost ==
    ASSUME NEW k \in Int, NEW m \in Int, NEW n \in Int, k <= m, m <= n
    PROVE  k <= n
  OBVIOUS

\* Sequence numbers that do not wrap are added as numbers are ...
LEMMA PlusIs ==
    ASSUME NEW m \in Nat, NEW n \in Nat, m + n < SeqSpace
    PROVE  Plus(m, n) = m + n
  BY PseudoTcpAssumption DEF Plus

\* ... and subtracted as numbers are.
LEMMA MinusIs ==
    ASSUME NEW m \in Nat, NEW n \in Nat, n <= m, m - n < SeqSpace
    PROVE  Minus(m, n) = m - n
<1> DEFINE d == m - n
<1>1. d \in Nat /\ SeqSpace \in Nat /\ SeqSpace > 0 /\ d < SeqSpace
  BY PseudoTcpAssumption
<1>2. SeqSpace + m - n = SeqSpace + d
  BY <1>1
<1> HIDE DEF d
<1>3. (SeqSpace + d) % SeqSpace = d
  BY <1>1
<1> QED
  BY <1>2, <1>3 DEF Minus, d

\* The distance of two sequence numbers is a number, wrapped or not.
LEMMA MinusNat ==
    ASSUME NEW m \in Nat, NEW n \in Nat
    PROVE  Minus(m, n) \in Nat
<1>1. SeqSpace + m - n \in Int /\ SeqSpace \in Nat /\ SeqSpace > 0
  BY PseudoTcpAssumption
<1> QED
  BY <1>1 DEF Minus

\* A set of natural numbers has a least one.
LEMMA SmallestIs ==
    ASSUME NEW S, S \subseteq Nat, S # {}
    PROVE  Smallest(S) \in S /\ \A n \in S : Smallest(S) <= n
<1>1. PICK x \in S : \A y \in S : ~(<<y, x>> \in OpToRel(<, Nat))
  BY WFMin, NatLessThanWellFounded
<1>2. ASSUME NEW y \in S PROVE x <= y
  <2>1. x \in Nat /\ y \in Nat
    OBVIOUS
  <2>2. ~(y < x)
    BY <1>1, <2>1 DEF OpToRel
  <2> QED
    BY <2>1, <2>2
<1> QED
  BY <1>2 DEF Smallest

\* ... and a greatest one if it has a bound.
LEMMA LargestIs ==
    ASSUME NEW S, S \subseteq Nat, S # {}, NEW b \in Nat, \A n \in S : n <= b
    PROVE  Largest(S) \in S /\ \A n \in S : Largest(S) >= n
<1> DEFINE T == {m \in Nat : \A n \in S : n <= m}
           m == Smallest(T)
<1>1. T \subseteq Nat /\ T # {}
  OBVIOUS
<1>2. m \in T /\ \A k \in T : m <= k
  <2> HIDE DEF T
  <2> QED
    BY <1>1, SmallestIs
<1> HIDE DEF m
<1>3. m \in S
  <2> SUFFICES ASSUME m \notin S PROVE FALSE
    OBVIOUS
  <2>1. m \in Nat /\ \A n \in S : n <= m /\ n # m /\ n \in Nat
    BY <1>2
  <2>2. m > 0
    <3>1. PICK n \in S : TRUE
      OBVIOUS
    <3> QED
      BY <2>1, <3>1
  <2>3. m - 1 \in T
    BY <2>1, <2>2
  <2> QED
    BY <1>2, <2>1, <2>3
<1>4. \A n \in S : m >= n
  BY <1>2
<1> QED
  BY <1>3, <1>4 DEF Largest

\* A finite set of natural numbers is bounded.
LEMMA FiniteBounded ==
    ASSUME NEW S, S \subseteq Nat, IsFiniteSet(S)
    PROVE  \E b \in Nat : \A n \in S : n <= b
<1>1. PICK n \in Nat : \E f \in Surjection(1..n, S) : TRUE
  <2>1. \E n \in Nat : \E f : f \in Surjection(1..n, S)
    BY FS_NatSurjection DEF ExistsSurjection
  <2> QED
    BY <2>1
<1>2. PICK f \in [1..n -> S] : \A s \in S : \E i \in 1..n : f[i] = s
  BY <1>1 DEF Surjection
<1>3. ASSUME NEW k \in Nat, k < n, NEW b \in Nat, \A i \in 1..k : f[i] <= b
      PROVE  \E c \in Nat : \A i \in 1..(k + 1) : f[i] <= c
  <2> DEFINE x == f[k + 1]
  <2>1. x \in Nat
    <3>1. k + 1 \in 1..n
      BY <1>3
    <3> QED
      BY <3>1
  <2>2. b + x \in Nat /\ b <= b + x /\ x <= b + x
    BY <2>1
  <2>3. ASSUME NEW i \in 1..(k + 1) PROVE f[i] <= b + x
    <3>1. CASE i = k + 1
      BY <3>1, <2>2
    <3>2. CASE i # k + 1
      <4>1. i \in 1..k /\ i \in 1..n
        BY <3>2, <1>3
      <4>2. f[i] \in Nat /\ f[i] <= b
        BY <4>1, <1>3
      <4> QED
        BY <4>2, <2>1
    <3> QED
      BY <3>1, <3>2
  <2> HIDE DEF x
  <2> QED
    BY <2>2, <2>3
<1> DEFINE P(k) == \E b \in Nat : \A i \in 1..k : f[i] <= b
           I == {k \in Nat : P(k)}
<1>4. 0 \in I
  OBVIOUS
<1>5. \A k \in Nat : k < n /\ P(k) => P(k + 1)
  BY <1>3
<1>6. 0..n \subseteq I
  <2> HIDE DEF P
  <2>1. \A k \in Nat : k < n /\ k \in I => k + 1 \in I
    BY <1>5
  <2> HIDE DEF I
  <2> QED
    BY <1>4, <2>1, Induct
<1>7. P(n)
  <2> HIDE DEF P
  <2>1. n \in I
    BY <1>6
  <2> QED
    BY <2>1
<1> QED
  BY <1>2, <1>7

\* The least and the largest segment size are segment sizes.
LEMMA MssBounds == Smallest(Mss) \in Mss /\ Largest(Mss) \in Mss
<1>1. Mss \subseteq Nat /\ Mss # {} /\ IsFiniteSet(Mss)
  BY PseudoTcpAssumption
<1>2. PICK b \in Nat : \A n \in Mss : n <= b
  BY <1>1, FiniteBounded
<1> QED
  BY <1>1, <1>2, SmallestIs, LargestIs

\* There are two ends, and each is the peer of the other.
LEMMA Sides ==
    ASSUME NEW e \in Side
    PROVE  /\ Peer(e) \in Side /\ Peer(Peer(e)) = e /\ Peer(e) # e
           /\ \A a \in Side : a = e \/ a = Peer(e)
  BY PseudoTcpAssumption DEF Side, Peer

----------------------------------------------------------------------------
(* Lists of segments *)

\* Whatever adds up one by one is the sum.
LEMMA SumIs ==
    ASSUME NEW T, NEW q \in Seq(T), NEW g \in [0..Len(q) -> Int], g[0] = 0,
           \A i \in 1..Len(q) : g[i] = g[i - 1] + q[i].len
    PROVE  SumLen(q) = g[Len(q)]
<1> DEFINE n == Len(q)
           Def(f) == [i \in 0..n |-> IF i = 0 THEN 0 ELSE f[i - 1] + q[i].len]
           sum == CHOOSE f : f = Def(f)
<1>1. n \in Nat
  OBVIOUS
<1>2. SumLen(q) = sum[n]
  BY DEF SumLen
<1>3. g = Def(g)
  <2>1. \A i \in 0..n : g[i] = Def(g)[i]
    <3> SUFFICES ASSUME NEW i \in 0..n PROVE g[i] = Def(g)[i]
      OBVIOUS
    <3>1. CASE i = 0
      BY <3>1, <1>1
    <3>2. CASE i # 0
      <4>1. i \in 1..n
        BY <3>2, <1>1
      <4> QED
        BY <3>2, <4>1
    <3> QED
      BY <3>1, <3>2
  <2>2. g = [i \in 0..n |-> g[i]] /\ Def(g) = [i \in 0..n |-> Def(g)[i]]
    OBVIOUS
  <2> HIDE DEF Def
  <2> QED
    BY <2>1, <2>2
<1>4. sum = Def(sum)
  <2> HIDE DEF Def
  <2> QED
    BY <1>3
<1>5. sum[n] = g[n]
  <2> HIDE DEF sum
  <2>1. \A i \in 0..n : sum[i] = Def(sum)[i]
    <3> HIDE DEF Def
    <3> QED
      BY <1>4
  <2> DEFINE I == {i \in 0..n : sum[i] = g[i]}
  <2>2. 0 \in I
    BY <1>1, <2>1
  <2>3. \A i \in Nat : i < n /\ i \in I => i + 1 \in I
    <3> SUFFICES ASSUME NEW i \in Nat, i < n, i \in I PROVE i + 1 \in I
      OBVIOUS
    <3>1. i + 1 \in 1..n /\ (i + 1) - 1 = i /\ sum[i] = g[i] /\ i + 1 \in 0..n
      BY <1>1
    <3>2. sum[i + 1] = g[i + 1]
      BY <2>1, <3>1
    <3> QED
      BY <3>1, <3>2
  <2> HIDE DEF I
  <2>4. 0..n \subseteq I
    BY <1>1, <2>2, <2>3, Induct
  <2> QED
    BY <1>1, <2>4 DEF I
<1> QED
  BY <1>2, <1>5

\* What a segment is made of.
LEMMA SegmentIs ==
    ASSUME NEW s \in Segment
    PROVE  /\ s.seq \in Nat /\ s.len \in 1..SndBuf /\ s.len \in Nat /\ s.len > 0
           /\ s.ctl \in BOOLEAN /\ s.xmit \in Nat /\ End(s) \in Nat
           /\ End(s) = s.seq + s.len
<1>1. SndBuf \in Nat
  BY PseudoTcpAssumption
<1>2. s.seq \in Nat /\ s.len \in 1..SndBuf /\ s.ctl \in BOOLEAN /\ s.xmit \in Nat
  BY DEF Segment
<1> QED
  BY <1>1, <1>2 DEF End

\* The same of a segment of a list.
LEMMA SegmentsAre ==
    ASSUME NEW q \in Seq(Segment)
    PROVE  /\ Len(q) \in Nat /\ DOMAIN q = 1..Len(q)
           /\ \A i \in 1..Len(q) :
                 /\ q[i] \in Segment
                 /\ q[i].seq \in Nat /\ q[i].len \in 1..SndBuf /\ q[i].len \in Nat
                 /\ q[i].len > 0 /\ q[i].ctl \in BOOLEAN /\ q[i].xmit \in Nat
                 /\ End(q[i]) \in Nat /\ End(q[i]) = q[i].seq + q[i].len
<1>1. \A i \in 1..Len(q) : q[i] \in Segment
  OBVIOUS
<1> QED
  BY <1>1, SegmentIs

\* The sum of the segments of a chain, and of those that were sent.
LEMMA SumChain ==
    ASSUME NEW q \in Seq(Segment), NEW a \in Nat, NEW b \in Nat, Chain(q, a, b)
    PROVE  SumLen(q) = b - a
<1> DEFINE n == Len(q)
           g == [i \in 0..n |-> IF i = 0 THEN 0 ELSE End(q[i]) - a]
<1>1. /\ n \in Nat
      /\ \A i \in 1..n : q[i].seq \in Nat /\ q[i].len \in Nat /\ End(q[i]) \in Nat
  BY SegmentsAre
<1>2. g \in [0..n -> Int] /\ g[0] = 0
  BY <1>1
<1>3. ASSUME NEW i \in 1..n PROVE g[i] = g[i - 1] + q[i].len
  <2>1. i \in 0..n /\ i - 1 \in 0..n /\ i # 0
    BY <1>1
  <2>2. CASE i = 1
    <3>1. q # <<>> /\ q[1].seq = a
      BY <2>2, <1>1 DEF Chain
    <3> QED
      BY <2>1, <2>2, <3>1, <1>1 DEF End
  <2>3. CASE i # 1
    <3>1. i - 1 \in 1..(n - 1) /\ (i - 1) + 1 = i
      BY <2>3, <1>1
    <3>2. q[i].seq = End(q[i - 1])
      BY <3>1 DEF Chain
    <3> QED
      BY SMTT(60), <2>1, <3>1, <3>2, <1>1 DEF End
  <2> QED
    BY <2>2, <2>3
<1>4. SumLen(q) = g[n]
  <2> HIDE DEF g
  <2> QED
    BY <1>2, <1>3, SumIs
<1>5. CASE n = 0
  BY <1>4, <1>5 DEF Chain
<1>6. CASE n # 0
  <2>1. q # <<>> /\ End(q[n]) = b
    BY <1>6 DEF Chain
  <2> QED
    BY <1>4, <1>6, <1>1, <2>1
<1> QED
  BY <1>5, <1>6

\* A part of a sequence, its length and its elements.
LEMMA SubSeqIs ==
    ASSUME NEW S, NEW q \in Seq(S), NEW i \in 1..(Len(q) + 1), NEW j \in 0..Len(q),
           i <= j + 1
    PROVE  /\ SubSeq(q, i, j) \in Seq(S) /\ Len(SubSeq(q, i, j)) = j + 1 - i
           /\ \A k \in 1..(j + 1 - i) : SubSeq(q, i, j)[k] = q[i + k - 1]
  OBVIOUS

\* The first i segments of a chain are the bytes up to the end of the last one.
LEMMA PrefixChain ==
    ASSUME NEW q \in Seq(Segment), NEW a \in Nat, NEW b \in Nat, Chain(q, a, b),
           NEW i \in 0..Len(q)
    PROVE  SumLen(SubSeq(q, 1, i)) = IF i = 0 THEN 0 ELSE End(q[i]) - a
<1> DEFINE r == SubSeq(q, 1, i)
           c == IF i = 0 THEN a ELSE End(q[i])
<1>1. /\ r \in Seq(Segment) /\ Len(r) = i /\ \A k \in 1..i : r[k] = q[k]
  BY SubSeqIs
<1> HIDE DEF r
<1>2. /\ Len(q) \in Nat
      /\ \A k \in 1..Len(q) : q[k].seq \in Nat /\ q[k].len \in Nat /\ End(q[k]) \in Nat
  BY SegmentsAre
<1>3. c \in Nat
  BY <1>2
<1>4. Chain(r, a, c)
  <2>1. r = <<>> => a = c
    BY <1>1
  <2>2. r # <<>> => r[1].seq = a /\ End(r[Len(r)]) = c
    <3> SUFFICES ASSUME r # <<>> PROVE r[1].seq = a /\ End(r[Len(r)]) = c
      OBVIOUS
    <3>1. i # 0 /\ q # <<>>
      BY <1>1
    <3> QED
      BY <3>1, <1>1, <1>2 DEF Chain
  <2>3. \A k \in 1..(Len(r) - 1) : r[k + 1].seq = End(r[k])
    <3> SUFFICES ASSUME NEW k \in 1..(Len(r) - 1) PROVE r[k + 1].seq = End(r[k])
      OBVIOUS
    <3>1. k \in 1..i /\ k + 1 \in 1..i /\ k \in 1..(Len(q) - 1)
      BY <1>1, <1>2
    <3> QED
      BY <3>1, <1>1 DEF Chain
  <2>4. \A k, l \in 1..Len(r) : k < l => End(r[k]) <= r[l].seq
    <3> SUFFICES ASSUME NEW k \in 1..Len(r), NEW l \in 1..Len(r), k < l
                 PROVE  End(r[k]) <= r[l].seq
      OBVIOUS
    <3>1. k \in 1..Len(q) /\ l \in 1..Len(q) /\ r[k] = q[k] /\ r[l] = q[l]
      BY <1>1, <1>2
    <3> QED
      BY <3>1 DEF Chain
  <2>5. \A k \in 1..Len(r) : a <= r[k].seq /\ End(r[k]) <= c
    <3> SUFFICES ASSUME NEW k \in 1..Len(r) PROVE a <= r[k].seq /\ End(r[k]) <= c
      OBVIOUS
    <3>1. k \in 1..Len(q) /\ r[k] = q[k] /\ i \in 1..Len(q) /\ c = End(q[i])
      BY <1>1, <1>2
    <3>2. a <= q[k].seq
      BY <3>1 DEF Chain
    <3>3. CASE k = i
      BY <3>1, <3>2, <3>3, <1>2
    <3>4. CASE k # i
      <4>1. End(q[k]) <= q[i].seq
        BY <3>1, <3>4, <1>1 DEF Chain
      <4> QED
        BY SMTT(40), <3>1, <3>2, <4>1, <1>2 DEF End
    <3> QED
      BY <3>3, <3>4
  <2> QED
    BY <2>1, <2>2, <2>3, <2>4, <2>5 DEF Chain
<1>5. SumLen(r) = c - a
  <2> HIDE DEF c
  <2> QED
    BY <1>1, <1>3, <1>4, SumChain
<1>6. (IF i = 0 THEN 0 ELSE End(q[i]) - a) = c - a
  BY <1>2
<1> QED
  BY <1>5, <1>6 DEF r

\* The segments that were sent are the bytes from the first one that is not
\* acknowledged to the first one that was not sent.
LEMMA SentSum ==
    ASSUME NEW q \in Seq(Segment), NEW a \in Nat, NEW b \in Nat, Chain(q, a, b),
           NEW c \in a..b, SentUpTo(q, c)
    PROVE  SumLen([i \in DOMAIN q |-> IF q[i].xmit > 0 THEN q[i]
                                      ELSE [q[i] EXCEPT !.len = 0]]) = c - a
<1> DEFINE n == Len(q)
           r == [i \in DOMAIN q |-> IF q[i].xmit > 0 THEN q[i]
                                    ELSE [q[i] EXCEPT !.len = 0]]
           T == {r[i] : i \in 1..n}
           g == [i \in 0..n |-> IF i = 0 THEN 0
                                ELSE IF q[i].xmit > 0 THEN End(q[i]) - a ELSE c - a]
<1>1. /\ n \in Nat /\ DOMAIN q = 1..n
      /\ \A i \in 1..n : /\ q[i] \in Segment /\ q[i].seq \in Nat /\ q[i].len \in Nat
                        /\ q[i].xmit \in Nat /\ End(q[i]) \in Nat
                        /\ End(q[i]) = q[i].seq + q[i].len
  BY SegmentsAre
<1>2. \A i \in 1..n : r[i].len = IF q[i].xmit > 0 THEN q[i].len ELSE 0
  <2> SUFFICES ASSUME NEW i \in 1..n
               PROVE  r[i].len = IF q[i].xmit > 0 THEN q[i].len ELSE 0
    OBVIOUS
  <2>1. q[i] \in Segment /\ r[i] = IF q[i].xmit > 0 THEN q[i]
                                   ELSE [q[i] EXCEPT !.len = 0]
    BY <1>1
  <2> QED
    BY <2>1 DEF Segment
<1>3. r \in Seq(T) /\ Len(r) = n
  <2>1. r \in [1..n -> T]
    BY <1>1
  <2> HIDE DEF r, T
  <2> QED
    BY <2>1, <1>1
<1> HIDE DEF r, T
<1>4. \A i \in 0..n : g[i] \in Int
  BY <1>1
<1>5. g \in [0..n -> Int] /\ g[0] = 0
  BY <1>1, <1>4
<1>6. ASSUME NEW i \in 1..n PROVE g[i] = g[i - 1] + r[i].len
  <2>1. i \in 0..n /\ i - 1 \in 0..n /\ i # 0 /\ c \in Nat
    BY <1>1
  <2>2. IF q[i].xmit > 0 THEN End(q[i]) <= c ELSE c <= q[i].seq
    BY DEF SentUpTo
  <2>3. g[i] = IF q[i].xmit > 0 THEN End(q[i]) - a ELSE c - a
    BY <2>1
  <2>4. CASE i = 1
    <3>1. q # <<>> /\ q[1].seq = a /\ g[i - 1] = 0
      BY <2>4, <1>1 DEF Chain
    <3> HIDE DEF g
    <3> QED
      BY SMTT(60), <2>1, <2>2, <2>3, <2>4, <3>1, <1>1, <1>2
  <2>5. CASE i # 1
    <3>1. i - 1 \in 1..(n - 1) /\ (i - 1) + 1 = i /\ i - 1 \in 1..n
      BY <2>5, <1>1
    <3>2. q[i].seq = End(q[i - 1])
      BY <3>1 DEF Chain
    <3>3. IF q[i - 1].xmit > 0 THEN End(q[i - 1]) <= c ELSE c <= q[i - 1].seq
      BY <3>1 DEF SentUpTo
    <3>4. g[i - 1] = IF q[i - 1].xmit > 0 THEN End(q[i - 1]) - a ELSE c - a
      BY <3>1, <2>1
    <3>5. /\ End(q[i - 1]) = q[i - 1].seq + q[i - 1].len /\ q[i - 1].len > 0
          /\ q[i - 1].seq \in Nat /\ q[i - 1].len \in Nat
      BY <3>1, SegmentsAre
    <3>6. r[i].len = IF q[i].xmit > 0 THEN q[i].len ELSE 0
      BY <1>2
    <3>7. q[i].seq \in Nat /\ q[i].len \in Nat /\ End(q[i]) = q[i].seq + q[i].len
          /\ q[i].len > 0
      BY SegmentsAre
    <3> DEFINE u == q[i]
               v == q[i - 1]
               x == g[i]
               y == g[i - 1]
               l == r[i].len
    <3>8. /\ IF u.xmit > 0 THEN End(u) <= c ELSE c <= u.seq
          /\ x = IF u.xmit > 0 THEN End(u) - a ELSE c - a
          /\ u.seq = End(v)
          /\ IF v.xmit > 0 THEN End(v) <= c ELSE c <= v.seq
          /\ y = IF v.xmit > 0 THEN End(v) - a ELSE c - a
          /\ End(v) = v.seq + v.len /\ v.len > 0 /\ v.seq \in Nat /\ v.len \in Nat
          /\ End(u) = u.seq + u.len /\ u.len > 0 /\ u.seq \in Nat /\ u.len \in Nat
          /\ l = IF u.xmit > 0 THEN u.len ELSE 0
      BY <2>2, <2>3, <3>2, <3>3, <3>4, <3>5, <3>6, <3>7
    <3> HIDE DEF u, v, x, y, l
    <3>9. c \in Nat /\ a \in Nat
      OBVIOUS
    <3>10. x = y + l
      <4>1. CASE u.xmit > 0
        <5>1. End(u) <= c /\ x = End(u) - a /\ l = u.len
          BY <3>8, <4>1
        <5>2. v.seq < c
          BY ONLY SMTT(60), <3>8, <3>9, <5>1, <4>1
        <5>3. y = End(v) - a
          BY <3>8, <3>9, <5>2
        <5> QED
          BY <3>8, <3>9, <5>1, <5>3
      <4>2. CASE ~(u.xmit > 0)
        <5>1. c <= u.seq /\ x = c - a /\ l = 0
          BY <3>8, <4>2
        <5>2. y = c - a
          <6>1. CASE v.xmit > 0
            <7>1. End(v) <= c /\ y = End(v) - a
              BY <3>8, <6>1
            <7>2. u.seq = End(v) /\ End(v) \in Nat
              BY <3>8
            <7> QED
              BY <3>9, <5>1, <7>1, <7>2
          <6>2. CASE ~(v.xmit > 0)
            BY <3>8, <6>2
          <6> QED
            BY <6>1, <6>2
        <5> QED
          BY <3>9, <5>1, <5>2
      <4> QED
        BY <4>1, <4>2
    <3> QED
      BY <3>10 DEF x, y, l
  <2> QED
    BY <2>4, <2>5
<1>7. SumLen(r) = g[n]
  <2> HIDE DEF g
  <2> QED
    BY <1>3, <1>5, <1>6, SumIs
<1>8. g[n] = c - a
  <2>1. n \in 0..n
    BY <1>1
  <2>2. CASE n = 0
    <3>1. a = b
      BY <2>2 DEF Chain
    <3> QED
      BY <3>1, <2>1, <2>2
  <2>3. CASE n # 0
    <3>1. q # <<>> /\ End(q[n]) = b /\ n \in 1..n
      BY <2>3, <1>1 DEF Chain
    <3>2. IF q[n].xmit > 0 THEN End(q[n]) <= c ELSE c <= q[n].seq
      BY <3>1 DEF SentUpTo
    <3>3. g[n] = IF q[n].xmit > 0 THEN End(q[n]) - a ELSE c - a
      BY <2>1, <2>3
    <3> HIDE DEF g
    <3> QED
      BY <3>1, <3>2, <3>3, <1>1
  <2> QED
    BY <2>2, <2>3
<1> QED
  BY <1>7, <1>8 DEF r

----------------------------------------------------------------------------
(* Segments that are split, acknowledged and queued *)

\* Segment s is part of segment u.
Part(s, u) == s.ctl = u.ctl /\ s.xmit = u.xmit /\ u.seq <= s.seq /\ End(s) <= End(u)

\* Every segment of r is part of one of q.
Refines(r, q) == \A i \in 1..Len(r) : \E j \in 1..Len(q) : Part(r[i], q[j])

\* Segments that are parts of others were sent, are controls and have their
\* middles where those do: splitting and acknowledging keep all three.
LEMMA RefinesKeeps ==
    ASSUME NEW q \in Seq(Segment), NEW r \in Seq(Segment), Refines(r, q)
    PROVE  /\ \A c \in Nat : SentUpTo(q, c) => SentUpTo(r, c)
           /\ ControlFirst(q) => ControlFirst(r)
           /\ \A c \in Nat : Uncut(q, c) => Uncut(r, c)
<1>1. /\ Len(q) \in Nat /\ Len(r) \in Nat
      /\ \A i \in 1..Len(q) : q[i] \in Segment
      /\ \A i \in 1..Len(r) : r[i] \in Segment
  BY SegmentsAre
<1>2. ASSUME NEW i \in 1..Len(r), NEW j \in 1..Len(q), Part(r[i], q[j])
      PROVE  /\ r[i].xmit = q[j].xmit /\ r[i].ctl = q[j].ctl
             /\ q[j].seq <= r[i].seq /\ End(r[i]) <= End(q[j])
             /\ q[j].seq \in Nat /\ q[j].len \in Nat /\ End(q[j]) = q[j].seq + q[j].len
             /\ r[i].seq \in Nat /\ r[i].len \in Nat /\ End(r[i]) = r[i].seq + r[i].len
             /\ r[i].len > 0
  BY <1>2, SegmentsAre DEF Part
<1>3. ASSUME NEW i \in 1..Len(r), NEW c \in Nat, SentUpTo(q, c)
      PROVE  IF r[i].xmit > 0 THEN End(r[i]) <= c ELSE c <= r[i].seq
  <2>1. PICK j \in 1..Len(q) : Part(r[i], q[j])
    BY DEF Refines
  <2>2. IF q[j].xmit > 0 THEN End(q[j]) <= c ELSE c <= q[j].seq
    BY <1>3 DEF SentUpTo
  <2>3. /\ r[i].xmit = q[j].xmit /\ q[j].seq <= r[i].seq /\ End(r[i]) <= End(q[j])
        /\ q[j].seq \in Nat /\ r[i].seq \in Nat
        /\ End(q[j]) \in Nat /\ End(r[i]) \in Nat
    BY SMTT(40), <1>2, <2>1
  <2> QED
    BY <2>2, <2>3
<1>4. ASSUME NEW i \in 1..Len(r), ControlFirst(q)
      PROVE  IF r[i].ctl THEN r[i].seq = 0 /\ r[i].len = 1 ELSE r[i].seq > 0
  <2>1. PICK j \in 1..Len(q) : Part(r[i], q[j])
    BY DEF Refines
  <2>2. IF q[j].ctl THEN q[j].seq = 0 /\ q[j].len = 1 ELSE q[j].seq > 0
    BY <1>4 DEF ControlFirst
  <2>3. /\ r[i].ctl = q[j].ctl /\ q[j].seq <= r[i].seq /\ End(r[i]) <= End(q[j])
        /\ End(q[j]) = q[j].seq + q[j].len /\ End(r[i]) = r[i].seq + r[i].len
        /\ r[i].seq \in Nat /\ r[i].len \in Nat /\ r[i].len > 0 /\ q[j].seq \in Nat
    BY <1>2, <2>1
  <2>4. CASE q[j].ctl
    BY <2>2, <2>3, <2>4
  <2>5. CASE ~q[j].ctl
    BY <2>2, <2>3, <2>5
  <2> QED
    BY <2>4, <2>5
<1>5. ASSUME NEW i \in 1..Len(r), NEW c \in Nat, Uncut(q, c)
      PROVE  c <= r[i].seq \/ End(r[i]) <= c
  <2>1. PICK j \in 1..Len(q) : Part(r[i], q[j])
    BY DEF Refines
  <2>2. c <= q[j].seq \/ End(q[j]) <= c
    BY <1>5 DEF Uncut
  <2>3. /\ q[j].seq <= r[i].seq /\ End(r[i]) <= End(q[j])
        /\ q[j].seq \in Nat /\ r[i].seq \in Nat
        /\ End(q[j]) \in Nat /\ End(r[i]) \in Nat
    BY SMTT(40), <1>2, <2>1
  <2> DEFINE x == q[j].seq
             y == End(q[j])
             v == r[i].seq
             z == End(r[i])
  <2>4. /\ c <= x \/ y <= c
        /\ x <= v /\ z <= y /\ x \in Nat /\ y \in Nat /\ z \in Nat /\ v \in Nat
        /\ c \in Nat
    BY <2>2, <2>3
  <2> HIDE DEF x, y, v, z
  <2>5. c <= v \/ z <= c
    BY ONLY <2>4
  <2> QED
    BY <2>5 DEF v, z
<1>6. \A c \in Nat : SentUpTo(q, c) => SentUpTo(r, c)
  BY <1>3 DEF SentUpTo
<1>7. ControlFirst(q) => ControlFirst(r)
  BY <1>4 DEF ControlFirst
<1>8. \A c \in Nat : Uncut(q, c) => Uncut(r, c)
  BY <1>5 DEF Uncut
<1> QED
  BY <1>6, <1>7, <1>8

\* x and y in the place of the element i of q, ...
Two(q, i, x, y) == SubSeq(q, 1, i - 1) \o <<x, y>> \o SubSeq(q, i + 1, Len(q))

\* ... element by element.
IsTwo(r, q, i, x, y) ==
    /\ Len(r) = Len(q) + 1
    /\ \A j \in 1..(i - 1) : r[j] = q[j]
    /\ r[i] = x /\ r[i + 1] = y
    /\ \A j \in (i + 2)..(Len(q) + 1) : r[j] = q[j - 1]

\* Two elements in the place of one.
LEMMA InTwo ==
    ASSUME NEW S, NEW q \in Seq(S), NEW i \in 1..Len(q), NEW x \in S, NEW y \in S,
           NEW r, r = Two(q, i, x, y)
    PROVE  r \in Seq(S) /\ IsTwo(r, q, i, x, y)
<1> DEFINE a == SubSeq(q, 1, i - 1)
           b == SubSeq(q, i + 1, Len(q))
           c == a \o <<x, y>>
<1>0. Len(q) \in Nat
  OBVIOUS
<1>1. a \in Seq(S) /\ Len(a) = i - 1 /\ \A k \in 1..(i - 1) : a[k] = q[k]
  <2>1. 1 \in 1..(Len(q) + 1) /\ i - 1 \in 0..Len(q) /\ 1 <= (i - 1) + 1
    BY <1>0
  <2> QED
    BY <2>1, SubSeqIs
<1>2. b \in Seq(S) /\ Len(b) = Len(q) - i /\ \A k \in 1..(Len(q) - i) : b[k] = q[i + k]
  <2>1. i + 1 \in 1..(Len(q) + 1) /\ Len(q) \in 0..Len(q) /\ i + 1 <= Len(q) + 1
    BY <1>0
  <2>2. /\ b \in Seq(S) /\ Len(b) = Len(q) + 1 - (i + 1)
        /\ \A k \in 1..(Len(q) + 1 - (i + 1)) : b[k] = q[(i + 1) + k - 1]
    BY <2>1, SubSeqIs
  <2>3. /\ Len(q) + 1 - (i + 1) = Len(q) - i
        /\ \A k \in 1..(Len(q) - i) : (i + 1) + k - 1 = i + k
    BY <1>0
  <2> HIDE DEF b
  <2> QED
    BY <2>2, <2>3
<1>3. r = c \o b
  BY DEF Two
<1> HIDE DEF a, b
<1>4. <<x, y>> \in Seq(S) /\ Len(<<x, y>>) = 2 /\ <<x, y>>[1] = x /\ <<x, y>>[2] = y
  OBVIOUS
<1>5. /\ c \in Seq(S) /\ Len(c) = i + 1 /\ \A k \in 1..(i - 1) : c[k] = q[k]
      /\ c[i] = x /\ c[i + 1] = y
  <2>1. /\ c \in Seq(S) /\ Len(c) = Len(a) + Len(<<x, y>>)
        /\ \A k \in 1..Len(a) : c[k] = a[k]
        /\ \A k \in 1..Len(<<x, y>>) : c[Len(a) + k] = <<x, y>>[k]
    BY <1>1, <1>4, Concatenated
  <2>2. c[Len(a) + 1] = <<x, y>>[1] /\ c[Len(a) + 2] = <<x, y>>[2]
    <3>1. 1 \in 1..Len(<<x, y>>) /\ 2 \in 1..Len(<<x, y>>)
      BY <1>4
    <3> QED
      BY <2>1, <3>1
  <2>3. Len(a) + 1 = i /\ Len(a) + 2 = i + 1 /\ Len(a) + 2 = i + 1
    BY <1>0, <1>1
  <2> HIDE DEF c
  <2> QED
    BY <1>1, <1>4, <2>1, <2>2, <2>3
<1> HIDE DEF c
<1>6. /\ c \o b \in Seq(S) /\ Len(c \o b) = Len(c) + Len(b)
      /\ \A k \in 1..Len(c) : (c \o b)[k] = c[k]
      /\ \A k \in 1..Len(b) : (c \o b)[Len(c) + k] = b[k]
  <2>1. c \in Seq(S) /\ b \in Seq(S)
    BY <1>2, <1>5
  <2> QED
    BY <2>1, Concatenated
<1>7. r \in Seq(S) /\ Len(r) = Len(q) + 1
  <2>1. Len(r) = (i + 1) + (Len(q) - i)
    BY <1>2, <1>3, <1>5, <1>6
  <2>2. (i + 1) + (Len(q) - i) = Len(q) + 1
    BY <1>0
  <2> QED
    BY <2>1, <2>2, <1>3, <1>6
<1>8. ASSUME NEW j \in 1..(i - 1) PROVE r[j] = q[j]
  <2>1. j \in 1..Len(c)
    BY <1>0, <1>5
  <2> QED
    BY <2>1, <1>3, <1>5, <1>6
<1>9. r[i] = x /\ r[i + 1] = y
  <2>1. i \in 1..Len(c) /\ i + 1 \in 1..Len(c)
    BY <1>0, <1>5
  <2> QED
    BY <2>1, <1>3, <1>5, <1>6
<1>10. ASSUME NEW j \in (i + 2)..(Len(q) + 1) PROVE r[j] = q[j - 1]
  <2> DEFINE k == j - (i + 1)
  <2>1. k \in 1..Len(b) /\ k \in 1..(Len(q) - i) /\ Len(c) + k = j /\ i + k = j - 1
    BY <1>0, <1>2, <1>5
  <2> HIDE DEF k
  <2>2. r[Len(c) + k] = b[k] /\ b[k] = q[i + k]
    BY <2>1, <1>2, <1>3, <1>6
  <2> QED
    BY <2>1, <2>2
<1> QED
  BY <1>7, <1>8, <1>9, <1>10 DEF IsTwo

\* A segment is split, or is not when it is small enough.
LEMMA SplitIs ==
    ASSUME NEW q \in Seq(Segment), NEW a \in Nat, NEW b \in Nat, Chain(q, a, b),
           b < SeqSpace, NEW i \in 1..Len(q), NEW n \in Nat, 0 < n, n <= q[i].len,
           NEW r, r = Split(q, i, n)
    PROVE  /\ r \in Seq(Segment) /\ Chain(r, a, b) /\ Refines(r, q)
           /\ i \in 1..Len(r) /\ r[i] = [q[i] EXCEPT !.len = n]
<1> DEFINE s == q[i]
           x == [s EXCEPT !.len = n]
           y == [s EXCEPT !.seq = s.seq + n, !.len = s.len - n]
<1>1. /\ Len(q) \in Nat /\ s \in Segment /\ s.seq \in Nat /\ s.len \in Nat
      /\ s.len \in 1..SndBuf /\ End(s) = s.seq + s.len /\ SndBuf \in Nat
  BY SegmentsAre, PseudoTcpAssumption
<1>2. a <= s.seq /\ End(s) <= b
  BY DEF Chain
<1>3. CASE n = s.len
  <2>1. r = q
    BY <1>3 DEF Split
  <2>2. [s EXCEPT !.len = n] = s
    BY <1>1, <1>3 DEF Segment
  <2>3. ASSUME NEW j \in 1..Len(q) PROVE Part(q[j], q[j])
    BY SegmentsAre DEF Part
  <2>4. Refines(q, q)
    BY <2>3 DEF Refines
  <2> QED
    BY <2>1, <2>2, <2>4
<1>4. CASE n # s.len
  <2>1. n < s.len /\ s.seq + n < SeqSpace
    BY <1>1, <1>2, <1>4, PseudoTcpAssumption
  <2>2. Plus(s.seq, n) = s.seq + n
    BY <1>1, <2>1, PlusIs
  <2>3. r = Two(q, i, x, y)
    BY <1>4, <2>2 DEF Split, Two
  <2>01. n \in 1..SndBuf /\ s.len - n \in 1..SndBuf /\ s.seq + n \in Nat
    BY SMTT(60), <1>1, <2>1
  <2>02. (s.seq + n) + (s.len - n) = s.seq + s.len
    BY <1>1
  <2>4. /\ x \in Segment /\ x.seq = s.seq /\ x.len = n /\ x.ctl = s.ctl /\ x.xmit = s.xmit
        /\ End(x) = s.seq + n
    <3> HIDE DEF s
    <3> QED
      BY <1>1, <2>01 DEF Segment, End
  <2>5. /\ y \in Segment /\ y.seq = s.seq + n /\ y.len = s.len - n /\ y.ctl = s.ctl
        /\ y.xmit = s.xmit /\ End(y) = End(s)
    <3> DEFINE k == s.seq + n
               l == s.len - n
    <3>1. y = [s EXCEPT !.seq = k, !.len = l]
      OBVIOUS
    <3>2. k \in Nat /\ l \in 1..SndBuf /\ k + l = s.seq + s.len
      BY <2>01, <2>02
    <3> HIDE DEF s, k, l
    <3>3. /\ y \in Segment /\ y.seq = k /\ y.len = l /\ y.ctl = s.ctl
          /\ y.xmit = s.xmit
      BY <1>1, <3>1, <3>2 DEF Segment
    <3>4. End(y) = End(s)
      BY <3>2, <3>3 DEF End
    <3> QED
      BY <3>3, <3>4 DEF k, l
  <2> HIDE DEF x, y
  <2>6. /\ r \in Seq(Segment) /\ Len(r) = Len(q) + 1
        /\ \A j \in 1..(i - 1) : r[j] = q[j]
        /\ r[i] = x /\ r[i + 1] = y
        /\ \A j \in (i + 2)..(Len(q) + 1) : r[j] = q[j - 1]
    <3>1. x \in Segment /\ y \in Segment
      BY <2>4, <2>5
    <3>2. q \in Seq(Segment) /\ i \in 1..Len(q)
      OBVIOUS
    <3>3. r \in Seq(Segment) /\ IsTwo(r, q, i, x, y)
      BY <2>3, <3>1, <3>2, InTwo
    <3> QED
      BY <3>3, <3>1 DEF IsTwo
  <2>7. i \in 1..Len(r)
    BY <1>1, <2>6
  \* Where a segment comes from.
  <2>8. ASSUME NEW j \in 1..Len(r)
        PROVE  \/ j < i /\ j \in 1..Len(q) /\ r[j] = q[j]
               \/ j = i /\ r[j] = x
               \/ j = i + 1 /\ r[j] = y
               \/ j > i + 1 /\ j - 1 \in 1..Len(q) /\ r[j] = q[j - 1]
    <3>1. CASE j < i
      <4>1. j \in 1..(i - 1) /\ j \in 1..Len(q)
        BY <3>1, <1>1
      <4> QED
        BY <3>1, <4>1, <2>6
    <3>2. CASE j = i
      BY <3>2, <2>6
    <3>3. CASE j = i + 1
      BY <3>3, <2>6
    <3>4. CASE j > i + 1
      <4>1. j \in (i + 2)..(Len(q) + 1) /\ j - 1 \in 1..Len(q)
        BY <3>4, <1>1, <2>6
      <4> QED
        BY <3>4, <4>1, <2>6
    <3>5. j < i \/ j = i \/ j = i + 1 \/ j > i + 1
      BY <1>1, <2>6
    <3> QED
      BY <3>1, <3>2, <3>3, <3>4, <3>5
  <2>9. ASSUME NEW j \in 1..Len(q) PROVE Part(q[j], q[j])
    BY SegmentsAre DEF Part
  <2>10. Part(x, s) /\ Part(y, s)
    BY <1>1, <2>1, <2>4, <2>5 DEF Part
  <2>11. Refines(r, q)
    <3> SUFFICES ASSUME NEW j \in 1..Len(r)
                 PROVE  \E k \in 1..Len(q) : Part(r[j], q[k])
      BY DEF Refines
    <3> QED
      BY <2>8, <2>9, <2>10
  <2>12. r # <<>>
    BY <2>7
  <2>13. r[1].seq = a
    <3>1. q # <<>> /\ q[1].seq = a /\ 1 \in 1..Len(r) /\ 1 \in 1..Len(q)
      BY <1>1, <2>7 DEF Chain
    <3>2. CASE i = 1
      BY <3>1, <3>2, <2>4, <2>6
    <3>3. CASE i # 1
      BY <3>1, <3>3, <1>1, <2>6
    <3> QED
      BY <3>2, <3>3
  <2>14. End(r[Len(r)]) = b
    <3>1. q # <<>> /\ End(q[Len(q)]) = b
      BY <1>1 DEF Chain
    <3>2. CASE i = Len(q)
      BY <3>1, <3>2, <2>5, <2>6
    <3>3. CASE i # Len(q)
      <4>1. Len(r) \in (i + 2)..(Len(q) + 1) /\ Len(r) - 1 = Len(q)
        BY <3>3, <1>1, <2>6
      <4> QED
        BY <3>1, <4>1, <2>6
    <3> QED
      BY <3>2, <3>3
  <2>15. ASSUME NEW j \in 1..(Len(r) - 1) PROVE r[j + 1].seq = End(r[j])
    <3>1. j \in 1..Len(q) /\ j \in 1..Len(r) /\ j + 1 \in 1..Len(r)
      BY <1>1, <2>6
    <3>2. CASE j + 1 < i
      <4>1. j \in 1..(i - 1) /\ j + 1 \in 1..(i - 1) /\ j \in 1..(Len(q) - 1)
        BY SMTT(60), <3>1, <3>2, <1>1
      <4> QED
        BY <4>1, <2>6 DEF Chain
    <3>3. CASE j + 1 = i
      <4>1. j \in 1..(i - 1) /\ j \in 1..(Len(q) - 1)
        BY <3>1, <3>3, <1>1
      <4>2. q[j + 1].seq = End(q[j])
        BY <4>1 DEF Chain
      <4> QED
        BY <3>3, <4>1, <4>2, <2>4, <2>6
    <3>4. CASE j = i
      BY <3>4, <2>4, <2>5, <2>6
    <3>5. CASE j = i + 1
      <4>1. j + 1 \in (i + 2)..(Len(q) + 1) /\ (j + 1) - 1 = i + 1 /\ i \in 1..(Len(q) - 1)
        BY <3>1, <3>5, <1>1, <2>6
      <4>2. q[i + 1].seq = End(s)
        BY <4>1 DEF Chain
      <4> QED
        BY <3>5, <4>1, <4>2, <2>5, <2>6
    <3>6. CASE j > i + 1
      <4>1. /\ j \in (i + 2)..(Len(q) + 1) /\ j + 1 \in (i + 2)..(Len(q) + 1)
            /\ (j + 1) - 1 = (j - 1) + 1 /\ j - 1 \in 1..(Len(q) - 1)
        BY <3>1, <3>6, <1>1, <2>6
      <4>2. q[(j - 1) + 1].seq = End(q[j - 1])
        BY <4>1 DEF Chain
      <4> QED
        BY <4>1, <4>2, <2>6
    <3> QED
      BY <3>1, <3>2, <3>3, <3>4, <3>5, <3>6, <1>1
  <2>16. ASSUME NEW j \in 1..Len(r) PROVE a <= r[j].seq /\ End(r[j]) <= b
    <3>1. PICK k \in 1..Len(q) : Part(r[j], q[k])
      BY <2>11 DEF Refines
    <3>2. a <= q[k].seq /\ End(q[k]) <= b
      BY DEF Chain
    <3>3. /\ q[k].seq \in Nat /\ End(q[k]) \in Nat
          /\ r[j].seq \in Nat /\ End(r[j]) \in Nat
      BY <2>6, SegmentsAre
    <3> QED
      BY SMTT(40), <3>1, <3>2, <3>3 DEF Part
  <2>17. ASSUME NEW j \in 1..Len(r), NEW k \in 1..Len(r), j < k
         PROVE  End(r[j]) <= r[k].seq
    <3>1. \A l, m \in 1..Len(q) : l < m => End(q[l]) <= q[m].seq
      BY DEF Chain
    <3>2. /\ r[j].seq \in Nat /\ End(r[j]) \in Nat /\ r[k].seq \in Nat
          /\ End(s) \in Nat /\ End(s) = s.seq + s.len
      BY <2>6, SegmentsAre
    <3>3. CASE j < i /\ r[j] = q[j] /\ j \in 1..Len(q)
      <4>1. End(q[j]) <= s.seq
        BY <3>1, <3>3
      <4>2. CASE k < i /\ r[k] = q[k] /\ k \in 1..Len(q)
        BY <3>1, <3>3, <4>2, <2>17
      <4>3. CASE k = i /\ r[k] = x
        BY <3>3, <4>1, <4>3, <2>4
      <4>4. CASE k = i + 1 /\ r[k] = y
        <5>1. End(q[j]) \in Nat /\ s.seq \in Nat /\ y.seq = s.seq + n
          BY <3>3, <2>5, SegmentsAre
        <5>2. End(q[j]) <= y.seq
          <6> HIDE DEF s
          <6> QED
            BY <4>1, <5>1
        <5> QED
          BY <3>3, <4>4, <5>2
      <4>5. CASE k > i + 1 /\ k - 1 \in 1..Len(q) /\ r[k] = q[k - 1]
        <5>1. j < k - 1
          BY <3>3, <4>5, <1>1
        <5> QED
          BY <3>1, <3>3, <4>5, <5>1
      <4> QED
        BY <2>8, <4>2, <4>3, <4>4, <4>5
    <3>4. CASE j = i /\ r[j] = x
      <4>1. CASE k = i + 1 /\ r[k] = y
        <5>1. End(x) = y.seq /\ y.seq \in Nat
          BY SMTT(60), <1>1, <2>4, <2>5
        <5> QED
          BY <3>4, <4>1, <5>1
      <4>2. CASE k > i + 1 /\ k - 1 \in 1..Len(q) /\ r[k] = q[k - 1]
        <5>1. i < k - 1
          BY <4>2, <1>1
        <5>2. End(s) <= q[k - 1].seq
          BY <3>1, <4>2, <5>1
        <5>3. /\ End(x) = s.seq + n /\ End(s) = s.seq + s.len /\ n < s.len
              /\ q[k - 1].seq \in Nat /\ s.seq \in Nat /\ s.len \in Nat
          BY <4>2, <1>1, <2>1, <2>4, SegmentsAre
        <5> DEFINE z == q[k - 1].seq
        <5>4. End(x) <= z
          <6> HIDE DEF s, z
          <6>1. End(s) <= z /\ z \in Nat
            BY <5>2, <5>3 DEF z
          <6> QED
            BY <5>3, <6>1
        <5> QED
          BY <3>4, <4>2, <5>4
      <4> QED
        BY <3>4, <4>1, <4>2, <2>8, <2>17, <1>1
    <3>5. CASE j = i + 1 /\ r[j] = y
      <4>1. k > i + 1 /\ k - 1 \in 1..Len(q) /\ r[k] = q[k - 1]
        BY SMTT(40), <3>5, <2>8, <2>17, <1>1
      <4>2. i < k - 1
        BY <4>1, <1>1
      <4> QED
        BY <3>1, <3>5, <4>1, <4>2, <2>5
    <3>6. CASE j > i + 1 /\ j - 1 \in 1..Len(q) /\ r[j] = q[j - 1]
      <4>1. k > i + 1 /\ k - 1 \in 1..Len(q) /\ r[k] = q[k - 1]
        BY SMTT(40), <3>6, <2>8, <2>17, <1>1
      <4>2. j - 1 < k - 1
        BY <2>17
      <4> QED
        BY <3>1, <3>6, <4>1, <4>2
    <3> QED
      BY <2>8, <3>3, <3>4, <3>5, <3>6
  <2>18. Chain(r, a, b)
    BY <2>12, <2>13, <2>14, <2>15, <2>16, <2>17 DEF Chain
  <2> QED
    BY <2>6, <2>7, <2>11, <2>18 DEF x
<1> QED
  BY <1>3, <1>4

\* The segments behind the first k of a chain are a chain.
LEMMA SuffixChain ==
    ASSUME NEW q \in Seq(Segment), NEW a \in Nat, NEW b \in Nat, Chain(q, a, b),
           NEW k \in Nat, k < Len(q), NEW r, r = SubSeq(q, k + 1, Len(q))
    PROVE  /\ r \in Seq(Segment) /\ r # <<>> /\ Chain(r, q[k + 1].seq, b)
           /\ Refines(r, q)
<1> DEFINE n == Len(q) - k
           c == q[k + 1].seq
<1>1. /\ Len(q) \in Nat /\ n \in Nat /\ n > 0
      /\ \A i \in 1..Len(q) : /\ q[i].seq \in Nat /\ End(q[i]) \in Nat
                             /\ End(q[i]) = q[i].seq + q[i].len /\ q[i].len \in Nat
  BY SegmentsAre
<1>2. /\ r \in Seq(Segment) /\ Len(r) = n
      /\ \A i \in 1..n : r[i] = q[k + i] /\ k + i \in 1..Len(q)
  <2>1. k + 1 \in 1..(Len(q) + 1) /\ Len(q) \in 0..Len(q) /\ k + 1 <= Len(q) + 1
    BY <1>1
  <2>2. /\ r \in Seq(Segment) /\ Len(r) = Len(q) + 1 - (k + 1)
        /\ \A i \in 1..(Len(q) + 1 - (k + 1)) : r[i] = q[(k + 1) + i - 1]
    BY <2>1, SubSeqIs
  <2>3. /\ Len(q) + 1 - (k + 1) = n
        /\ \A i \in 1..n : (k + 1) + i - 1 = k + i /\ k + i \in 1..Len(q)
    BY <1>1
  <2> HIDE DEF n
  <2> QED
    BY <2>2, <2>3
<1>3. r # <<>> /\ q # <<>> /\ 1 \in 1..n /\ n \in 1..n /\ k + n = Len(q)
      /\ k + 1 \in 1..Len(q)
  <2>1. 1 \in 1..n /\ n \in 1..n /\ k + n = Len(q) /\ k + 1 \in 1..Len(q) /\ q # <<>>
    BY <1>1
  <2>2. r # <<>>
    <3> HIDE DEF n
    <3> QED
      BY <1>1, <1>2
  <2> QED
    BY <2>1, <2>2
<1>4. r[1].seq = c /\ End(r[Len(r)]) = b
  <2>1. r[1] = q[k + 1] /\ r[n] = q[k + n] /\ End(q[Len(q)]) = b
    BY <1>2, <1>3 DEF Chain
  <2> HIDE DEF n
  <2> QED
    BY <2>1, <1>2, <1>3
<1> HIDE DEF n, c
<1>5. ASSUME NEW i \in 1..(Len(r) - 1) PROVE r[i + 1].seq = End(r[i])
  <2>1. /\ i \in 1..n /\ i + 1 \in 1..n /\ k + i \in 1..(Len(q) - 1)
        /\ k + (i + 1) = (k + i) + 1
    BY <1>1, <1>2, <1>3
  <2>2. q[(k + i) + 1].seq = End(q[k + i])
    BY <2>1 DEF Chain
  <2> QED
    BY <2>1, <2>2, <1>2
<1>6. ASSUME NEW i \in 1..Len(r), NEW j \in 1..Len(r), i < j
      PROVE  End(r[i]) <= r[j].seq
  <2>1. k + i \in 1..Len(q) /\ k + j \in 1..Len(q) /\ k + i < k + j
        /\ r[i] = q[k + i] /\ r[j] = q[k + j]
    BY <1>2, <1>6
  <2>2. End(q[k + i]) <= q[k + j].seq
    BY <2>1 DEF Chain
  <2> QED
    BY <2>1, <2>2
<1>7. ASSUME NEW i \in 1..Len(r) PROVE c <= r[i].seq /\ End(r[i]) <= b
  <2>1. k + i \in 1..Len(q) /\ r[i] = q[k + i]
    BY <1>2
  <2>2. End(q[k + i]) <= b
    BY <2>1 DEF Chain
  <2>3. c <= q[k + i].seq
    <3>1. CASE i = 1
      BY SMTT(40), <3>1, <2>1, <1>1 DEF c
    <3>2. CASE i # 1
      <4>1. k + 1 < k + i
        BY <3>2, <1>2
      <4>2. End(q[k + 1]) <= q[k + i].seq
        BY <4>1, <2>1, <1>3 DEF Chain
      <4>3. /\ End(q[k + 1]) = q[k + 1].seq + q[k + 1].len /\ q[k + 1].len \in Nat
            /\ q[k + 1].seq \in Nat /\ q[k + i].seq \in Nat
        BY <1>1, <1>3, <2>1
      <4> DEFINE u == q[k + 1]
                 v == q[k + i]
      <4>4. /\ End(u) = u.seq + u.len /\ u.len \in Nat /\ u.seq \in Nat
            /\ v.seq \in Nat /\ End(u) <= v.seq
        BY <4>2, <4>3
      <4> HIDE DEF u, v
      <4>5. u.seq <= v.seq
        BY <4>4
      <4> QED
        BY <4>5 DEF c, u, v
    <3> QED
      BY <3>1, <3>2
  <2> QED
    BY <2>1, <2>2, <2>3
<1>8. Chain(r, c, b)
  BY <1>3, <1>4, <1>5, <1>6, <1>7 DEF Chain
<1>9. Refines(r, q)
  <2> SUFFICES ASSUME NEW i \in 1..Len(r) PROVE \E j \in 1..Len(q) : Part(r[i], q[j])
    BY DEF Refines
  <2>1. k + i \in 1..Len(q) /\ r[i] = q[k + i]
    BY <1>2
  <2>2. Part(r[i], q[k + i])
    BY SMTT(60), <1>1, <2>1 DEF Part
  <2> QED
    BY <2>1, <2>2
<1> QED
  BY <1>2, <1>3, <1>8, <1>9 DEF c

\* The first bytes are acknowledged, up to the end of a segment.
LEMMA UnackIs ==
    ASSUME NEW q \in Seq(Segment), NEW a \in Nat, NEW b \in Nat, Chain(q, a, b),
           NEW c \in Nat, a <= c, c <= b, Uncut(q, c),
           NEW r, r = Unacknowledged(q, c - a)
    PROVE  r \in Seq(Segment) /\ Chain(r, c, b) /\ Refines(r, q)
<1> DEFINE n == Len(q)
           T == {i \in 1..n : End(q[i]) <= c}
           k == IF T = {} THEN 0 ELSE Largest(T)
           left == SubSeq(q, k + 1, n)
<1>1. /\ n \in Nat /\ DOMAIN q = 1..n
      /\ \A i \in 1..n : /\ q[i].seq \in Nat /\ End(q[i]) \in Nat /\ q[i] \in Segment
                        /\ End(q[i]) = q[i].seq + q[i].len /\ q[i].len \in Nat
  BY SegmentsAre
<1>2. {i \in DOMAIN q : SumLen(SubSeq(q, 1, i)) <= c - a} = T
  <2>1. ASSUME NEW i \in 1..n
        PROVE  SumLen(SubSeq(q, 1, i)) <= c - a <=> End(q[i]) <= c
    <3>1. i \in 0..Len(q) /\ i # 0
      BY <1>1
    <3>2. SumLen(SubSeq(q, 1, i)) = End(q[i]) - a
      BY <3>1, PrefixChain
    <3> QED
      BY <3>2, <1>1
  <2> QED
    BY <2>1, <1>1
<1>3. k \in 0..n /\ (k > 0 => k \in T) /\ \A i \in T : i <= k
  <2>1. CASE T = {}
    BY <2>1, <1>1
  <2>2. CASE T # {}
    <3>1. T \subseteq Nat /\ \A i \in T : i <= n
      BY <1>1
    <3>2. Largest(T) \in T /\ \A i \in T : Largest(T) >= i
      <4> HIDE DEF T, n
      <4> QED
        BY <2>2, <3>1, <1>1, LargestIs
    <3>3. k = Largest(T)
      BY <2>2
    <3> HIDE DEF k
    <3> QED
      BY <3>1, <3>2, <3>3, <1>1
  <2> QED
    BY <2>1, <2>2
<1> HIDE DEF k
<1>4. T = 1..k
  <2>1. ASSUME NEW i \in 1..k PROVE i \in T
    <3>1. k \in T /\ k \in 1..n /\ i \in 1..n /\ End(q[k]) <= c
      BY <1>1, <1>3
    <3>2. CASE i = k
      BY <3>1, <3>2
    <3>3. CASE i # k
      <4>1. End(q[i]) <= q[k].seq
        BY <3>1, <3>3 DEF Chain
      <4>2. /\ End(q[k]) = q[k].seq + q[k].len /\ q[k].len \in Nat /\ q[k].seq \in Nat
            /\ End(q[i]) \in Nat
        BY <1>1, <3>1
      <4> QED
        BY <3>1, <4>1, <4>2
    <3> QED
      BY <3>2, <3>3
  <2>2. \A i \in T : i \in 1..k
    BY <1>1, <1>3
  <2> HIDE DEF T
  <2> QED
    BY <2>1, <2>2
<1> HIDE DEF T
<1>5. Cardinality(T) = k
  <2>1. k \in Nat
    BY <1>1, <1>3
  <2>2. Cardinality(1..k) = IF 1 <= k THEN k - 1 + 1 ELSE 0
    BY <2>1, FS_Interval
  <2> QED
    BY <2>1, <2>2, <1>4
<1>6. r = IF left = << >> THEN left
          ELSE [left EXCEPT ![1].len = @ - ((c - a) - SumLen(SubSeq(q, 1, k)))]
  BY <1>2, <1>5 DEF Unacknowledged
<1>7. SumLen(SubSeq(q, 1, k)) = IF k = 0 THEN 0 ELSE End(q[k]) - a
  BY <1>3, PrefixChain
<1>8. CASE k = n
  <2>1. left = <<>>
    BY <1>8, <1>1
  <2>2. c = b
    <3>1. CASE n = 0
      BY <3>1, <1>1 DEF Chain
    <3>2. CASE n # 0
      <4>1. n \in T /\ End(q[n]) = b
        BY <1>1, <1>3, <1>8, <3>2 DEF Chain
      <4> QED
        BY <4>1 DEF T
    <3> QED
      BY <3>1, <3>2
  <2>3. r = <<>>
    BY <1>6, <2>1
  <2>4. Chain(<<>>, b, b) /\ Refines(<<>>, q) /\ <<>> \in Seq(Segment)
    BY DEF Chain, Refines
  <2> QED
    BY <2>2, <2>3, <2>4
<1>9. CASE k < n
  <2>1. k + 1 \in 1..n /\ k \in Nat
    BY <1>1, <1>3, <1>9
  <2>2. /\ left \in Seq(Segment) /\ left # <<>> /\ Chain(left, q[k + 1].seq, b)
        /\ Refines(left, q)
    BY <2>1, <1>9, SuffixChain
  <2>3. c <= q[k + 1].seq
    <3>1. k + 1 \notin T
      BY <1>4, <2>1
    <3>2. ~(End(q[k + 1]) <= c)
      BY <3>1, <2>1 DEF T
    <3> QED
      BY <3>2, <2>1 DEF Uncut
  <2>4. q[k + 1].seq - a = (IF k = 0 THEN 0 ELSE End(q[k]) - a) /\ q[k + 1].seq <= c
    <3>1. CASE k = 0
      <4>1. q[1].seq = a
        BY <2>1, <1>1 DEF Chain
      <4> QED
        BY <3>1, <4>1
    <3>2. CASE k # 0
      <4>1. k \in 1..(n - 1) /\ k \in T
        BY <3>2, <1>1, <1>3, <1>9
      <4>2. q[k + 1].seq = End(q[k]) /\ End(q[k]) <= c
        BY <4>1 DEF Chain, T
      <4> QED
        BY <3>2, <4>2
    <3> QED
      BY <3>1, <3>2
  <2>5. q[k + 1].seq = c
    BY <2>1, <2>3, <2>4, <1>1
  <2>6. SumLen(SubSeq(q, 1, k)) = c - a
    BY <1>7, <2>4, <2>5
  <2>7. r = left
    <3> DEFINE d == (c - a) - SumLen(SubSeq(q, 1, k))
    <3>1. d = 0
      BY <2>6
    <3>2. r = [left EXCEPT ![1].len = @ - d]
      BY <1>6, <2>2
    <3> HIDE DEF d, left
    <3>3. 1 \in DOMAIN left /\ left[1] \in Segment /\ left[1].len \in Nat
      BY <2>2, SegmentsAre
    <3>4. left[1].len - d = left[1].len
      BY <3>1, <3>3
    <3>5. r = [left EXCEPT ![1] = [left[1] EXCEPT !.len = left[1].len]]
      BY <3>2, <3>4
    <3>6. [left[1] EXCEPT !.len = left[1].len] = left[1]
      BY <3>3 DEF Segment
    <3>7. r = [left EXCEPT ![1] = left[1]]
      BY <3>5, <3>6
    <3>8. left = [i \in DOMAIN left |-> left[i]]
      BY <2>2
    <3> QED
      BY <3>7, <3>8
  <2> QED
    BY <2>2, <2>5, <2>7
<1>10. k = n \/ k < n
  <2> HIDE DEF n
  <2> QED
    BY <1>1, <1>3
<1> QED
  BY <1>8, <1>9, <1>10

\* A segment behind the first k ones.
LEMMA ExtendIs ==
    ASSUME NEW q \in Seq(Segment), NEW a \in Nat, NEW b \in Nat, Chain(q, a, b),
           NEW k \in 0..Len(q), NEW r \in Seq(Segment), Len(r) = k + 1,
           \A i \in 1..k : r[i] = q[i],
           k = 0 => r[k + 1].seq = a,
           k > 0 => r[k + 1].seq = End(q[k])
    PROVE  Chain(r, a, End(r[k + 1]))
<1> DEFINE x == r[k + 1]
           e == End(x)
<1>1. /\ Len(q) \in Nat /\ k \in Nat /\ k + 1 \in 1..Len(r)
      /\ \A i \in 1..Len(q) : /\ q[i].seq \in Nat /\ End(q[i]) \in Nat
                             /\ End(q[i]) = q[i].seq + q[i].len /\ q[i].len \in Nat
  BY SegmentsAre
<1>2. x.seq \in Nat /\ x.len \in Nat /\ e \in Nat /\ e = x.seq + x.len
  BY <1>1, SegmentsAre
<1>3. r[k + 1] = x /\ r[Len(r)] = x
  OBVIOUS
<1>4. k = 0 => x.seq = a
  OBVIOUS
<1>5. k > 0 => x.seq = End(q[k])
  OBVIOUS
<1> HIDE DEF x
<1>6. ASSUME NEW i \in 1..k
      PROVE  /\ i \in 1..Len(q) /\ r[i] = q[i] /\ a <= q[i].seq
             /\ End(q[i]) <= x.seq
  <2>1. i \in 1..Len(q) /\ k \in 1..Len(q) /\ k > 0
    BY <1>1
  <2>2. a <= q[i].seq
    BY <2>1 DEF Chain
  <2>3. CASE i = k
    BY <2>1, <2>2, <2>3, <1>1, <1>5
  <2>4. CASE i # k
    <3>1. End(q[i]) <= q[k].seq
      BY <2>1, <2>4 DEF Chain
    <3>2. /\ End(q[k]) = q[k].seq + q[k].len /\ q[k].len \in Nat
          /\ q[k].seq \in Nat /\ End(q[i]) \in Nat
      BY <1>1, <2>1
    <3>3. End(q[i]) <= End(q[k])
      BY <3>1, <3>2
    <3> QED
      BY <2>1, <2>2, <3>3, <1>5
  <2> QED
    BY <2>3, <2>4
<1>7. r # <<>> /\ r[1].seq = a /\ End(r[Len(r)]) = e
  <2>1. r # <<>>
    BY <1>1
  <2>2. CASE k = 0
    BY <2>1, <2>2, <1>3, <1>4
  <2>3. CASE k # 0
    <3>1. 1 \in 1..k /\ q # <<>>
      BY <2>3, <1>1
    <3> QED
      BY <2>1, <3>1, <1>3, <1>6 DEF Chain
  <2> QED
    BY <2>2, <2>3
<1>8. ASSUME NEW i \in 1..(Len(r) - 1) PROVE r[i + 1].seq = End(r[i])
  <2>1. i \in 1..k
    BY <1>1
  <2>2. CASE i = k
    BY <2>1, <2>2, <1>1, <1>3, <1>5
  <2>3. CASE i # k
    <3>1. i + 1 \in 1..k /\ i \in 1..(Len(q) - 1)
      BY <2>1, <2>3, <1>1
    <3>2. q[i + 1].seq = End(q[i])
      BY <3>1 DEF Chain
    <3> QED
      BY <2>1, <3>1, <3>2
  <2> QED
    BY <2>2, <2>3
<1>9. ASSUME NEW i \in 1..Len(r) PROVE a <= r[i].seq /\ End(r[i]) <= e
  <2>1. CASE i \in 1..k
    <3>1. r[i] = q[i] /\ a <= q[i].seq /\ End(q[i]) <= x.seq /\ End(q[i]) \in Nat
      BY <2>1, <1>1, <1>6
    <3>2. End(q[i]) <= e
      <4> HIDE DEF e
      <4> QED
        BY <3>1, <1>2
    <3> QED
      BY <3>1, <3>2
  <2>2. CASE i \notin 1..k
    <3>1. i = k + 1
      BY <2>2, <1>1
    <3>2. a <= x.seq
      <4>1. CASE k = 0
        BY <4>1, <1>2, <1>4
      <4>2. CASE k # 0
        <5>1. k \in 1..k /\ k \in 1..Len(q)
          BY <4>2, <1>1
        <5>2. a <= q[k].seq /\ End(q[k]) <= x.seq
          BY <5>1, <1>6
        <5>3. /\ End(q[k]) = q[k].seq + q[k].len /\ q[k].len \in Nat
              /\ q[k].seq \in Nat
          BY <5>1, <1>1
        <5> QED
          BY <5>2, <5>3, <1>2
      <4> QED
        BY <4>1, <4>2
    <3> QED
      BY <3>1, <3>2, <1>2, <1>3
  <2> QED
    BY <2>1, <2>2
<1>10. ASSUME NEW i \in 1..Len(r), NEW j \in 1..Len(r), i < j
       PROVE  End(r[i]) <= r[j].seq
  <2>1. i \in 1..k
    BY <1>1, <1>10
  <2>2. CASE j \in 1..k
    <3>1. i \in 1..Len(q) /\ j \in 1..Len(q) /\ r[i] = q[i] /\ r[j] = q[j]
      BY <2>1, <2>2, <1>6
    <3> QED
      BY <3>1, <1>10 DEF Chain
  <2>3. CASE j \notin 1..k
    <3>1. j = k + 1
      BY <2>3, <1>1
    <3> QED
      BY <2>1, <3>1, <1>3, <1>6
  <2> QED
    BY <2>2, <2>3
<1>11. Chain(r, a, e)
  BY <1>7, <1>8, <1>9, <1>10 DEF Chain
<1> QED
  BY <1>11 DEF x

\* l bytes may be queued at b: the control code is the first of all.
Behind(q, b, l, ctl) == IF ctl THEN q = <<>> /\ b = 0 /\ l = 1 ELSE b > 0

\* More is queued: d is the first byte that was not sent.
LEMMA QueueIs ==
    ASSUME NEW q \in Seq(Segment), NEW a \in Nat, NEW b \in Nat, Chain(q, a, b),
           NEW l \in Nat, l > 0, b + l <= a + SndBuf, NEW ctl \in BOOLEAN,
           NEW d \in Nat, d <= b, SentUpTo(q, d), ControlFirst(q),
           Behind(q, b, l, ctl), NEW r, r = Enqueued(q, b, l, ctl)
    PROVE  /\ r \in Seq(Segment) /\ Chain(r, a, b + l)
           /\ SentUpTo(r, d) /\ ControlFirst(r)
           /\ \A c \in Nat : c <= d /\ Uncut(q, c) => Uncut(r, c)
<1> DEFINE n == Len(q)
           merge == n > 0 /\ q[n].ctl = ctl /\ q[n].xmit = 0
           k == IF merge THEN n - 1 ELSE n
           x == IF merge THEN [q[n] EXCEPT !.len = q[n].len + l]
                ELSE [seq |-> b, len |-> l, ctl |-> ctl, xmit |-> 0]
<1>1. /\ n \in Nat /\ DOMAIN q = 1..n
      /\ \A i \in 1..n : /\ q[i].seq \in Nat /\ End(q[i]) \in Nat /\ q[i] \in Segment
                        /\ End(q[i]) = q[i].seq + q[i].len /\ q[i].len \in Nat
  BY SegmentsAre
<1>2. SndBuf \in Nat
  BY PseudoTcpAssumption
<1>3. a <= b
  <2>1. CASE n = 0
    BY <2>1, <1>1 DEF Chain
  <2>2. CASE n # 0
    <3>1. n \in 1..n
      BY <2>2, <1>1
    <3>2. a <= q[n].seq /\ End(q[n]) <= b
      BY <3>1 DEF Chain
    <3>3. End(q[n]) = q[n].seq + q[n].len /\ q[n].len \in Nat /\ q[n].seq \in Nat
      BY <3>1, <1>1
    <3> QED
      BY <3>2, <3>3
  <2> QED
    BY <2>1, <2>2
<1>4. k \in 0..n /\ k \in Nat
  BY <1>1
<1>5. /\ x \in Segment /\ x.xmit = 0 /\ End(x) = b + l /\ d <= x.seq
      /\ IF x.ctl THEN x.seq = 0 /\ x.len = 1 ELSE x.seq > 0
      /\ r \in Seq(Segment) /\ Len(r) = k + 1 /\ r[k + 1] = x
      /\ \A i \in 1..k : r[i] = q[i]
      /\ k > 0 => x.seq = End(q[k])
      /\ k = 0 => x.seq = a
  <2>1. CASE merge
    <3>1. n \in 1..n /\ q # <<>>
      BY <1>1, <2>1
    <3>2. a <= q[n].seq /\ End(q[n]) = b
      BY <3>1 DEF Chain
    <3>3. /\ q[n] \in Segment /\ q[n].seq \in Nat /\ q[n].len \in Nat
          /\ q[n].seq + q[n].len = b
      BY <3>1, <3>2, <1>1
    <3> DEFINE m == q[n].len + l
    <3>4. m \in 1..SndBuf /\ q[n].seq + m = b + l
      <4> DEFINE u == q[n].seq
                 v == q[n].len
      <4>1. u \in Nat /\ v \in Nat /\ u + v = b /\ a <= u /\ v > 0
        BY <3>1, <3>2, <3>3, SegmentsAre
      <4> HIDE DEF u, v
      <4>2. v + l \in 1..SndBuf /\ u + (v + l) = b + l
        BY <4>1, <1>2
      <4> QED
        BY <4>2 DEF u, v
    <3>5. x = [q[n] EXCEPT !.len = m]
      BY <2>1
    <3> HIDE DEF m
    <3>6. x \in Segment /\ x.seq = q[n].seq /\ x.len = m /\ x.ctl = q[n].ctl /\ x.xmit = 0
      BY <3>3, <3>4, <3>5, <2>1 DEF Segment
    <3>7. End(x) = b + l
      BY <3>4, <3>6 DEF End
    <3>8. r = [q EXCEPT ![n] = x]
      BY <2>1 DEF Enqueued
    <3> HIDE DEF x
    <3>9. r \in Seq(Segment) /\ Len(r) = n /\ r[n] = x /\ \A i \in 1..(n - 1) : r[i] = q[i]
      <4>1. r \in [1..n -> Segment] /\ r[n] = x /\ \A i \in 1..(n - 1) : r[i] = q[i]
        BY <3>1, <3>6, <3>8, <1>1
      <4>2. n \in Nat
        BY <1>1
      <4> HIDE DEF n
      <4> QED
        BY <4>1, <4>2
    <3>10. d <= x.seq
      BY <3>1, <3>6, <2>1 DEF SentUpTo
    <3>11. IF x.ctl THEN x.seq = 0 /\ x.len = 1 ELSE x.seq > 0
      <4>1. ~ctl
        BY <3>1 DEF Behind
      <4>2. ~x.ctl
        BY <4>1, <3>6, <2>1
      <4>3. IF q[n].ctl THEN q[n].seq = 0 /\ q[n].len = 1 ELSE q[n].seq > 0
        BY <3>1 DEF ControlFirst
      <4> QED
        BY <4>2, <4>3, <3>6
    <3>12. k = n - 1
      BY <2>1
    <3> HIDE DEF k
    <3>13. k > 0 => x.seq = End(q[k])
      <4> SUFFICES ASSUME k > 0 PROVE x.seq = End(q[k])
        OBVIOUS
      <4>1. n - 1 \in 1..(Len(q) - 1) /\ (n - 1) + 1 = n
        BY <3>12, <1>1
      <4>2. q[(n - 1) + 1].seq = End(q[n - 1])
        BY <4>1 DEF Chain
      <4> QED
        BY <3>6, <3>12, <4>1, <4>2
    <3>14. k = 0 => x.seq = a
      <4> SUFFICES ASSUME k = 0 PROVE x.seq = a
        OBVIOUS
      <4>1. n = 1
        BY <3>12, <1>1
      <4>2. q[1].seq = a
        BY <3>1 DEF Chain
      <4> QED
        BY <3>6, <4>1, <4>2
    <3>15. k + 1 = n
      BY <3>12, <1>1
    <3>16. \A i \in 1..k : r[i] = q[i]
      BY <3>9, <3>12
    <3>17. Len(r) = k + 1 /\ r[k + 1] = x
      BY <3>9, <3>15
    <3> QED
      BY <3>6, <3>7, <3>9, <3>10, <3>11, <3>13, <3>14, <3>16, <3>17
  <2>2. CASE ~merge
    <3>1. k = n /\ x = [seq |-> b, len |-> l, ctl |-> ctl, xmit |-> 0]
      BY <2>2
    <3>2. r = Append(q, x)
      BY <2>2 DEF Enqueued
    <3>3. l \in 1..SndBuf
      BY <1>2, <1>3
    <3> HIDE DEF x, k, merge
    <3>4. x \in Segment /\ x.seq = b /\ x.len = l /\ x.ctl = ctl /\ x.xmit = 0
      BY <3>1, <3>3 DEF Segment
    <3>9. IF x.ctl THEN x.seq = 0 /\ x.len = 1 ELSE x.seq > 0
      BY <3>4 DEF Behind
    <3>5. End(x) = b + l
      BY <3>4 DEF End
    <3>6. /\ r \in Seq(Segment) /\ Len(r) = n + 1 /\ \A i \in 1..n : r[i] = q[i]
          /\ r[n + 1] = x
      BY <3>2, <3>4, Appended
    <3>7. k > 0 => x.seq = End(q[k])
      BY <3>1, <3>4 DEF Chain
    <3>8. k = 0 => x.seq = a
      <4> SUFFICES ASSUME k = 0 PROVE x.seq = a
        OBVIOUS
      <4>1. q = <<>>
        BY <3>1
      <4>2. a = b
        BY <4>1 DEF Chain
      <4> QED
        BY <3>4, <4>2
    <3> QED
      BY <3>1, <3>4, <3>5, <3>6, <3>7, <3>8, <3>9
  <2> QED
    BY <2>1, <2>2
<1> HIDE DEF x, k, merge
<1>6. Chain(r, a, b + l)
  <2>1. Chain(r, a, End(r[k + 1]))
    BY <1>4, <1>5, ExtendIs
  <2> QED
    BY <2>1, <1>5
<1>7. ASSUME NEW i \in 1..Len(r) PROVE (i \in 1..n /\ r[i] = q[i]) \/ r[i] = x
  <2>1. CASE i \in 1..k
    BY <2>1, <1>1, <1>4, <1>5
  <2>2. CASE i \notin 1..k
    <3>1. i = k + 1
      BY <2>2, <1>4, <1>5
    <3> QED
      BY <3>1, <1>5
  <2> QED
    BY <2>1, <2>2
<1>8. SentUpTo(r, d)
  BY <1>5, <1>7 DEF SentUpTo
<1>9. ControlFirst(r)
  BY <1>5, <1>7 DEF ControlFirst
<1>10. ASSUME NEW c \in Nat, c <= d, Uncut(q, c) PROVE Uncut(r, c)
  <2>1. x.seq \in Nat /\ c <= x.seq
    BY <1>5, <1>10, SegmentIs
  <2> QED
    BY <2>1, <1>7, <1>10 DEF Uncut
<1> QED
  BY <1>5, <1>6, <1>8, <1>9, <1>10

----------------------------------------------------------------------------
(* One end changes *)

\* What TcpInv says of end e when its connection is t, it has written w, its
\* program has read r and the packets `out' are under way to the other one.
Fine(e, t, w, r, out) ==
    LET u == tcp[Peer(e)]
        v == written[Peer(e)]
    IN  /\ t \in Connection /\ u \in Connection /\ w \in Nat /\ v \in Nat
        /\ r \in Seq(Nat) /\ out \subseteq PacketType /\ net[e] \subseteq PacketType
        /\ w + 1 < SeqSpace /\ v + 1 < SeqSpace
        /\ Sender(t, w) /\ Sender(u, v) /\ Receiver(t, r)
        /\ Pair(t, u, w) /\ Pair(u, t, v)
        /\ \A p \in out : Fits(p, t, u)
        /\ \A p \in net[e] : Fits(p, u, t)
        /\ Role(e, t) /\ Role(Peer(e), u) /\ Heard(Peer(e), u)

\* u receives as t does.
SameReceiver(t, u) ==
    /\ u.rbuf = t.rbuf /\ u.rlen = t.rlen /\ u.rlist = t.rlist
    /\ u.rcvNxt = t.rcvNxt /\ u.rcvWnd = t.rcvWnd
    /\ u.closing = t.closing

\* u sends as t does.
SameSender(t, u) ==
    /\ u.state = t.state /\ u.sbuf = t.sbuf /\ u.slist = t.slist
    /\ u.sndUna = t.sndUna /\ u.sndNxt = t.sndNxt /\ u.sndWnd = t.sndWnd
    /\ u.recover = t.recover /\ u.rtoBase = t.rtoBase

\* What the other end and the packets under way rely on, of a sender ...
SenderGrows(t, u) ==
    /\ Alive(u) => Alive(t)
    /\ t.sndNxt <= u.sndNxt
    /\ Alive(u) => \A c \in Nat : c <= t.sndNxt /\ Uncut(t.slist, c) => Uncut(u.slist, c)

\* ... and of a receiver.
ReceiverGrows(t, u) == t.rcvNxt <= u.rcvNxt /\ Edge(t) <= Edge(u)

\* What a sender t must keep to.
Sends(t, u, w) ==
    /\ t.sndNxt <= Edge(u)
    /\ t.sndUna <= u.rcvNxt
    /\ t.sndUna + t.sndWnd <= Edge(u)
    /\ t.state = "ESTABLISHED" \/ w > 0 => u.rcvNxt > 0

\* What a receiver u must keep to.
Takes(t, u) ==
    /\ u.rcvNxt <= t.sndNxt
    /\ \A s \in u.rlist : End(s) <= t.sndNxt
    /\ Alive(t) => /\ Uncut(t.slist, u.rcvNxt)
                   /\ \A s \in u.rlist : Uncut(t.slist, End(s))

\* The members of a connection have their types.
LEMMA ConnectionIs ==
    ASSUME NEW t \in Connection
    PROVE  /\ t.state \in States /\ t.closing \in BOOLEAN /\ t.mss \in Mss
           /\ t.sbuf \in Seq(Nat) /\ Len(t.sbuf) \in Nat
           /\ t.slist \in Seq(Segment) /\ Len(t.slist) \in Nat
           /\ t.sndUna \in Nat /\ t.sndNxt \in Nat /\ t.sndWnd \in Nat
           /\ t.rbuf \in [1..RcvBuf -> Nat] /\ t.rlen \in 0..RcvBuf /\ t.rlen \in Nat
           /\ t.rlist \subseteq Range1 /\ t.rcvNxt \in Nat
           /\ t.rcvWnd \in 0..RcvBuf /\ t.rcvWnd \in Nat /\ Edge(t) \in Nat
           /\ Edge(t) = t.rcvNxt + t.rcvWnd
           /\ t.readEnable \in BOOLEAN /\ t.writeEnable \in BOOLEAN
           /\ t.tAck \in BOOLEAN /\ t.rtoBase \in BOOLEAN
           /\ t.dupAcks \in Nat /\ t.recover \in Nat /\ t.silent \in Nat
           /\ RcvBuf \in Nat /\ SndBuf \in Nat /\ SeqSpace \in Nat /\ t.mss \in Nat
           /\ t.mss > 0
<1>1. /\ t.state \in States /\ t.closing \in BOOLEAN /\ t.mss \in Mss
      /\ t.sbuf \in Seq(Nat) /\ t.slist \in Seq(Segment)
      /\ t.sndUna \in Nat /\ t.sndNxt \in Nat /\ t.sndWnd \in Nat
      /\ t.rbuf \in [1..RcvBuf -> Nat] /\ t.rlen \in 0..RcvBuf
      /\ t.rlist \subseteq Range1 /\ t.rcvNxt \in Nat /\ t.rcvWnd \in 0..RcvBuf
      /\ t.readEnable \in BOOLEAN /\ t.writeEnable \in BOOLEAN
      /\ t.tAck \in BOOLEAN /\ t.rtoBase \in BOOLEAN
      /\ t.dupAcks \in Nat /\ t.recover \in Nat /\ t.silent \in Nat
  BY DEF Connection
<1>2. RcvBuf \in Nat /\ SndBuf \in Nat /\ SeqSpace \in Nat /\ Mss \subseteq Nat \ {0}
  BY PseudoTcpAssumption
<1>3. /\ Len(t.sbuf) \in Nat /\ Len(t.slist) \in Nat /\ t.mss \in Nat /\ t.mss > 0
      /\ t.rlen \in Nat /\ t.rcvWnd \in Nat
  <2>1. t.mss \in Nat \ {0}
    BY <1>1, <1>2
  <2>2. Len(t.sbuf) \in Nat /\ Len(t.slist) \in Nat
    BY <1>1
  <2>3. t.rlen \in Nat /\ t.rcvWnd \in Nat
    BY <1>1, <1>2
  <2> QED
    BY <2>1, <2>2, <2>3
<1>4. Edge(t) \in Nat /\ Edge(t) = t.rcvNxt + t.rcvWnd
  BY <1>1, <1>3 DEF Edge
<1> QED
  BY <1>1, <1>2, <1>3, <1>4

\* The members of a packet have their types.
LEMMA PacketIs ==
    ASSUME NEW p \in PacketType
    PROVE  /\ p.seq \in Nat /\ p.ack \in Nat /\ p.wnd \in Nat /\ p.ctl \in BOOLEAN
           /\ p.data \in Seq(Nat) /\ Len(p.data) \in Nat
  BY DEF PacketType

\* The other end and the packets keep what they rely on.
LEMMA Grown ==
    ASSUME NEW e, NEW t, NEW w, NEW r, NEW out, Fine(e, t, w, r, out),
           NEW t2 \in Connection, NEW w2 \in Nat, NEW r2 \in Seq(Nat),
           w2 + 1 < SeqSpace, SenderGrows(t, t2), ReceiverGrows(t, t2),
           Sender(t2, w2), Receiver(t2, r2), Role(e, t2),
           Sends(t2, tcp[Peer(e)], w2), Takes(tcp[Peer(e)], t2)
    PROVE  Fine(e, t2, w2, r2, out)
<1> DEFINE u == tcp[Peer(e)]
           v == written[Peer(e)]
<1>1. /\ t \in Connection /\ u \in Connection /\ w \in Nat /\ v \in Nat
      /\ r \in Seq(Nat) /\ out \subseteq PacketType /\ net[e] \subseteq PacketType
      /\ w + 1 < SeqSpace /\ v + 1 < SeqSpace
      /\ Sender(t, w) /\ Sender(u, v) /\ Receiver(t, r)
      /\ Pair(t, u, w) /\ Pair(u, t, v)
      /\ \A p \in out : Fits(p, t, u)
      /\ \A p \in net[e] : Fits(p, u, t)
      /\ Role(e, t) /\ Role(Peer(e), u) /\ Heard(Peer(e), u)
  BY DEF Fine
<1>2. Sends(t2, u, w2) /\ Takes(u, t2)
  OBVIOUS
<1> HIDE DEF u, v
<1>3. /\ t.sndNxt \in Nat /\ t2.sndNxt \in Nat /\ t.rcvNxt \in Nat /\ t2.rcvNxt \in Nat
      /\ Edge(t) \in Nat /\ Edge(t2) \in Nat /\ u.rcvNxt \in Nat
      /\ u.sndUna \in Nat /\ u.sndWnd \in Nat /\ u.sndNxt \in Nat
  BY <1>1, ConnectionIs
<1>4. ASSUME NEW s \in u.rlist PROVE End(s) \in Nat
  <2>1. s \in Range1
    BY <1>1, ConnectionIs
  <2> QED
    BY <2>1 DEF Range1, End
<1>5. Pair(t2, u, w2)
  <2>1. u.rcvNxt <= t2.sndNxt
    <3>1. u.rcvNxt <= t.sndNxt
      BY <1>1 DEF Pair
    <3>2. t.sndNxt <= t2.sndNxt
      BY DEF SenderGrows
    <3> QED
      BY SMTT(60), <3>1, <3>2, <1>3
  <2>2. \A s \in u.rlist : End(s) <= t.sndNxt
    BY <1>1 DEF Pair
  <2>3. \A s \in u.rlist : End(s) <= t2.sndNxt
    BY <2>2, <1>3, <1>4 DEF SenderGrows
  <2>4. Alive(t2) => Uncut(t2.slist, u.rcvNxt)
    BY <1>1, <1>3 DEF SenderGrows, Pair
  <2>5. Alive(t2) => \A s \in u.rlist : Uncut(t2.slist, End(s))
    BY <1>1, <1>4, <2>2 DEF SenderGrows, Pair
  <2> QED
    BY <1>2, <2>1, <2>3, <2>4, <2>5 DEF Pair, Sends
<1>6. Pair(u, t2, v)
  <2>1. u.sndNxt <= Edge(t) /\ u.sndUna <= t.rcvNxt /\ u.sndUna + u.sndWnd <= Edge(t)
        /\ (u.state = "ESTABLISHED" \/ v > 0 => t.rcvNxt > 0)
    BY <1>1 DEF Pair
  <2>2. t.rcvNxt <= t2.rcvNxt /\ Edge(t) <= Edge(t2)
    BY DEF ReceiverGrows
  <2>3. /\ u.sndNxt <= Edge(t2) /\ u.sndUna <= t2.rcvNxt
        /\ u.sndUna + u.sndWnd <= Edge(t2)
    <3>1. /\ u.sndNxt <= Edge(t) /\ u.sndUna <= t.rcvNxt
          /\ u.sndUna + u.sndWnd <= Edge(t) /\ u.sndUna + u.sndWnd \in Nat
      BY <2>1, <1>3
    <3>2. u.sndNxt <= Edge(t2)
      BY <3>1, <2>2, <1>3, AtMost
    <3>3. u.sndUna <= t2.rcvNxt
      BY SMTT(60), <3>1, <2>2, <1>3, AtMost
    <3>4. u.sndUna + u.sndWnd <= Edge(t2)
      <4> DEFINE k == u.sndUna + u.sndWnd
      <4>1. k \in Nat /\ k <= Edge(t)
        BY <3>1
      <4> HIDE DEF k
      <4>2. k <= Edge(t2)
        BY <4>1, <2>2, <1>3
      <4> QED
        BY <4>2 DEF k
    <3> QED
      BY <3>2, <3>3, <3>4
  <2>4. u.state = "ESTABLISHED" \/ v > 0 => t2.rcvNxt > 0
    BY <2>1, <2>2, <1>3
  <2> QED
    BY <1>2, <2>3, <2>4 DEF Pair, Takes
<1>7. ASSUME NEW p \in out PROVE Fits(p, t2, u)
  <2>1. /\ p \in PacketType /\ Fits(p, t, u)
    BY <1>1
  <2>2. p.seq \in Nat /\ p.ack \in Nat /\ p.wnd \in Nat /\ Len(p.data) \in Nat
    BY <2>1, PacketIs
  <2>3. p.data # <<>> => p.seq + Len(p.data) <= t2.sndNxt
    <3>1. p.data # <<>> => p.seq + Len(p.data) <= t.sndNxt
      BY <2>1 DEF Fits
    <3>2. t.sndNxt <= t2.sndNxt /\ p.seq + Len(p.data) \in Nat
      BY <2>2 DEF SenderGrows
    <3> QED
      BY <3>1, <3>2, <1>3
  <2>4. p.data # <<>> /\ Alive(t2) => Uncut(t2.slist, p.seq + Len(p.data))
    <3>1. p.data # <<>> => /\ p.seq + Len(p.data) <= t.sndNxt
                           /\ Alive(t) => Uncut(t.slist, p.seq + Len(p.data))
      BY <2>1 DEF Fits
    <3>2. p.seq + Len(p.data) \in Nat
      BY <2>2
    <3> QED
      BY <3>1, <3>2 DEF SenderGrows
  <2>5. p.ack <= t2.rcvNxt /\ p.ack + p.wnd <= Edge(t2)
    <3>1. p.ack <= t.rcvNxt /\ p.ack + p.wnd <= Edge(t)
      BY <2>1 DEF Fits
    <3>2. t.rcvNxt <= t2.rcvNxt /\ Edge(t) <= Edge(t2) /\ p.ack + p.wnd \in Nat
      BY <2>2 DEF ReceiverGrows
    <3> DEFINE k == p.ack + p.wnd
    <3>3. k \in Nat /\ k <= Edge(t)
      BY <3>1, <3>2
    <3> HIDE DEF k
    <3>4. k <= Edge(t2)
      BY <3>2, <3>3, <1>3
    <3>5. p.ack <= t2.rcvNxt
      BY SMTT(40), <3>1, <3>2, <2>2, <1>3, AtMost
    <3> QED
      BY <3>4, <3>5 DEF k
  <2> QED
    BY <2>1, <2>3, <2>4, <2>5 DEF Fits
<1>8. ASSUME NEW p \in net[e] PROVE Fits(p, u, t2)
  <2>1. p \in PacketType /\ Fits(p, u, t)
    BY <1>1
  <2>2. p.ack \in Nat
    BY <2>1, PacketIs
  <2>3. p.ack <= u.rcvNxt /\ u.rcvNxt <= t.sndNxt /\ (Alive(t) => Uncut(t.slist, p.ack))
    BY <2>1, <1>1 DEF Fits, Pair
  <2>4. p.ack <= t.sndNxt
    BY <2>2, <2>3, <1>3
  <2>5. Alive(t2) => Uncut(t2.slist, p.ack)
    BY <2>2, <2>3, <2>4 DEF SenderGrows
  <2> QED
    BY <2>1, <2>5 DEF Fits
<1> QED
  BY <1>1, <1>5, <1>6, <1>7, <1>8 DEF Fine, u, v

\* Only the sender changes ...
LEMMA SenderStep ==
    ASSUME NEW e, NEW t, NEW w, NEW r, NEW out, Fine(e, t, w, r, out),
           NEW t2 \in Connection, NEW w2 \in Nat, w2 + 1 < SeqSpace,
           SenderGrows(t, t2), SameReceiver(t, t2), Sender(t2, w2), Role(e, t2),
           Sends(t2, tcp[Peer(e)], w2)
    PROVE  Fine(e, t2, w2, r, out)
<1> DEFINE u == tcp[Peer(e)]
<1>1. /\ t \in Connection /\ u \in Connection /\ r \in Seq(Nat)
      /\ Receiver(t, r) /\ Pair(u, t, written[Peer(e)])
  BY DEF Fine
<1> HIDE DEF u
<1>2. t2.closing \in BOOLEAN /\ t.closing \in BOOLEAN
  BY <1>1, ConnectionIs
<1>3. Receiver(t2, r)
  BY <1>1, <1>2 DEF Receiver, SameReceiver
<1>4. Takes(u, t2)
  BY <1>1 DEF Pair, Takes, SameReceiver
<1>5. t.rcvNxt \in Nat /\ t.rcvWnd \in Nat
  BY <1>1, ConnectionIs
<1>6. ReceiverGrows(t, t2)
  BY <1>5 DEF ReceiverGrows, SameReceiver, Edge
<1> QED
  BY <1>1, <1>3, <1>4, <1>6, Grown DEF u

\* ... or only the receiver.
LEMMA ReceiverStep ==
    ASSUME NEW e, NEW t, NEW w, NEW r, NEW out, Fine(e, t, w, r, out),
           NEW t2 \in Connection, NEW r2 \in Seq(Nat),
           ReceiverGrows(t, t2), SameSender(t, t2), Receiver(t2, r2),
           Takes(tcp[Peer(e)], t2)
    PROVE  Fine(e, t2, w, r2, out)
<1> DEFINE u == tcp[Peer(e)]
<1>1. /\ t \in Connection /\ u \in Connection /\ w \in Nat /\ w + 1 < SeqSpace
      /\ Sender(t, w) /\ Pair(t, u, w) /\ Role(e, t)
  BY DEF Fine
<1> HIDE DEF u
<1>2. Sender(t2, w)
  BY <1>1 DEF Sender, SameSender, Alive
<1>3. Sends(t2, u, w) /\ Role(e, t2)
  BY <1>1 DEF Pair, Sends, SameSender, Role
<1>4. SenderGrows(t, t2)
  <2>1. t.sndNxt \in Nat
    BY <1>1, ConnectionIs
  <2> QED
    BY <2>1 DEF SenderGrows, SameSender, Alive
<1> QED
  BY <1>1, <1>2, <1>3, <1>4, Grown DEF u

\* Neither the sender nor the receiver changes.
LEMMA Quiet ==
    ASSUME NEW e, NEW t, NEW w, NEW r, NEW out, Fine(e, t, w, r, out),
           NEW t2 \in Connection, SameSender(t, t2), SameReceiver(t, t2)
    PROVE  Fine(e, t2, w, r, out)
<1> DEFINE u == tcp[Peer(e)]
<1>1. /\ t \in Connection /\ u \in Connection /\ r \in Seq(Nat)
      /\ Receiver(t, r) /\ Pair(u, t, written[Peer(e)])
  BY DEF Fine
<1> HIDE DEF u
<1>2. t2.closing \in BOOLEAN /\ t.closing \in BOOLEAN
  BY <1>1, ConnectionIs
<1>3. Receiver(t2, r)
  BY <1>1, <1>2 DEF Receiver, SameReceiver
<1>4. Takes(u, t2)
  BY <1>1 DEF Pair, Takes, SameReceiver
<1>5. t.rcvNxt \in Nat /\ t.rcvWnd \in Nat
  BY <1>1, ConnectionIs
<1>6. ReceiverGrows(t, t2)
  BY <1>5 DEF ReceiverGrows, SameReceiver, Edge
<1> QED
  BY <1>1, <1>3, <1>4, <1>6, ReceiverStep DEF u

\* The connection ends.
LEMMA Ends ==
    ASSUME NEW e, NEW t, NEW w, NEW r, NEW out, Fine(e, t, w, r, out),
           NEW t2 \in Connection, SameReceiver(t, t2),
           t2.state \in {"CLOSED", "DELETED"}, t2.slist = t.slist,
           t2.sndUna = t.sndUna, t2.sndNxt = t.sndNxt, t2.sndWnd = t.sndWnd,
           t2.recover = t.recover,
           t2.sbuf = <<>> \/ (t2.sbuf = t.sbuf /\ (~Alive(t) \/ t.state \in Opening))
    PROVE  Fine(e, t2, w, r, out)
<1> DEFINE u == tcp[Peer(e)]
<1>1. /\ t \in Connection /\ u \in Connection /\ w \in Nat /\ w + 1 < SeqSpace
      /\ Sender(t, w) /\ Pair(t, u, w) /\ Role(e, t)
  BY DEF Fine
<1> HIDE DEF u
<1>2. ~Alive(t2) /\ t2.state # "ESTABLISHED" /\ t2.state \notin Opening /\ Role(e, t2)
  BY DEF Alive, Opening, Role
<1>3. t.sndNxt \in Nat /\ t.sndUna \in Nat /\ Len(t.sbuf) \in Nat
  BY <1>1, ConnectionIs
<1>4. SenderGrows(t, t2)
  BY <1>2, <1>3 DEF SenderGrows
<1>5. Sends(t2, u, w)
  BY <1>1, <1>2 DEF Pair, Sends
<1>6. (t2.sbuf = <<>> /\ t2.slist # <<>>) \/ w = 0 \/ t2.sndUna = w + 1
  <2>1. CASE t.state \in Opening
    BY <2>1, <1>1 DEF Sender
  <2>2. CASE ~Alive(t)
    BY <2>2, <1>1 DEF Sender
  <2>3. CASE Alive(t) /\ t.state \notin Opening /\ t2.slist = <<>>
    <3>1. t.sndUna + Len(t.sbuf) = w + 1 /\ Chain(t.slist, t.sndUna, t.sndUna + Len(t.sbuf))
      BY <2>3, <1>1 DEF Sender, Opening
    <3>2. t.sndUna = t.sndUna + Len(t.sbuf)
      BY <2>3, <3>1 DEF Chain
    <3> QED
      BY <3>1, <3>2
  <2> QED
    BY <2>1, <2>2, <2>3
<1>7. Sender(t2, w)
  <2>1. t.sndUna <= t.sndNxt /\ t.sndNxt <= w + 1 /\ t.recover <= t.sndNxt
    BY <1>1 DEF Sender
  <2>2. Len(t2.sbuf) <= SndBuf
    <3>1. Len(t.sbuf) <= SndBuf /\ SndBuf \in Nat /\ Len(<<>>) <= SndBuf
      BY <1>1, ConnectionIs DEF Sender
    <3> QED
      BY <3>1
  <2> QED
    BY <2>1, <2>2, <1>2, <1>6 DEF Sender
<1> QED
  BY <1>1, <1>2, <1>4, <1>5, <1>7, SenderStep DEF u

\* closedown keeps what holds of an end.
LEMMA ClosedFine ==
    ASSUME NEW e, NEW t, NEW w, NEW r, NEW out, Fine(e, t, w, r, out)
    PROVE  Fine(e, Closed(t), w, r, out)
<1>1. t \in Connection
  BY DEF Fine
<1> DEFINE t2 == Closed(t)
<1>2. t2 = [t EXCEPT !.state = "CLOSED", !.sbuf = << >>]
  BY DEF Closed
<1> HIDE DEF t2
<1>3. << >> \in Seq(Nat)
  OBVIOUS
<1>4. /\ t2 \in Connection /\ SameReceiver(t, t2) /\ t2.state = "CLOSED"
      /\ t2.sbuf = <<>> /\ t2.slist = t.slist /\ t2.sndUna = t.sndUna
      /\ t2.sndNxt = t.sndNxt /\ t2.sndWnd = t.sndWnd /\ t2.recover = t.recover
  BY <1>1, <1>2, <1>3 DEF Connection, SameReceiver, States
<1>5. Fine(e, t2, w, r, out)
  BY <1>4, Ends
<1> QED
  BY <1>5 DEF t2

\* AdjustClock, which may delete the connection, keeps it.
LEMMA AdjustedFine ==
    ASSUME NEW e, NEW t, NEW w, NEW r, NEW out, Fine(e, t, w, r, out)
    PROVE  /\ Fine(e, Adjusted(t), w, r, out)
           /\ Heard(e, t) => Heard(e, Adjusted(t))
<1> DEFINE t2 == Adjusted(t)
<1>1. t \in Connection
  BY DEF Fine
<1>2. CASE t2 = t
  BY <1>2
<1>3. CASE t2 # t
  <2>1. /\ t2 = [t EXCEPT !.state = "DELETED"]
        /\ t.closing /\ (t.state # "ESTABLISHED" \/ t.sbuf = <<>>)
    BY <1>3 DEF Adjusted
  <2> HIDE DEF t2
  <2>2. /\ t2 \in Connection /\ SameReceiver(t, t2) /\ t2.state = "DELETED"
        /\ t2.sbuf = t.sbuf /\ t2.slist = t.slist /\ t2.sndUna = t.sndUna
        /\ t2.sndNxt = t.sndNxt /\ t2.sndWnd = t.sndWnd /\ t2.recover = t.recover
        /\ t2.rcvNxt = t.rcvNxt
    BY <1>1, <2>1 DEF Connection, SameReceiver, States
  <2>3. t2.sbuf = <<>> \/ (t2.sbuf = t.sbuf /\ (~Alive(t) \/ t.state \in Opening))
    <3>1. t.state \in States
      BY <1>1, ConnectionIs
    <3> QED
      BY <3>1, <2>1, <2>2 DEF States, Opening, Alive
  <2>4. Fine(e, t2, w, r, out)
    BY <2>2, <2>3, Ends
  <2>5. Heard(e, t) => Heard(e, t2)
    BY <2>2 DEF Heard, Alive
  <2> QED
    BY <2>4, <2>5 DEF t2
<1> QED
  BY <1>2, <1>3

\* A connection is established once its peer was heard.
LEMMA EstablishedFine ==
    ASSUME NEW e, NEW t, NEW w, NEW r, NEW out, Fine(e, t, w, r, out),
           t.state \in {"SYN_SENT", "SYN_RECEIVED"}, tcp[Peer(e)].rcvNxt > 0
    PROVE  Fine(e, Established(t), w, r, out)
<1> DEFINE u == tcp[Peer(e)]
           t2 == Established(t)
<1>1. /\ t \in Connection /\ u \in Connection /\ w \in Nat /\ w + 1 < SeqSpace
      /\ Sender(t, w) /\ Pair(t, u, w) /\ Role(e, t)
  BY DEF Fine
<1>2. u.rcvNxt > 0
  OBVIOUS
<1> HIDE DEF u
<1>3. /\ t2 \in Connection /\ SameReceiver(t, t2) /\ t2.state = "ESTABLISHED"
      /\ t2.sbuf = t.sbuf /\ t2.slist = t.slist /\ t2.sndUna = t.sndUna
      /\ t2.sndNxt = t.sndNxt /\ t2.sndWnd = t.sndWnd /\ t2.recover = t.recover
      /\ t2.rtoBase = t.rtoBase
  BY <1>1, MssBounds DEF Established, Connection, SameReceiver, States
<1> HIDE DEF t2
<1>4. Alive(t) /\ Alive(t2) /\ t.state # "LISTEN" /\ t2.state # "LISTEN"
      /\ t2.state \notin Opening /\ Role(e, t2)
  BY <1>3 DEF Alive, Role, Opening
<1>5. Sender(t2, w)
  BY <1>1, <1>3, <1>4 DEF Sender
<1>6. Sends(t2, u, w)
  BY <1>1, <1>2, <1>3 DEF Pair, Sends
<1>7. t.sndNxt \in Nat
  BY <1>1, ConnectionIs
<1>8. SenderGrows(t, t2)
  BY <1>3, <1>4, <1>7 DEF SenderGrows
<1> QED
  BY <1>1, <1>3, <1>4, <1>5, <1>6, <1>8, SenderStep DEF u, t2

----------------------------------------------------------------------------
(* What the operations do to an end *)

\* The send buffer and the list of segments of t.
Buffered(t) ==
    /\ Bytes(t.sbuf, t.sndUna)
    /\ Len(t.sbuf) <= SndBuf
    /\ t.sndNxt <= t.sndUna + Len(t.sbuf)
    /\ Chain(t.slist, t.sndUna, t.sndUna + Len(t.sbuf))
    /\ SentUpTo(t.slist, t.sndNxt)
    /\ ControlFirst(t.slist)

\* u sends as t does, from a list that may be another.
SameNumbers(t, u) ==
    /\ u.state = t.state /\ u.sndUna = t.sndUna /\ u.sndNxt = t.sndNxt
    /\ u.sndWnd = t.sndWnd /\ u.recover = t.recover /\ u.rtoBase = t.rtoBase

\* What t's peer may acknowledge it may acknowledge of u.
CutsKept(t, u) ==
    \A c \in Nat : c <= t.sndNxt /\ Uncut(t.slist, c) => Uncut(u.slist, c)

\* queue: the data lies behind what the buffer had, in the last segment or in
\* a new one, and no acknowledgement that was possible is lost.
LEMMA QueueDoes ==
    ASSUME NEW t \in Connection, Buffered(t), NEW data \in Seq(Nat), data # <<>>,
           NEW b \in Nat, b = t.sndUna + Len(t.sbuf), b < SeqSpace,
           Bytes(data, b), Len(t.sbuf) + Len(data) <= SndBuf,
           NEW ctl \in BOOLEAN,
           Behind(t.slist, b, Len(data), ctl),
           NEW t2, t2 = Queue(t, data, ctl)
    PROVE  /\ t2 \in Connection /\ SameReceiver(t, t2) /\ SameNumbers(t, t2)
           /\ Buffered(t2) /\ Len(t2.sbuf) = Len(t.sbuf) + Len(data)
           /\ CutsKept(t, t2)
<1> DEFINE l == Len(data)
           a == t.sndUna
           q == Enqueued(t.slist, b, l, ctl)
           s == t.sbuf \o data
<1>1. /\ t.slist \in Seq(Segment) /\ a \in Nat /\ t.sbuf \in Seq(Nat)
      /\ t.sndNxt \in Nat /\ Len(t.sbuf) \in Nat /\ SndBuf \in Nat
  BY ConnectionIs
<1>2. l \in Nat /\ l > 0
  OBVIOUS
<1>3. Plus(t.sndUna, Len(t.sbuf)) = b
  BY <1>1, PlusIs
<1>4. t2 = [t EXCEPT !.sbuf = s, !.slist = q]
  BY <1>3 DEF Queue
<1>5. /\ q \in Seq(Segment) /\ Chain(q, a, b + l)
      /\ SentUpTo(q, t.sndNxt) /\ ControlFirst(q)
      /\ \A c \in Nat : c <= t.sndNxt /\ Uncut(t.slist, c) => Uncut(q, c)
  <2>1. /\ Chain(t.slist, a, b) /\ t.sndNxt <= b /\ SentUpTo(t.slist, t.sndNxt)
        /\ ControlFirst(t.slist)
    BY DEF Buffered
  <2>2. b + l <= a + SndBuf
    BY SMTT(40), <1>1, <1>2
  <2> HIDE DEF a, l
  <2>3. a \in Nat /\ Behind(t.slist, b, l, ctl)
    BY <1>1 DEF l
  <2>4. q = Enqueued(t.slist, b, l, ctl)
    BY DEF q
  <2> HIDE DEF q
  <2> QED
    BY SMTT(40), <1>1, <1>2, <2>1, <2>2, <2>3, <2>4, QueueIs
<1>6. /\ s \in Seq(Nat) /\ Len(s) = Len(t.sbuf) + l
      /\ \A i \in 1..Len(t.sbuf) : s[i] = t.sbuf[i]
      /\ \A i \in 1..l : s[Len(t.sbuf) + i] = data[i]
  BY SMTT(40), <1>1, Concatenated
<1>7. Bytes(s, a)
  <2> SUFFICES ASSUME NEW i \in 1..Len(s) PROVE s[i] = a + i - 1
    BY DEF Bytes
  <2>1. CASE i <= Len(t.sbuf)
    <3>1. i \in 1..Len(t.sbuf)
      BY <2>1, <1>1
    <3> QED
      BY <3>1, <1>6 DEF Bytes, Buffered
  <2>2. CASE ~(i <= Len(t.sbuf))
    <3> DEFINE j == i - Len(t.sbuf)
    <3>1. j \in 1..l /\ i = Len(t.sbuf) + j
      BY <2>2, <1>1, <1>2, <1>6
    <3>2. s[Len(t.sbuf) + j] = data[j] /\ data[j] = b + j - 1
      BY <3>1, <1>6 DEF Bytes
    <3>3. b + j - 1 = a + i - 1
      <4>1. j \in Nat /\ b = a + Len(t.sbuf)
        BY <3>1, <1>2
      <4> HIDE DEF j, a
      <4>2. b + j = a + i
        BY SMTT(40), <4>1, <3>1, <1>1
      <4>3. b \in Nat /\ j \in Nat /\ a \in Nat /\ i \in Nat
        BY <4>1, <1>1
      <4> QED
        BY SMTT(60), <4>2, <4>3
    <3> QED
      BY <3>1, <3>2, <3>3
  <2> QED
    BY <2>1, <2>2
<1>8. t.sndNxt <= a + Len(s) /\ Len(s) <= SndBuf /\ a + Len(s) = b + l
  <2>1. t.sndNxt <= b /\ b = a + Len(t.sbuf) /\ Len(t.sbuf) + l <= SndBuf
        /\ Len(s) = Len(t.sbuf) + l
    BY <1>6 DEF Buffered
  <2> HIDE DEF s, a, l
  <2>2. a + Len(s) = b + l
    BY SMTT(60), <1>1, <1>2, <2>1
  <2> QED
    BY SMTT(40), <1>1, <1>2, <2>1, <2>2
<1> HIDE DEF q, s
<1>9. /\ t2 \in Connection /\ SameReceiver(t, t2) /\ SameNumbers(t, t2)
      /\ t2.sbuf = s /\ t2.slist = q
  BY ZenonT(80), <1>4, <1>5, <1>6 DEF Connection, SameReceiver, SameNumbers
<1>10. t2.sndUna = a /\ t2.sndNxt = t.sndNxt
  BY <1>9 DEF SameNumbers
<1> HIDE DEF a, l
<1>11. Buffered(t2)
  BY <1>5, <1>7, <1>8, <1>9, <1>10 DEF Buffered
<1>12. CutsKept(t, t2)
  BY <1>5, <1>9 DEF CutsKept
<1> QED
  BY <1>6, <1>9, <1>11, <1>12 DEF l

\* A connection that nothing was queued to.
LEMMA NothingQueued ==
    ASSUME NEW e, NEW t, NEW w, NEW r, NEW out, Fine(e, t, w, r, out),
           t.state = "LISTEN"
    PROVE  /\ Buffered(t) /\ t.sbuf = <<>> /\ t.slist = <<>> /\ w = 0
           /\ t.sndUna = 0 /\ t.sndNxt = 0 /\ ~t.rtoBase
<1>1. t \in Connection /\ Sender(t, w) /\ w \in Nat
  BY DEF Fine
<1>2. Alive(t) /\ t.state \in Opening
  BY DEF Alive, Opening
<1>3. /\ t.sndUna + Len(t.sbuf) = 0 /\ t.sndNxt <= t.sndUna + Len(t.sbuf)
      /\ (t.rtoBase <=> t.sndNxt > t.sndUna) /\ w = 0 /\ t.sndUna <= t.sndNxt
      /\ Chain(t.slist, t.sndUna, t.sndUna + Len(t.sbuf))
  BY <1>1, <1>2 DEF Sender
<1>4. /\ t.sndUna \in Nat /\ t.sndNxt \in Nat /\ t.sbuf \in Seq(Nat)
      /\ Len(t.sbuf) \in Nat /\ t.slist \in Seq(Segment) /\ t.rtoBase \in BOOLEAN
  BY <1>1, ConnectionIs
<1>5. t.sndUna = 0 /\ t.sndNxt = 0 /\ Len(t.sbuf) = 0 /\ ~t.rtoBase
  BY <1>3, <1>4
<1>6. t.sbuf = <<>>
  BY <1>4, <1>5
<1>7. t.slist = <<>>
  <2> SUFFICES ASSUME t.slist # <<>> PROVE FALSE
    OBVIOUS
  <2>1. 1 \in 1..Len(t.slist)
    BY <1>4
  <2>2. /\ t.slist[1].seq \in Nat /\ t.slist[1].len > 0 /\ t.slist[1].len \in Nat
        /\ End(t.slist[1]) = t.slist[1].seq + t.slist[1].len
    BY <1>4, <2>1, SegmentsAre
  <2>3. End(t.slist[1]) <= 0
    BY <1>3, <2>1 DEF Chain
  <2> QED
    BY <2>2, <2>3
<1>8. Buffered(t)
  BY <1>1, <1>2 DEF Buffered, Sender
<1> QED
  BY <1>3, <1>5, <1>6, <1>7, <1>8

\* An end that begins to connect.
Opens(t, s) == Queue([t EXCEPT !.state = s], <<0>>, TRUE)

\* An end that connects or accepts queues the connect control code.
LEMMA OpensFine ==
    ASSUME NEW e, NEW t, NEW w, NEW r, NEW out, Fine(e, t, w, r, out),
           t.state = "LISTEN",
           NEW s, s = IF e = Initiator THEN "SYN_SENT" ELSE "SYN_RECEIVED",
           NEW t2, t2 = Opens(t, s)
    PROVE  /\ Fine(e, t2, w, r, out) /\ SameReceiver(t, t2)
           /\ t2.state = s /\ t2.sndNxt = t.sndNxt
<1> DEFINE u == tcp[Peer(e)]
           t1 == [t EXCEPT !.state = s]
<1>1. /\ t \in Connection /\ u \in Connection /\ w \in Nat /\ w + 1 < SeqSpace
      /\ Sender(t, w) /\ Pair(t, u, w)
  BY DEF Fine
<1> HIDE DEF u
<1>2. /\ Buffered(t) /\ t.sbuf = <<>> /\ t.slist = <<>> /\ w = 0
      /\ t.sndUna = 0 /\ t.sndNxt = 0 /\ ~t.rtoBase
  BY NothingQueued
<1>3. /\ s \in {"SYN_SENT", "SYN_RECEIVED"} /\ s \in States /\ s \in Opening
      /\ s # (IF e = Initiator THEN "SYN_RECEIVED" ELSE "SYN_SENT")
  BY DEF States, Opening
<1>4. /\ t1 \in Connection /\ SameReceiver(t, t1) /\ t1.state = s
      /\ t1.sbuf = t.sbuf /\ t1.slist = t.slist
      /\ t1.sndUna = t.sndUna /\ t1.sndNxt = t.sndNxt /\ t1.sndWnd = t.sndWnd
      /\ t1.recover = t.recover /\ t1.rtoBase = t.rtoBase
  BY <1>1, <1>3 DEF Connection, SameReceiver
<1>5. t2 = Queue(t1, <<0>>, TRUE)
  BY DEF Opens
<1> HIDE DEF t1
<1>6. Buffered(t1)
  BY <1>2, <1>4 DEF Buffered
<1>7. /\ <<0>> \in Seq(Nat) /\ <<0>> # <<>> /\ Len(<<0>>) = 1 /\ Bytes(<<0>>, 0)
      /\ Len(t1.sbuf) = 0 /\ SndBuf >= 1 /\ SeqSpace > 0
  BY <1>2, <1>4, PseudoTcpAssumption DEF Bytes
<1>8. 0 = t1.sndUna + Len(t1.sbuf) /\ Len(t1.sbuf) + Len(<<0>>) <= SndBuf /\ 0 < SeqSpace
  BY <1>2, <1>4, <1>7, PseudoTcpAssumption
<1>9. /\ t2 \in Connection /\ SameReceiver(t1, t2) /\ SameNumbers(t1, t2)
      /\ Buffered(t2) /\ Len(t2.sbuf) = Len(t1.sbuf) + Len(<<0>>)
      /\ CutsKept(t1, t2)
  <2> DEFINE d == <<0>>
  <2>1. /\ d \in Seq(Nat) /\ d # <<>> /\ Len(d) = 1 /\ Bytes(d, 0)
        /\ Len(t1.sbuf) + Len(d) <= SndBuf /\ t2 = Queue(t1, d, TRUE)
    BY <1>5, <1>7, <1>8
  <2> HIDE DEF d
  <2>2. t1.slist = <<>> /\ 0 \in Nat /\ TRUE \in BOOLEAN
    BY <1>2, <1>4
  <2>3. Behind(t1.slist, 0, Len(d), TRUE)
    BY <2>1, <2>2 DEF Behind
  <2>4. /\ t2 \in Connection /\ SameReceiver(t1, t2) /\ SameNumbers(t1, t2)
        /\ Buffered(t2) /\ Len(t2.sbuf) = Len(t1.sbuf) + Len(d)
        /\ CutsKept(t1, t2)
    BY <1>4, <1>6, <1>8, <2>1, <2>2, <2>3, QueueDoes
  <2> QED
    BY <2>4 DEF d
<1>10. SameReceiver(t, t2) /\ t2.rcvNxt = t.rcvNxt
  BY <1>4, <1>9 DEF SameReceiver
<1>11. /\ t2.state = s /\ t2.sndUna = 0 /\ t2.sndNxt = 0 /\ t2.sndWnd = t.sndWnd
       /\ t2.recover = t.recover /\ ~t2.rtoBase /\ Len(t2.sbuf) = 1
  <2>1. Len(t2.sbuf) = 0 + 1
    BY ONLY <1>7, <1>9
  <2>2. /\ t2.state = s /\ t2.sndUna = 0 /\ t2.sndNxt = 0 /\ t2.sndWnd = t.sndWnd
        /\ t2.recover = t.recover /\ ~t2.rtoBase
    BY <1>2, <1>4, <1>9 DEF SameNumbers
  <2> QED
    BY ONLY <2>1, <2>2
<1>12. Alive(t) /\ Alive(t2) /\ Role(e, t2) /\ t2.state # "LISTEN"
       /\ t2.state # "ESTABLISHED"
  BY <1>3, <1>11 DEF Alive, Role
<1>13. Sender(t2, w)
  BY <1>1, <1>2, <1>9, <1>11, <1>12 DEF Sender, Buffered
<1>14. Sends(t2, u, w)
  BY <1>1, <1>2, <1>11, <1>12 DEF Pair, Sends
<1>15. SenderGrows(t, t2)
  <2>1. \A c \in Nat : c <= t.sndNxt /\ Uncut(t.slist, c) => Uncut(t2.slist, c)
    BY <1>4, <1>9 DEF CutsKept
  <2>2. t.sndNxt <= t2.sndNxt
    <3>1. t.sndNxt = 0 /\ t2.sndNxt = 0
      BY <1>2, <1>11
    <3> QED
      BY ONLY <3>1
  <2> QED
    BY <1>12, <2>1, <2>2 DEF SenderGrows
<1>16. Fine(e, t2, w, r, out)
  BY <1>1, <1>9, <1>10, <1>12, <1>13, <1>14, <1>15, SenderStep DEF u
<1> QED
  BY <1>2, <1>10, <1>11, <1>16

\* A segment is sent: d is the first byte that was not sent before.
LEMMA CountedIs ==
    ASSUME NEW q \in Seq(Segment), NEW a \in Nat, NEW b \in Nat, Chain(q, a, b),
           NEW d \in Nat, SentUpTo(q, d), ControlFirst(q), NEW i \in 1..Len(q),
           q[i].xmit = 0 => q[i].seq = d,
           NEW r, r = Counted(q, i),
           NEW c, c = IF q[i].xmit = 0 THEN End(q[i]) ELSE d
    PROVE  /\ r \in Seq(Segment) /\ Len(r) = Len(q) /\ Chain(r, a, b)
           /\ SentUpTo(r, c) /\ ControlFirst(r)
           /\ r[i].seq = q[i].seq /\ r[i].len = q[i].len
           /\ \A k \in Nat : Uncut(q, k) => Uncut(r, k)
<1> DEFINE n == Len(q)
           x == [q[i] EXCEPT !.xmit = q[i].xmit + 1]
<1>1. /\ n \in Nat /\ DOMAIN q = 1..n /\ i \in 1..n
      /\ \A j \in 1..n : /\ q[j] \in Segment /\ q[j].seq \in Nat /\ q[j].xmit \in Nat
                        /\ q[j].len \in Nat /\ q[j].len > 0 /\ End(q[j]) \in Nat
                        /\ End(q[j]) = q[j].seq + q[j].len
  BY SegmentsAre
<1>2. r = [q EXCEPT ![i] = x]
  BY DEF Counted
<1>3. /\ x \in Segment /\ x.seq = q[i].seq /\ x.len = q[i].len /\ x.ctl = q[i].ctl
      /\ x.xmit = q[i].xmit + 1
  <2>1. q[i] \in Segment /\ q[i].xmit + 1 \in Nat
    BY <1>1
  <2> QED
    BY <2>1 DEF Segment
<1> HIDE DEF x
<1>4. r \in Seq(Segment) /\ Len(r) = n
  <2>1. r \in [1..n -> Segment]
    BY <1>1, <1>2, <1>3
  <2> HIDE DEF n
  <2> QED
    BY SMTT(60), <2>1, <1>1
<1>5. \A j \in 1..n : r[j] = IF j = i THEN x ELSE q[j]
  BY <1>1, <1>2
<1>6. \A j \in 1..n : r[j].seq = q[j].seq /\ r[j].len = q[j].len /\ r[j].ctl = q[j].ctl
  BY <1>3, <1>5
<1>7. \A j \in 1..n : End(r[j]) = End(q[j])
  BY <1>6 DEF End
<1>8. Chain(r, a, b)
  <2>1. r = <<>> <=> q = <<>>
    BY <1>1, <1>4
  <2>2. r # <<>> => 1 \in 1..n /\ n \in 1..n
    BY <1>1
  <2>3. r # <<>> => r[1].seq = a /\ End(r[Len(r)]) = b
    BY <2>1, <2>2, <1>4, <1>6, <1>7 DEF Chain
  <2>4. \A j \in 1..(n - 1) : j \in 1..n /\ j + 1 \in 1..n
    BY <1>1
  <2>5. \A j \in 1..(n - 1) : r[j + 1].seq = End(r[j])
    BY <2>4, <1>6, <1>7 DEF Chain
  <2>6. \A j \in 1..n : a <= r[j].seq /\ End(r[j]) <= b
    BY <1>6, <1>7 DEF Chain
  <2>7. \A j, k \in 1..n : j < k => End(r[j]) <= r[k].seq
    BY <1>6, <1>7 DEF Chain
  <2>8. r = <<>> => a = b
    BY <2>1 DEF Chain
  <2> QED
    BY <2>3, <2>5, <2>6, <2>7, <2>8, <1>4 DEF Chain
<1>9. ControlFirst(r)
  BY <1>4, <1>6 DEF ControlFirst
<1>10. \A k \in Nat : Uncut(q, k) => Uncut(r, k)
  BY <1>4, <1>6, <1>7 DEF Uncut
<1>11. ASSUME NEW j \in 1..n
       PROVE  IF r[j].xmit > 0 THEN End(r[j]) <= c ELSE c <= r[j].seq
  <2>1. IF q[j].xmit > 0 THEN End(q[j]) <= d ELSE d <= q[j].seq
    BY DEF SentUpTo
  <2>2. IF q[i].xmit > 0 THEN End(q[i]) <= d ELSE d <= q[i].seq
    BY DEF SentUpTo
  <2>3. r[j].seq = q[j].seq /\ End(r[j]) = End(q[j])
    BY <1>6, <1>7
  <2>4. CASE j = i
    <3>1. r[j].xmit > 0
      <4>1. r[j] = x /\ q[i].xmit \in Nat
        BY <2>4, <1>1, <1>5
      <4>2. x.xmit > 0
        BY <4>1, <1>3
      <4> QED
        BY <4>1, <4>2
    <3>2. End(q[i]) <= c
      BY <2>2, <1>1
    <3> QED
      BY <2>3, <2>4, <3>1, <3>2
  <2>5. CASE j # i
    <3>1. r[j] = q[j]
      BY <2>5, <1>5
    <3>2. CASE q[i].xmit # 0
      BY <2>1, <3>1, <3>2
    <3>3. CASE q[i].xmit = 0
      <4>1. c = End(q[i]) /\ q[i].seq = d
        BY <3>3
      <4>2. CASE j < i
        <5>1. End(q[j]) <= q[i].seq
          BY <4>2 DEF Chain
        <5> DEFINE f == End(q[j])
                   g == End(q[i])
        <5>2. /\ f \in Nat /\ g \in Nat /\ f = q[j].seq + q[j].len /\ q[j].len > 0
              /\ q[j].len \in Nat /\ q[j].seq \in Nat /\ q[i].len \in Nat
              /\ g = d + q[i].len /\ f <= d /\ c = g /\ q[j].xmit \in Nat
          BY <1>1, <4>1, <5>1
        <5> HIDE DEF f, g
        <5>3. f <= g
          BY <5>2
        <5>4. q[j].xmit > 0
          BY SMTT(40), <2>1, <5>2
        <5> QED
          BY <3>1, <5>2, <5>3, <5>4 DEF f
      <4>3. CASE j > i
        <5>1. End(q[i]) <= q[j].seq
          BY <4>3 DEF Chain
        <5> DEFINE f == End(q[j])
                   g == End(q[i])
        <5>2. /\ f \in Nat /\ g \in Nat /\ f = q[j].seq + q[j].len /\ q[j].len > 0
              /\ q[j].len \in Nat /\ q[j].seq \in Nat /\ q[i].len \in Nat /\ q[i].len > 0
              /\ g = d + q[i].len /\ g <= q[j].seq /\ c = g /\ q[j].xmit \in Nat
              /\ (IF q[j].xmit > 0 THEN f <= d ELSE d <= q[j].seq)
          BY <1>1, <2>1, <4>1, <5>1
        <5> HIDE DEF f, g
        <5>3. ~(f <= d)
          BY SMTT(40), <5>2
        <5>4. ~(q[j].xmit > 0)
          BY <5>2, <5>3
        <5> QED
          BY <3>1, <5>2, <5>4
      <4> QED
        BY <2>5, <4>2, <4>3, <1>1
    <3> QED
      BY <3>2, <3>3
  <2> QED
    BY <2>4, <2>5
<1>12. SentUpTo(r, c)
  BY <1>4, <1>11 DEF SentUpTo
<1> QED
  BY <1>4, <1>6, <1>8, <1>9, <1>10, <1>12

\* The end of a segment of a chain is not within another one.
LEMMA EndUncut ==
    ASSUME NEW q \in Seq(Segment), NEW a \in Nat, NEW b \in Nat, Chain(q, a, b),
           NEW i \in 1..Len(q)
    PROVE  Uncut(q, End(q[i]))
<1> SUFFICES ASSUME NEW j \in 1..Len(q)
             PROVE  End(q[i]) <= q[j].seq \/ End(q[j]) <= End(q[i])
  BY DEF Uncut
<1>1. /\ q[i].seq \in Nat /\ q[i].len \in Nat /\ End(q[i]) = q[i].seq + q[i].len
      /\ End(q[j]) \in Nat /\ i \in Nat /\ j \in Nat /\ End(q[i]) \in Nat
  BY SegmentsAre
<1>2. CASE i < j
  BY <1>2 DEF Chain
<1>3. CASE i = j
  BY <1>1, <1>3
<1>4. CASE j < i
  <2>1. End(q[j]) <= q[i].seq
    BY <1>4 DEF Chain
  <2> QED
    BY <1>1, <2>1
<1> QED
  BY <1>1, <1>2, <1>3, <1>4

\* What Sender says while the connection is alive.
LEMMA SenderAlive ==
    ASSUME NEW e, NEW t, NEW w, NEW r, NEW out, Fine(e, t, w, r, out), Alive(t)
    PROVE  /\ t \in Connection /\ w \in Nat /\ Buffered(t)
           /\ t.sndUna + Len(t.sbuf) = (IF t.state = "LISTEN" THEN 0 ELSE w + 1)
           /\ t.sndUna + Len(t.sbuf) < SeqSpace
           /\ t.sndUna <= t.sndNxt /\ t.sndNxt <= w + 1 /\ t.recover <= t.sndNxt
           /\ (t.state \in Opening => w = 0)
           /\ (t.rtoBase <=> t.sndNxt > t.sndUna)
           /\ t.sndNxt <= t.sndUna + Len(t.sbuf)
           /\ Chain(t.slist, t.sndUna, t.sndUna + Len(t.sbuf))
           /\ SentUpTo(t.slist, t.sndNxt)
<1>1. t \in Connection /\ Sender(t, w) /\ w \in Nat /\ w + 1 < SeqSpace
  BY DEF Fine
<1>2. Buffered(t)
  BY <1>1 DEF Buffered, Sender
<1>3. /\ t.sndUna + Len(t.sbuf) = IF t.state = "LISTEN" THEN 0 ELSE w + 1
      /\ t.sndUna <= t.sndNxt /\ t.sndNxt <= w + 1 /\ t.recover <= t.sndNxt
      /\ (t.state \in Opening => w = 0)
      /\ (t.rtoBase <=> t.sndNxt > t.sndUna)
      /\ t.sndNxt <= t.sndUna + Len(t.sbuf)
  BY <1>1 DEF Sender
<1>4. t.sndUna + Len(t.sbuf) < SeqSpace
  BY <1>1, <1>3, PseudoTcpAssumption
<1> QED
  BY <1>1, <1>2, <1>3, <1>4 DEF Buffered

\* A segment is split in two before it is sent.
LEMMA SplitFine ==
    ASSUME NEW e, NEW t, NEW w, NEW r, NEW out, Fine(e, t, w, r, out), Alive(t),
           NEW i \in 1..Len(t.slist), NEW n \in Nat, 0 < n, n <= t.slist[i].len,
           NEW t2, t2 = [t EXCEPT !.slist = Split(@, i, n)]
    PROVE  /\ Fine(e, t2, w, r, out) /\ SameReceiver(t, t2) /\ SameNumbers(t, t2)
           /\ t2.sbuf = t.sbuf /\ t2.mss = t.mss /\ t2.slist = Split(t.slist, i, n)
           /\ i \in 1..Len(t2.slist) /\ t2.slist[i] = [t.slist[i] EXCEPT !.len = n]
           /\ t2 \in Connection
<1> DEFINE u == tcp[Peer(e)]
           q == t.slist
           q2 == Split(q, i, n)
           b == t.sndUna + Len(t.sbuf)
<1>1. /\ t \in Connection /\ u \in Connection /\ w \in Nat /\ w + 1 < SeqSpace
      /\ Sender(t, w) /\ Pair(t, u, w) /\ Role(e, t)
  BY DEF Fine
<1> HIDE DEF u
<1>2. /\ Buffered(t) /\ b < SeqSpace /\ Chain(q, t.sndUna, b)
  BY SenderAlive
<1>3. /\ q \in Seq(Segment) /\ t.sndUna \in Nat /\ b \in Nat /\ t.sndNxt \in Nat
  BY SMTT(40), <1>1, ConnectionIs
<1>4. i \in 1..Len(q) /\ n <= q[i].len /\ t2 = [t EXCEPT !.slist = q2]
  OBVIOUS
<1> HIDE DEF q, b
<1>5. /\ q2 \in Seq(Segment) /\ Chain(q2, t.sndUna, b) /\ Refines(q2, q)
      /\ i \in 1..Len(q2) /\ q2[i] = [q[i] EXCEPT !.len = n]
  BY SMTT(60), <1>2, <1>3, <1>4, SplitIs
<1> HIDE DEF q2
<1>6. /\ \A c \in Nat : SentUpTo(q, c) => SentUpTo(q2, c)
      /\ ControlFirst(q) => ControlFirst(q2)
      /\ \A c \in Nat : Uncut(q, c) => Uncut(q2, c)
  BY <1>3, <1>5, RefinesKeeps
<1>7. /\ t2 \in Connection /\ SameReceiver(t, t2) /\ SameNumbers(t, t2)
      /\ t2.sbuf = t.sbuf /\ t2.slist = q2 /\ t2.mss = t.mss
  BY ZenonT(60), <1>1, <1>4, <1>5 DEF Connection, SameReceiver, SameNumbers
<1>8. /\ t2.state = t.state /\ t2.sndUna = t.sndUna /\ t2.sndNxt = t.sndNxt
      /\ t2.sndWnd = t.sndWnd /\ t2.recover = t.recover /\ t2.rtoBase = t.rtoBase
      /\ (Alive(t2) <=> Alive(t))
  BY <1>7 DEF SameNumbers, Alive
<1>9. Buffered(t2)
  BY <1>2, <1>3, <1>5, <1>6, <1>7, <1>8 DEF Buffered, q, b
<1>10. Sender(t2, w)
  BY <1>1, <1>7, <1>8, <1>9 DEF Sender, Buffered
<1>11. Sends(t2, u, w) /\ Role(e, t2)
  BY <1>1, <1>8 DEF Pair, Sends, Role
<1>12. SenderGrows(t, t2)
  BY <1>3, <1>6, <1>7, <1>8 DEF SenderGrows, q
<1>13. Fine(e, t2, w, r, out)
  BY <1>1, <1>7, <1>10, <1>11, <1>12, SenderStep DEF u
<1> QED
  BY <1>5, <1>7, <1>13 DEF q, q2

\* One packet more is under way.
LEMMA SentFine ==
    ASSUME NEW e, NEW t, NEW w, NEW r, NEW out, Fine(e, t, w, r, out),
           NEW p \in PacketType, Fits(p, t, tcp[Peer(e)])
    PROVE  Fine(e, t, w, r, out \cup {p})
  BY DEF Fine

\* A packet without data.
LEMMA BareFine ==
    ASSUME NEW e, NEW t, NEW w, NEW r, NEW out, Fine(e, t, w, r, out),
           NEW n \in Nat
    PROVE  Fine(e, t, w, r, out \cup {Packet(t, n, FALSE, << >>)})
<1> DEFINE p == Packet(t, n, FALSE, << >>)
           u == tcp[Peer(e)]
<1>1. t \in Connection /\ u \in Connection /\ Pair(u, t, written[Peer(e)])
  BY DEF Fine
<1>2. t.rcvNxt \in Nat /\ t.rcvWnd \in Nat /\ Edge(t) = t.rcvNxt + t.rcvWnd
  BY <1>1, ConnectionIs
<1>3. /\ p.seq = n /\ p.ack = t.rcvNxt /\ p.wnd = t.rcvWnd /\ p.ctl = FALSE
      /\ p.data = << >> /\ p \in PacketType
  BY <1>2 DEF Packet, PacketType
<1> HIDE DEF p, u
<1>4. Alive(u) => Uncut(u.slist, t.rcvNxt)
  BY <1>1 DEF Pair
<1>5. Fits(p, t, u)
  BY <1>2, <1>3, <1>4 DEF Fits
<1> QED
  BY <1>3, <1>5, SentFine DEF p, u

\* What is sent of a new segment lies within the window of the peer.
Within(e, t, i, n) ==
    t.slist[i].xmit = 0 =>
      t.slist[i].seq = t.sndNxt /\ t.sndNxt + n <= Edge(tcp[Peer(e)])

\* transmit: mss is a segment size that the path takes.
LEMMA TransmitFine ==
    ASSUME NEW e, NEW t, NEW w, NEW r, NEW out, Fine(e, t, w, r, out), Alive(t),
           NEW i \in 1..Len(t.slist), NEW mss \in PathMss(t, i),
           NEW n, n = SegmentSize(t, i, mss), Within(e, t, i, n),
           NEW t2, t2 = Transmitted(t, i, mss)
    PROVE  /\ Fine(e, t2, w, r, out)
           /\ Fine(e, t2, w, r, out \cup {SegmentPacket(t, i, mss)})
           /\ SameReceiver(t, t2) /\ t2.state = t.state
<1> DEFINE u == tcp[Peer(e)]
           q == t.slist
           s == q[i]
           a == t.sndUna
           b == a + Len(t.sbuf)
           q1 == Split(q, i, n)
           q2 == Counted(q1, i)
           c == IF s.xmit = 0 THEN t.sndNxt + n ELSE t.sndNxt
           p == SegmentPacket(t, i, mss)
<1>1. /\ t \in Connection /\ u \in Connection /\ w \in Nat /\ w + 1 < SeqSpace
      /\ Sender(t, w) /\ Pair(t, u, w) /\ Pair(u, t, written[Peer(e)]) /\ Role(e, t)
  BY DEF Fine
<1>2. s.xmit = 0 => s.seq = t.sndNxt /\ t.sndNxt + n <= Edge(u)
  BY DEF Within
<1> HIDE DEF u
<1>3. /\ Buffered(t) /\ b < SeqSpace /\ Chain(q, a, b) /\ SentUpTo(q, t.sndNxt)
      /\ ControlFirst(q) /\ Bytes(t.sbuf, a) /\ Len(t.sbuf) <= SndBuf
      /\ a <= t.sndNxt /\ t.sndNxt <= b
  BY SenderAlive DEF Buffered
<1>4. /\ q \in Seq(Segment) /\ a \in Nat /\ t.sndNxt \in Nat /\ Len(t.sbuf) \in Nat
      /\ t.sbuf \in Seq(Nat) /\ i \in 1..Len(q) /\ b \in Nat /\ b = a + Len(t.sbuf)
      /\ t.rcvNxt \in Nat /\ t.rcvWnd \in Nat /\ Edge(t) = t.rcvNxt + t.rcvWnd
      /\ t.mss \in Mss /\ Mss \subseteq Nat \ {0} /\ Edge(u) \in Nat
  <2>1. t \in Connection /\ u \in Connection
    BY <1>1
  <2>2. Edge(u) \in Nat
    BY ONLY <2>1, ConnectionIs
  <2>3. /\ q \in Seq(Segment) /\ a \in Nat /\ t.sndNxt \in Nat /\ Len(t.sbuf) \in Nat
        /\ t.sbuf \in Seq(Nat) /\ t.mss \in Mss
        /\ t.rcvNxt \in Nat /\ t.rcvWnd \in Nat /\ Edge(t) = t.rcvNxt + t.rcvWnd
    BY ONLY <2>1, ConnectionIs
  <2>4. Mss \subseteq Nat \ {0}
    BY PseudoTcpAssumption
  <2>5. b \in Nat
    BY <2>3
  <2> QED
    BY <2>2, <2>3, <2>4, <2>5
<1>5. mss \in Mss /\ mss \in Nat /\ mss > 0
  <2>1. mss \in {t.mss} \cup Mss
    BY DEF PathMss
  <2>2. mss \in Mss
    BY <2>1, <1>4
  <2> QED
    BY <2>2, <1>4
<1>6. /\ s \in Segment /\ s.seq \in Nat /\ s.len \in Nat /\ s.len > 0
      /\ s.xmit \in Nat /\ s.ctl \in BOOLEAN /\ End(s) = s.seq + s.len /\ End(s) \in Nat
  BY <1>4, SegmentsAre
<1>7. n \in Nat /\ 0 < n /\ n <= s.len /\ (s.len = 1 => n = 1)
  BY <1>5, <1>6 DEF SegmentSize, Least
<1>8. a <= s.seq /\ End(s) <= b
  BY <1>3, <1>4 DEF Chain
<1>9. q1 \in Seq(Segment) /\ Chain(q1, a, b) /\ Refines(q1, q) /\ i \in 1..Len(q1)
      /\ q1[i] = [s EXCEPT !.len = n]
  <2>1. n <= q[i].len /\ Chain(q, a, b) /\ b < SeqSpace
    BY <1>3, <1>7
  <2>2. q \in Seq(Segment) /\ a \in Nat /\ b \in Nat /\ i \in 1..Len(q) /\ n \in Nat /\ 0 < n
    BY <1>4, <1>7
  <2>3. q1 = Split(q, i, n) /\ s = q[i]
    OBVIOUS
  <2> HIDE DEF q, a, b, q1, s
  <2>4. /\ q1 \in Seq(Segment) /\ Chain(q1, a, b) /\ Refines(q1, q)
        /\ i \in 1..Len(q1) /\ q1[i] = [q[i] EXCEPT !.len = n]
    BY <2>1, <2>2, <2>3, SplitIs
  <2> QED
    BY <2>3, <2>4
<1>10. q1[i].seq = s.seq /\ q1[i].len = n /\ q1[i].xmit = s.xmit /\ q1[i].ctl = s.ctl
       /\ End(q1[i]) = s.seq + n
  <2> HIDE DEF s, q1
  <2> QED
    BY <1>6, <1>9 DEF Segment, End
<1> HIDE DEF q1
<1>11. /\ SentUpTo(q1, t.sndNxt) /\ ControlFirst(q1)
       /\ \A k \in Nat : Uncut(q, k) => Uncut(q1, k)
  <2> HIDE DEF q
  <2> QED
    BY <1>3, <1>4, <1>9, RefinesKeeps
<1>12. c = IF q1[i].xmit = 0 THEN End(q1[i]) ELSE t.sndNxt
  BY <1>2, <1>10
<1>13. q1[i].xmit = 0 => q1[i].seq = t.sndNxt
  BY <1>2, <1>10
<1> HIDE DEF q, a, b, s
<1>14. c \in Nat /\ t.sndNxt <= c /\ c <= b /\ a < c /\ c <= Edge(u) /\ s.seq + n <= c
       /\ c = t.sndNxt + (IF s.xmit = 0 THEN n ELSE 0)
  <2>1. CASE s.xmit = 0
    <3>1. c = t.sndNxt + n /\ s.seq = t.sndNxt /\ t.sndNxt + n <= Edge(u)
      BY <2>1, <1>2
    <3>2. s.seq + n <= End(s)
      BY <1>6, <1>7
    <3>3. c <= b
      BY SMTT(40), <3>1, <3>2, <1>4, <1>6, <1>7, <1>8
    <3> HIDE DEF c
    <3>4. c \in Nat /\ t.sndNxt <= c /\ a < c /\ s.seq + n <= c
      <4>1. a <= t.sndNxt /\ a \in Nat /\ t.sndNxt \in Nat /\ n \in Nat /\ 0 < n
        BY <1>3, <1>4, <1>7
      <4> QED
        BY <4>1, <3>1
    <3> QED
      BY <3>1, <3>3, <3>4, <2>1
  <2>2. CASE s.xmit # 0
    <3>1. c = t.sndNxt
      BY <2>2
    <3>2. End(s) <= t.sndNxt
      <4>1. s.xmit > 0
        BY <2>2, <1>6
      <4> QED
        BY <4>1, <1>3, <1>4 DEF SentUpTo, s
    <3>3. t.sndNxt <= Edge(u)
      BY <1>1 DEF Pair
    <3> HIDE DEF c
    <3>4. a < c /\ s.seq + n <= c
      <4> DEFINE x == s.seq
                 y == s.len
                 z == t.sndNxt
      <4>1. /\ a \in Nat /\ x \in Nat /\ y \in Nat /\ z \in Nat /\ n \in Nat /\ 0 < n
            /\ n <= y /\ a <= x /\ x + y <= z /\ c = z
        BY <3>1, <3>2, <1>4, <1>6, <1>7, <1>8
      <4> HIDE DEF x, y, z
      <4>2. a < c /\ x + n <= c
        BY ONLY <4>1
      <4> QED
        BY <4>2 DEF x
    <3>5. c \in Nat /\ c <= b /\ t.sndNxt <= c
      BY <3>1, <1>3, <1>4
    <3> QED
      BY <3>1, <3>3, <3>4, <3>5, <2>2, <1>4
  <2> QED
    BY <2>1, <2>2
<1> HIDE DEF c
<1>15. /\ q2 \in Seq(Segment) /\ Len(q2) = Len(q1) /\ Chain(q2, a, b)
       /\ SentUpTo(q2, c) /\ ControlFirst(q2)
       /\ q2[i].seq = q1[i].seq /\ q2[i].len = q1[i].len
       /\ \A k \in Nat : Uncut(q1, k) => Uncut(q2, k)
  <2>1. q2 = Counted(q1, i)
    OBVIOUS
  <2> HIDE DEF q2
  <2>2. /\ q1 \in Seq(Segment) /\ a \in Nat /\ b \in Nat /\ Chain(q1, a, b)
        /\ t.sndNxt \in Nat /\ SentUpTo(q1, t.sndNxt) /\ ControlFirst(q1)
        /\ i \in 1..Len(q1)
    BY <1>4, <1>9, <1>11
  <2> QED
    BY <1>12, <1>13, <2>1, <2>2, CountedIs
<1> HIDE DEF q2
<1>16. t2 = [t EXCEPT !.mss = mss, !.slist = q2, !.sndNxt = c, !.rtoBase = TRUE,
                      !.tAck = FALSE]
  <2>1. c < SeqSpace /\ SeqSpace \in Nat
    BY <1>3, <1>4, <1>14, PseudoTcpAssumption
  <2>2. (IF s.xmit = 0 THEN Plus(t.sndNxt, n) ELSE t.sndNxt) = c
    <3>1. CASE s.xmit = 0
      <4>1. t.sndNxt + n = c
        BY <3>1, <1>14
      <4>2. Plus(t.sndNxt, n) = t.sndNxt + n
        BY <4>1, <2>1, <1>4, <1>7, PlusIs
      <4> QED
        BY <3>1, <4>1, <4>2
    <3>2. CASE s.xmit # 0
      BY <3>2, <1>4, <1>14
    <3> QED
      BY <3>1, <3>2
  <2>3. t2 = [t EXCEPT !.mss = mss, !.slist = q2,
                       !.sndNxt = IF s.xmit = 0 THEN Plus(t.sndNxt, n) ELSE t.sndNxt,
                       !.rtoBase = TRUE, !.tAck = FALSE]
    BY DEF Transmitted, q2, q1, q, s
  <2> QED
    BY <2>2, <2>3
<1>17. /\ t2 \in Connection /\ SameReceiver(t, t2) /\ t2.state = t.state
       /\ t2.sbuf = t.sbuf /\ t2.slist = q2 /\ t2.sndUna = t.sndUna /\ t2.sndNxt = c
       /\ t2.sndWnd = t.sndWnd /\ t2.recover = t.recover /\ t2.rtoBase = TRUE
  BY ZenonT(80), <1>1, <1>5, <1>14, <1>15, <1>16 DEF Connection, SameReceiver
<1>18. Alive(t2) /\ Role(e, t2)
  BY <1>1, <1>17 DEF Alive, Role
<1>19. Sender(t2, w)
  <2>1. /\ t.sndUna + Len(t.sbuf) = (IF t.state = "LISTEN" THEN 0 ELSE w + 1)
        /\ (t.state \in Opening => w = 0) /\ t.recover <= t.sndNxt /\ t.recover \in Nat
    BY <1>1, SenderAlive, ConnectionIs
  <2>2. c <= w + 1
    <3>1. b <= w + 1
      BY <2>1, <1>1 DEF a, b
    <3> QED
      BY <3>1, <1>1, <1>4, <1>14
  <2>3. t2.recover <= c /\ t2.sndUna <= c /\ (t2.rtoBase <=> c > t2.sndUna)
    <3>1. /\ t2.recover = t.recover /\ t2.sndUna = a /\ t2.rtoBase = TRUE
          /\ t.recover <= t.sndNxt /\ t.sndNxt <= c /\ a < c
      BY <2>1, <1>14, <1>17 DEF a
    <3>2. t.recover <= c
      BY SMTT(40), <3>1, <2>1, <1>4, <1>14, AtMost
    <3>3. a <= c /\ c > a
      BY <3>1, <1>4, <1>14
    <3> QED
      BY <3>1, <3>2, <3>3
  <2>4. /\ Bytes(t2.sbuf, t2.sndUna) /\ Len(t2.sbuf) <= SndBuf
        /\ c <= t2.sndUna + Len(t2.sbuf)
        /\ Chain(t2.slist, t2.sndUna, t2.sndUna + Len(t2.sbuf))
        /\ SentUpTo(t2.slist, c) /\ ControlFirst(t2.slist)
    BY <1>3, <1>14, <1>15, <1>17 DEF a, b
  <2> QED
    BY <2>1, <2>2, <2>3, <2>4, <1>17, <1>18 DEF Sender
<1>20. Sends(t2, u, w)
  BY <1>1, <1>14, <1>17 DEF Pair, Sends
<1>21. SenderGrows(t, t2)
  BY <1>11, <1>14, <1>15, <1>17 DEF SenderGrows, q
<1>22. Fine(e, t2, w, r, out)
  BY <1>1, <1>17, <1>18, <1>19, <1>20, <1>21, SenderStep DEF u
<1>23. Fits(p, t2, u) /\ p \in PacketType
  <2> DEFINE o == s.seq - a
             d == SubSeq(t.sbuf, o + 1, o + n)
  <2>1. o \in Nat /\ o + n <= Len(t.sbuf) /\ a + o = s.seq
    <3> DEFINE x == s.seq
               y == s.len
               z == Len(t.sbuf)
    <3>1. /\ a \in Nat /\ x \in Nat /\ y \in Nat /\ z \in Nat /\ n \in Nat
          /\ n <= y /\ a <= x /\ x + y <= a + z
      BY <1>4, <1>6, <1>7, <1>8
    <3> HIDE DEF x, y, z
    <3>2. x - a \in Nat /\ (x - a) + n <= z /\ a + (x - a) = x
      BY ONLY <3>1
    <3> QED
      BY <3>2 DEF x, z
  <2>2. Minus(s.seq, a) = o
    <3>1. a <= s.seq /\ s.seq - a < SeqSpace
      <4> DEFINE x == s.seq
                 y == s.len
      <4>1. /\ a \in Nat /\ b \in Nat /\ x \in Nat /\ y \in Nat /\ a <= x
            /\ x + y <= b /\ b < SeqSpace /\ SeqSpace \in Nat
        BY <1>3, <1>4, <1>6, <1>8, PseudoTcpAssumption
      <4> HIDE DEF x, y, a, b
      <4> QED
        BY ONLY <4>1 DEF x
    <3> QED
      BY <3>1, <1>4, <1>6, MinusIs
  <2>3. p = Packet(t, s.seq, s.ctl, d)
    BY <2>2 DEF SegmentPacket, s, q, a
  <2>4. d \in Seq(Nat) /\ Len(d) = n /\ \A k \in 1..n : d[k] = t.sbuf[o + k]
    <3> HIDE DEF o
    <3>1. o + 1 \in 1..(Len(t.sbuf) + 1) /\ o + n \in 0..Len(t.sbuf) /\ o + 1 <= (o + n) + 1
      <4>1. /\ o \in Nat /\ n \in Nat /\ o + n <= Len(t.sbuf) /\ Len(t.sbuf) \in Nat
        BY <2>1, <1>4, <1>7
      <4> QED
        BY ONLY <4>1
    <3>2. /\ d \in Seq(Nat) /\ Len(d) = o + n + 1 - (o + 1)
          /\ \A k \in 1..(o + n + 1 - (o + 1)) : d[k] = t.sbuf[o + 1 + k - 1]
      <4>1. t.sbuf \in Seq(Nat)
        BY <1>4
      <4> QED
        BY ZenonT(80), <3>1, <4>1, SubSeqIs
    <3>3. o + n + 1 - (o + 1) = n /\ \A k \in 1..n : o + 1 + k - 1 = o + k
      BY <2>1, <1>7
    <3> HIDE DEF d
    <3> QED
      BY <3>2, <3>3
  <2> HIDE DEF p, d, o
  <2>5. /\ p.seq = s.seq /\ p.ack = t.rcvNxt /\ p.wnd = t.rcvWnd /\ p.ctl = s.ctl
        /\ p.data = d /\ p \in PacketType
    BY <1>4, <1>6, <2>3, <2>4 DEF Packet, PacketType
  <2>6. Bytes(d, s.seq)
    <3> SUFFICES ASSUME NEW k \in 1..Len(d) PROVE d[k] = s.seq + k - 1
      BY DEF Bytes
    <3>1. d[k] = t.sbuf[o + k] /\ o + k \in 1..Len(t.sbuf)
      <4>1. k \in 1..n
        BY <2>4
      <4>2. o \in Nat /\ n \in Nat /\ o + n <= Len(t.sbuf) /\ Len(t.sbuf) \in Nat
        BY <2>1, <1>4, <1>7
      <4>3. o + k \in 1..Len(t.sbuf)
        BY ONLY <4>1, <4>2
      <4> QED
        BY <4>1, <4>3, <2>4
    <3>2. t.sbuf[o + k] = a + (o + k) - 1
      BY <3>1, <1>3 DEF Bytes
    <3>3. a + (o + k) - 1 = s.seq + k - 1
      <4>1. k \in Nat /\ a + o = s.seq /\ a \in Nat /\ o \in Nat /\ s.seq \in Nat
        BY <2>1, <1>4, <1>6
      <4> HIDE DEF s
      <4> QED
        BY ONLY <4>1
    <3> QED
      BY <3>1, <3>2, <3>3
  <2>7. Uncut(q2, s.seq + n)
    <3>1. End(q2[i]) = s.seq + n /\ i \in 1..Len(q2)
      BY <1>9, <1>10, <1>15 DEF End
    <3> QED
      BY <3>1, <1>4, <1>15, EndUncut
  <2>8. IF s.ctl THEN s.seq = 0 /\ s.len = 1 ELSE s.seq > 0
    BY <1>3, <1>4 DEF ControlFirst, s
  <2>9. Alive(u) => Uncut(u.slist, t.rcvNxt)
    BY <1>1 DEF Pair
  <2>10. p.ack <= t2.rcvNxt /\ p.ack + p.wnd <= Edge(t2)
    <3>1. t2.rcvNxt = t.rcvNxt /\ t2.rcvWnd = t.rcvWnd
      BY <1>17 DEF SameReceiver
    <3>2. Edge(t2) = t.rcvNxt + t.rcvWnd
      BY <3>1 DEF Edge
    <3> QED
      BY <3>1, <3>2, <2>5, <1>4
  <2>11. p.seq + Len(p.data) = s.seq + n
    BY <2>4, <2>5
  <2>12. p.data # <<>> =>
           /\ Bytes(p.data, p.seq)
           /\ p.seq + Len(p.data) <= t2.sndNxt
           /\ Alive(t2) => Uncut(t2.slist, p.seq + Len(p.data))
           /\ ~p.ctl => p.seq > 0
    BY <2>5, <2>6, <2>7, <2>8, <2>11, <1>14, <1>17
  <2>13. p.ctl => p.seq = 0 /\ Len(p.data) = 1
    BY <2>4, <2>5, <2>8, <1>7
  <2>14. Alive(u) => Uncut(u.slist, p.ack)
    BY <2>5, <2>9
  <2> QED
    BY <2>5, <2>10, <2>12, <2>13, <2>14 DEF Fits
<1>24. Fine(e, t2, w, r, out \cup {p})
  <2> HIDE DEF p
  <2> QED
    BY <1>22, <1>23, SentFine DEF u
<1> QED
  BY <1>17, <1>22, <1>24

\* The same of a segment that was sent before.
LEMMA RetransmitFine ==
    ASSUME NEW e, NEW t, NEW w, NEW r, NEW out, Fine(e, t, w, r, out), Alive(t),
           NEW i \in 1..Len(t.slist), t.slist[i].xmit # 0,
           NEW mss \in PathMss(t, i), NEW t2, t2 = Transmitted(t, i, mss)
    PROVE  /\ Fine(e, t2, w, r, out)
           /\ Fine(e, t2, w, r, out \cup {SegmentPacket(t, i, mss)})
           /\ SameReceiver(t, t2) /\ t2.state = t.state
<1> DEFINE m == SegmentSize(t, i, mss)
<1>1. Within(e, t, i, m)
  BY DEF Within
<1>2. m = SegmentSize(t, i, mss)
  OBVIOUS
<1>3. /\ Fine(e, t, w, r, out) /\ Alive(t) /\ i \in 1..Len(t.slist)
      /\ mss \in PathMss(t, i) /\ t2 = Transmitted(t, i, mss)
  OBVIOUS
<1> HIDE DEF m
<1> QED
  BY ONLY <1>1, <1>2, <1>3, TransmitFine

\* attemptSend: n bytes fit into the windows, and there is a segment to send.
LEMMA AvailableIs ==
    ASSUME NEW e, NEW t, NEW w, NEW r, NEW out, Fine(e, t, w, r, out), Alive(t),
           NEW cwnd \in Nat, NEW n, n = Available(t, cwnd), n > 0,
           NEW i, i = FirstUnsent(t)
    PROVE  /\ n \in Nat /\ t.sndNxt + n <= Edge(tcp[Peer(e)])
           /\ i \in 1..Len(t.slist) /\ t.slist[i].xmit = 0
           /\ t.slist[i].seq = t.sndNxt
<1> DEFINE u == tcp[Peer(e)]
           q == t.slist
           a == t.sndUna
           c == t.sndNxt
           l == Len(t.sbuf)
           S == {j \in DOMAIN q : q[j].xmit = 0}
           f == InFlight(t)
           window == Least(t.sndWnd, cwnd)
           useable == IF f < window THEN window - f ELSE 0
           wanted == Least(l - f, t.mss)
<1>1. t \in Connection /\ u \in Connection /\ Pair(t, u, w)
  BY DEF Fine
<1> HIDE DEF u
<1>2. /\ Chain(q, a, a + l) /\ SentUpTo(q, c) /\ a <= c /\ c <= a + l
      /\ a + l < SeqSpace
  BY SenderAlive
<1>3. /\ q \in Seq(Segment) /\ a \in Nat /\ c \in Nat /\ l \in Nat /\ t.sndWnd \in Nat
      /\ t.mss \in Nat /\ Edge(u) \in Nat /\ SeqSpace \in Nat
  BY <1>1, ConnectionIs
<1>4. a + t.sndWnd <= Edge(u)
  BY <1>1 DEF Pair
<1>5. f = c - a
  <2>1. c - a < SeqSpace
    BY <1>2, <1>3
  <2> QED
    BY <1>2, <1>3, <2>1, MinusIs DEF InFlight
<1>6. n = IF wanted <= useable THEN wanted
          ELSE IF useable * 4 < window THEN 0 ELSE useable
  BY DEF Available
<1> HIDE DEF f
<1>7. f \in Nat /\ l - f \in Nat
  BY SMTT(60), <1>2, <1>3, <1>5
<1>8. window \in Nat /\ window <= t.sndWnd
  BY <1>3 DEF Least
<1> HIDE DEF window
<1>9. useable \in Nat /\ (useable > 0 => f + useable = window)
  BY <1>7, <1>8
<1> HIDE DEF useable
<1>10. wanted \in Nat /\ wanted <= l - f
  BY <1>3, <1>7 DEF Least
<1> HIDE DEF wanted
<1>11. n \in Nat /\ n <= useable /\ useable > 0
  <2>1. CASE wanted <= useable
    BY <2>1, <1>6, <1>9, <1>10
  <2>2. CASE ~(wanted <= useable)
    <3>1. n = useable
      BY <2>2, <1>6
    <3> QED
      BY <3>1, <1>9
  <2> QED
    BY <2>1, <2>2
<1>12. c + n <= Edge(u)
  <2> DEFINE x == t.sndWnd
             y == Edge(u)
  <2>1. /\ a \in Nat /\ c \in Nat /\ f \in Nat /\ n \in Nat /\ useable \in Nat
        /\ window \in Nat /\ x \in Nat /\ y \in Nat /\ f = c - a /\ n <= useable
        /\ f + useable = window /\ window <= x /\ a + x <= y
    BY <1>3, <1>4, <1>5, <1>7, <1>8, <1>9, <1>11
  <2> HIDE DEF a, c, x, y
  <2>2. c + n <= y
    BY ONLY <2>1
  <2> QED
    BY <2>2 DEF y
<1>13. c < a + l
  <2>1. l - f # 0
    <3> SUFFICES ASSUME l - f = 0 PROVE FALSE
      OBVIOUS
    <3>1. wanted = 0
      BY <1>10
    <3> QED
      BY <3>1, <1>6, <1>9
  <2> QED
    BY <2>1, <1>2, <1>3, <1>5, <1>7
<1>14. S # {} /\ S \subseteq Nat /\ DOMAIN q = 1..Len(q) /\ Len(q) \in Nat
  <2>1. DOMAIN q = 1..Len(q) /\ Len(q) \in Nat
    BY <1>3
  <2>2. q # <<>>
    BY <1>2, <1>3, <1>13 DEF Chain
  <2>3. Len(q) \in 1..Len(q) /\ End(q[Len(q)]) = a + l
    BY <1>2, <1>3, <2>1, <2>2 DEF Chain
  <2>4. q[Len(q)].xmit \in Nat
    BY <1>3, <2>3, SegmentsAre
  <2>5. ~(q[Len(q)].xmit > 0)
    <3>1. ~(End(q[Len(q)]) <= c)
      BY <1>3, <1>13, <2>3
    <3> QED
      BY <2>3, <3>1, <1>2 DEF SentUpTo
  <2>6. q[Len(q)].xmit = 0
    BY <2>4, <2>5
  <2> QED
    BY <2>1, <2>3, <2>6
<1>15. i \in S /\ \A j \in S : i <= j
  <2>1. i = Smallest(S)
    BY DEF FirstUnsent
  <2> HIDE DEF S
  <2> QED
    BY <1>14, <2>1, SmallestIs
<1>16. i \in 1..Len(q) /\ q[i].xmit = 0
  BY <1>14, <1>15
<1>17. c <= q[i].seq
  BY <1>2, <1>16 DEF SentUpTo
<1>18. q[i].seq <= c
  <2>1. CASE i = 1
    <3>1. q # <<>>
      BY <1>14, <1>16
    <3>2. q[1].seq = a
      BY <1>2, <3>1 DEF Chain
    <3> QED
      BY <2>1, <3>2, <1>2
  <2>2. CASE i # 1
    <3>1. i - 1 \in 1..(Len(q) - 1) /\ (i - 1) + 1 = i /\ i - 1 \in 1..Len(q) /\ i - 1 < i
      BY <2>2, <1>14, <1>16
    <3>2. i - 1 \notin S
      BY <3>1, <1>15
    <3>3. q[i - 1].xmit \in Nat /\ q[i - 1].xmit # 0
      BY <3>1, <3>2, <1>3, <1>14, SegmentsAre
    <3>4. q[i - 1].xmit > 0
      BY <3>3
    <3>5. End(q[i - 1]) <= c
      BY <3>1, <3>4, <1>2 DEF SentUpTo
    <3>6. q[i].seq = End(q[i - 1])
      BY <3>1, <1>2 DEF Chain
    <3> QED
      BY <3>5, <3>6
  <2> QED
    BY <2>1, <2>2
<1>19. q[i].seq = c
  <2>1. q[i].seq \in Nat
    BY <1>3, <1>16, SegmentsAre
  <2> QED
    BY SMTT(40), <2>1, <1>3, <1>17, <1>18
<1> QED
  BY <1>11, <1>12, <1>16, <1>19 DEF u

\* attemptSend sends the first segment that was not sent, as much of it as the
\* windows let pass.
LEMMA SendFine ==
    ASSUME NEW e, NEW t, NEW w, NEW r, NEW out, Fine(e, t, w, r, out), Alive(t),
           NEW cwnd \in Nat, NEW n, n = Available(t, cwnd), n > 0,
           NEW i, i = FirstUnsent(t),
           NEW u, u = (IF t.slist[i].len > n
                       THEN [t EXCEPT !.slist = Split(@, i, n)] ELSE t),
           NEW mss \in PathMss(u, i),
           NEW t2, t2 = Transmitted(u, i, mss)
    PROVE  /\ Fine(e, t2, w, r, out)
           /\ Fine(e, t2, w, r, out \cup {SegmentPacket(u, i, mss)})
           /\ SameReceiver(t, t2) /\ t2.state = t.state
<1> DEFINE U == tcp[Peer(e)]
<1>1. /\ n \in Nat /\ t.sndNxt + n <= Edge(U)
      /\ i \in 1..Len(t.slist) /\ t.slist[i].xmit = 0
      /\ t.slist[i].seq = t.sndNxt
  BY AvailableIs
<1>2. t \in Connection /\ U \in Connection /\ t.slist \in Seq(Segment) /\ t.sndNxt \in Nat
      /\ Edge(U) \in Nat
  <2>1. t \in Connection /\ U \in Connection
    BY DEF Fine
  <2> HIDE DEF U
  <2> QED
    BY <2>1, ConnectionIs
<1> HIDE DEF U
<1>3. t.slist[i] \in Segment /\ t.slist[i].len \in Nat
  BY <1>1, <1>2, SegmentsAre
<1>4. /\ Fine(e, u, w, r, out) /\ SameReceiver(t, u) /\ Alive(u) /\ u.state = t.state
      /\ u.sndNxt = t.sndNxt /\ u \in Connection
      /\ i \in 1..Len(u.slist) /\ u.slist[i].xmit = 0
      /\ u.slist[i].seq = t.sndNxt /\ u.slist[i].len <= n
  <2>1. CASE t.slist[i].len > n
    <3>1. u = [t EXCEPT !.slist = Split(@, i, n)] /\ 0 < n /\ n <= t.slist[i].len
      BY <2>1, <1>1, <1>3
    <3>2. /\ Fine(e, u, w, r, out) /\ SameReceiver(t, u) /\ SameNumbers(t, u)
          /\ i \in 1..Len(u.slist) /\ u.slist[i] = [t.slist[i] EXCEPT !.len = n]
          /\ u \in Connection
      BY <3>1, <1>1, SplitFine
    <3>3. /\ u.slist[i].xmit = t.slist[i].xmit /\ u.slist[i].seq = t.slist[i].seq
          /\ u.slist[i].len = n
      <4> DEFINE s == t.slist[i]
                 x == u.slist[i]
      <4>1. s \in Segment /\ x = [s EXCEPT !.len = n]
        BY <1>3, <3>2
      <4> HIDE DEF s, x
      <4>2. x.xmit = s.xmit /\ x.seq = s.seq /\ x.len = n
        BY <4>1 DEF Segment
      <4> QED
        BY <4>2 DEF s, x
    <3>4. n <= n
      BY <1>1
    <3>5. Alive(u) /\ u.state = t.state /\ u.sndNxt = t.sndNxt
      BY <3>2 DEF SameNumbers, Alive
    <3> QED
      BY <3>2, <3>3, <3>4, <3>5, <1>1
  <2>2. CASE ~(t.slist[i].len > n)
    <3>1. u = t
      BY <2>2
    <3>2. SameReceiver(t, t)
      BY DEF SameReceiver
    <3>3. t.slist[i].len <= n
      BY <2>2, <1>1, <1>3
    <3> QED
      BY <3>1, <3>2, <3>3, <1>1, <1>2
  <2> QED
    BY <2>1, <2>2
<1> DEFINE m == SegmentSize(u, i, mss)
<1>5. m \in Nat /\ m <= n
  <2>1. u.slist \in Seq(Segment) /\ u.mss \in Mss /\ Mss \subseteq Nat
    BY <1>4, ConnectionIs, PseudoTcpAssumption
  <2>2. mss \in Nat
    BY <2>1 DEF PathMss
  <2>3. u.slist[i].len \in Nat /\ u.slist[i].len <= n
    BY <1>4, <2>1, SegmentsAre
  <2> QED
    BY <1>1, <2>2, <2>3 DEF SegmentSize, Least
<1> HIDE DEF m
<1>6. u.sndNxt + m <= Edge(U)
  <2>1. t.sndNxt + m <= t.sndNxt + n
    BY <1>1, <1>2, <1>5
  <2>2. t.sndNxt + m \in Nat /\ t.sndNxt + n \in Nat
    BY <1>1, <1>2, <1>5
  <2>3. t.sndNxt + m <= Edge(U)
    BY <2>1, <2>2, <1>1, <1>2, AtMost
  <2> QED
    BY <2>3, <1>4
<1>7. /\ Fine(e, t2, w, r, out)
      /\ Fine(e, t2, w, r, out \cup {SegmentPacket(u, i, mss)})
      /\ SameReceiver(u, t2) /\ t2.state = u.state
  <2>1. Within(e, u, i, m)
    BY <1>4, <1>6 DEF U, Within
  <2>2. m = SegmentSize(u, i, mss)
    BY DEF m
  <2>3. /\ Fine(e, u, w, r, out) /\ Alive(u) /\ i \in 1..Len(u.slist)
        /\ mss \in PathMss(u, i) /\ t2 = Transmitted(u, i, mss)
    BY <1>4
  <2> QED
    BY ONLY <2>1, <2>2, <2>3, TransmitFine
<1> QED
  BY <1>4, <1>7 DEF SameReceiver

\* What is in flight was sent.
LEMMA FirstSent ==
    ASSUME NEW e, NEW t, NEW w, NEW r, NEW out, Fine(e, t, w, r, out), Alive(t),
           t.sndUna < t.sndNxt
    PROVE  t.slist # <<>> /\ 1 \in 1..Len(t.slist) /\ t.slist[1].xmit # 0
<1> DEFINE q == t.slist
<1>1. /\ t \in Connection /\ t.sndNxt <= t.sndUna + Len(t.sbuf)
      /\ Chain(t.slist, t.sndUna, t.sndUna + Len(t.sbuf)) /\ SentUpTo(t.slist, t.sndNxt)
  BY SenderAlive
<1>2. q \in Seq(Segment) /\ t.sndUna \in Nat /\ t.sndNxt \in Nat /\ Len(t.sbuf) \in Nat
      /\ Len(q) \in Nat
  BY <1>1, ConnectionIs
<1>3. q # <<>>
  <2> SUFFICES ASSUME q = <<>> PROVE FALSE
    OBVIOUS
  <2>1. t.sndUna = t.sndUna + Len(t.sbuf)
    BY <1>1 DEF Chain
  <2> QED
    BY <2>1, <1>1, <1>2
<1>4. 1 \in 1..Len(q)
  BY <1>2, <1>3
<1>5. q[1].seq = t.sndUna /\ q[1].xmit \in Nat
  BY <1>1, <1>2, <1>3, <1>4, SegmentsAre DEF Chain
<1>6. IF q[1].xmit > 0 THEN End(q[1]) <= t.sndNxt ELSE t.sndNxt <= q[1].seq
  BY <1>1, <1>4 DEF SentUpTo
<1>7. q[1].xmit > 0
  BY <1>2, <1>5, <1>6
<1> QED
  BY <1>3, <1>4, <1>7

\* A new acknowledgement takes what it acknowledges from the buffer and the
\* list, and opens the window of the peer.
LEMMA AcknowledgedFine ==
    ASSUME NEW e, NEW t, NEW w, NEW r, NEW out, Fine(e, t, w, r, out), Alive(t),
           NEW p \in net[e], Acknowledges(t, p),
           NEW v, v = Acknowledged(t, p)
    PROVE  /\ Fine(e, v, w, r, out) /\ SameReceiver(t, v)
           /\ v.sndNxt = t.sndNxt /\ v.sndUna = p.ack
           /\ v.state = t.state \/ (v.state = "ESTABLISHED" /\ t.state = "SYN_RECEIVED")
<1> DEFINE u == tcp[Peer(e)]
           q == t.slist
           a == t.sndUna
           l == Len(t.sbuf)
           b == a + l
           n == Minus(p.ack, a)
           sbuf == SubSeq(t.sbuf, n + 1, l)
           q2 == Unacknowledged(q, n)
           dup == IF t.dupAcks >= DupAcks /\ p.ack < t.recover THEN t.dupAcks ELSE 0
           we == t.writeEnable /\ Len(sbuf) >= (SndBuf + RcvBuf) \div 2
           rto == p.ack # t.sndNxt
           opened == t.state = "SYN_RECEIVED" /\ ~p.ctl
           t2 == [t EXCEPT !.sndWnd = p.wnd, !.sndUna = p.ack, !.rtoBase = rto,
                           !.sbuf = sbuf, !.slist = q2, !.dupAcks = dup,
                           !.writeEnable = we]
<1>1. /\ t \in Connection /\ u \in Connection /\ w \in Nat /\ w + 1 < SeqSpace
      /\ Sender(t, w) /\ Pair(t, u, w) /\ Role(e, t)
      /\ p \in PacketType /\ Fits(p, u, t)
  BY DEF Fine
<1> HIDE DEF u
<1>2. p.ack \in Nat /\ p.wnd \in Nat /\ p.ctl \in BOOLEAN
  BY <1>1, PacketIs
<1>3. /\ q \in Seq(Segment) /\ a \in Nat /\ t.sbuf \in Seq(Nat) /\ l \in Nat /\ b \in Nat
      /\ t.sndNxt \in Nat /\ t.recover \in Nat /\ t.dupAcks \in Nat /\ u.rcvNxt \in Nat
      /\ t.writeEnable \in BOOLEAN /\ SndBuf \in Nat /\ SeqSpace \in Nat
  BY SMTT(40), <1>1, ConnectionIs
<1>4. /\ Chain(q, a, b) /\ SentUpTo(q, t.sndNxt) /\ ControlFirst(q) /\ Bytes(t.sbuf, a)
      /\ l <= SndBuf /\ t.sndNxt <= b /\ b < SeqSpace
      /\ b = (IF t.state = "LISTEN" THEN 0 ELSE w + 1)
      /\ t.sndNxt <= w + 1 /\ t.recover <= t.sndNxt /\ (t.state \in Opening => w = 0)
  BY SenderAlive DEF Buffered
<1>5. a < p.ack /\ p.ack <= t.sndNxt /\ p.ack <= b
  BY <1>2, <1>3, <1>4 DEF Acknowledges
<1>6. n = p.ack - a /\ n \in Nat /\ n <= l
  <2>1. a <= p.ack /\ p.ack - a < SeqSpace /\ p.ack - a \in Nat /\ p.ack - a <= l
    <3>1. /\ a \in Nat /\ p.ack \in Nat /\ l \in Nat /\ b \in Nat /\ b = a + l
          /\ a < p.ack /\ p.ack <= b /\ b < SeqSpace /\ SeqSpace \in Nat
      BY <1>2, <1>3, <1>4, <1>5
    <3> HIDE DEF a, b, l
    <3> QED
      BY ONLY <3>1
  <2>2. n = p.ack - a
    BY <2>1, <1>2, <1>3, MinusIs
  <2> QED
    BY <2>1, <2>2
<1>7. Uncut(q, p.ack) /\ p.ack <= u.rcvNxt /\ p.ack + p.wnd <= Edge(u)
  BY <1>1 DEF Fits
<1>8. q2 \in Seq(Segment) /\ Chain(q2, p.ack, b) /\ Refines(q2, q)
  <2>1. q2 = Unacknowledged(q, p.ack - a)
    BY <1>6
  <2>2. a <= p.ack
    BY <1>2, <1>3, <1>5
  <2> HIDE DEF q2, q, a, b, n
  <2> QED
    BY <2>1, <2>2, <1>2, <1>3, <1>4, <1>5, <1>7, UnackIs
<1>9. /\ SentUpTo(q2, t.sndNxt) /\ ControlFirst(q2)
      /\ \A c \in Nat : Uncut(q, c) => Uncut(q2, c)
  <2> HIDE DEF q, q2
  <2> QED
    BY <1>3, <1>4, <1>8, RefinesKeeps
<1>10. /\ sbuf \in Seq(Nat) /\ Len(sbuf) = l - n
       /\ \A i \in 1..(l - n) : sbuf[i] = t.sbuf[n + i]
  <2>1. n + 1 \in 1..(l + 1) /\ l \in 0..l /\ n + 1 <= l + 1
    BY <1>3, <1>6
  <2>2. /\ sbuf \in Seq(Nat) /\ Len(sbuf) = l + 1 - (n + 1)
        /\ \A i \in 1..(l + 1 - (n + 1)) : sbuf[i] = t.sbuf[(n + 1) + i - 1]
    BY ZenonT(80), <1>3, <2>1, SubSeqIs
  <2>3. l + 1 - (n + 1) = l - n /\ \A i \in 1..(l - n) : (n + 1) + i - 1 = n + i
    BY <1>3, <1>6
  <2> HIDE DEF sbuf, l, n
  <2> QED
    BY <2>2, <2>3
<1>11. dup \in Nat /\ we \in BOOLEAN /\ rto \in BOOLEAN
  BY <1>3
<1>12. v = IF opened THEN Established(t2) ELSE t2
  <2>1. Acknowledged(t, p) = IF opened THEN Established(t2) ELSE t2
    BY ONLY DEF Acknowledged
  <2> QED
    BY <2>1
<1> HIDE DEF dup, we, rto, sbuf, q2, n
<1>13. Bytes(sbuf, p.ack)
  <2> SUFFICES ASSUME NEW i \in 1..Len(sbuf) PROVE sbuf[i] = p.ack + i - 1
    BY DEF Bytes
  <2>1. i \in 1..(l - n) /\ n + i \in 1..l
    <3>1. /\ l \in Nat /\ n \in Nat /\ n <= l /\ i \in 1..(l - n)
      BY <1>3, <1>6, <1>10
    <3> HIDE DEF l
    <3> QED
      BY ONLY <3>1
  <2>2. sbuf[i] = a + (n + i) - 1
    BY <2>1, <1>4, <1>10 DEF Bytes
  <2>3. a + (n + i) - 1 = p.ack + i - 1
    <3>1. n = p.ack - a /\ a \in Nat /\ p.ack \in Nat /\ i \in Nat
      BY <2>1, <1>2, <1>3, <1>6
    <3> HIDE DEF a
    <3> QED
      BY ONLY <3>1
  <2> QED
    BY <2>2, <2>3
<1>14. p.ack + Len(sbuf) = b /\ Len(sbuf) \in Nat /\ Len(sbuf) <= SndBuf
  <2>1. /\ n = p.ack - a /\ a \in Nat /\ p.ack \in Nat /\ l \in Nat /\ n \in Nat /\ n <= l
        /\ Len(sbuf) = l - n /\ b = a + l /\ l <= SndBuf /\ SndBuf \in Nat
    BY <1>2, <1>3, <1>4, <1>6, <1>10
  <2> HIDE DEF a, l, b
  <2> QED
    BY ONLY SMTT(40), <2>1
<1>15. /\ t2 \in Connection /\ SameReceiver(t, t2) /\ t2.state = t.state
       /\ t2.sbuf = sbuf /\ t2.slist = q2 /\ t2.sndUna = p.ack /\ t2.sndNxt = t.sndNxt
       /\ t2.sndWnd = p.wnd /\ t2.recover = t.recover /\ t2.rtoBase = rto
  BY ZenonT(80), <1>1, <1>2, <1>8, <1>10, <1>11 DEF Connection, SameReceiver
<1> HIDE DEF t2, b, a, l, q
<1>16. Alive(t2) /\ Role(e, t2)
  BY <1>1, <1>15 DEF Alive, Role
<1>17. Sender(t2, w)
  <2>1. t2.rtoBase <=> t2.sndNxt > t2.sndUna
    <3>1. rto <=> t.sndNxt > p.ack
      BY <1>2, <1>3, <1>5 DEF rto
    <3> QED
      BY <3>1, <1>15
  <2>2. /\ Bytes(t2.sbuf, t2.sndUna) /\ Len(t2.sbuf) <= SndBuf
        /\ t2.sndUna + Len(t2.sbuf) = b
        /\ Chain(t2.slist, t2.sndUna, t2.sndUna + Len(t2.sbuf))
        /\ SentUpTo(t2.slist, t2.sndNxt) /\ ControlFirst(t2.slist)
    BY <1>8, <1>9, <1>13, <1>14, <1>15
  <2> QED
    BY <2>1, <2>2, <1>4, <1>5, <1>15, <1>16 DEF Sender
<1>18. Sends(t2, u, w)
  BY <1>1, <1>7, <1>15 DEF Pair, Sends
<1>19. SenderGrows(t, t2)
  BY <1>3, <1>9, <1>15 DEF SenderGrows, q
<1>20. Fine(e, t2, w, r, out)
  BY <1>1, <1>15, <1>16, <1>17, <1>18, <1>19, SenderStep DEF u
<1>21. CASE opened
  <2>1. v = Established(t2) /\ t2.state = "SYN_RECEIVED"
    BY <1>12, <1>15, <1>21
  <2>2. u.rcvNxt > 0
    BY <1>2, <1>3, <1>5, <1>7
  <2>3. Fine(e, v, w, r, out)
    BY <2>1, <2>2, <1>20, EstablishedFine DEF u
  <2>4. /\ SameReceiver(t2, v) /\ v.state = "ESTABLISHED"
        /\ v.sndUna = t2.sndUna /\ v.sndNxt = t2.sndNxt
    BY <2>1, <1>15 DEF Established, Connection, SameReceiver
  <2> QED
    BY <2>1, <2>3, <2>4, <1>15 DEF SameReceiver
<1>22. CASE ~opened
  BY <1>12, <1>15, <1>20, <1>22
<1> QED
  BY <1>21, <1>22

\* An acknowledgement that was seen before only counts and sets the window.
LEMMA DuplicateFine ==
    ASSUME NEW e, NEW t, NEW w, NEW r, NEW out, Fine(e, t, w, r, out), Alive(t),
           NEW p \in net[e], p.ack = t.sndUna,
           NEW v, v = Duplicate(t, p)
    PROVE  /\ Fine(e, v, w, r, out) /\ SameReceiver(t, v) /\ v.state = t.state
           /\ v.sndNxt = t.sndNxt /\ v.sndUna = t.sndUna
<1> DEFINE u == tcp[Peer(e)]
           dup == IF p.data # << >> THEN t.dupAcks
                  ELSE IF t.sndUna = t.sndNxt THEN 0
                  ELSE Least(t.dupAcks + 1, DupAcks + 1)
           rec == IF /\ p.data = << >> /\ t.sndUna # t.sndNxt
                     /\ t.dupAcks + 1 = DupAcks
                  THEN t.sndNxt ELSE t.recover
<1>1. /\ t \in Connection /\ u \in Connection /\ w \in Nat /\ w + 1 < SeqSpace
      /\ Sender(t, w) /\ Pair(t, u, w) /\ Role(e, t)
      /\ p \in PacketType /\ Fits(p, u, t)
  BY DEF Fine
<1> HIDE DEF u
<1>2. p.ack \in Nat /\ p.wnd \in Nat
  BY <1>1, PacketIs
<1>3. t.sndNxt \in Nat /\ t.recover \in Nat /\ t.dupAcks \in Nat /\ t.sndUna \in Nat
      /\ DupAcks \in Nat
  BY <1>1, ConnectionIs, PseudoTcpAssumption
<1>4. t.recover <= t.sndNxt
  BY <1>1 DEF Sender
<1>5. dup \in Nat /\ rec \in Nat /\ rec <= t.sndNxt
  <2>1. dup \in Nat
    BY <1>3 DEF Least
  <2>2. rec \in Nat /\ rec <= t.sndNxt
    BY <1>3, <1>4
  <2> QED
    BY <2>1, <2>2
<1>6. v = [t EXCEPT !.sndWnd = p.wnd, !.dupAcks = dup, !.recover = rec]
  BY DEF Duplicate
<1> HIDE DEF dup, rec
<1>7. /\ v \in Connection /\ SameReceiver(t, v) /\ v.state = t.state
      /\ v.sbuf = t.sbuf /\ v.slist = t.slist /\ v.sndUna = t.sndUna /\ v.sndNxt = t.sndNxt
      /\ v.sndWnd = p.wnd /\ v.recover = rec /\ v.rtoBase = t.rtoBase
  BY ZenonT(80), <1>1, <1>2, <1>5, <1>6 DEF Connection, SameReceiver
<1>8. Alive(v) /\ Role(e, v)
  BY <1>1, <1>7 DEF Alive, Role
<1>9. Sender(v, w)
  BY <1>1, <1>5, <1>7, <1>8 DEF Sender
<1>10. p.ack + p.wnd <= Edge(u)
  BY <1>1 DEF Fits
<1>11. Sends(v, u, w)
  BY <1>1, <1>7, <1>10 DEF Pair, Sends
<1>12. SenderGrows(t, v)
  BY <1>3, <1>7 DEF SenderGrows
<1>13. Fine(e, v, w, r, out)
  BY <1>1, <1>7, <1>8, <1>9, <1>11, <1>12, SenderStep DEF u
<1> QED
  BY <1>7, <1>13

\* The acknowledgement of a packet, whichever it is, is handled.
LEMMA AckHandledFine ==
    ASSUME NEW e, NEW t, NEW w, NEW r, NEW out, Fine(e, t, w, r, out), Alive(t),
           NEW p \in net[e], NEW v, v = AckHandled(t, p)
    PROVE  /\ Fine(e, v, w, r, out) /\ SameReceiver(t, v) /\ Alive(v)
           /\ v.sndNxt = t.sndNxt
           /\ t.state = "LISTEN" => v.state = "LISTEN"
           /\ Retransmits(t, p) => /\ v.slist # <<>> /\ 1 \in 1..Len(v.slist)
                                   /\ v.slist[1].xmit # 0
<1>1. /\ t \in Connection /\ p \in PacketType /\ Sender(t, w)
  BY DEF Fine
<1>2. p.ack \in Nat /\ t.sndNxt \in Nat /\ t.sndUna \in Nat /\ t.recover \in Nat
  BY <1>1, PacketIs, ConnectionIs
<1>3. t.recover <= t.sndNxt /\ t.sndUna <= t.sndNxt
  BY <1>1 DEF Sender
<1>4. CASE Acknowledges(t, p)
  <2>1. v = Acknowledged(t, p)
    BY <1>4 DEF AckHandled
  <2>2. /\ Fine(e, v, w, r, out) /\ SameReceiver(t, v)
        /\ v.sndNxt = t.sndNxt /\ v.sndUna = p.ack
        /\ v.state = t.state \/ (v.state = "ESTABLISHED" /\ t.state = "SYN_RECEIVED")
    BY <2>1, <1>4, AcknowledgedFine
  <2>3. Alive(v) /\ (t.state = "LISTEN" => v.state = "LISTEN")
    BY <2>2 DEF Alive
  <2>4. Retransmits(t, p) => v.sndUna < v.sndNxt
    <3> SUFFICES ASSUME Retransmits(t, p) PROVE v.sndUna < v.sndNxt
      OBVIOUS
    <3>1. p.ack < t.recover
      BY <1>4 DEF Retransmits
    <3> QED
      BY <3>1, <2>2, <1>2, <1>3
  <2> QED
    BY <2>2, <2>3, <2>4, FirstSent
<1>5. CASE ~Acknowledges(t, p) /\ p.ack = t.sndUna
  <2>1. v = Duplicate(t, p)
    BY <1>5 DEF AckHandled
  <2>2. /\ Fine(e, v, w, r, out) /\ SameReceiver(t, v) /\ v.state = t.state
        /\ v.sndNxt = t.sndNxt /\ v.sndUna = t.sndUna
    BY <2>1, <1>5, DuplicateFine
  <2>3. Alive(v)
    BY <2>2 DEF Alive
  <2>4. Retransmits(t, p) => v.sndUna < v.sndNxt
    <3> SUFFICES ASSUME Retransmits(t, p) PROVE v.sndUna < v.sndNxt
      OBVIOUS
    <3>1. t.sndUna # t.sndNxt
      BY <1>5 DEF Retransmits
    <3> QED
      BY <3>1, <2>2, <1>2, <1>3
  <2> QED
    BY <2>2, <2>3, <2>4, FirstSent
<1>6. CASE ~Acknowledges(t, p) /\ p.ack # t.sndUna
  <2>1. v = t /\ ~Retransmits(t, p)
    BY <1>6 DEF AckHandled, Retransmits
  <2>2. SameReceiver(t, t)
    BY DEF SameReceiver
  <2> QED
    BY <2>1, <2>2
<1> QED
  BY <1>4, <1>5, <1>6

\* The connect control code has come.
LEMMA ConnectedFine ==
    ASSUME NEW e \in Side, NEW t, NEW w, NEW r, NEW out, Fine(e, t, w, r, out),
           Alive(t), NEW p \in net[e], NEW v, v = Connected(t, p)
    PROVE  /\ Fine(e, v, w, r, out) /\ SameReceiver(t, v) /\ Alive(v)
           /\ v.sndNxt = t.sndNxt
           /\ v.state = "LISTEN" => t.state = "LISTEN" /\ ~p.ctl
<1> DEFINE u == tcp[Peer(e)]
<1>1. /\ t \in Connection /\ u \in Connection /\ p \in PacketType /\ Fits(p, u, t)
      /\ Pair(t, u, w) /\ Role(e, t) /\ Heard(Peer(e), u)
  BY DEF Fine
<1> HIDE DEF u
<1>2. p.seq \in Nat /\ p.ctl \in BOOLEAN /\ Len(p.data) \in Nat
      /\ t.sndNxt \in Nat /\ u.sndNxt \in Nat /\ u.rcvNxt \in Nat
  BY <1>1, PacketIs, ConnectionIs
<1>3. SameReceiver(t, t)
  BY DEF SameReceiver
<1>4. CASE ~p.ctl \/ t.state \notin {"LISTEN", "SYN_SENT"}
  <2>1. v = t
    BY <1>4 DEF Connected
  <2> QED
    BY <2>1, <1>3, <1>4
<1>5. CASE p.ctl /\ t.state \in {"LISTEN", "SYN_SENT"}
  <2>1. u.sndNxt > 0
    <3>1. p.seq = 0 /\ Len(p.data) = 1 /\ p.data # <<>>
      <4>1. p.seq = 0 /\ Len(p.data) = 1
        BY <1>1, <1>5 DEF Fits
      <4>2. p.data # <<>>
        BY ONLY <4>1
      <4> QED
        BY <4>1, <4>2
    <3>2. p.seq + Len(p.data) <= u.sndNxt
      BY <3>1, <1>1 DEF Fits
    <3> QED
      BY <3>1, <3>2, <1>2
  <2>2. Initiator # Acceptor
    BY PseudoTcpAssumption
  <2>3. e = Initiator => u.rcvNxt > 0
    BY <2>1, <1>1 DEF Heard, Peer
  <2>4. CASE t.state = "LISTEN"
    <3>1. t.sndNxt = 0
      BY <2>4, NothingQueued
    <3>2. e # Initiator
      BY <3>1, <2>3, <1>1, <1>2 DEF Pair
    <3>3. v = Queue([t EXCEPT !.state = "SYN_RECEIVED"], <<0>>, TRUE)
      BY <1>5, <2>4 DEF Connected
    <3>4. "SYN_RECEIVED" = IF e = Initiator THEN "SYN_SENT" ELSE "SYN_RECEIVED"
      BY <3>2
    <3> DEFINE s == "SYN_RECEIVED"
    <3>5. /\ s = IF e = Initiator THEN "SYN_SENT" ELSE "SYN_RECEIVED"
          /\ v = Opens(t, s)
      BY <3>3, <3>4 DEF Opens
    <3>6. s = "SYN_RECEIVED"
      OBVIOUS
    <3> HIDE DEF s
    <3>7. /\ Fine(e, v, w, r, out) /\ SameReceiver(t, v)
          /\ v.state = s /\ v.sndNxt = t.sndNxt
      BY ONLY <3>5, <2>4, Fine(e, t, w, r, out), OpensFine
    <3> QED
      BY <3>6, <3>7, <2>4 DEF Alive
  <2>5. CASE t.state = "SYN_SENT"
    <3>1. e = Initiator
      BY <2>5, <1>1 DEF Role
    <3>2. v = Established(t)
      BY <1>5, <2>5 DEF Connected
    <3>3. Fine(e, v, w, r, out)
      BY <3>1, <3>2, <2>3, <2>5, EstablishedFine DEF u
    <3>4. SameReceiver(t, v) /\ v.state = "ESTABLISHED" /\ v.sndNxt = t.sndNxt
      BY <3>2, <1>1 DEF Established, Connection, SameReceiver
    <3> QED
      BY <3>3, <3>4 DEF Alive
  <2> QED
    BY <2>4, <2>5, <1>5
<1> QED
  BY <1>4, <1>5

\* What NewData leaves of a packet: everything that was not received yet, for
\* nothing is beyond the window.
IsNew(d, t, p) ==
    /\ d.data \in Seq(Nat)
    /\ d.data = <<>> => p.data = <<>> \/ p.seq + Len(p.data) <= t.rcvNxt
    /\ d.data # <<>> =>
         /\ d.seq \in Nat /\ Len(d.data) \in Nat /\ Len(d.data) > 0
         /\ t.rcvNxt <= d.seq /\ p.seq <= d.seq
         /\ d.seq \in {p.seq, t.rcvNxt}
         /\ Bytes(d.data, d.seq)
         /\ d.seq + Len(d.data) = p.seq + Len(p.data)
         /\ p.data # <<>>

\* What process cuts from a packet is what is new and fits.
LEMMA NewDataIs ==
    ASSUME NEW t \in Connection, NEW p \in PacketType, t.rcvWnd + t.rlen <= RcvBuf,
           NEW c \in Nat, c <= Edge(t), c < SeqSpace, t.rcvNxt <= c,
           p.data # <<>> => Bytes(p.data, p.seq) /\ p.seq + Len(p.data) <= c
    PROVE  IsNew(NewData(t, p), t, p)
<1> DEFINE l == Len(p.data)
           skip == IF p.seq < t.rcvNxt THEN Minus(t.rcvNxt, p.seq) ELSE 0
           data == SubSeq(p.data, skip + 1, Len(p.data))
           seq  == IF skip < Len(p.data) THEN Plus(p.seq, skip) ELSE p.seq
           room == RcvBuf - t.rlen
           end  == Minus(Plus(seq, Len(data)), t.rcvNxt)
           over == IF end > room THEN end - room ELSE 0
           k    == IF over < Len(data) THEN Len(data) - over ELSE 0
           d    == NewData(t, p)
<1>1. /\ p.seq \in Nat /\ p.data \in Seq(Nat) /\ l \in Nat
      /\ t.rcvNxt \in Nat /\ t.rlen \in Nat /\ t.rcvWnd \in Nat /\ RcvBuf \in Nat
      /\ SeqSpace \in Nat /\ Edge(t) = t.rcvNxt + t.rcvWnd
  BY PacketIs, ConnectionIs
<1>2. d = [seq |-> seq, data |-> SubSeq(data, 1, k)]
  BY ONLY DEF NewData
<1>3. d.seq = seq /\ d.data = SubSeq(data, 1, k)
  <2> HIDE DEF seq, data, k, d
  <2> QED
    BY <1>2
<1> HIDE DEF d
<1>4. skip \in Nat /\ p.seq + skip = (IF p.seq < t.rcvNxt THEN t.rcvNxt ELSE p.seq)
  <2>1. CASE p.seq < t.rcvNxt
    <3>1. p.seq <= t.rcvNxt /\ t.rcvNxt - p.seq < SeqSpace
      BY <1>1, <2>1
    <3>2. Minus(t.rcvNxt, p.seq) = t.rcvNxt - p.seq
      BY <3>1, <1>1, MinusIs
    <3> QED
      BY <3>2, <2>1, <1>1
  <2>2. CASE ~(p.seq < t.rcvNxt)
    BY <2>2, <1>1
  <2> QED
    BY <2>1, <2>2
<1> HIDE DEF skip
<1>5. CASE ~(skip < l)
  <2>1. skip + 1 > l
    BY <1>1, <1>4, <1>5
  <2>2. data = <<>> /\ Len(data) = 0
    <3>1. SubSeq(p.data, skip + 1, l) = <<>>
      BY <2>1, <1>1, <1>4
    <3> QED
      BY <3>1
  <2>3. end \in Nat
    <3>1. seq \in Nat
      BY <1>1, <1>5
    <3>2. Plus(seq, Len(data)) \in Nat
      <4>1. seq + Len(data) \in Nat
        <5> HIDE DEF seq, data
        <5> QED
          BY ONLY <3>1, <2>2
      <4>2. SeqSpace \in Nat /\ SeqSpace > 0
        BY ONLY PseudoTcpAssumption
      <4> HIDE DEF seq, data
      <4> QED
        BY ONLY <4>1, <4>2 DEF Plus
    <3> HIDE DEF seq, data
    <3> QED
      BY <3>2, <1>1, MinusNat
  <2>4. ~(over < Len(data))
    <3>1. over >= 0
      <4> HIDE DEF end
      <4> QED
        BY <2>3, <1>1
    <3> HIDE DEF over, data
    <3> QED
      BY <3>1, <2>2, <2>3, <1>1 DEF over
  <2>5. k = 0
    BY <2>4
  <2>6. d.data = <<>>
    <3> HIDE DEF k, data
    <3> QED
      BY <2>2, <2>5, <1>3
  <2>7. p.data = <<>> \/ p.seq + l <= t.rcvNxt
    <3>1. CASE p.seq < t.rcvNxt
      BY <3>1, <1>1, <1>4, <1>5
    <3>2. CASE ~(p.seq < t.rcvNxt)
      <4>1. l = 0
        BY <3>2, <1>1, <1>4, <1>5
      <4> QED
        BY <4>1, <1>1
    <3> QED
      BY <3>1, <3>2
  <2>8. d.data \in Seq(Nat)
    BY <2>6
  <2>9. IsNew(d, t, p)
    BY ONLY <2>6, <2>7, <2>8 DEF IsNew
  <2> QED
    BY <2>9 DEF d
<1>6. CASE skip < l
  <2>1. p.data # <<>> /\ Bytes(p.data, p.seq) /\ p.seq + l <= c
    <3>1. p.data # <<>>
      BY <1>1, <1>4, <1>6
    <3> QED
      BY <3>1
  <2>2. /\ data \in Seq(Nat) /\ Len(data) = l - skip
        /\ \A i \in 1..(l - skip) : data[i] = p.data[skip + i]
    <3>1. skip + 1 \in 1..(l + 1) /\ l \in 0..l /\ skip + 1 <= l + 1
      BY <1>1, <1>4, <1>6
    <3>2. /\ data \in Seq(Nat) /\ Len(data) = l + 1 - (skip + 1)
          /\ \A i \in 1..(l + 1 - (skip + 1)) : data[i] = p.data[(skip + 1) + i - 1]
      BY ZenonT(80), <1>1, <3>1, SubSeqIs
    <3> HIDE DEF data, l
    <3>3. l + 1 - (skip + 1) = l - skip /\ \A i \in 1..(l - skip) : (skip + 1) + i - 1 = skip + i
      BY ONLY <1>1, <1>4
    <3> QED
      BY <3>2, <3>3
  <2> HIDE DEF data
  <2>3. seq = p.seq + skip
    <3>1. p.seq + skip < SeqSpace
      BY <1>1, <1>4, <1>6, <2>1
    <3>2. Plus(p.seq, skip) = p.seq + skip
      BY <3>1, <1>1, <1>4, PlusIs
    <3> QED
      BY <3>2, <1>6
  <2> HIDE DEF seq
  <2>4. /\ Len(data) \in Nat /\ Len(data) > 0 /\ seq \in Nat
        /\ seq + Len(data) = p.seq + l /\ seq + Len(data) < SeqSpace
    <3> DEFINE x == p.seq
               k1 == Len(data)
    <3>1. /\ x \in Nat /\ l \in Nat /\ skip \in Nat /\ skip < l /\ x + l <= c
          /\ k1 = l - skip /\ seq = x + skip /\ c < SeqSpace
          /\ c \in Nat /\ SeqSpace \in Nat
      BY <1>1, <1>4, <1>6, <2>1, <2>2, <2>3
    <3>2. /\ k1 \in Nat /\ k1 > 0 /\ seq \in Nat
          /\ seq + k1 = x + l /\ seq + k1 < SeqSpace
      <4> HIDE DEF x, l, k1
      <4> QED
        BY ONLY <3>1
    <3> QED
      BY <3>2
  <2>5. end = seq + Len(data) - t.rcvNxt
    <3>1. Plus(seq, Len(data)) = seq + Len(data)
      BY <2>4, PlusIs
    <3>2. t.rcvNxt <= seq
      BY <2>3, <1>4, <1>1
    <3>3. /\ seq + Len(data) \in Nat /\ t.rcvNxt <= seq + Len(data)
          /\ (seq + Len(data)) - t.rcvNxt < SeqSpace
      BY ONLY <2>4, <3>2, <1>1
    <3>4. Minus(seq + Len(data), t.rcvNxt) = (seq + Len(data)) - t.rcvNxt
      BY <3>3, <1>1, MinusIs
    <3>5. end = Minus(Plus(seq, Len(data)), t.rcvNxt)
      OBVIOUS
    <3>6. seq + Len(data) - t.rcvNxt = (seq + Len(data)) - t.rcvNxt
      BY ONLY <2>4, <1>1
    <3> HIDE DEF end
    <3> QED
      BY ONLY <3>1, <3>4, <3>5, <3>6
  <2>6. ~(end > room)
    <3>1. seq + Len(data) <= t.rcvNxt + t.rcvWnd
      BY <2>1, <2>4, <1>1
    <3>2. room = RcvBuf - t.rlen /\ t.rcvWnd + t.rlen <= RcvBuf
      OBVIOUS
    <3> DEFINE x == t.rcvNxt
               y == t.rcvWnd
               z == t.rlen
               k1 == Len(data)
    <3>3. /\ x \in Nat /\ y \in Nat /\ z \in Nat /\ k1 \in Nat /\ seq \in Nat
          /\ RcvBuf \in Nat /\ seq + k1 <= x + y /\ y + z <= RcvBuf
          /\ room = RcvBuf - z /\ end = seq + k1 - x
      BY <3>1, <3>2, <2>4, <2>5, <1>1
    <3> HIDE DEF end, room, x, y, z, k1
    <3> QED
      BY ONLY <3>3
  <2>7. over = 0
    BY <2>6
  <2> HIDE DEF over
  <2>8. k = Len(data)
    BY <2>4, <2>7
  <2>9. d.data = data
    <3>1. SubSeq(data, 1, Len(data)) = data
      BY <2>2
    <3> QED
      BY <3>1, <2>8, <1>3
  <2>10. Bytes(data, seq)
    <3> SUFFICES ASSUME NEW i \in 1..Len(data) PROVE data[i] = seq + i - 1
      BY DEF Bytes
    <3>1. i \in 1..(l - skip) /\ skip + i \in 1..l
      BY <2>2, <1>1, <1>4
    <3>2. data[i] = p.seq + (skip + i) - 1
      BY <3>1, <2>1, <2>2 DEF Bytes
    <3> DEFINE x == p.seq
    <3>3. i \in Nat /\ x \in Nat /\ skip \in Nat /\ seq = x + skip
          /\ data[i] = x + (skip + i) - 1
      BY <3>1, <3>2, <2>3, <1>1, <1>4
    <3> HIDE DEF x
    <3> QED
      BY ONLY <3>3
  <2>11. t.rcvNxt <= seq /\ p.seq <= seq /\ seq \in {p.seq, t.rcvNxt}
    BY SMTT(60), <2>3, <1>1, <1>4
  <2>12. data # <<>>
    BY <2>4
  <2> QED
    BY ONLY <1>3, <2>1, <2>2, <2>4, <2>9, <2>10, <2>11, <2>12 DEF IsNew, d
<1> QED
  BY <1>5, <1>6

\* Bytes that are put into the receive buffer: x is the first one that was not
\* received yet, o of them are missing before the data.
Stored(b, m, o, data) ==
    [i \in 1..RcvBuf |-> IF i - m - o \in 1..Len(data) THEN data[i - m - o]
                         ELSE b[i]]

\* c is b with the bytes from y to y + n in their places.
IsStored(c, b, m, x, y, n) ==
    /\ \A i \in 1..m : i <= RcvBuf => c[i] = b[i]
    /\ \A q \in Nat : x <= q /\ m + (q - x) + 1 <= RcvBuf =>
         c[m + (q - x) + 1] = IF y <= q /\ q < y + n THEN q
                              ELSE b[m + (q - x) + 1]

\* The data goes to its place behind what is in order, the rest stays.
LEMMA BufferIs ==
    ASSUME NEW b \in [1..RcvBuf -> Nat], NEW m \in Nat, NEW x \in Nat, NEW o \in Nat,
           NEW data \in Seq(Nat), Bytes(data, x + o), RcvBuf \in Nat,
           NEW c, c = Stored(b, m, o, data)
    PROVE  c \in [1..RcvBuf -> Nat] /\ IsStored(c, b, m, x, x + o, Len(data))
<1> DEFINE n == Len(data)
<1>1. n \in Nat /\ \A i \in 1..n : data[i] \in Nat /\ data[i] = x + o + i - 1
  BY DEF Bytes
<1>2. \A i \in 1..RcvBuf : (IF i - m - o \in 1..n THEN data[i - m - o] ELSE b[i]) \in Nat
  <2> HIDE DEF n
  <2> QED
    BY <1>1
<1>3. c \in [1..RcvBuf -> Nat]
  BY <1>2 DEF Stored
<1> HIDE DEF n
<1>4. ASSUME NEW i \in 1..m, i <= RcvBuf PROVE c[i] = b[i]
  <2>1. i \in 1..RcvBuf /\ ~(i - m - o \in 1..n)
    BY <1>1, <1>4
  <2> QED
    BY <2>1 DEF n, Stored
<1>5. ASSUME NEW q \in Nat, x <= q, m + (q - x) + 1 <= RcvBuf
      PROVE  c[m + (q - x) + 1] = IF x + o <= q /\ q < x + o + n THEN q
                                  ELSE b[m + (q - x) + 1]
  <2> DEFINE i == m + (q - x) + 1
  <2>1. i \in 1..RcvBuf /\ i - m - o = q - (x + o) + 1
    BY <1>5
  <2>2. c[i] = IF i - m - o \in 1..n THEN data[i - m - o] ELSE b[i]
    BY <2>1 DEF n, Stored
  <2>3. (i - m - o \in 1..n) <=> (x + o <= q /\ q < x + o + n)
    <3> HIDE DEF i
    <3> QED
      BY <2>1, <1>1
  <2>4. i - m - o \in 1..n => data[i - m - o] = q
    <3> HIDE DEF i
    <3> QED
      BY <2>1, <1>1
  <2> HIDE DEF i
  <2>5. c[i] = IF x + o <= q /\ q < x + o + n THEN q ELSE b[i]
    BY <2>2, <2>3, <2>4
  <2> QED
    BY <2>5 DEF i
<1> QED
  BY ONLY <1>3, <1>4, <1>5 DEF n, IsStored

\* The ends of the segments of I, and x.
Joined(I, x) == {s.seq + s.len : s \in I} \cup {x}

IsJoined(t, x, c, I, m) ==
    /\ I \subseteq t.rlist
    /\ m \in Nat /\ x <= m /\ m <= c
    /\ m = x \/ \E s \in t.rlist : m = End(s)
    /\ \A q \in Nat : x <= q /\ q < m =>
         \E s \in t.rlist : s.seq <= q /\ q < End(s)
    /\ \A s \in t.rlist \ I : m <= s.seq

\* The segments that follow in order cover everything up to the last of their
\* ends, m, and what is left of the list lies behind it.
LEMMA InOrderIs ==
    ASSUME NEW t \in Connection, NEW x \in Nat, NEW c \in Nat, x <= c,
           \A s \in t.rlist : End(s) <= c,
           NEW I, I = InOrder(t, x), NEW m, m = Largest(Joined(I, x))
    PROVE  IsJoined(t, x, c, I, m)
<1> DEFINE J == Joined(I, x)
<1>1. t.rlist \subseteq Range1
  BY ConnectionIs
<1>2. \A s \in t.rlist : s.seq \in Nat /\ s.len \in Nat /\ End(s) \in Nat
                         /\ End(s) = s.seq + s.len
  BY <1>1 DEF Range1, End
<1>3. I \subseteq t.rlist
  BY DEF InOrder
<1>4. J \subseteq Nat /\ J # {} /\ \A y \in J : y <= c
  BY <1>2, <1>3 DEF Joined
<1>5. m \in J /\ \A y \in J : y <= m
  <2>1. Largest(J) \in J /\ \A y \in J : Largest(J) >= y
    BY <1>4, LargestIs
  <2>2. m \in Nat
    BY <2>1, <1>4
  <2> QED
    BY <2>1, <2>2, <1>4
<1>6. m \in Nat /\ x <= m /\ m <= c
  <2>1. x \in J
    BY DEF Joined
  <2> HIDE DEF J
  <2> QED
    BY <2>1, <1>4, <1>5
<1>7. m = x \/ \E s \in I : m = End(s)
  BY <1>2, <1>3, <1>5 DEF Joined
<1>8. \A s \in I : \A q \in Nat : x <= q /\ q < s.seq =>
        \E y \in t.rlist : y.seq <= q /\ q < End(y)
  <2> SUFFICES ASSUME NEW s \in I, NEW q \in Nat, x <= q, q < s.seq
               PROVE  \E y \in t.rlist : y.seq <= q /\ q < End(y)
    OBVIOUS
  <2>1. \A z \in x..(s.seq - 1) : \E y \in t.rlist : y.seq <= z /\ z < y.seq + y.len
    BY DEF InOrder
  <2>2. q \in x..(s.seq - 1)
    BY <1>2, <1>3
  <2>3. \E y \in t.rlist : y.seq <= q /\ q < y.seq + y.len
    BY <2>1, <2>2
  <2> QED
    BY <2>3, <1>2
<1>9. ASSUME NEW q \in Nat, x <= q, q < m
      PROVE  \E s \in t.rlist : s.seq <= q /\ q < End(s)
  <2>1. PICK s \in I : m = End(s)
    BY <1>6, <1>7, <1>9
  <2>2. CASE q < s.seq
    BY <2>2, <1>8, <1>9
  <2>3. CASE ~(q < s.seq)
    <3>1. s \in t.rlist /\ s.seq <= q /\ q < End(s)
      BY <2>1, <2>3, <1>2, <1>3, <1>9
    <3> QED
      BY <3>1
  <2> QED
    BY <2>2, <2>3
<1>10. ASSUME NEW s \in t.rlist \ I PROVE m <= s.seq
  <2>1. PICK q \in x..(s.seq - 1) :
          ~ \E y \in t.rlist : y.seq <= q /\ q < y.seq + y.len
    BY <1>10 DEF InOrder
  <2>2. ~ \E y \in t.rlist : y.seq <= q /\ q < End(y)
    BY <2>1, <1>2
  <2>3. q \in Nat /\ x <= q /\ q < s.seq
    BY <2>1, <1>2, <1>10
  <2>4. ~(q < m)
    BY <2>2, <2>3, <1>9
  <2> QED
    BY <2>3, <2>4, <1>2, <1>6, <1>10
<1>11. m = x \/ \E s \in t.rlist : m = End(s)
  BY <1>3, <1>7
<1> QED
  BY ONLY <1>3, <1>6, <1>9, <1>10, <1>11 DEF IsJoined

\* A segment that is not kept: the connect control code, or data for a stream
\* that was closed.
Skipped(t, m) == [t EXCEPT !.rcvNxt = m]

\* Data in order, m is the first byte now that is missing.
InOrderReceived(t, b, m, I) ==
    [t EXCEPT !.rbuf = b, !.rlen = @ + (m - t.rcvNxt), !.rcvNxt = m,
              !.rcvWnd = @ - (m - t.rcvNxt), !.rlist = @ \ I]

\* Data behind a gap.
OutOfOrderReceived(t, b, x, n) ==
    [t EXCEPT !.rbuf = b, !.rlist = @ \cup {[seq |-> x, len |-> n]}]

\* What end e may receive from its peer u.
Arrives(e, t, p, c, u) ==
    /\ u = tcp[Peer(e)] /\ c = u.sndNxt
    /\ c \in Nat /\ c <= Edge(t) /\ c < SeqSpace /\ t.rcvNxt <= c
    /\ t.rcvWnd + t.rlen <= RcvBuf
    /\ p.data # <<>> => /\ Bytes(p.data, p.seq) /\ p.seq + Len(p.data) <= c
                        /\ Alive(u) => Uncut(u.slist, p.seq + Len(p.data))
                        /\ ~p.ctl => p.seq > 0
    /\ p.ctl => p.seq = 0 /\ Len(p.data) = 1
    /\ t.rcvNxt = 0 => c <= 1
    /\ \A s \in t.rlist : End(s) <= c /\ (Alive(u) => Uncut(u.slist, End(s)))

\* Every packet under way is one that its receiver may get.
LEMMA ArrivesIs ==
    ASSUME NEW e, NEW t, NEW w, NEW r, NEW out, Fine(e, t, w, r, out),
           NEW p \in net[e], NEW u, u = tcp[Peer(e)], NEW c, c = u.sndNxt
    PROVE  Arrives(e, t, p, c, u)
<1> DEFINE v == written[Peer(e)]
<1>1. /\ t \in Connection /\ u \in Connection /\ p \in PacketType /\ Fits(p, u, t)
      /\ Pair(u, t, v) /\ Sender(u, v) /\ Receiver(t, r) /\ v \in Nat /\ v + 1 < SeqSpace
  BY DEF Fine
<1> HIDE DEF v
<1>2. c \in Nat /\ t.rcvNxt \in Nat /\ SeqSpace \in Nat
  BY <1>1, ConnectionIs
<1>3. c <= Edge(t) /\ t.rcvNxt <= c
  BY <1>1 DEF Pair
<1>4. c <= v + 1
  BY <1>1 DEF Sender
<1>5. c < SeqSpace
  BY <1>1, <1>2, <1>4
<1>6. t.rcvNxt = 0 => c <= 1
  <2> SUFFICES ASSUME t.rcvNxt = 0 PROVE c <= 1
    OBVIOUS
  <2>1. ~(v > 0)
    BY <1>1, <1>2 DEF Pair
  <2> QED
    BY <2>1, <1>1, <1>2, <1>4
<1>7. \A s \in t.rlist : End(s) <= c /\ (Alive(u) => Uncut(u.slist, End(s)))
  BY <1>1 DEF Pair
<1>8. t.rcvWnd + t.rlen <= RcvBuf
  BY <1>1 DEF Receiver
<1> QED
  BY <1>1, <1>2, <1>3, <1>5, <1>6, <1>7, <1>8 DEF Arrives, Fits

\* A connect, or data for an end that has closed its stream, is only counted.
LEMMA SkippedFine ==
    ASSUME NEW e, NEW t, NEW w, NEW r, NEW out, Fine(e, t, w, r, out),
           NEW p \in net[e], p.ctl \/ t.closing,
           NEW d, IsNew(d, t, p), d.data # <<>>, d.seq = t.rcvNxt,
           NEW m, m = t.rcvNxt + Len(d.data), NEW t2, t2 = Skipped(t, m)
    PROVE  /\ Fine(e, t2, w, r, out) /\ SameSender(t, t2)
           /\ t2.rcvNxt = m /\ t.rcvNxt < m
<1> DEFINE u == tcp[Peer(e)]
           c == u.sndNxt
           x == t.rcvNxt
           n == Len(d.data)
<1>1. /\ t \in Connection /\ u \in Connection /\ p \in PacketType /\ Receiver(t, r)
      /\ r \in Seq(Nat)
  BY DEF Fine
<1>2. Arrives(e, t, p, c, u)
  <2> HIDE DEF u, c
  <2>1. u = tcp[Peer(e)] /\ c = u.sndNxt
    BY DEF u, c
  <2> QED
    BY ONLY <2>1, ArrivesIs, Fine(e, t, w, r, out), p \in net[e]
<1> HIDE DEF u, c
<1>3. x \in Nat /\ c \in Nat /\ n \in Nat /\ n > 0 /\ t.rcvWnd \in Nat /\ p.seq \in Nat
      /\ Len(r) \in Nat /\ t.rlen \in Nat
  BY <1>1, <1>2, ConnectionIs, PacketIs DEF IsNew, Arrives
<1>4. x + n = p.seq + Len(p.data) /\ p.data # <<>> /\ p.seq <= x
  BY DEF IsNew
<1>5. m <= c /\ m \in Nat /\ x < m
  BY SMTT(60), <1>2, <1>3, <1>4 DEF Arrives
<1>6. Alive(u) => Uncut(u.slist, m)
  BY <1>2, <1>4 DEF Arrives
<1> HIDE DEF n
<1>7. t2 = [t EXCEPT !.rcvNxt = m]
  BY DEF Skipped
<1>8. /\ t2 \in Connection /\ SameSender(t, t2) /\ t2.rcvNxt = m /\ t2.closing = t.closing
      /\ t2.rcvWnd = t.rcvWnd /\ t2.rlen = t.rlen /\ t2.rlist = t.rlist /\ t2.rbuf = t.rbuf
  BY ZenonT(80), <1>1, <1>5, <1>7 DEF Connection, SameSender
<1>9. Receiver(t2, r)
  <2>1. Len(r) < m
    <3>1. CASE x = 0
      <4>1. r = <<>>
        BY <1>1, <3>1 DEF Receiver
      <4>2. Len(r) = 0
        BY ONLY <4>1
      <4> QED
        BY <4>2, <1>3, <1>5
    <3>2. CASE x # 0
      <4>1. Len(r) < x
        BY <1>1, <3>2 DEF Receiver
      <4> QED
        BY ONLY <4>1, <1>3, <1>5
    <3> QED
      BY <3>1, <3>2
  <2>2. ~t.closing => x = 0 /\ m = 1 /\ r = <<>> /\ t.rlen = 0 /\ t.rlist = {}
    <3> SUFFICES ASSUME ~t.closing
                 PROVE  x = 0 /\ m = 1 /\ r = <<>> /\ t.rlen = 0 /\ t.rlist = {}
      OBVIOUS
    <3>1. p.seq = 0 /\ Len(p.data) = 1
      BY <1>2 DEF Arrives
    <3>2. x = 0 /\ m = 1
      BY <3>1, <1>3, <1>4 DEF n
    <3> QED
      BY <3>2, <1>1 DEF Receiver
  <2>3. /\ t2.rcvWnd + t2.rlen <= RcvBuf /\ Bytes(r, 1) /\ t2.rcvNxt # 0
        /\ Len(r) < t2.rcvNxt
    BY <2>1, <1>1, <1>3, <1>5, <1>8 DEF Receiver
  <2>4. ~t2.closing =>
          /\ t2.rcvNxt > 0 => t2.rcvNxt = Len(r) + t2.rlen + 1
          /\ \A i \in 1..t2.rlen : t2.rbuf[i] + t2.rlen = t2.rcvNxt + i - 1
          /\ \A s \in t2.rlist :
               /\ t2.rcvNxt <= s.seq
               /\ \A q \in s.seq..(End(s) - 1) :
                    t2.rbuf[t2.rlen + (q - t2.rcvNxt) + 1] = q
    <3> SUFFICES ASSUME ~t2.closing
                 PROVE /\ t2.rcvNxt = Len(r) + t2.rlen + 1
                       /\ t2.rlen = 0 /\ t2.rlist = {}
      OBVIOUS
    <3>1. r = <<>> /\ t2.rlen = 0 /\ t2.rlist = {} /\ t2.rcvNxt = 1
      BY <2>2, <1>8
    <3>2. Len(r) = 0
      BY ONLY <3>1
    <3> QED
      BY ONLY <3>1, <3>2
  <2> QED
    BY ONLY <2>3, <2>4 DEF Receiver
<1>10. ReceiverGrows(t, t2)
  BY <1>3, <1>5, <1>8 DEF ReceiverGrows, Edge
<1>11. Takes(u, t2)
  BY <1>2, <1>5, <1>6, <1>8 DEF Takes, Arrives
<1>12. Fine(e, t2, w, r, out)
  BY <1>1, <1>8, <1>9, <1>10, <1>11, ReceiverStep DEF u
<1> QED
  BY <1>5, <1>8, <1>12

\* Where the bytes of a segment of the list are in the receive buffer.
LEMMA InBuffer ==
    ASSUME NEW t \in Connection, NEW r, Receiver(t, r), ~t.closing,
           NEW s \in t.rlist, NEW q \in Nat, s.seq <= q, q < End(s),
           End(s) <= Edge(t)
    PROVE  /\ t.rcvNxt <= q /\ t.rlen + (q - t.rcvNxt) + 1 <= RcvBuf
           /\ t.rbuf[t.rlen + (q - t.rcvNxt) + 1] = q
<1>1. t.rcvNxt \in Nat /\ t.rlen \in Nat /\ t.rcvWnd \in Nat /\ RcvBuf \in Nat
      /\ t.rlist \subseteq Range1 /\ Edge(t) = t.rcvNxt + t.rcvWnd
  BY ConnectionIs
<1>2. s.seq \in Nat /\ End(s) \in Nat
  BY <1>1 DEF Range1, End
<1>3. q \in s.seq..(End(s) - 1)
  BY <1>2
<1>4. t.rcvNxt <= s.seq /\ t.rbuf[t.rlen + (q - t.rcvNxt) + 1] = q
  BY <1>3 DEF Receiver
<1>5. t.rcvWnd + t.rlen <= RcvBuf
  BY DEF Receiver
<1>6. t.rcvNxt <= q
  BY <1>1, <1>2, <1>4
<1>7. t.rlen + (q - t.rcvNxt) + 1 <= RcvBuf
  <2> DEFINE x == t.rcvNxt
             l == t.rlen
             n == t.rcvWnd
  <2>1. /\ x \in Nat /\ l \in Nat /\ n \in Nat /\ q \in Nat /\ RcvBuf \in Nat /\ q < x + n
        /\ n + l <= RcvBuf
    BY <1>1, <1>2, <1>5
  <2>2. l + (q - x) + 1 <= RcvBuf
    <3> HIDE DEF x, l, n
    <3> QED
      BY ONLY <2>1
  <2> QED
    BY <2>2
<1> QED
  BY <1>4, <1>6, <1>7

\* Data beyond a gap is stored and remembered.
LEMMA OutOfOrderFine ==
    ASSUME NEW e, NEW t, NEW w, NEW r, NEW out, Fine(e, t, w, r, out),
           NEW p \in net[e], ~p.ctl, ~t.closing,
           NEW d, IsNew(d, t, p), d.data # <<>>, d.seq # t.rcvNxt,
           NEW n, n = Len(d.data), NEW o, o = d.seq - t.rcvNxt,
           NEW b, b = Stored(t.rbuf, t.rlen, o, d.data),
           NEW t2, t2 = OutOfOrderReceived(t, b, d.seq, n)
    PROVE  Fine(e, t2, w, r, out) /\ SameSender(t, t2) /\ t2.rcvNxt = t.rcvNxt
<1> DEFINE u == tcp[Peer(e)]
           c == u.sndNxt
           x == t.rcvNxt
           l == t.rlen
           y == d.seq
           new == [seq |-> y, len |-> n]
<1>1. /\ t \in Connection /\ u \in Connection /\ p \in PacketType /\ Receiver(t, r)
      /\ r \in Seq(Nat)
  BY DEF Fine
<1>2. Arrives(e, t, p, c, u)
  <2> HIDE DEF u, c
  <2>1. u = tcp[Peer(e)] /\ c = u.sndNxt
    BY DEF u, c
  <2> QED
    BY ONLY <2>1, ArrivesIs, Fine(e, t, w, r, out), p \in net[e]
<1> HIDE DEF u, c
<1>3. /\ x \in Nat /\ l \in Nat /\ c \in Nat /\ t.rcvWnd \in Nat /\ p.seq \in Nat
      /\ RcvBuf \in Nat /\ Edge(t) = x + t.rcvWnd /\ Edge(t) \in Nat
      /\ t.rbuf \in [1..RcvBuf -> Nat] /\ t.rlist \subseteq Range1
  BY <1>1, <1>2, ConnectionIs, PacketIs DEF Arrives
<1>4. /\ y \in Nat /\ n \in Nat /\ n > 0 /\ x < y /\ y = p.seq
      /\ d.data \in Seq(Nat) /\ Bytes(d.data, y)
      /\ y + n = p.seq + Len(p.data) /\ p.data # <<>>
  <2>1. /\ y \in Nat /\ n \in Nat /\ n > 0 /\ x <= y /\ y # x /\ y \in {p.seq, x}
        /\ d.data \in Seq(Nat) /\ Bytes(d.data, y)
        /\ y + n = p.seq + Len(p.data) /\ p.data # <<>>
    BY DEF IsNew
  <2> QED
    BY <2>1, <1>3
<1>5. y + n <= c /\ c <= Edge(t) /\ (Alive(u) => Uncut(u.slist, y + n))
  BY <1>2, <1>4 DEF Arrives
<1>6. x > 0
  <2>1. x = 0 => c <= 1
    BY <1>2 DEF Arrives
  <2>2. y > 0 /\ y >= 1 /\ n >= 1 /\ y + n <= c
    <3> HIDE DEF x, y
    <3> QED
      BY ONLY <1>3, <1>4, <1>5
  <2> HIDE DEF x, y
  <2> QED
    BY ONLY <2>1, <2>2, <1>3, <1>4
<1>7. o \in Nat /\ y = x + o
  BY SMTT(40), <1>3, <1>4
<1>8. b \in [1..RcvBuf -> Nat] /\ IsStored(b, t.rbuf, l, x, y, n)
  <2> DEFINE data == d.data
             b0 == t.rbuf
  <2>1. /\ b0 \in [1..RcvBuf -> Nat] /\ data \in Seq(Nat) /\ Bytes(data, x + o)
        /\ b = Stored(b0, l, o, data) /\ n = Len(data) /\ y = x + o
    BY <1>3, <1>4, <1>7
  <2>2. x \in Nat /\ l \in Nat /\ o \in Nat /\ RcvBuf \in Nat
    BY <1>3, <1>7
  <2> HIDE DEF data, b0, x, l, y
  <2>3. b \in [1..RcvBuf -> Nat] /\ IsStored(b, b0, l, x, x + o, Len(data))
    BY ONLY <2>1, <2>2, BufferIs
  <2> QED
    BY ONLY <2>1, <2>3 DEF b0
<1> HIDE DEF new
<1>9. new \in Range1 /\ End(new) = y + n /\ new.seq = y
  BY <1>4 DEF Range1, End, new
<1>10. t2 = [t EXCEPT !.rbuf = b, !.rlist = @ \cup {new}]
  BY DEF OutOfOrderReceived, new
<1>11. /\ t2 \in Connection /\ SameSender(t, t2) /\ t2.rcvNxt = x /\ t2.closing = t.closing
       /\ t2.rcvWnd = t.rcvWnd /\ t2.rlen = l /\ t2.rlist = t.rlist \cup {new}
       /\ t2.rbuf = b
  <2>1. t.rlist \cup {new} \in SUBSET Range1
    BY <1>3, <1>9
  <2> DEFINE rl == t.rlist \cup {new}
  <2>2. t2 = [t EXCEPT !.rbuf = b, !.rlist = rl] /\ rl \in SUBSET Range1
    BY ONLY <1>10, <2>1
  <2> HIDE DEF rl
  <2>3. /\ t2 \in Connection /\ SameSender(t, t2) /\ t2.rcvNxt = x /\ t2.closing = t.closing
        /\ t2.rcvWnd = t.rcvWnd /\ t2.rlen = l /\ t2.rlist = rl /\ t2.rbuf = b
    BY ONLY <1>1, <1>8, <2>2 DEF Connection, SameSender
  <2> QED
    BY <2>3 DEF rl
<1>12. Receiver(t2, r)
  <2>1. /\ t.rcvWnd + l <= RcvBuf /\ Bytes(r, 1) /\ Len(r) < x
        /\ x = Len(r) + l + 1
        /\ \A i \in 1..l : t.rbuf[i] + l = x + i - 1
        /\ \A s \in t.rlist : x <= s.seq
    BY <1>1, <1>6 DEF Receiver
  <2>2. \A i \in 1..l : b[i] + l = x + i - 1
    <3> SUFFICES ASSUME NEW i \in 1..l PROVE b[i] + l = x + i - 1
      OBVIOUS
    <3>1. i <= RcvBuf
      BY SMTT(40), <2>1, <1>3
    <3>2. b[i] = t.rbuf[i]
      BY <3>1, <1>8 DEF IsStored
    <3> QED
      BY <3>2, <2>1
  <2>3. ASSUME NEW s \in t2.rlist, NEW q \in s.seq..(End(s) - 1)
        PROVE  b[l + (q - x) + 1] = q
    <3>1. CASE s \in t.rlist
      <4>1. s.seq \in Nat /\ End(s) \in Nat
        BY <3>1, <1>3 DEF Range1, End
      <4>2. q \in Nat /\ s.seq <= q /\ q < End(s)
        BY <4>1
      <4>3. End(s) <= Edge(t)
        <5>1. End(s) <= c
          BY <3>1, <1>2 DEF Arrives
        <5> QED
          BY <5>1, <1>3, <1>5, <4>1
      <4>4. x <= q /\ l + (q - x) + 1 <= RcvBuf /\ t.rbuf[l + (q - x) + 1] = q
        BY <4>2, <4>3, <3>1, <1>1, InBuffer
      <4>5. b[l + (q - x) + 1] = IF y <= q /\ q < y + n THEN q
                                 ELSE t.rbuf[l + (q - x) + 1]
        BY <4>2, <4>4, <1>8 DEF IsStored
      <4> QED
        BY <4>4, <4>5
    <3>2. CASE s = new
      <4>1. q \in Nat /\ y <= q /\ q < y + n
        BY <3>2, <1>4, <1>9
      <4>2. x <= q
        BY <4>1, <1>3, <1>4
      <4>3. l + (q - x) + 1 <= RcvBuf
        <5> DEFINE z == t.rcvWnd
        <5>1. /\ q \in Nat /\ q < y + n /\ y + n <= c /\ c <= x + z /\ z + l <= RcvBuf
              /\ y \in Nat /\ n \in Nat /\ c \in Nat /\ x \in Nat /\ z \in Nat /\ l \in Nat
              /\ RcvBuf \in Nat
          BY <4>1, <2>1, <1>3, <1>4, <1>5
        <5> HIDE DEF x, y, z, l
        <5> QED
          BY ONLY <5>1
      <4> QED
        BY <4>1, <4>2, <4>3, <1>8 DEF IsStored
    <3> QED
      BY <3>1, <3>2, <1>11
  <2>4. \A s \in t2.rlist : x <= s.seq
    <3>1. x <= new.seq
      BY ONLY <1>3, <1>4, <1>9
    <3> HIDE DEF x
    <3> QED
      BY ONLY <2>1, <3>1, <1>11
  <2>5. x # 0
    BY <1>3, <1>6
  <2> HIDE DEF x, l
  <2> QED
    BY ONLY <2>1, <2>2, <2>3, <2>4, <2>5, <1>11 DEF Receiver
<1>13. ReceiverGrows(t, t2)
  BY ONLY <1>3, <1>11 DEF ReceiverGrows, Edge
<1>14. Takes(u, t2)
  <2>1. x <= c /\ (Alive(u) => Uncut(u.slist, x))
    <3>1. Pair(u, t, written[Peer(e)])
      BY DEF Fine, u
    <3> QED
      BY <3>1 DEF Pair, c
  <2>2. \A s \in t2.rlist : End(s) <= c /\ (Alive(u) => Uncut(u.slist, End(s)))
    BY <1>2, <1>5, <1>9, <1>11 DEF Arrives
  <2> QED
    BY <2>1, <2>2, <1>11 DEF Takes, c
<1>15. Fine(e, t2, w, r, out)
  BY <1>1, <1>11, <1>12, <1>13, <1>14, ReceiverStep DEF u
<1> QED
  BY <1>11, <1>15

\* Data that is next is stored, with it what had arrived behind the gap.
LEMMA InOrderFine ==
    ASSUME NEW e, NEW t, NEW w, NEW r, NEW out, Fine(e, t, w, r, out),
           NEW p \in net[e], ~p.ctl, ~t.closing,
           NEW d, IsNew(d, t, p), d.data # <<>>, d.seq = t.rcvNxt,
           NEW n, n = Len(d.data),
           NEW b, b = Stored(t.rbuf, t.rlen, 0, d.data),
           NEW I, I = InOrder(t, t.rcvNxt + n),
           NEW m, m = Largest(Joined(I, t.rcvNxt + n)),
           NEW t2, t2 = InOrderReceived(t, b, m, I)
    PROVE  /\ Fine(e, t2, w, r, out) /\ SameSender(t, t2)
           /\ t2.rcvNxt = m /\ m \in Nat /\ t.rcvNxt < m
           /\ m - t.rcvNxt <= t.rcvWnd /\ m < SeqSpace
<1> DEFINE u == tcp[Peer(e)]
           c == u.sndNxt
           x == t.rcvNxt
           l == t.rlen
           z == t.rcvWnd
<1>1. /\ t \in Connection /\ u \in Connection /\ p \in PacketType /\ Receiver(t, r)
      /\ r \in Seq(Nat)
  BY DEF Fine
<1>2. Arrives(e, t, p, c, u)
  <2> HIDE DEF u, c
  <2>1. u = tcp[Peer(e)] /\ c = u.sndNxt
    BY DEF u, c
  <2> QED
    BY ONLY <2>1, ArrivesIs, Fine(e, t, w, r, out), p \in net[e]
<1> HIDE DEF u, c
<1>3. /\ x \in Nat /\ l \in Nat /\ c \in Nat /\ z \in Nat /\ p.seq \in Nat
      /\ RcvBuf \in Nat /\ Edge(t) = x + z /\ Edge(t) \in Nat /\ SeqSpace \in Nat
      /\ t.rbuf \in [1..RcvBuf -> Nat] /\ t.rlist \subseteq Range1
  BY <1>1, <1>2, ConnectionIs, PacketIs DEF Arrives
<1>4. /\ n \in Nat /\ n > 0 /\ p.seq <= x
      /\ d.data \in Seq(Nat) /\ Bytes(d.data, x)
      /\ x + n = p.seq + Len(p.data) /\ p.data # <<>>
  BY DEF IsNew
<1>5. /\ x + n <= c /\ c <= x + z /\ c < SeqSpace
      /\ (Alive(u) => Uncut(u.slist, x + n))
  BY <1>2, <1>3, <1>4 DEF Arrives
<1>6. x > 0
  <2>1. p.seq > 0
    BY <1>2, <1>4 DEF Arrives
  <2> QED
    BY <2>1, <1>3, <1>4
<1>7. b \in [1..RcvBuf -> Nat] /\ IsStored(b, t.rbuf, l, x, x, n)
  <2> DEFINE data == d.data
             b0 == t.rbuf
  <2>1. /\ b0 \in [1..RcvBuf -> Nat] /\ data \in Seq(Nat) /\ Bytes(data, x + 0)
        /\ b = Stored(b0, l, 0, data) /\ n = Len(data) /\ x + 0 = x
    BY SMTT(40), <1>3, <1>4
  <2>2. x \in Nat /\ l \in Nat /\ 0 \in Nat /\ RcvBuf \in Nat
    BY <1>3
  <2> HIDE DEF data, b0, x, l
  <2>3. b \in [1..RcvBuf -> Nat] /\ IsStored(b, b0, l, x, x + 0, Len(data))
    BY ONLY <2>1, <2>2, BufferIs
  <2> QED
    BY ONLY <2>1, <2>3 DEF b0
<1>8. \A s \in t.rlist : End(s) <= c /\ (Alive(u) => Uncut(u.slist, End(s)))
  BY <1>2 DEF Arrives
<1>9. /\ I \subseteq t.rlist
      /\ m \in Nat /\ x + n <= m /\ m <= c
      /\ m = x + n \/ \E s \in t.rlist : m = End(s)
      /\ \A q \in Nat : x + n <= q /\ q < m =>
           \E s \in t.rlist : s.seq <= q /\ q < End(s)
      /\ \A s \in t.rlist \ I : m <= s.seq
  <2> DEFINE y == x + n
  <2>1. /\ y \in Nat /\ y <= c /\ c \in Nat /\ t \in Connection
        /\ \A s \in t.rlist : End(s) <= c
        /\ I = InOrder(t, y) /\ m = Largest(Joined(I, y))
    BY SMTT(40), <1>1, <1>3, <1>4, <1>5, <1>8
  <2> HIDE DEF y
  <2>2. IsJoined(t, y, c, I, m)
    BY ONLY <2>1, InOrderIs
  <2> QED
    BY ONLY <2>2 DEF IsJoined, y
<1> DEFINE more == m - x
           l2 == l + more
           z2 == z - more
           rl == t.rlist \ I
<1>10. /\ more \in Nat /\ more > 0 /\ more <= z /\ x < m /\ m < SeqSpace /\ m # 0
       /\ l2 \in Nat /\ z2 \in Nat /\ m + z2 = x + z /\ z2 + l2 = z + l
       /\ l2 - l = m - x
  <2> HIDE DEF x, l, z
  <2> QED
    BY ONLY <1>3, <1>4, <1>5, <1>9 DEF more, l2, z2
<1>11. z + l <= RcvBuf /\ Bytes(r, 1) /\ Len(r) < x
       /\ x = Len(r) + l + 1 /\ Len(r) \in Nat
       /\ \A i \in 1..l : t.rbuf[i] + l = x + i - 1
  BY <1>1, <1>6 DEF Receiver
<1>12. l2 \in 0..RcvBuf /\ z2 \in 0..RcvBuf
  <2> HIDE DEF x, l, z, l2, z2
  <2> QED
    BY ONLY <1>3, <1>10, <1>11
<1>13. rl \in SUBSET Range1 /\ rl \subseteq t.rlist
  BY <1>3
<1>14. /\ t2 = [t EXCEPT !.rbuf = b, !.rlen = l2, !.rcvNxt = m, !.rcvWnd = z2,
                         !.rlist = rl]
  BY ONLY t2 = InOrderReceived(t, b, m, I) DEF InOrderReceived
<1> HIDE DEF more, l2, z2, rl
<1>15. /\ t2 \in Connection /\ SameSender(t, t2) /\ t2.rcvNxt = m /\ t2.closing = t.closing
       /\ t2.rcvWnd = z2 /\ t2.rlen = l2 /\ t2.rlist = rl /\ t2.rbuf = b
  BY ONLY <1>1, <1>7, <1>9, <1>12, <1>13, <1>14 DEF Connection, SameSender
\* Every byte of the list is where it was in the buffer.
<1>16. ASSUME NEW s \in t.rlist, NEW q \in Nat, s.seq <= q, q < End(s)
       PROVE  x <= q /\ l + (q - x) + 1 <= RcvBuf /\ b[l + (q - x) + 1] = q
  <2>1. End(s) <= Edge(t)
    <3>1. End(s) <= c /\ c <= Edge(t)
      BY <1>3, <1>5, <1>8
    <3>2. End(s) \in Nat
      BY <1>3 DEF Range1, End
    <3> QED
      BY ONLY <3>1, <3>2, <1>3
  <2>2. x <= q /\ l + (q - x) + 1 <= RcvBuf /\ t.rbuf[l + (q - x) + 1] = q
    BY <2>1, <1>1, <1>16, InBuffer
  <2>3. b[l + (q - x) + 1] = IF x <= q /\ q < x + n THEN q
                             ELSE t.rbuf[l + (q - x) + 1]
    BY <2>2, <1>7 DEF IsStored
  <2> QED
    BY <2>2, <2>3
<1>17. \A i \in 1..l2 : b[i] + l2 = m + i - 1
  <2> SUFFICES ASSUME NEW i \in 1..l2 PROVE b[i] + l2 = m + i - 1
    OBVIOUS
  <2>1. i \in Nat /\ 1 <= i /\ i <= l2 /\ i <= RcvBuf
    BY ONLY <1>3, <1>10, <1>12, i \in 1..l2
  <2>2. CASE i <= l
    <3>1. b[i] = t.rbuf[i]
      BY <2>1, <2>2, <1>3, <1>7 DEF IsStored
    <3>2. t.rbuf[i] + l = x + i - 1 /\ t.rbuf[i] \in Nat
      BY <2>1, <2>2, <1>3, <1>11
    <3> DEFINE k == b[i]
    <3>3. k \in Nat /\ k + l = x + i - 1
      BY <3>1, <3>2
    <3> HIDE DEF k, x, l
    <3>4. k + l2 = m + i - 1
      BY ONLY <3>3, <2>1, <1>3, <1>9, <1>10
    <3> QED
      BY <3>4 DEF k
  <2>3. CASE ~(i <= l)
    <3> DEFINE q == x + (i - l) - 1
    <3>1. q \in Nat /\ x <= q /\ q < m /\ l + (q - x) + 1 = i /\ q + l2 = m + i - 1
      <4> HIDE DEF x, l
      <4> QED
        BY ONLY <2>1, <2>3, <1>3, <1>9, <1>10 DEF q
    <3> HIDE DEF q
    <3>2. CASE q < x + n
      <4>1. b[l + (q - x) + 1] = q
        BY <3>1, <3>2, <2>1, <1>7 DEF IsStored
      <4> QED
        BY <4>1, <3>1
    <3>3. CASE ~(q < x + n)
      <4> HIDE DEF x
      <4>1. q \in Nat /\ x + n <= q /\ q < m
        BY ONLY <3>1, <3>3, <1>3, <1>4
      <4>2. PICK s \in t.rlist : s.seq <= q /\ q < End(s)
        BY ONLY <4>1, <1>9
      <4>3. b[l + (q - x) + 1] = q
        BY <4>2, <3>1, <1>16 DEF x
      <4> QED
        BY <4>3, <3>1
    <3> QED
      BY <3>2, <3>3
  <2> QED
    BY <2>2, <2>3
<1>18. ASSUME NEW s \in rl, NEW q \in s.seq..(End(s) - 1)
       PROVE  m <= s.seq /\ b[l2 + (q - m) + 1] = q
  <2>1. s \in t.rlist /\ m <= s.seq
    BY <1>9 DEF rl
  <2>2. s.seq \in Nat /\ End(s) \in Nat
    BY SMTT(40), <2>1, <1>3 DEF Range1, End
  <2>3. q \in Nat /\ s.seq <= q /\ q < End(s)
    BY <2>2
  <2>4. b[l + (q - x) + 1] = q
    BY <2>1, <2>3, <1>16
  <2>5. l2 + (q - m) + 1 = l + (q - x) + 1
    <3> HIDE DEF x, l
    <3> QED
      BY ONLY <2>3, <1>3, <1>9, <1>10
  <2> QED
    BY <2>1, <2>4, <2>5
<1>19. \A s \in rl : m <= s.seq
  BY <1>9 DEF rl
<1>20. Receiver(t2, r)
  <2>1. z2 + l2 <= RcvBuf /\ Len(r) < m /\ m = Len(r) + l2 + 1 /\ m # 0
    <3> DEFINE k == Len(r)
    <3>1. k \in Nat /\ x = k + l + 1 /\ z + l <= RcvBuf
      BY <1>11
    <3> HIDE DEF x, l, z, k
    <3>2. z2 + l2 <= RcvBuf /\ k < m /\ m = k + l2 + 1 /\ m # 0
      BY ONLY <3>1, <1>3, <1>9, <1>10
    <3> QED
      BY <3>2 DEF k
  <2> QED
    BY ONLY <2>1, <1>11, <1>15, <1>17, <1>18, <1>19 DEF Receiver
<1>21. ReceiverGrows(t, t2)
  <2>1. Edge(t2) = m + z2
    BY <1>15 DEF Edge
  <2> QED
    BY ONLY SMTT(40), <2>1, <1>3, <1>9, <1>10, <1>15 DEF ReceiverGrows
<1>22. Takes(u, t2)
  <2>1. Alive(u) => Uncut(u.slist, m)
    BY <1>5, <1>8, <1>9
  <2>2. \A s \in rl : End(s) <= c /\ (Alive(u) => Uncut(u.slist, End(s)))
    BY <1>8, <1>13
  <2> QED
    BY ONLY <2>1, <2>2, <1>9, <1>15 DEF Takes, c
<1>23. Fine(e, t2, w, r, out)
  BY <1>1, <1>15, <1>20, <1>21, <1>22, ReceiverStep DEF u
<1> QED
  BY ONLY <1>10, <1>15, <1>23, <1>9 DEF more

\* The data of a packet is received.
LEMMA ReceivedFine ==
    ASSUME NEW e, NEW t, NEW w, NEW r, NEW out, Fine(e, t, w, r, out),
           NEW p \in net[e], NEW v, v = Received(t, p)
    PROVE  /\ Fine(e, v, w, r, out) /\ SameSender(t, v)
           /\ t.rcvNxt <= v.rcvNxt /\ v.closing = t.closing
           /\ p.ctl => v.rcvNxt > 0
<1> DEFINE u == tcp[Peer(e)]
           c == u.sndNxt
           d == NewData(t, p)
           n == Len(d.data)
           offset == Minus(d.seq, t.rcvNxt)
           rbuf == [i \in 1..RcvBuf |->
                      IF i - t.rlen - offset \in 1..n
                      THEN d.data[i - t.rlen - offset] ELSE t.rbuf[i]]
           I == InOrder(t, d.seq + n)
           joined == {s.seq + s.len : s \in I} \cup {d.seq + n}
           m == Largest(joined)
           more == Minus(m, t.rcvNxt)
           tB == [t EXCEPT !.rcvNxt = IF d.seq = t.rcvNxt THEN Plus(t.rcvNxt, n)
                                      ELSE t.rcvNxt]
           tC == [t EXCEPT !.rbuf = rbuf, !.rlen = t.rlen + more,
                           !.rcvNxt = Plus(t.rcvNxt, more),
                           !.rcvWnd = Minus(t.rcvWnd, more), !.rlist = t.rlist \ I]
           tD == [t EXCEPT !.rbuf = rbuf,
                           !.rlist = t.rlist \cup {[seq |-> d.seq, len |-> n]}]
<1>1. v = IF n = 0 THEN t
          ELSE IF p.ctl \/ t.closing THEN tB
          ELSE IF d.seq = t.rcvNxt THEN tC
          ELSE tD
  <2>1. Received(t, p) = IF n = 0 THEN t
                         ELSE IF p.ctl \/ t.closing THEN tB
                         ELSE IF d.seq = t.rcvNxt THEN tC
                         ELSE tD
    BY ONLY DEF Received
  <2> QED
    BY <2>1
<1> HIDE DEF tB, tC, tD
<1>2. t \in Connection /\ p \in PacketType
  BY DEF Fine
<1>3. Arrives(e, t, p, c, u)
  <2> HIDE DEF u, c
  <2>1. u = tcp[Peer(e)] /\ c = u.sndNxt
    BY DEF u, c
  <2> QED
    BY ONLY <2>1, ArrivesIs, Fine(e, t, w, r, out), p \in net[e]
<1> HIDE DEF u, c
<1>4. /\ t.rcvNxt \in Nat /\ t.rcvWnd \in Nat /\ SeqSpace \in Nat /\ c \in Nat
      /\ c < SeqSpace /\ t.rcvNxt <= c /\ t.rcvWnd <= RcvBuf /\ RcvBuf \in Nat
      /\ RcvBuf < SeqSpace /\ t.rlen \in Nat /\ p.seq \in Nat
  BY <1>2, <1>3, ConnectionIs, PacketIs, PseudoTcpAssumption DEF Arrives
<1>5. IsNew(d, t, p)
  <2>1. /\ t \in Connection /\ p \in PacketType /\ t.rcvWnd + t.rlen <= RcvBuf
        /\ c \in Nat /\ c <= Edge(t) /\ c < SeqSpace /\ t.rcvNxt <= c
        /\ (p.data # <<>> => Bytes(p.data, p.seq) /\ p.seq + Len(p.data) <= c)
    BY <1>2, <1>3 DEF Arrives
  <2>2. IsNew(NewData(t, p), t, p)
    BY ONLY <2>1, NewDataIs
  <2> QED
    BY <2>2
<1> HIDE DEF d
<1>6. SameSender(t, t)
  BY DEF SameSender
<1>7. p.ctl => p.seq = 0 /\ Len(p.data) = 1
  BY <1>3 DEF Arrives
<1>8. d.data = <<>> <=> n = 0
  <2>1. d.data \in Seq(Nat)
    BY <1>5 DEF IsNew
  <2> QED
    BY ONLY <2>1
<1>9. CASE n = 0
  <2>1. v = t
    BY <1>1, <1>9
  <2>2. p.ctl => t.rcvNxt > 0
    <3> SUFFICES ASSUME p.ctl PROVE t.rcvNxt > 0
      OBVIOUS
    <3>1. p.seq = 0 /\ Len(p.data) = 1
      BY <1>7
    <3>2. p.data # <<>>
      <4> SUFFICES ASSUME p.data = <<>> PROVE FALSE
        OBVIOUS
      <4>1. Len(<<>>) = 1
        BY ONLY <3>1, p.data = <<>>
      <4> QED
        BY ONLY <4>1
    <3>3. p.seq + Len(p.data) <= t.rcvNxt
      BY <3>2, <1>5, <1>8, <1>9 DEF IsNew
    <3> QED
      BY ONLY <3>1, <3>3, <1>4
  <2> QED
    BY <2>1, <2>2, <1>4, <1>6
<1>10. CASE n # 0 /\ (p.ctl \/ t.closing)
  <2>1. v = tB /\ d.data # <<>>
    BY <1>1, <1>8, <1>10
  <2>2. CASE d.seq = t.rcvNxt
    <3>1. t.rcvNxt + n <= c /\ n \in Nat
      BY <2>1, <2>2, <1>3, <1>5 DEF IsNew, Arrives
    <3>2. Plus(t.rcvNxt, n) = t.rcvNxt + n
      <4>1. t.rcvNxt + n < SeqSpace
        <5> HIDE DEF n
        <5> QED
          BY ONLY <3>1, <1>4
      <4> HIDE DEF n
      <4> QED
        BY ONLY <4>1, <3>1, <1>4, PlusIs
    <3> DEFINE k == t.rcvNxt + n
    <3>3. v = Skipped(t, k)
      BY <2>1, <2>2, <3>2 DEF tB, Skipped
    <3>4. k = t.rcvNxt + Len(d.data)
      OBVIOUS
    <3> HIDE DEF k
    <3>5. /\ Fine(e, v, w, r, out) /\ SameSender(t, v)
          /\ v.rcvNxt = k /\ t.rcvNxt < k
      BY ONLY <2>1, <2>2, <3>3, <3>4, <1>5, <1>10, SkippedFine, p \in net[e],
              Fine(e, t, w, r, out)
    <3>6. v.closing = t.closing
      BY <3>3, <1>2 DEF Skipped, Connection
    <3>7. k \in Nat
      BY <3>1, <1>4 DEF k
    <3> QED
      BY ONLY <3>5, <3>6, <3>7, <1>4
  <2>3. CASE d.seq # t.rcvNxt
    <3>1. v = t
      <4>1. v = [t EXCEPT !.rcvNxt = t.rcvNxt]
        BY <2>1, <2>3 DEF tB
      <4> QED
        BY ONLY <4>1, <1>2 DEF Connection
    <3>2. ~p.ctl
      <4> SUFFICES ASSUME p.ctl PROVE FALSE
        OBVIOUS
      <4>1. /\ d.seq \in Nat /\ n \in Nat /\ n > 0 /\ t.rcvNxt <= d.seq
            /\ d.seq \in {p.seq, t.rcvNxt}
        BY <2>1, <1>5 DEF IsNew
      <4> HIDE DEF n
      <4> QED
        BY ONLY <4>1, <2>3, <1>4, <1>7, p.ctl
    <3> QED
      BY <3>1, <3>2, <1>4, <1>6
  <2> QED
    BY <2>2, <2>3
<1>11. CASE n # 0 /\ ~p.ctl /\ ~t.closing /\ d.seq = t.rcvNxt
  <2> DEFINE b == Stored(t.rbuf, t.rlen, 0, d.data)
             k == t.rcvNxt + n
             I2 == InOrder(t, k)
             m2 == Largest(Joined(I2, k))
             t2 == InOrderReceived(t, b, m2, I2)
  <2>1. v = tC /\ d.data # <<>>
    BY <1>1, <1>8, <1>11
  <2>2. /\ Fine(e, t2, w, r, out) /\ SameSender(t, t2)
        /\ t2.rcvNxt = m2 /\ m2 \in Nat /\ t.rcvNxt < m2
        /\ m2 - t.rcvNxt <= t.rcvWnd /\ m2 < SeqSpace
    <3>1. n = Len(d.data) /\ b = Stored(t.rbuf, t.rlen, 0, d.data)
      OBVIOUS
    <3>2. I2 = InOrder(t, t.rcvNxt + n) /\ m2 = Largest(Joined(I2, t.rcvNxt + n))
          /\ t2 = InOrderReceived(t, b, m2, I2)
      OBVIOUS
    <3>3. ~p.ctl /\ ~t.closing /\ d.seq = t.rcvNxt
      BY <1>11
    <3> HIDE DEF b, k, I2, m2, t2, n
    <3> QED
      BY ONLY <2>1, <3>1, <3>2, <3>3, <1>5, InOrderFine, p \in net[e],
              Fine(e, t, w, r, out)
  <2>3. v = t2
    <3>1. I = I2 /\ m = m2
      BY <1>11 DEF Joined
    <3>2. offset = 0
      <4>1. Minus(t.rcvNxt, t.rcvNxt) = t.rcvNxt - t.rcvNxt
        BY <1>4, MinusIs
      <4> QED
        BY <4>1, <1>4, <1>11
    <3>3. rbuf = b
      <4> HIDE DEF offset
      <4> QED
        BY <3>2 DEF Stored
    <3> HIDE DEF b, m2, I2, k, n, rbuf, I, m, offset
    <3>4. /\ m2 - t.rcvNxt \in Nat /\ m2 - t.rcvNxt < SeqSpace /\ t.rcvNxt <= m2
          /\ t.rcvWnd - (m2 - t.rcvNxt) < SeqSpace
          /\ t.rcvNxt + (m2 - t.rcvNxt) = m2
      BY ONLY <2>2, <1>4
    <3>5. more = m2 - t.rcvNxt
      <4>1. Minus(m2, t.rcvNxt) = m2 - t.rcvNxt
        BY ONLY <3>4, <2>2, <1>4, MinusIs
      <4> QED
        BY <4>1, <3>1
    <3> DEFINE a == m2 - t.rcvNxt
    <3>6. Plus(t.rcvNxt, a) = m2
      <4>1. t.rcvNxt + a = m2 /\ a \in Nat
        BY <3>4
      <4> HIDE DEF a
      <4>2. Plus(t.rcvNxt, a) = t.rcvNxt + a
        BY ONLY <4>1, <2>2, <1>4, PlusIs
      <4> QED
        BY <4>1, <4>2
    <3>7. Minus(t.rcvWnd, a) = t.rcvWnd - a
      <4>1. a \in Nat /\ a <= t.rcvWnd /\ t.rcvWnd - a < SeqSpace
        BY <3>4, <2>2
      <4> HIDE DEF a
      <4> QED
        BY ONLY <4>1, <1>4, MinusIs
    <3>8. tC = [t EXCEPT !.rbuf = rbuf, !.rlen = t.rlen + more,
                         !.rcvNxt = Plus(t.rcvNxt, more),
                         !.rcvWnd = Minus(t.rcvWnd, more), !.rlist = t.rlist \ I]
      BY DEF tC
    <3>9. tC = [t EXCEPT !.rbuf = b, !.rlen = t.rlen + a, !.rcvNxt = m2,
                         !.rcvWnd = t.rcvWnd - a, !.rlist = t.rlist \ I2]
      <4>1. more = a
        BY <3>5
      <4> HIDE DEF a, more
      <4> QED
        BY ONLY <4>1, <3>1, <3>3, <3>6, <3>7, <3>8
    <3>10. t2 = [t EXCEPT !.rbuf = b, !.rlen = t.rlen + a, !.rcvNxt = m2,
                          !.rcvWnd = t.rcvWnd - a, !.rlist = t.rlist \ I2]
      BY ONLY DEF InOrderReceived, t2, a
    <3> QED
      BY <2>1, <3>9, <3>10
  <2> HIDE DEF t2, m2
  <2>4. v.closing = t.closing
    BY <2>1, <1>2 DEF tC, Connection
  <2> QED
    BY ONLY <2>2, <2>3, <2>4, <1>4, <1>11
<1>12. CASE n # 0 /\ ~p.ctl /\ ~t.closing /\ d.seq # t.rcvNxt
  <2> DEFINE o == d.seq - t.rcvNxt
             b == Stored(t.rbuf, t.rlen, o, d.data)
             t2 == OutOfOrderReceived(t, b, d.seq, n)
  <2>1. v = tD /\ d.data # <<>>
    BY <1>1, <1>8, <1>12
  <2>2. Fine(e, t2, w, r, out) /\ SameSender(t, t2) /\ t2.rcvNxt = t.rcvNxt
    <3>1. n = Len(d.data) /\ o = d.seq - t.rcvNxt /\ b = Stored(t.rbuf, t.rlen, o, d.data)
          /\ t2 = OutOfOrderReceived(t, b, d.seq, n)
      OBVIOUS
    <3>2. ~p.ctl /\ ~t.closing /\ d.seq # t.rcvNxt
      BY <1>12
    <3> HIDE DEF b, o, t2, n
    <3> QED
      BY ONLY <2>1, <3>1, <3>2, <1>5, OutOfOrderFine, p \in net[e],
              Fine(e, t, w, r, out)
  <2>3. v = t2
    <3>1. offset = o
      <4>1. /\ d.seq \in Nat /\ n \in Nat /\ t.rcvNxt <= d.seq /\ d.seq + n <= c
        BY <2>1, <1>3, <1>5 DEF IsNew, Arrives
      <4>2. d.seq - t.rcvNxt < SeqSpace
        <5> HIDE DEF n
        <5> QED
          BY ONLY <4>1, <1>4
      <4>3. Minus(d.seq, t.rcvNxt) = d.seq - t.rcvNxt
        BY ONLY <4>1, <4>2, <1>4, MinusIs
      <4> QED
        BY <4>3
    <3>2. rbuf = b
      <4> HIDE DEF offset, o
      <4> QED
        BY <3>1 DEF Stored
    <3> HIDE DEF b, n, rbuf
    <3> QED
      BY <2>1, <3>2 DEF tD, OutOfOrderReceived
  <2> HIDE DEF t2
  <2>4. v.closing = t.closing
    BY <2>1, <1>2 DEF tD, Connection
  <2> QED
    BY ONLY <2>2, <2>3, <2>4, <1>4, <1>12
<1> HIDE DEF n
<1> QED
  BY <1>9, <1>10, <1>11, <1>12

----------------------------------------------------------------------------
(* A step of the connection *)

\* Each end of the connection is as TcpInv says.
LEMMA FineIs ==
    ASSUME NoWrap, TcpInv, NEW e \in Side
    PROVE  /\ Fine(e, tcp[e], written[e], received[e], net[Peer(e)])
           /\ Heard(e, tcp[e])
<1> DEFINE f == Peer(e)
<1>1. f \in Side /\ Peer(f) = e
  BY Sides
<1>2. \A a \in Side : written[a] \in Nat /\ written[a] + 1 < SeqSpace
  <2> SUFFICES ASSUME NEW a \in Side PROVE written[a] \in Nat /\ written[a] + 1 < SeqSpace
    OBVIOUS
  <2>1. written[a] \in Nat /\ written[a] <= MaxWritten[a]
    BY DEF TcpInv, Types
  <2>2. MaxWritten[a] \in Nat /\ MaxWritten[a] + 1 < SeqSpace /\ SeqSpace \in Nat
    BY PseudoTcpAssumption DEF NoWrap
  <2> QED
    BY <2>1, <2>2
<1>3. /\ tcp[e] \in Connection /\ tcp[f] \in Connection
      /\ received[e] \in Seq(Nat)
      /\ net[f] \subseteq PacketType /\ net[e] \subseteq PacketType
  BY <1>1 DEF TcpInv, Types
<1>4. /\ Sender(tcp[e], written[e]) /\ Receiver(tcp[e], received[e])
      /\ Pair(tcp[e], tcp[f], written[e])
      /\ \A p \in net[f] : Fits(p, tcp[e], tcp[f])
      /\ Role(e, tcp[e]) /\ Heard(e, tcp[e])
  BY DEF TcpInv
<1>5. /\ Sender(tcp[f], written[f])
      /\ Pair(tcp[f], tcp[e], written[f])
      /\ \A p \in net[e] : Fits(p, tcp[f], tcp[e])
      /\ Role(f, tcp[f]) /\ Heard(f, tcp[f])
  <2> HIDE DEF f
  <2> QED
    BY <1>1 DEF TcpInv
<1> QED
  BY <1>1, <1>2, <1>3, <1>4, <1>5 DEF Fine

\* What a step of end e does to the packets under way, ...
NetKeeps(e) == net' \in [Side -> SUBSET PacketType] /\ net'[e] \subseteq net[e]

\* ... to attemptSend ...
SendingKeeps(e, t) ==
    /\ sending' \in [flags : {"none", "delayed", "immediate", "idle"},
                     end : Side, readable : BOOLEAN]
    /\ sending' = Idle \/ (sending'.end = e /\ Alive(t))

\* ... and to the events of the streams.
EventsKeep(e, t) ==
    /\ events' \in [Side -> SUBSET {"read", "write", "close"}]
    /\ events'[Peer(e)] = events[Peer(e)]
    /\ t.closing => events'[e] = {}

\* A step of one end that keeps what holds of it keeps the invariant.
LEMMA StepKeeps ==
    ASSUME TcpInv, NEW e \in Side, NEW t, NEW w, NEW r,
           Fine(e, t, w, r, net'[Peer(e)]), Heard(e, t), w <= MaxWritten[e],
           tcp' = [tcp EXCEPT ![e] = t],
           written' = [written EXCEPT ![e] = w],
           received' = [received EXCEPT ![e] = r],
           NetKeeps(e), SendingKeeps(e, t), EventsKeep(e, t),
           repeats' \in 0..MaxRepeats
    PROVE  TcpInv'
<1> DEFINE f == Peer(e)
<1>1. f \in Side /\ Peer(f) = e /\ f # e /\ \A a \in Side : a = e \/ a = f
  BY Sides
<1>2. /\ t \in Connection /\ w \in Nat /\ r \in Seq(Nat)
      /\ Sender(t, w) /\ Receiver(t, r) /\ Pair(t, tcp[f], w)
      /\ Pair(tcp[f], t, written[f]) /\ Sender(tcp[f], written[f])
      /\ \A p \in net'[f] : Fits(p, t, tcp[f])
      /\ \A p \in net[e] : Fits(p, tcp[f], t)
      /\ Role(e, t) /\ Role(f, tcp[f]) /\ Heard(f, tcp[f])
  BY DEF Fine
<1>3. Types
  BY DEF TcpInv
<1>4. /\ tcp' \in [Side -> Connection] /\ tcp'[e] = t /\ tcp'[f] = tcp[f]
      /\ written' \in [Side -> Nat] /\ written'[e] = w /\ written'[f] = written[f]
      /\ received' \in [Side -> Seq(Nat)] /\ received'[e] = r
      /\ received'[f] = received[f]
  <2> HIDE DEF f
  <2> QED
    BY <1>1, <1>2, <1>3 DEF Types
<1>5. Receiver(tcp[f], received[f])
  BY <1>1 DEF TcpInv
<1> HIDE DEF f
<1>6. Types'
  <2>1. \A a \in Side : written'[a] <= MaxWritten[a]
    BY <1>1, <1>3, <1>4 DEF Types
  <2>2. \A a \in Side : tcp'[a].closing => events'[a] = {}
    BY <1>1, <1>3, <1>4 DEF Types, f, EventsKeep
  <2>3. ~Free' => Alive(tcp'[sending'.end])
    BY <1>4 DEF Free, SendingKeeps
  <2> QED
    BY <1>4, <2>1, <2>2, <2>3 DEF Types, Free, Alive, EventsKeep, NetKeeps, SendingKeeps
<1>7. \A a \in Side :
         /\ Sender(tcp'[a], written'[a])
         /\ Receiver(tcp'[a], received'[a])
         /\ Pair(tcp'[a], tcp'[Peer(a)], written'[a])
         /\ \A p \in net'[Peer(a)] : Fits(p, tcp'[a], tcp'[Peer(a)])
         /\ Role(a, tcp'[a]) /\ Heard(a, tcp'[a])
  <2>1. /\ Sender(tcp'[e], written'[e]) /\ Receiver(tcp'[e], received'[e])
        /\ Pair(tcp'[e], tcp'[f], written'[e])
        /\ \A p \in net'[f] : Fits(p, tcp'[e], tcp'[f])
        /\ Role(e, tcp'[e]) /\ Heard(e, tcp'[e])
    BY <1>2, <1>4
  <2>2. /\ Sender(tcp'[f], written'[f]) /\ Receiver(tcp'[f], received'[f])
        /\ Pair(tcp'[f], tcp'[e], written'[f])
        /\ \A p \in net'[e] : Fits(p, tcp'[f], tcp'[e])
        /\ Role(f, tcp'[f]) /\ Heard(f, tcp'[f])
    BY <1>2, <1>4, <1>5 DEF NetKeeps
  <2>3. Peer(e) = f
    BY DEF f
  <2> QED
    BY ONLY <2>1, <2>2, <2>3, <1>1
<1> QED
  BY ONLY <1>6, <1>7 DEF TcpInv, Sender, Receiver, Pair, Fits, Role, Heard, Alive, Edge,
     Bytes, Chain, SentUpTo, ControlFirst, Uncut, End, Opening, Peer

\* A packet that gets lost or gets under way.
LEMMA SentIs ==
    ASSUME NEW e \in Side, NEW k \in [Side -> SUBSET PacketType], NEW p \in PacketType,
           NEW n, n \in Sent(k, e, p)
    PROVE  /\ n \in [Side -> SUBSET PacketType] /\ n[e] = k[e]
           /\ n[Peer(e)] = k[Peer(e)] \/ n[Peer(e)] = k[Peer(e)] \cup {p}
<1>1. Peer(e) \in Side /\ Peer(e) # e
  BY Sides
<1>2. n = k \/ n = [k EXCEPT ![Peer(e)] = k[Peer(e)] \cup {p}]
  BY DEF Sent
<1> QED
  BY <1>1, <1>2

\* The program closes its stream.
LEMMA ClosingFine ==
    ASSUME NEW e, NEW t, NEW w, NEW r, NEW out, Fine(e, t, w, r, out),
           NEW t2, t2 = [t EXCEPT !.closing = TRUE]
    PROVE  Fine(e, t2, w, r, out) /\ SameSender(t, t2) /\ t2.rcvNxt = t.rcvNxt
<1> DEFINE u == tcp[Peer(e)]
<1>1. /\ t \in Connection /\ u \in Connection /\ r \in Seq(Nat) /\ Receiver(t, r)
      /\ Pair(u, t, written[Peer(e)])
  BY DEF Fine
<1> HIDE DEF u
<1>2. t.rcvNxt \in Nat /\ t.rcvWnd \in Nat
  BY <1>1, ConnectionIs
<1>3. /\ t2 \in Connection /\ SameSender(t, t2) /\ t2.closing
      /\ t2.rbuf = t.rbuf /\ t2.rlen = t.rlen /\ t2.rlist = t.rlist
      /\ t2.rcvNxt = t.rcvNxt /\ t2.rcvWnd = t.rcvWnd
  BY <1>1 DEF Connection, SameSender
<1>4. Receiver(t2, r)
  BY <1>1, <1>3 DEF Receiver
<1>5. ReceiverGrows(t, t2)
  BY <1>2, <1>3 DEF ReceiverGrows, Edge
<1>6. Takes(u, t2)
  BY <1>1, <1>3 DEF Takes, Pair
<1>7. Fine(e, t2, w, r, out)
  BY ONLY <1>1, <1>3, <1>4, <1>5, <1>6, ReceiverStep, Fine(e, t, w, r, out) DEF u
<1> QED
  BY <1>3, <1>7

\* m bytes more are read behind r ...
ReadBytes(r, t, m) == r \o SubSeq(t.rbuf, 1, m)

\* ... when there are so many in order.
MayTake(t, m) == m \in Nat /\ 0 < m /\ m <= t.rlen

\* The program reads the first m bytes of the receive buffer.
LEMMA TakenFine ==
    ASSUME NEW e, NEW t, NEW w, NEW r, NEW out, Fine(e, t, w, r, out), ~t.closing,
           NEW m, MayTake(t, m), NEW t2, t2 = Taken(t, m),
           NEW r2, r2 = ReadBytes(r, t, m)
    PROVE  /\ Fine(e, t2, w, r2, out) /\ SameSender(t, t2)
           /\ t2.rcvNxt = t.rcvNxt /\ t2.closing = t.closing
<1> DEFINE u == tcp[Peer(e)]
           c == u.sndNxt
           x == t.rcvNxt
           l == t.rlen
           k == Len(r)
           l2 == l - m
           b == [i \in 1..RcvBuf |-> IF i + m <= RcvBuf THEN t.rbuf[i + m] ELSE 0]
           s2 == SubSeq(t.rbuf, 1, m)
<1>0. m \in Nat /\ 0 < m /\ m <= t.rlen
  BY DEF MayTake
<1> USE <1>0
<1> r2 = r \o SubSeq(t.rbuf, 1, m)
  BY DEF ReadBytes
<1>1. /\ t \in Connection /\ u \in Connection /\ r \in Seq(Nat) /\ Receiver(t, r)
      /\ Pair(u, t, written[Peer(e)])
  BY DEF Fine
<1> HIDE DEF u, c
<1>2. /\ x \in Nat /\ t.rcvWnd \in Nat /\ l \in 0..RcvBuf /\ l \in Nat /\ RcvBuf \in Nat
      /\ t.rbuf \in [1..RcvBuf -> Nat] /\ c \in Nat /\ t.rlist \subseteq Range1
      /\ Edge(t) = x + t.rcvWnd /\ k \in Nat
  BY <1>1, ConnectionIs DEF c
<1>3. x # 0
  BY <1>1, <1>2 DEF Receiver
<1>4. /\ t.rcvWnd + l <= RcvBuf /\ Bytes(r, 1) /\ k < x /\ x = k + l + 1
      /\ \A i \in 1..l : t.rbuf[i] + l = x + i - 1
      /\ \A s \in t.rlist : x <= s.seq
  BY SMTT(40), <1>1, <1>2, <1>3 DEF Receiver
<1>5. /\ s2 \in Seq(Nat) /\ Len(s2) = m /\ \A i \in 1..m : s2[i] = t.rbuf[i]
  <2> DEFINE q == t.rbuf
  <2>1. q \in Seq(Nat) /\ Len(q) = RcvBuf
    BY SMTT(60), <1>2
  <2> HIDE DEF q
  <2>2. 1 \in 1..(Len(q) + 1) /\ m \in 0..Len(q) /\ 1 <= m + 1
    BY <2>1, <1>2
  <2>3. /\ SubSeq(q, 1, m) \in Seq(Nat) /\ Len(SubSeq(q, 1, m)) = m + 1 - 1
        /\ \A i \in 1..(m + 1 - 1) : SubSeq(q, 1, m)[i] = q[1 + i - 1]
    BY ONLY <2>1, <2>2, SubSeqIs
  <2>4. m + 1 - 1 = m /\ \A i \in 1..m : 1 + i - 1 = i
    OBVIOUS
  <2> DEFINE q2 == SubSeq(q, 1, m)
  <2>5. /\ q2 \in Seq(Nat) /\ Len(q2) = m /\ \A i \in 1..m : q2[i] = q[i]
    <3>1. /\ q2 \in Seq(Nat) /\ Len(q2) = m + 1 - 1
          /\ \A i \in 1..(m + 1 - 1) : q2[i] = q[1 + i - 1]
      BY <2>3
    <3> HIDE DEF q2
    <3> QED
      BY ONLY <2>4, <3>1
  <2> QED
    BY <2>5 DEF q
<1> HIDE DEF s2
<1>6. r2 \in Seq(Nat) /\ Len(r2) = k + m
      /\ \A i \in 1..(k + m) : r2[i] = IF i <= k THEN r[i] ELSE s2[i - k]
  <2>1. r2 = r \o s2
    BY DEF s2
  <2>2. r \in Seq(Nat) /\ s2 \in Seq(Nat)
    BY <1>1, <1>5
  <2>3. /\ r2 \in Seq(Nat) /\ Len(r2) = Len(r) + Len(s2)
        /\ \A i \in 1..(Len(r) + Len(s2)) :
             r2[i] = IF i <= Len(r) THEN r[i] ELSE s2[i - Len(r)]
    BY ONLY <2>1, <2>2
  <2>4. Len(r) = k /\ Len(s2) = m
    BY <1>5
  <2> HIDE DEF k
  <2> QED
    BY ONLY <2>3, <2>4
<1>7. Bytes(r2, 1)
  <2> SUFFICES ASSUME NEW i \in 1..Len(r2) PROVE r2[i] = 1 + i - 1
    BY DEF Bytes
  <2>1. i \in 1..(k + m) /\ i \in Nat
    BY <1>6
  <2>2. CASE i <= k
    <3>1. r2[i] = r[i] /\ r[i] = 1 + i - 1
      BY <2>1, <2>2, <1>4, <1>6 DEF Bytes
    <3> QED
      BY <3>1
  <2>3. CASE ~(i <= k)
    <3> DEFINE j == i - k
               y == s2[j]
    <3>1. j \in 1..m /\ j \in 1..l
      <4> HIDE DEF k, l
      <4> QED
        BY ONLY <2>1, <2>3, <1>2, m \in Nat, m <= t.rlen DEF l
    <3>2. s2[j] = t.rbuf[j] /\ t.rbuf[j] + l = x + j - 1 /\ t.rbuf[j] \in Nat
      <4> HIDE DEF j
      <4>1. s2[j] = t.rbuf[j]
        BY ONLY <3>1, <1>5
      <4>2. t.rbuf[j] + l = x + j - 1
        BY ONLY <3>1, <1>4
      <4>3. j \in 1..RcvBuf
        <5> HIDE DEF l
        <5> QED
          BY ONLY <3>1, <1>2
      <4>4. t.rbuf[j] \in Nat
        BY ONLY <4>3, <1>2
      <4> QED
        BY ONLY <4>1, <4>2, <4>4
    <3>3. y \in Nat /\ y + l = x + j - 1
      BY <3>2
    <3> HIDE DEF y
    <3>4. y = 1 + i - 1
      <4> HIDE DEF k, l, x
      <4> QED
        BY ONLY <3>3, <2>1, <1>2, <1>4 DEF j
    <3>5. r2[i] = y
      BY <2>1, <2>3, <1>6 DEF y
    <3> QED
      BY <3>4, <3>5
  <2> QED
    BY <2>2, <2>3
<1>8. /\ l2 \in Nat /\ l2 \in 0..RcvBuf /\ t.rcvWnd + l2 <= RcvBuf
      /\ l = l2 + m /\ k + m < x /\ x = (k + m) + l2 + 1
  <2> DEFINE z == t.rcvWnd
  <2>1. z \in Nat /\ z + l <= RcvBuf /\ m <= l
    BY <1>2, <1>4
  <2>2. /\ l2 \in Nat /\ l2 \in 0..RcvBuf /\ z + l2 <= RcvBuf
        /\ l = l2 + m /\ k + m < x /\ x = (k + m) + l2 + 1
    <3> HIDE DEF z, l, k, x
    <3> QED
      BY ONLY SMTT(60), <2>1, <1>2, <1>4, <1>0 DEF l2
  <2> QED
    BY <2>2
<1>9. b \in [1..RcvBuf -> Nat]
      /\ \A i \in Nat : 1 <= i /\ i + m <= RcvBuf => b[i] = t.rbuf[i + m]
  BY <1>2
<1>10. t2 = [t EXCEPT !.rlen = l2, !.rbuf = b]
  <2>1. Taken(t, m) = [t EXCEPT !.rlen = l2, !.rbuf = b]
    BY DEF Taken
  <2> QED
    BY <2>1
<1> HIDE DEF l2, b
<1>11. /\ t2 \in Connection /\ SameSender(t, t2) /\ t2.closing = t.closing
       /\ t2.rbuf = b /\ t2.rlen = l2 /\ t2.rlist = t.rlist
       /\ t2.rcvNxt = x /\ t2.rcvWnd = t.rcvWnd
  BY ONLY <1>1, <1>8, <1>9, <1>10 DEF Connection, SameSender
<1>12. \A i \in 1..l2 : b[i] + l2 = x + i - 1
  <2> SUFFICES ASSUME NEW i \in 1..l2 PROVE b[i] + l2 = x + i - 1
    OBVIOUS
  <2> DEFINE j == i + m
             y == t.rbuf[j]
  <2>1. i \in Nat /\ 1 <= i /\ j \in 1..l /\ i + m <= RcvBuf
    <3> HIDE DEF l
    <3> QED
      BY ONLY <1>0, <1>2, <1>8, i \in 1..l2
  <2>2. t.rbuf[j] + l = x + j - 1 /\ t.rbuf[j] \in Nat
    <3> HIDE DEF j
    <3>1. t.rbuf[j] + l = x + j - 1
      BY ONLY <2>1, <1>4
    <3>2. j \in 1..RcvBuf
      <4> HIDE DEF l
      <4> QED
        BY ONLY <2>1, <1>2
    <3>3. t.rbuf[j] \in Nat
      BY ONLY <3>2, <1>2
    <3> QED
      BY ONLY <3>1, <3>3
  <2>3. b[i] = y
    BY <2>1, <1>9
  <2>4. y \in Nat /\ y + l = x + j - 1
    BY <2>2
  <2> HIDE DEF y, l, x
  <2>5. y + l2 = x + i - 1
    <3>1. l = l2 + m /\ l2 \in Nat
      BY <1>8
    <3>2. y + (l2 + m) = x + (i + m) - 1
      BY ONLY <3>1, <2>4 DEF j
    <3>3. l2 \in Nat /\ m \in Nat /\ x \in Nat /\ i \in Nat /\ y \in Nat
      BY ONLY <3>1, <2>1, <2>4, <1>2, <1>0
    <3> HIDE DEF l2
    <3> QED
      BY ONLY <3>2, <3>3
  <2> QED
    BY <2>3, <2>5
<1>13. ASSUME NEW s \in t.rlist, NEW q \in s.seq..(End(s) - 1)
       PROVE  b[l2 + (q - x) + 1] = q
  <2>1. s.seq \in Nat /\ End(s) \in Nat
    BY SMTT(60), <1>2 DEF Range1, End
  <2>2. q \in Nat /\ s.seq <= q /\ q < End(s)
    BY <2>1
  <2>3. End(s) <= Edge(t)
    <3>1. End(s) <= c /\ c <= Edge(t)
      BY <1>1 DEF Pair, c
    <3>2. Edge(t) \in Nat
      BY <1>2
    <3> QED
      BY ONLY <3>1, <3>2, <2>1, <1>2
  <2>4. x <= q /\ l + (q - x) + 1 <= RcvBuf /\ t.rbuf[l + (q - x) + 1] = q
    BY <2>2, <2>3, <1>1, InBuffer
  <2> DEFINE i == l2 + (q - x) + 1
  <2>5. i \in Nat /\ 1 <= i /\ i + m = l + (q - x) + 1
    <3> HIDE DEF l, x
    <3>1. l = l2 + m /\ l2 \in Nat
      BY <1>8
    <3> HIDE DEF l2
    <3> DEFINE d == q - x
    <3>2. d \in Nat
      <4>1. x <= q
        BY <2>4
      <4> QED
        BY ONLY <4>1, <2>2, <1>2
    <3> HIDE DEF d
    <3>3. m \in Nat
      BY ONLY <1>2, <1>0
    <3>4. /\ l2 + d + 1 \in Nat /\ 1 <= l2 + d + 1
          /\ (l2 + d + 1) + m = l + d + 1
      BY ONLY <3>1, <3>2, <3>3
    <3> QED
      BY ONLY <3>4 DEF i, d
  <2>6. b[i] = t.rbuf[i + m]
    <3>1. i + m <= RcvBuf
      BY <2>4, <2>5
    <3> HIDE DEF i
    <3> QED
      BY <3>1, <2>5, <1>9
  <2> QED
    BY <2>4, <2>5, <2>6
<1>14. Receiver(t2, r2)
  BY ONLY <1>3, <1>4, <1>6, <1>7, <1>8, <1>11, <1>12, <1>13 DEF Receiver
<1>15. ReceiverGrows(t, t2)
  BY ONLY <1>2, <1>11 DEF ReceiverGrows, Edge
<1>16. Takes(u, t2)
  BY ONLY <1>1, <1>11 DEF Takes, Pair
<1>17. Fine(e, t2, w, r2, out)
  BY ONLY <1>1, <1>6, <1>11, <1>14, <1>15, <1>16, ReceiverStep, Fine(e, t, w, r, out)
     DEF u
<1> QED
  BY <1>11, <1>17

\* The window opens.
LEMMA OpenedFine ==
    ASSUME NEW e, NEW t, NEW w, NEW r, NEW out, Fine(e, t, w, r, out),
           NEW t2, t2 = Opened(t)
    PROVE  /\ Fine(e, t2, w, r, out) /\ SameSender(t, t2)
           /\ t2.rcvNxt = t.rcvNxt /\ t2.closing = t.closing
<1> DEFINE u == tcp[Peer(e)]
           x == t.rcvNxt
           l == t.rlen
           y == t.rcvWnd
           z == RcvBuf - l
<1>1. /\ t \in Connection /\ u \in Connection /\ r \in Seq(Nat) /\ Receiver(t, r)
      /\ Pair(u, t, written[Peer(e)])
  BY DEF Fine
<1> HIDE DEF u
<1>2. /\ x \in Nat /\ y \in Nat /\ l \in 0..RcvBuf /\ l \in Nat /\ RcvBuf \in Nat
      /\ Edge(t) = x + y /\ y + l <= RcvBuf
  BY <1>1, ConnectionIs DEF Receiver
<1>3. z \in 0..RcvBuf /\ y <= z /\ z + l = RcvBuf /\ z \in Nat
  <2> HIDE DEF x, l, y
  <2> QED
    BY ONLY <1>2 DEF z
<1>4. t2 = [t EXCEPT !.rcvWnd = z]
  BY DEF Opened
<1> HIDE DEF z
<1>5. /\ t2 \in Connection /\ SameSender(t, t2) /\ t2.closing = t.closing
      /\ t2.rbuf = t.rbuf /\ t2.rlen = l /\ t2.rlist = t.rlist
      /\ t2.rcvNxt = x /\ t2.rcvWnd = z
  BY ONLY ZenonT(80), <1>1, <1>3, <1>4 DEF Connection, SameSender
<1>6. Receiver(t2, r)
  <2>1. z + l <= RcvBuf
    BY ONLY <1>2, <1>3
  <2> QED
    BY ONLY <2>1, <1>1, <1>5 DEF Receiver
<1>7. ReceiverGrows(t, t2)
  <2>1. x <= x /\ x + y <= x + z
    <3> HIDE DEF x, y
    <3> QED
      BY ONLY <1>2, <1>3
  <2> QED
    BY ONLY <2>1, <1>5 DEF ReceiverGrows, Edge
<1>8. Takes(u, t2)
  BY ONLY <1>1, <1>5 DEF Takes, Pair
<1>9. Fine(e, t2, w, r, out)
  BY ONLY <1>1, <1>5, <1>6, <1>7, <1>8, ReceiverStep, Fine(e, t, w, r, out) DEF u
<1> QED
  BY <1>5, <1>9

\* The m bytes that are written behind the first w.
NextBytes(w, m) == [i \in 1..m |-> w + i]

\* m bytes more are queued behind the first w.
Writes(t, w, m, data, t2, w2) ==
    /\ t.state = "ESTABLISHED" /\ data = NextBytes(w, m)
    /\ m \in Nat /\ 0 < m /\ m <= SndBuf - Len(t.sbuf)
    /\ t2 = Queue(t, data, FALSE) /\ w2 = w + m /\ w2 + 1 < SeqSpace

\* The program writes m bytes more.
LEMMA WrittenFine ==
    ASSUME NEW e, NEW t, NEW w, NEW r, NEW out, Fine(e, t, w, r, out),
           NEW m, NEW data, NEW t2, NEW w2, Writes(t, w, m, data, t2, w2)
    PROVE  /\ Fine(e, t2, w2, r, out) /\ SameReceiver(t, t2)
           /\ t2.state = t.state /\ t2.sndNxt = t.sndNxt
<1> DEFINE u == tcp[Peer(e)]
           l == Len(t.sbuf)
           b == w + 1
<1>0. /\ m \in Nat /\ 0 < m /\ m <= SndBuf - Len(t.sbuf)
      /\ w2 = w + m /\ w2 + 1 < SeqSpace /\ t2 = Queue(t, data, FALSE)
      /\ t.state = "ESTABLISHED" /\ data = [i \in 1..m |-> w + i]
  BY DEF Writes, NextBytes
<1> USE <1>0
<1>1. /\ t \in Connection /\ u \in Connection /\ w \in Nat /\ w + 1 < SeqSpace
      /\ Sender(t, w) /\ Pair(t, u, w) /\ Role(e, t)
  BY DEF Fine
<1> HIDE DEF u
<1>2. Alive(t)
  BY DEF Alive
<1>3. /\ Buffered(t) /\ t.sndUna + l = b /\ t.sndUna <= t.sndNxt /\ t.sndNxt <= w + 1
      /\ t.recover <= t.sndNxt /\ (t.rtoBase <=> t.sndNxt > t.sndUna)
  <2>1. "ESTABLISHED" # "LISTEN"
    OBVIOUS
  <2> QED
    BY <2>1, <1>2, SenderAlive
<1>4. /\ l \in Nat /\ b \in Nat /\ b < SeqSpace /\ b > 0 /\ t.sndUna \in Nat
      /\ SndBuf \in Nat /\ SeqSpace \in Nat /\ t.sndNxt \in Nat /\ w2 \in Nat
      /\ w2 + 1 < SeqSpace
  BY <1>1, ConnectionIs
<1>5. data \in Seq(Nat) /\ Len(data) = m /\ data # <<>> /\ Bytes(data, b)
  <2>1. data \in Seq(Nat) /\ Len(data) = m /\ \A i \in 1..m : data[i] = w + i
    BY <1>1
  <2>2. data # <<>>
    <3> SUFFICES ASSUME data = <<>> PROVE FALSE
      OBVIOUS
    <3>1. Len(<<>>) = m
      BY ONLY <2>1, data = <<>>
    <3> QED
      BY ONLY <3>1, <1>0
  <2>3. Bytes(data, b)
    <3> SUFFICES ASSUME NEW i \in 1..Len(data) PROVE data[i] = b + i - 1
      BY DEF Bytes
    <3>1. i \in 1..m
      BY <2>1
    <3>2. data[i] = w + i
      BY ONLY <2>1, <3>1
    <3>3. w + i = b + i - 1
      BY ONLY <3>1, <1>1, <1>0
    <3> QED
      BY ONLY <3>2, <3>3
  <2> QED
    BY <2>1, <2>2, <2>3
<1>6. l + Len(data) <= SndBuf /\ Behind(t.slist, b, Len(data), FALSE)
  <2>1. Len(data) = m /\ m <= SndBuf - l
    BY <1>5
  <2>2. l + Len(data) <= SndBuf
    <3> HIDE DEF l
    <3> QED
      BY ONLY <2>1, <1>4, <1>0
  <2>3. Behind(t.slist, b, Len(data), FALSE)
    BY <1>4 DEF Behind
  <2> QED
    BY <2>2, <2>3
<1>7. /\ t2 \in Connection /\ SameReceiver(t, t2) /\ SameNumbers(t, t2)
      /\ Buffered(t2) /\ Len(t2.sbuf) = l + m /\ CutsKept(t, t2)
  <2>1. FALSE \in BOOLEAN /\ b = t.sndUna + Len(t.sbuf)
    BY <1>3
  <2> HIDE DEF b, l
  <2>2. Len(t.sbuf) + Len(data) <= SndBuf
    BY <1>6 DEF l
  <2>3. /\ t2 \in Connection /\ SameReceiver(t, t2) /\ SameNumbers(t, t2)
        /\ Buffered(t2) /\ Len(t2.sbuf) = Len(t.sbuf) + Len(data) /\ CutsKept(t, t2)
    BY ONLY <1>1, <1>3, <1>4, <1>5, <1>6, <2>1, <2>2, QueueDoes, <1>0
  <2> QED
    BY ONLY <2>3, <1>5 DEF l
<1>8. Alive(t2) /\ t2.state = "ESTABLISHED" /\ t2.sndNxt = t.sndNxt /\ Role(e, t2)
  BY <1>7 DEF SameNumbers, Alive, Role
<1>9. Sender(t2, w2)
  <2>1. /\ t2.sndUna + Len(t2.sbuf) = w2 + 1 /\ t.sndNxt <= w2 + 1
    <3>1. Len(t2.sbuf) = l + m /\ t2.sndUna = t.sndUna
      BY <1>7 DEF SameNumbers
    <3> DEFINE a == t.sndUna
               k == Len(t2.sbuf)
               n == t.sndNxt
    <3>2. /\ k = l + m /\ a + l = w + 1 /\ a \in Nat /\ l \in Nat /\ m \in Nat /\ w \in Nat
          /\ n <= w + 1 /\ n \in Nat
      BY <3>1, <1>1, <1>3, <1>4
    <3>3. a + k = w2 + 1 /\ n <= w2 + 1
      <4> HIDE DEF a, k, l, n
      <4> QED
        BY ONLY <3>2, <1>0
    <3> QED
      BY <3>1, <3>3
  <2>2. /\ t2.sndUna <= t2.sndNxt /\ t2.recover <= t2.sndNxt
        /\ (t2.rtoBase <=> t2.sndNxt > t2.sndUna) /\ t2.state \notin Opening
        /\ t2.state # "LISTEN"
    BY <1>3, <1>7, <1>8 DEF SameNumbers, Opening
  <2> QED
    BY <2>1, <2>2, <1>7, <1>8 DEF Sender, Buffered
<1>10. Sends(t2, u, w2)
  BY <1>1, <1>7 DEF Sends, Pair, SameNumbers
<1>11. SenderGrows(t, t2)
  <2>1. \A k \in Nat : k <= t.sndNxt /\ Uncut(t.slist, k) => Uncut(t2.slist, k)
    BY <1>7 DEF CutsKept
  <2> QED
    BY ONLY <2>1, <1>2, <1>4, <1>8 DEF SenderGrows
<1>12. Fine(e, t2, w2, r, out)
  BY ONLY <1>4, <1>7, <1>8, <1>9, <1>10, <1>11, SenderStep, Fine(e, t, w, r, out) DEF u
<1> QED
  BY <1>7, <1>8, <1>12

\* The other end was heard of when nothing was sent before.
LEMMA HeardStays ==
    ASSUME NEW e, NEW t, Heard(e, t), NEW t2, t.rcvNxt \in Nat, t2.rcvNxt \in Nat,
           t.rcvNxt <= t2.rcvNxt,
           t2.rcvNxt > 0 \/ (t2.state = t.state /\ t2.sndNxt = t.sndNxt)
             \/ (Alive(t) /\ t.state # "LISTEN")
    PROVE  Heard(e, t2)
  BY DEF Heard, Alive

\* The end neither writes nor reads.
LEMMA StepStays ==
    ASSUME TcpInv, NEW e \in Side, NEW t,
           Fine(e, t, written[e], received[e], net'[Peer(e)]), Heard(e, t),
           tcp' = [tcp EXCEPT ![e] = t], UNCHANGED <<written, received>>,
           NetKeeps(e), SendingKeeps(e, t), EventsKeep(e, t),
           repeats' \in 0..MaxRepeats
    PROVE  TcpInv'
<1> DEFINE w == written[e]
           r == received[e]
<1>1. /\ w <= MaxWritten[e]
      /\ written' = [written EXCEPT ![e] = w]
      /\ received' = [received EXCEPT ![e] = r]
  BY DEF TcpInv, Types
<1>2. Fine(e, t, w, r, net'[Peer(e)])
  OBVIOUS
<1> HIDE DEF w, r
<1> QED
  BY ONLY <1>1, <1>2, TcpInv, e \in Side, Heard(e, t), tcp' = [tcp EXCEPT ![e] = t],
          NetKeeps(e), SendingKeeps(e, t), EventsKeep(e, t),
          repeats' \in 0..MaxRepeats, StepKeeps

\* No packet is sent or taken.
LEMMA NetStays ==
    ASSUME TcpInv, NEW e \in Side, UNCHANGED net
    PROVE  NetKeeps(e)
  BY DEF TcpInv, Types, NetKeeps

\* attemptSend does not run.
LEMMA SendingStays ==
    ASSUME TcpInv, NEW e \in Side, NEW t, Free,
           UNCHANGED sending \/ sending' = Idle
    PROVE  SendingKeeps(e, t)
  BY Sides DEF TcpInv, Types, SendingKeeps, Free

\* attemptSend starts or goes on.
LEMMA SendingStarts ==
    ASSUME NEW e \in Side, NEW t, Alive(t),
           NEW f \in {"none", "delayed", "immediate"}, NEW b \in BOOLEAN,
           AttemptSend(e, f, b)
    PROVE  SendingKeeps(e, t)
  BY DEF SendingKeeps, AttemptSend

\* No event is posted or taken.
LEMMA EventsStay ==
    ASSUME TcpInv, NEW e \in Side, NEW t, t.closing => tcp[e].closing,
           UNCHANGED events
    PROVE  EventsKeep(e, t)
  BY DEF TcpInv, Types, EventsKeep

\* Events are posted to the stream of one end.
LEMMA EventsPosted ==
    ASSUME TcpInv, NEW e \in Side, NEW t, NEW t2, t2.closing => t.closing,
           NEW E \in SUBSET {"read", "write", "close"}, Post(e, t, E)
    PROVE  EventsKeep(e, t2)
<1>1. Peer(e) \in Side /\ Peer(e) # e
  BY Sides
<1>2. events \in [Side -> SUBSET {"read", "write", "close"}]
  BY DEF TcpInv, Types
<1> QED
  BY <1>1, <1>2 DEF Post, EventsKeep

\* What Handle's Finish does: the packet p arrives at a connection t, and out
\* is under way to the other end.
LEMMA FinishKeeps ==
    ASSUME TcpInv, NEW e \in Side, NEW p \in net[e], NEW t0, NEW t,
           Fine(e, t, written[e], received[e], net'[Peer(e)]), Alive(t),
           t.rcvNxt = tcp[e].rcvNxt, t.closing = tcp[e].closing,
           t0.closing = tcp[e].closing, Alive(tcp[e]),
           ~p.ctl /\ tcp[e].state = "LISTEN" =>
             t.state = "LISTEN" /\ t.sndNxt = tcp[e].sndNxt,
           tcp' = [tcp EXCEPT ![e] = Received(t, p)],
           AttemptSend(e, AckFlags(t, p), Received(t, p).rlen > t.rlen),
           Post(e, t0, Events(t0, t)), NetKeeps(e),
           UNCHANGED <<written, received>>, repeats' \in 0..MaxRepeats
    PROVE  TcpInv'
<1> DEFINE v == Received(t, p)
           w == written[e]
           r == received[e]
           out == net'[Peer(e)]
           b == v.rlen > t.rlen
<1>1. /\ Fine(e, v, w, r, out) /\ SameSender(t, v)
      /\ t.rcvNxt <= v.rcvNxt /\ v.closing = t.closing
      /\ p.ctl => v.rcvNxt > 0
  <2>1. Fine(e, t, w, r, out) /\ v = Received(t, p)
    OBVIOUS
  <2> HIDE DEF v, w, r, out
  <2> QED
    BY ONLY <2>1, ReceivedFine, p \in net[e]
<1>2. v \in Connection /\ tcp[e] \in Connection /\ p \in PacketType
  <2>1. tcp[e] \in Connection /\ p \in PacketType
    BY DEF TcpInv, Types
  <2>2. v \in Connection
    BY <1>1 DEF Fine
  <2> QED
    BY <2>1, <2>2
<1>3. Heard(e, v)
  <2>1. Heard(e, tcp[e])
    BY DEF TcpInv
  <2>2. v.rcvNxt \in Nat /\ tcp[e].rcvNxt \in Nat /\ tcp[e].rcvNxt <= v.rcvNxt
    <3> HIDE DEF v
    <3> QED
      BY <1>1, <1>2, ConnectionIs
  <2>3. v.rcvNxt > 0 \/ (v.state = tcp[e].state /\ v.sndNxt = tcp[e].sndNxt)
          \/ (Alive(tcp[e]) /\ tcp[e].state # "LISTEN")
    <3>1. p.ctl \in BOOLEAN
      BY <1>2, PacketIs
    <3> HIDE DEF v
    <3> QED
      BY <3>1, <1>1 DEF SameSender
  <2> HIDE DEF v
  <2> QED
    BY ONLY <2>1, <2>2, <2>3, HeardStays
<1>4. SendingKeeps(e, v)
  <2>1. Alive(v)
    BY <1>1 DEF SameSender, Alive
  <2>2. AckFlags(t, p) \in {"none", "delayed", "immediate"}
    BY DEF AckFlags
  <2>3. b \in BOOLEAN /\ AttemptSend(e, AckFlags(t, p), b)
    OBVIOUS
  <2> HIDE DEF v, b
  <2> QED
    BY ONLY <2>1, <2>2, <2>3, e \in Side, SendingStarts
<1>5. EventsKeep(e, v)
  <2>1. Events(t0, t) \in SUBSET {"read", "write", "close"}
    BY DEF Events
  <2>2. v.closing => t0.closing
    BY <1>1
  <2> HIDE DEF v
  <2> QED
    BY ONLY <2>1, <2>2, TcpInv, e \in Side, Post(e, t0, Events(t0, t)), EventsPosted
<1> QED
  <2>1. Fine(e, v, written[e], received[e], net'[Peer(e)])
    BY <1>1
  <2>2. tcp' = [tcp EXCEPT ![e] = v]
    OBVIOUS
  <2> HIDE DEF v
  <2> QED
    BY ONLY <2>1, <2>2, <1>3, <1>4, <1>5, TcpInv, e \in Side, NetKeeps(e),
            UNCHANGED <<written, received>>, repeats' \in 0..MaxRepeats, StepStays

\* A packet arrives.
LEMMA HandleKeeps ==
    ASSUME NoWrap, TcpInv, NEW e \in Side, Free, Live(e), NEW p \in net[e],
           NEW packets \in [Side -> SUBSET PacketType],
           packets[e] \subseteq net[e], packets[Peer(e)] = net[Peer(e)],
           Handle(e, p, packets),
           UNCHANGED <<written, received>>, repeats' \in 0..MaxRepeats
    PROVE  TcpInv'
<1> DEFINE t == [tcp[e] EXCEPT !.silent = 0]
           u == Connected(t, p)
           v == AckHandled(u, p)
           w == written[e]
           r == received[e]
           out == net[Peer(e)]
           Finish(x) ==
             /\ tcp' = [tcp EXCEPT ![e] = Received(x, p)]
             /\ AttemptSend(e, AckFlags(x, p), Received(x, p).rlen > x.rlen)
             /\ Post(e, t, Events(t, x))
<1>1. Fine(e, tcp[e], w, r, out) /\ Heard(e, tcp[e])
  BY FineIs
<1>2. Alive(tcp[e]) /\ tcp[e] \in Connection
  BY DEF TcpInv, Types, Live, Alive
<1>3. /\ t \in Connection /\ SameSender(tcp[e], t) /\ SameReceiver(tcp[e], t)
  <2> DEFINE t0 == tcp[e]
  <2>1. t0 \in Connection /\ t = [t0 EXCEPT !.silent = 0]
    BY <1>2
  <2> HIDE DEF t0, t
  <2>2. t \in Connection /\ SameSender(t0, t) /\ SameReceiver(t0, t)
    BY ONLY <2>1 DEF Connection, SameSender, SameReceiver
  <2> QED
    BY <2>2 DEF t0
<1>4. \/ /\ ~Retransmits(u, p)
         /\ Finish(v) /\ net' = packets
      \/ /\ Retransmits(u, p) /\ v.slist[1].xmit >= XmitLimit(v)
         /\ tcp' = [tcp EXCEPT ![e] = Adjusted(Closed(v))]
         /\ Post(e, t, {"close"})
         /\ net' = packets /\ UNCHANGED sending
      \/ /\ Retransmits(u, p)
         /\ \E mss \in PathMss(v, 1) :
              /\ Finish(Transmitted(v, 1, mss))
              /\ net' \in Sent(packets, e, SegmentPacket(v, 1, mss))
  <2>1. Handle(e, p, packets)
    OBVIOUS
  <2> QED
    BY ONLY <2>1 DEF Handle
<1> HIDE DEF w, r, out, t
<1>5. Fine(e, t, w, r, out) /\ Alive(t)
  <2>1. Fine(e, t, w, r, out)
    BY ONLY <1>1, <1>3, Quiet
  <2> QED
    BY ONLY <2>1, <1>2, <1>3 DEF Alive, SameSender
<1>6. /\ Fine(e, u, w, r, out) /\ SameReceiver(t, u) /\ Alive(u)
      /\ u.sndNxt = t.sndNxt
      /\ ~p.ctl => u = t
  <2>1. u = Connected(t, p)
    OBVIOUS
  <2>2. ~p.ctl => u = t
    BY DEF Connected
  <2> HIDE DEF u
  <2>3. /\ Fine(e, u, w, r, out) /\ SameReceiver(t, u) /\ Alive(u)
        /\ u.sndNxt = t.sndNxt
    BY ONLY <2>1, <1>5, p \in net[e], e \in Side, ConnectedFine
  <2> QED
    BY <2>2, <2>3
<1> HIDE DEF u
<1>7. /\ Fine(e, v, w, r, out) /\ SameReceiver(u, v) /\ Alive(v)
      /\ v.sndNxt = u.sndNxt
      /\ u.state = "LISTEN" => v.state = "LISTEN"
      /\ Retransmits(u, p) => /\ v.slist # <<>> /\ 1 \in 1..Len(v.slist)
                              /\ v.slist[1].xmit # 0
  <2>1. v = AckHandled(u, p)
    OBVIOUS
  <2> HIDE DEF v
  <2> QED
    BY ONLY <2>1, <1>6, p \in net[e], AckHandledFine
<1> HIDE DEF v
<1>8. /\ v.rcvNxt = tcp[e].rcvNxt /\ v.closing = tcp[e].closing
      /\ t.closing = tcp[e].closing
  BY ONLY <1>3, <1>6, <1>7 DEF SameReceiver
<1>9. ~p.ctl /\ tcp[e].state = "LISTEN" =>
        v.state = "LISTEN" /\ v.sndNxt = tcp[e].sndNxt
  <2>1. t.state = tcp[e].state /\ t.sndNxt = tcp[e].sndNxt
    BY ONLY <1>3 DEF SameSender
  <2> QED
    BY ONLY <2>1, <1>6, <1>7
<1>10. tcp[e].state = "LISTEN" => ~Retransmits(u, p)
  <2> SUFFICES ASSUME tcp[e].state = "LISTEN" PROVE ~Retransmits(u, p)
    OBVIOUS
  <2>1. t.state = "LISTEN"
    BY <1>3 DEF SameSender
  <2>2. u.sndNxt = 0
    BY ONLY <2>1, <1>5, <1>6, NothingQueued
  <2>3. u.sndUna \in Nat /\ u.sndUna <= u.sndNxt /\ p.ack \in Nat
    <3>1. u \in Connection /\ Sender(u, w)
      BY ONLY <1>6 DEF Fine
    <3>2. p \in PacketType
      BY DEF TcpInv, Types
    <3> QED
      BY ONLY <3>1, <3>2, ConnectionIs, PacketIs DEF Sender
  <2> QED
    BY ONLY <2>2, <2>3 DEF Retransmits, Acknowledges
<1>11. packets[Peer(e)] = out
  BY DEF out
<1>12. CASE ~Retransmits(u, p) /\ Finish(v) /\ net' = packets
  <2>1. NetKeeps(e)
    BY ONLY <1>12, packets \in [Side -> SUBSET PacketType], packets[e] \subseteq net[e]
       DEF NetKeeps
  <2>2. Fine(e, v, written[e], received[e], net'[Peer(e)])
    BY ONLY <1>7, <1>11, <1>12 DEF w, r
  <2>3. /\ tcp' = [tcp EXCEPT ![e] = Received(v, p)]
        /\ AttemptSend(e, AckFlags(v, p), Received(v, p).rlen > v.rlen)
        /\ Post(e, t, Events(t, v))
    BY <1>12
  <2> HIDE DEF Finish
  <2> QED
    BY ONLY <2>1, <2>2, <2>3, <1>2, <1>7, <1>8, <1>9, TcpInv, e \in Side, p \in net[e],
            UNCHANGED <<written, received>>, repeats' \in 0..MaxRepeats, FinishKeeps
<1>13. CASE /\ Retransmits(u, p)
            /\ tcp' = [tcp EXCEPT ![e] = Adjusted(Closed(v))]
            /\ Post(e, t, {"close"})
            /\ net' = packets /\ UNCHANGED sending
  <2> DEFINE x == Closed(v)
             y == Adjusted(x)
  <2>1. Fine(e, x, w, r, out) /\ x.closing = v.closing /\ x.rcvNxt = v.rcvNxt
    <3>1. Fine(e, x, w, r, out)
      BY <1>7, ClosedFine
    <3>2. v \in Connection
      BY <1>7 DEF Fine
    <3>3. x.closing = v.closing /\ x.rcvNxt = v.rcvNxt
      BY ONLY <3>2 DEF Closed, Connection
    <3> QED
      BY <3>1, <3>3
  <2> HIDE DEF x
  <2>2. Fine(e, y, w, r, out) /\ y.closing = v.closing /\ y.rcvNxt = v.rcvNxt
    <3>1. Fine(e, y, w, r, out)
      BY <2>1, AdjustedFine
    <3>2. x \in Connection
      BY <2>1 DEF Fine
    <3>3. y.closing = x.closing /\ y.rcvNxt = x.rcvNxt
      BY ONLY <3>2 DEF Adjusted, Connection
    <3> QED
      BY <2>1, <3>1, <3>3
  <2>3. tcp' = [tcp EXCEPT ![e] = y]
    BY ONLY <1>13 DEF x
  <2> HIDE DEF y
  <2>4. Heard(e, y)
    <3>1. tcp[e].state # "LISTEN"
      BY <1>10, <1>13
    <3>2. y.rcvNxt \in Nat /\ tcp[e].rcvNxt \in Nat /\ tcp[e].rcvNxt <= y.rcvNxt
      BY ONLY <2>2, <1>2, <1>8, ConnectionIs
    <3> QED
      BY ONLY <3>1, <3>2, <1>1, <1>2, HeardStays
  <2>5. NetKeeps(e)
    BY ONLY <1>13, packets \in [Side -> SUBSET PacketType], packets[e] \subseteq net[e]
       DEF NetKeeps
  <2>6. Fine(e, y, written[e], received[e], net'[Peer(e)])
    BY ONLY <2>2, <1>11, <1>13 DEF w, r
  <2>7. SendingKeeps(e, y)
    BY ONLY <1>13, TcpInv, e \in Side, Free, SendingStays
  <2>8. EventsKeep(e, y)
    <3> DEFINE E == {"close"}
    <3>1. E \in SUBSET {"read", "write", "close"} /\ Post(e, t, E)
          /\ (y.closing => t.closing)
      BY <2>2, <1>8, <1>13
    <3> HIDE DEF E
    <3> QED
      BY ONLY <3>1, TcpInv, e \in Side, EventsPosted
  <2> QED
    BY ONLY <2>3, <2>4, <2>5, <2>6, <2>7, <2>8, TcpInv, e \in Side,
            UNCHANGED <<written, received>>, repeats' \in 0..MaxRepeats, StepStays
<1>14. ASSUME NEW mss \in PathMss(v, 1), Retransmits(u, p),
              Finish(Transmitted(v, 1, mss)),
              net' \in Sent(packets, e, SegmentPacket(v, 1, mss))
       PROVE  TcpInv'
  <2> DEFINE x == Transmitted(v, 1, mss)
             s == SegmentPacket(v, 1, mss)
  <2>1. /\ Fine(e, x, w, r, out) /\ Fine(e, x, w, r, out \cup {s})
        /\ SameReceiver(v, x) /\ x.state = v.state
    <3>1. /\ Fine(e, v, w, r, out) /\ Alive(v) /\ 1 \in 1..Len(v.slist)
          /\ v.slist[1].xmit # 0
      BY <1>7, <1>14
    <3>2. mss \in PathMss(v, 1) /\ x = Transmitted(v, 1, mss)
      BY <1>14
    <3>3. s = SegmentPacket(v, 1, mss)
      OBVIOUS
    <3> HIDE DEF x, s
    <3>4. /\ Fine(e, x, w, r, out)
          /\ Fine(e, x, w, r, out \cup {SegmentPacket(v, 1, mss)})
          /\ SameReceiver(v, x) /\ x.state = v.state
      BY ONLY <3>1, <3>2, RetransmitFine
    <3> QED
      BY ONLY <3>3, <3>4
  <2>2. s \in PacketType
    BY <2>1 DEF Fine
  <2>3. /\ net' \in [Side -> SUBSET PacketType] /\ net'[e] = packets[e]
        /\ net'[Peer(e)] = out \/ net'[Peer(e)] = out \cup {s}
    <3>1. net' \in Sent(packets, e, s)
      BY <1>14
    <3> HIDE DEF s
    <3> QED
      BY ONLY <3>1, <2>2, <1>11, e \in Side, packets \in [Side -> SUBSET PacketType], SentIs
  <2>4. /\ tcp' = [tcp EXCEPT ![e] = Received(x, p)]
        /\ AttemptSend(e, AckFlags(x, p), Received(x, p).rlen > x.rlen)
        /\ Post(e, t, Events(t, x))
    BY <1>14
  <2> HIDE DEF x, s, Finish
  <2>5. NetKeeps(e)
    BY ONLY <2>3, packets[e] \subseteq net[e] DEF NetKeeps
  <2>6. Fine(e, x, written[e], received[e], net'[Peer(e)])
    BY ONLY <2>1, <2>3 DEF w, r
  <2>7. Alive(x) /\ x.rcvNxt = tcp[e].rcvNxt /\ x.closing = tcp[e].closing
    BY ONLY <2>1, <1>7, <1>8 DEF Alive, SameReceiver
  <2>8. ~p.ctl /\ tcp[e].state = "LISTEN" =>
          x.state = "LISTEN" /\ x.sndNxt = tcp[e].sndNxt
    BY ONLY <1>9, <1>10, <1>14
  <2> QED
    BY ONLY <2>4, <2>5, <2>6, <2>7, <2>8, <1>2, <1>8, TcpInv, e \in Side, p \in net[e],
            UNCHANGED <<written, received>>, repeats' \in 0..MaxRepeats, FinishKeeps
<1> QED
  <2> HIDE DEF Finish
  <2> QED
    BY ONLY <1>4, <1>12, <1>13, <1>14

----------------------------------------------------------------------------
(* The steps *)

\* The initiator connects.
LEMMA ConnectKeeps ==
    ASSUME NoWrap, TcpInv, Connect
    PROVE  TcpInv'
<1> DEFINE e == Initiator
           t == tcp[e]
           w == written[e]
           r == received[e]
           out == net[Peer(e)]
           s == "SYN_SENT"
           t2 == Opens(t, s)
<1>1. e \in Side
  BY DEF Side
<1>2. Fine(e, t, w, r, out)
  BY <1>1, FineIs
<1>3. /\ t.state = "LISTEN" /\ tcp' = [tcp EXCEPT ![e] = t2]
      /\ AttemptSend(e, "none", FALSE)
      /\ UNCHANGED <<net, events, repeats, written, received>>
  BY DEF Connect, Opens
<1>4. s = IF e = Initiator THEN "SYN_SENT" ELSE "SYN_RECEIVED"
  OBVIOUS
<1>5. t2 = Opens(t, s)
  OBVIOUS
<1>6. Heard(e, t2)
  BY PseudoTcpAssumption DEF Heard
<1>7. repeats' \in 0..MaxRepeats
  BY <1>3 DEF TcpInv, Types
<1>8. t \in Connection /\ "SYN_SENT" = s
  BY <1>2 DEF Fine
<1> HIDE DEF t2, s, e
<1>9. /\ Fine(e, t2, w, r, out) /\ SameReceiver(t, t2) /\ t2.state = s
  <2> HIDE DEF t, w, r, out
  <2>1. t.state = "LISTEN"
    BY <1>3
  <2> QED
    BY ONLY <2>1, <1>2, <1>4, <1>5, OpensFine
<1>10. NetKeeps(e)
  BY ONLY <1>1, <1>3, TcpInv, NetStays
<1>11. SendingKeeps(e, t2)
  <2> DEFINE f == "none"
             b == FALSE
  <2>1. f \in {"none", "delayed", "immediate"} /\ b \in BOOLEAN /\ AttemptSend(e, f, b)
    BY <1>3
  <2>2. Alive(t2)
    BY ONLY <1>8, <1>9 DEF Alive
  <2> HIDE DEF f, b
  <2> QED
    BY ONLY <2>1, <2>2, <1>1, SendingStarts
<1>12. EventsKeep(e, t2)
  <2>1. t2.closing => tcp[e].closing
    BY ONLY <1>9 DEF SameReceiver
  <2> QED
    BY ONLY <2>1, <1>1, <1>3, TcpInv, EventsStay
<1>13. Fine(e, t2, written[e], received[e], net'[Peer(e)])
  BY ONLY <1>3, <1>9
<1> QED
  BY ONLY <1>1, <1>3, <1>6, <1>7, <1>10, <1>11, <1>12, <1>13, TcpInv, StepStays

\* The program closes its stream.
LEMMA CloseKeeps ==
    ASSUME NoWrap, TcpInv, NEW e \in Side, Close(e)
    PROVE  TcpInv'
<1> DEFINE t == tcp[e]
           w == written[e]
           r == received[e]
           out == net[Peer(e)]
           u == [t EXCEPT !.closing = TRUE]
           t2 == Adjusted(u)
<1>1. Fine(e, t, w, r, out) /\ Heard(e, t)
  BY FineIs
<1>2. /\ tcp' = [tcp EXCEPT ![e] = t2] /\ events' = [events EXCEPT ![e] = {}]
      /\ UNCHANGED <<sending, net, repeats, written, received>> /\ Free
  BY DEF Close
<1>3. u = [t EXCEPT !.closing = TRUE] /\ t2 = Adjusted(u)
  OBVIOUS
<1>4. Fine(e, u, w, r, out) /\ SameSender(t, u) /\ u.rcvNxt = t.rcvNxt
  <2> HIDE DEF u, t, w, r, out
  <2> QED
    BY ONLY <1>1, <1>3, ClosingFine
<1> HIDE DEF u, t2
<1>5. Heard(e, u)
  BY ONLY <1>1, <1>4 DEF SameSender, Heard, Alive
<1>6. Fine(e, t2, w, r, out) /\ Heard(e, t2)
  BY ONLY <1>3, <1>4, <1>5, AdjustedFine
<1>7. NetKeeps(e)
  BY ONLY <1>2, TcpInv, e \in Side, NetStays
<1>8. SendingKeeps(e, t2)
  BY ONLY <1>2, TcpInv, e \in Side, SendingStays
<1>9. EventsKeep(e, t2)
  <2>1. events \in [Side -> SUBSET {"read", "write", "close"}]
    BY DEF TcpInv, Types
  <2> QED
    BY ONLY <2>1, <1>2, e \in Side, Sides DEF EventsKeep
<1>10. repeats' \in 0..MaxRepeats
  BY <1>2 DEF TcpInv, Types
<1>11. Fine(e, t2, written[e], received[e], net'[Peer(e)])
  BY ONLY <1>2, <1>6
<1> QED
  BY ONLY <1>2, <1>6, <1>7, <1>8, <1>9, <1>10, <1>11, TcpInv, e \in Side, StepStays

\* A clock ends the connection.
LEMMA CloseDownKeeps ==
    ASSUME NoWrap, TcpInv, NEW e \in Side, Free, CloseDown(e),
           UNCHANGED <<sending, repeats, written, received>>
    PROVE  TcpInv'
<1> DEFINE t == tcp[e]
           w == written[e]
           r == received[e]
           out == net[Peer(e)]
           u == Closed(t)
           t2 == Adjusted(u)
<1>1. Fine(e, t, w, r, out) /\ Heard(e, t)
  BY FineIs
<1>2. /\ tcp' = [tcp EXCEPT ![e] = t2] /\ Post(e, t, {"close"}) /\ UNCHANGED net
  BY DEF CloseDown
<1>3. t2 = Adjusted(u) /\ t2.closing = t.closing /\ Heard(e, u)
  <2>1. t \in Connection
    BY <1>1 DEF Fine
  <2> HIDE DEF t
  <2>2. /\ u.closing = t.closing /\ u.rcvNxt = t.rcvNxt /\ u.sndNxt = t.sndNxt
        /\ u.state = "CLOSED"
    BY ONLY <2>1 DEF Closed, Connection
  <2>3. u \in Connection
    <3>1. << >> \in Seq(Nat)
      OBVIOUS
    <3> QED
      BY ONLY <2>1, <3>1 DEF Closed, Connection, States
  <2>4. t2.closing = u.closing
    <3> HIDE DEF u
    <3> QED
      BY ONLY <2>3 DEF Adjusted, Connection
  <2>5. Heard(e, u)
    BY ONLY <1>1, <2>2 DEF Heard, Alive
  <2> QED
    BY <2>2, <2>4, <2>5
<1>4. Fine(e, u, w, r, out)
  BY <1>1, ClosedFine
<1> HIDE DEF u, t2
<1>5. Fine(e, t2, w, r, out) /\ Heard(e, t2)
  BY ONLY <1>3, <1>4, AdjustedFine
<1>6. NetKeeps(e)
  BY ONLY <1>2, TcpInv, e \in Side, NetStays
<1>7. SendingKeeps(e, t2)
  BY ONLY UNCHANGED <<sending, repeats, written, received>>, Free, TcpInv, e \in Side,
     SendingStays
<1>8. EventsKeep(e, t2)
  <2> DEFINE E == {"close"}
  <2>1. E \in SUBSET {"read", "write", "close"} /\ Post(e, t, E)
        /\ (t2.closing => t.closing)
    BY <1>2, <1>3
  <2> HIDE DEF E
  <2> QED
    BY ONLY <2>1, TcpInv, e \in Side, EventsPosted
<1>9. repeats' \in 0..MaxRepeats
  BY DEF TcpInv, Types
<1>10. Fine(e, t2, written[e], received[e], net'[Peer(e)])
  BY ONLY <1>2, <1>5
<1> QED
  BY ONLY <1>2, <1>5, <1>6, <1>7, <1>8, <1>9, <1>10, TcpInv, e \in Side,
     UNCHANGED <<sending, repeats, written, received>>, StepStays

\* A packet without data is sent or not, and the clock of the channel is set.
LEMMA BareKeeps ==
    ASSUME NoWrap, TcpInv, NEW e \in Side, NEW n \in Nat,
           net' \in Sent(net, e, Packet(tcp[e], n, FALSE, << >>)),
           NEW u \in Connection, SameSender(tcp[e], u), SameReceiver(tcp[e], u),
           tcp' = [tcp EXCEPT ![e] = Adjusted(u)],
           SendingKeeps(e, Adjusted(u)), EventsKeep(e, Adjusted(u)),
           UNCHANGED <<written, received>>, repeats' \in 0..MaxRepeats
    PROVE  TcpInv'
<1> DEFINE t == tcp[e]
           w == written[e]
           r == received[e]
           out == net[Peer(e)]
           p == Packet(t, n, FALSE, << >>)
           out2 == net'[Peer(e)]
           t2 == Adjusted(u)
<1>1. Fine(e, t, w, r, out) /\ Heard(e, t)
  BY FineIs
<1>2. net \in [Side -> SUBSET PacketType]
  BY DEF TcpInv, Types
<1>3. Fine(e, t, w, r, out \cup {p})
  <2> HIDE DEF t, w, r, out
  <2> QED
    BY ONLY <1>1, n \in Nat, BareFine DEF p
<1>4. p \in PacketType
  BY <1>3 DEF Fine
<1>5. net' \in Sent(net, e, p)
  OBVIOUS
<1> HIDE DEF p
<1>6. /\ net' \in [Side -> SUBSET PacketType] /\ net'[e] = net[e]
      /\ out2 = out \/ out2 = out \cup {p}
  BY ONLY <1>2, <1>4, <1>5, e \in Side, SentIs
<1> HIDE DEF out, out2
<1>7. Fine(e, t, w, r, out2)
  BY ONLY <1>1, <1>3, <1>6
<1>8. Fine(e, u, w, r, out2)
  BY ONLY <1>7, u \in Connection, SameSender(tcp[e], u), SameReceiver(tcp[e], u), Quiet
<1>9. Heard(e, u)
  BY <1>1 DEF Heard, Alive, SameSender, SameReceiver
<1>10. Fine(e, t2, w, r, out2) /\ Heard(e, t2)
  BY ONLY <1>8, <1>9, AdjustedFine
<1>11. NetKeeps(e)
  BY ONLY <1>6 DEF NetKeeps
<1>12. /\ tcp' = [tcp EXCEPT ![e] = t2] /\ SendingKeeps(e, t2) /\ EventsKeep(e, t2)
  OBVIOUS
<1> HIDE DEF t2
<1>13. Fine(e, t2, written[e], received[e], net'[Peer(e)])
  BY ONLY <1>10 DEF out2
<1> QED
  BY ONLY <1>10, <1>11, <1>12, <1>13, TcpInv, e \in Side, UNCHANGED <<written, received>>,
     repeats' \in 0..MaxRepeats, StepStays

\* AdjustClock does not change whether the stream is closed.
LEMMA AdjustedCloses ==
    ASSUME NEW u \in Connection
    PROVE  Adjusted(u).closing = u.closing
  BY DEF Adjusted, Connection

\* The peer is asked whether its window is still closed.
LEMMA ProbeKeeps ==
    ASSUME NoWrap, TcpInv, NEW e \in Side, Probe(e)
    PROVE  TcpInv'
<1> DEFINE t == tcp[e]
           u == [t EXCEPT !.silent = @ + 1, !.tAck = FALSE]
           n == Minus(t.sndNxt, 1)
<1>1. Free /\ UNCHANGED <<sending, repeats, written, received>>
  BY DEF Probe
<1>2. CASE CloseDown(e)
  BY ONLY <1>1, <1>2, NoWrap, TcpInv, e \in Side, CloseDownKeeps
<1>3. CASE /\ net' \in Sent(net, e, Packet(t, n, FALSE, << >>))
           /\ tcp' = [tcp EXCEPT ![e] = Adjusted(u)]
           /\ UNCHANGED events
  <2>1. t \in Connection
    BY DEF TcpInv, Types
  <2>2. n \in Nat
    <3>1. t.sndNxt \in Nat
      BY <2>1, ConnectionIs
    <3>2. t.sndUna \in Nat /\ SeqSpace \in Nat /\ SeqSpace > 0
      BY <2>1, ConnectionIs, PseudoTcpAssumption
    <3> QED
      BY <3>1, <3>2, MinusNat
  <2>3. u \in Connection /\ SameSender(t, u) /\ SameReceiver(t, u) /\ u.closing = t.closing
    <3> DEFINE k == t.silent + 1
    <3>1. k \in Nat
      BY <2>1, ConnectionIs
    <3>2. u = [t EXCEPT !.silent = k, !.tAck = FALSE]
      OBVIOUS
    <3> HIDE DEF k, t, u
    <3> QED
      BY ONLY <2>1, <3>1, <3>2 DEF Connection, SameSender, SameReceiver
  <2> HIDE DEF u, n
  <2>4. SendingKeeps(e, Adjusted(u))
    BY ONLY <1>1, TcpInv, e \in Side, SendingStays
  <2>5. EventsKeep(e, Adjusted(u))
    <3>1. Adjusted(u).closing => tcp[e].closing
      BY <2>3, AdjustedCloses
    <3> QED
      BY ONLY <3>1, <1>3, TcpInv, e \in Side, EventsStay
  <2>6. repeats' \in 0..MaxRepeats
    BY <1>1 DEF TcpInv, Types
  <2> QED
    BY ONLY <1>1, <1>3, <2>2, <2>3, <2>4, <2>5, <2>6, NoWrap, TcpInv, e \in Side, BareKeeps
<1> QED
  BY <1>2, <1>3 DEF Probe

\* The clock of the delayed acknowledgement is due.
LEMMA DelayedAckKeeps ==
    ASSUME NoWrap, TcpInv, NEW e \in Side, DelayedAck(e)
    PROVE  TcpInv'
<1> DEFINE t == tcp[e]
           u == [t EXCEPT !.tAck = FALSE]
           n == t.sndNxt
<1>1. /\ Free /\ UNCHANGED <<sending, events, repeats, written, received>>
      /\ net' \in Sent(net, e, Packet(t, n, FALSE, << >>))
      /\ tcp' = [tcp EXCEPT ![e] = Adjusted(u)]
  BY DEF DelayedAck
<1>2. t \in Connection
  BY DEF TcpInv, Types
<1>3. n \in Nat
  BY <1>2, ConnectionIs
<1>4. u \in Connection /\ SameSender(t, u) /\ SameReceiver(t, u) /\ u.closing = t.closing
  <2>1. u = [t EXCEPT !.tAck = FALSE]
    OBVIOUS
  <2> HIDE DEF t, u
  <2> QED
    BY ONLY <1>2, <2>1 DEF Connection, SameSender, SameReceiver
<1> HIDE DEF u, n
<1>5. SendingKeeps(e, Adjusted(u))
  BY ONLY <1>1, TcpInv, e \in Side, SendingStays
<1>6. EventsKeep(e, Adjusted(u))
  <2>1. Adjusted(u).closing => tcp[e].closing
    BY <1>4, AdjustedCloses
  <2> QED
    BY ONLY <2>1, <1>1, TcpInv, e \in Side, EventsStay
<1>7. repeats' \in 0..MaxRepeats
  BY <1>1 DEF TcpInv, Types
<1> QED
  BY ONLY <1>1, <1>3, <1>4, <1>5, <1>6, <1>7, NoWrap, TcpInv, e \in Side, BareKeeps

\* An acknowledgement is overdue.
LEMMA RetransmitKeeps ==
    ASSUME NoWrap, TcpInv, NEW e \in Side, Retransmit(e)
    PROVE  TcpInv'
<1> DEFINE t == tcp[e]
           w == written[e]
           r == received[e]
           out == net[Peer(e)]
           out2 == net'[Peer(e)]
<1>1. Fine(e, t, w, r, out) /\ Heard(e, t)
  BY FineIs
<1>2. /\ Free /\ Live(e) /\ t.rtoBase
      /\ UNCHANGED <<sending, repeats, written, received>>
  BY DEF Retransmit
<1>3. Alive(t) /\ t.sndUna < t.sndNxt
  <2>1. Alive(t)
    BY <1>2 DEF Live, Alive
  <2>2. t \in Connection /\ Sender(t, w)
    BY <1>1 DEF Fine
  <2>3. t.sndUna \in Nat /\ t.sndNxt \in Nat
    BY <2>2, ConnectionIs
  <2> QED
    BY <1>2, <2>1, <2>2, <2>3 DEF Sender
<1>4. CASE CloseDown(e)
  BY ONLY <1>2, <1>4, NoWrap, TcpInv, e \in Side, CloseDownKeeps
<1>5. ASSUME NEW mss \in PathMss(t, 1),
             net' \in Sent(net, e, SegmentPacket(t, 1, mss)),
             tcp' = [tcp EXCEPT ![e] = Adjusted(Transmitted(t, 1, mss))],
             UNCHANGED events
      PROVE  TcpInv'
  <2> DEFINE u == Transmitted(t, 1, mss)
             s == SegmentPacket(t, 1, mss)
             t2 == Adjusted(u)
  <2>1. net \in [Side -> SUBSET PacketType] /\ net' \in Sent(net, e, s)
    BY <1>5 DEF TcpInv, Types
  <2>2. u = Transmitted(t, 1, mss) /\ mss \in PathMss(t, 1)
    BY <1>5
  <2>3. 1 \in 1..Len(t.slist) /\ t.slist[1].xmit # 0
    BY <1>1, <1>3, FirstSent
  <2>4. tcp' = [tcp EXCEPT ![e] = t2] /\ t2 = Adjusted(u)
    BY <1>5
  <2> HIDE DEF u, t2
  <2>5. /\ Fine(e, u, w, r, out) /\ Fine(e, u, w, r, out \cup {s})
        /\ SameReceiver(t, u) /\ u.state = t.state
    <3>1. /\ Fine(e, t, w, r, out) /\ Alive(t) /\ 1 \in 1..Len(t.slist)
          /\ t.slist[1].xmit # 0
      BY <1>1, <1>3, <2>3
    <3>2. s = SegmentPacket(t, 1, mss)
      OBVIOUS
    <3> HIDE DEF t, w, r, out, s
    <3>3. /\ Fine(e, u, w, r, out)
          /\ Fine(e, u, w, r, out \cup {SegmentPacket(t, 1, mss)})
          /\ SameReceiver(t, u) /\ u.state = t.state
      BY ONLY SMTT(60), <3>1, <2>2, RetransmitFine
    <3> QED
      BY ONLY <3>2, <3>3
  <2>6. s \in PacketType /\ u \in Connection
    BY <2>5 DEF Fine
  <2> HIDE DEF s
  <2>7. /\ net' \in [Side -> SUBSET PacketType] /\ net'[e] = net[e]
        /\ out2 = out \/ out2 = out \cup {s}
    BY ONLY <2>1, <2>6, e \in Side, SentIs
  <2> HIDE DEF out, out2
  <2>8. Fine(e, u, w, r, out2)
    BY ONLY <2>5, <2>7
  <2>9. Heard(e, u)
    <3>1. t \in Connection
      BY <1>1 DEF Fine
    <3>2. t.rcvNxt \in Nat /\ u.rcvNxt \in Nat /\ u.rcvNxt = t.rcvNxt
      BY <2>5, <2>6, <3>1, ConnectionIs DEF SameReceiver
    <3>3. t.sndNxt \in Nat /\ t.sndUna \in Nat
      BY <3>1, ConnectionIs
    <3>4. t.sndNxt > 0
      BY <1>3, <3>3
    <3> QED
      BY ONLY <1>1, <3>2, <3>4 DEF Heard
  <2>10. Fine(e, t2, w, r, out2) /\ Heard(e, t2)
    BY ONLY <2>4, <2>8, <2>9, AdjustedFine
  <2>11. t2.closing => t.closing
    BY <2>4, <2>5, <2>6, AdjustedCloses DEF SameReceiver
  <2>12. NetKeeps(e)
    BY ONLY <2>7 DEF NetKeeps
  <2>13. SendingKeeps(e, t2)
    BY ONLY <1>2, TcpInv, e \in Side, SendingStays
  <2>14. EventsKeep(e, t2)
    BY ONLY <2>11, <1>5, TcpInv, e \in Side, EventsStay
  <2>15. repeats' \in 0..MaxRepeats
    BY <1>2 DEF TcpInv, Types
  <2>16. Fine(e, t2, written[e], received[e], net'[Peer(e)])
    BY ONLY <2>10 DEF out2
  <2> QED
    BY ONLY <1>2, <2>4, <2>10, <2>12, <2>13, <2>14, <2>15, <2>16, TcpInv, e \in Side,
       StepStays
<1> QED
  BY <1>4, <1>5 DEF Retransmit

\* A packet arrives, which the network may deliver again.
LEMMA ReceiveKeeps ==
    ASSUME NoWrap, TcpInv, NEW e \in Side, Receive(e) \/ ReceiveTwice(e)
    PROVE  TcpInv'
<1>1. net \in [Side -> SUBSET PacketType] /\ repeats \in 0..MaxRepeats
  BY DEF TcpInv, Types
<1>2. Peer(e) \in Side /\ Peer(e) # e
  BY Sides
<1>3. /\ Free /\ Live(e) /\ UNCHANGED <<written, received>>
      /\ repeats' \in 0..MaxRepeats
  <2>1. CASE Receive(e)
    BY <1>1, <2>1 DEF Receive
  <2>2. CASE ReceiveTwice(e)
    BY <1>1, <2>2, PseudoTcpAssumption DEF ReceiveTwice
  <2> QED
    BY <2>1, <2>2
<1>4. PICK p \in net[e] : \E packets \in {net, [net EXCEPT ![e] = @ \ {p}]} :
                               Handle(e, p, packets)
  BY DEF Receive, ReceiveTwice
<1> PICK packets \in {net, [net EXCEPT ![e] = @ \ {p}]} : Handle(e, p, packets)
  BY <1>4
<1>5. /\ packets \in [Side -> SUBSET PacketType] /\ packets[e] \subseteq net[e]
      /\ packets[Peer(e)] = net[Peer(e)]
  BY <1>1, <1>2
<1> QED
  BY ONLY <1>3, <1>5, Handle(e, p, packets), p \in net[e], NoWrap, TcpInv, e \in Side,
     HandleKeeps

\* attemptSend sends a segment.
LEMMA SendSegmentKeeps ==
    ASSUME NoWrap, TcpInv, NEW e \in Side, SendSegment(e)
    PROVE  TcpInv'
<1> DEFINE t == tcp[e]
           w == written[e]
           r == received[e]
           out == net[Peer(e)]
           out2 == net'[Peer(e)]
<1>1. Fine(e, t, w, r, out) /\ Heard(e, t)
  BY FineIs
<1>2. /\ ~Free /\ sending.end = e /\ AttemptSend(e, "none", sending.readable)
      /\ UNCHANGED <<events, repeats, written, received>>
  BY DEF SendSegment
<1>3. Alive(t)
  BY <1>2 DEF TcpInv, Types
<1>4. PICK cwnd \in {c \in Cwnd : c >= t.mss} :
        LET n == Available(t, cwnd)
            i == FirstUnsent(t)
            u == IF t.slist[i].len > n
                 THEN [t EXCEPT !.slist = Split(@, i, n)] ELSE t
        IN  /\ n > 0 /\ ~Holds(t, n)
            /\ \E mss \in PathMss(u, i) :
                 /\ net' \in Sent(net, e, SegmentPacket(u, i, mss))
                 /\ tcp' = [tcp EXCEPT ![e] = Transmitted(u, i, mss)]
  BY DEF SendSegment
<1> DEFINE n == Available(t, cwnd)
           i == FirstUnsent(t)
           u == IF t.slist[i].len > n
                THEN [t EXCEPT !.slist = Split(@, i, n)] ELSE t
<1>5. PICK mss \in PathMss(u, i) :
        /\ net' \in Sent(net, e, SegmentPacket(u, i, mss))
        /\ tcp' = [tcp EXCEPT ![e] = Transmitted(u, i, mss)]
  BY <1>4
<1> DEFINE t2 == Transmitted(u, i, mss)
           s == SegmentPacket(u, i, mss)
<1>6. /\ cwnd \in Nat /\ n = Available(t, cwnd) /\ n > 0 /\ i = FirstUnsent(t)
      /\ u = (IF t.slist[i].len > n
              THEN [t EXCEPT !.slist = Split(@, i, n)] ELSE t)
      /\ mss \in PathMss(u, i) /\ t2 = Transmitted(u, i, mss)
  BY <1>4, <1>5, PseudoTcpAssumption
<1>7. /\ net' \in Sent(net, e, s) /\ tcp' = [tcp EXCEPT ![e] = t2]
      /\ s = SegmentPacket(u, i, mss)
  BY <1>5
<1> HIDE DEF n, i, u, t2
<1>8. /\ Fine(e, t2, w, r, out) /\ Fine(e, t2, w, r, out \cup {SegmentPacket(u, i, mss)})
      /\ SameReceiver(t, t2) /\ t2.state = t.state
  BY ONLY <1>1, <1>3, <1>6, SendFine
<1> HIDE DEF s
<1>9. Fine(e, t2, w, r, out \cup {s})
  BY ONLY <1>7, <1>8
<1>10. s \in PacketType /\ t2 \in Connection /\ t \in Connection
  BY <1>9, <1>1 DEF Fine
<1>11. net \in [Side -> SUBSET PacketType]
  BY DEF TcpInv, Types
<1>12. /\ net' \in [Side -> SUBSET PacketType] /\ net'[e] = net[e]
       /\ out2 = out \/ out2 = out \cup {s}
  BY ONLY <1>7, <1>10, <1>11, e \in Side, SentIs
<1> HIDE DEF out, out2
<1>13. Fine(e, t2, w, r, out2)
  BY ONLY <1>8, <1>9, <1>12
<1>14. Heard(e, t2)
  <2>1. t.rcvNxt \in Nat /\ t2.rcvNxt \in Nat /\ t.rcvNxt <= t2.rcvNxt
    BY <1>8, <1>10, ConnectionIs DEF SameReceiver
  <2>2. t.state # "LISTEN"
    <3> SUFFICES ASSUME t.state = "LISTEN" PROVE FALSE
      OBVIOUS
    <3>1. t.sbuf = << >> /\ t.slist = << >>
      BY <1>1, NothingQueued
    <3>2. i \in 1..Len(t.slist)
      BY <1>1, <1>3, <1>6, AvailableIs
    <3> QED
      BY <3>1, <3>2
  <2> QED
    BY ONLY <1>1, <1>3, <2>1, <2>2, HeardStays
<1>15. NetKeeps(e)
  BY ONLY <1>12 DEF NetKeeps
<1>16. SendingKeeps(e, t2)
  <2> DEFINE f == "none"
             b == sending.readable
  <2>1. f \in {"none", "delayed", "immediate"} /\ b \in BOOLEAN /\ AttemptSend(e, f, b)
    BY <1>2 DEF TcpInv, Types
  <2>2. Alive(t2)
    BY ONLY <1>3, <1>8 DEF Alive
  <2> HIDE DEF f, b
  <2> QED
    BY ONLY <2>1, <2>2, e \in Side, SendingStarts
<1>17. EventsKeep(e, t2)
  <2>1. t2.closing => tcp[e].closing
    BY ONLY <1>8 DEF SameReceiver
  <2> QED
    BY ONLY <2>1, <1>2, TcpInv, e \in Side, EventsStay
<1>18. repeats' \in 0..MaxRepeats
  BY <1>2 DEF TcpInv, Types
<1>19. Fine(e, t2, written[e], received[e], net'[Peer(e)])
  BY ONLY <1>13 DEF out2
<1> QED
  BY ONLY <1>2, <1>7, <1>14, <1>15, <1>16, <1>17, <1>18, <1>19, TcpInv, e \in Side,
     StepStays

\* attemptSend ends, and with it what its caller does behind it.
LEMMA StopSendingKeeps ==
    ASSUME NoWrap, TcpInv, NEW e \in Side, StopSending(e)
    PROVE  TcpInv'
<1> DEFINE t == tcp[e]
           n == t.sndNxt
           readable == sending.readable /\ t.readEnable
           u == [t EXCEPT !.readEnable = @ /\ ~readable]
           E == IF readable THEN {"read"} ELSE {}
<1>1. /\ ~Free /\ sending.end = e /\ sending' = Idle /\ Post(e, t, E)
      /\ UNCHANGED <<repeats, written, received>>
  BY DEF StopSending
<1>2. t \in Connection /\ sending.readable \in BOOLEAN
  BY DEF TcpInv, Types
<1>3. n \in Nat /\ t.readEnable \in BOOLEAN
  BY <1>2, ConnectionIs
<1>4. PICK x \in {u, [u EXCEPT !.tAck = FALSE], [u EXCEPT !.tAck = TRUE]} :
        /\ tcp' = [tcp EXCEPT ![e] = Adjusted(x)]
        /\ net' = net \/ net' \in Sent(net, e, Packet(t, n, FALSE, << >>))
  BY DEF StopSending
<1>5. u \in Connection /\ SameSender(t, u) /\ SameReceiver(t, u) /\ u.closing = t.closing
  <2> DEFINE b == t.readEnable /\ ~readable
  <2>1. b \in BOOLEAN /\ u = [t EXCEPT !.readEnable = b]
    BY <1>2, <1>3
  <2> HIDE DEF b, t, u
  <2> QED
    BY ONLY <2>1, <1>2 DEF Connection, SameSender, SameReceiver
<1>6. x \in Connection /\ SameSender(t, x) /\ SameReceiver(t, x) /\ x.closing = t.closing
  <2> HIDE DEF t, u
  <2>1. PICK b \in BOOLEAN : x = u \/ x = [u EXCEPT !.tAck = b]
    BY <1>4
  <2> QED
    BY ONLY SMTT(40), <2>1, <1>5 DEF Connection, SameSender, SameReceiver
<1> HIDE DEF u
<1>7. net' \in Sent(net, e, Packet(t, n, FALSE, << >>))
  BY <1>4 DEF Sent
<1>8. SendingKeeps(e, Adjusted(x))
  BY <1>1 DEF SendingKeeps, Idle, Side
<1>9. EventsKeep(e, Adjusted(x))
  <2>1. Adjusted(x).closing => t.closing
    BY <1>6, AdjustedCloses
  <2>2. E \in SUBSET {"read", "write", "close"}
    OBVIOUS
  <2> HIDE DEF E
  <2> QED
    BY ONLY <2>1, <2>2, <1>1, TcpInv, e \in Side, EventsPosted
<1>10. repeats' \in 0..MaxRepeats
  BY <1>1 DEF TcpInv, Types
<1> HIDE DEF n
<1> QED
  BY ONLY <1>1, <1>3, <1>4, <1>6, <1>7, <1>8, <1>9, <1>10, NoWrap, TcpInv, e \in Side,
     BareKeeps

\* A flag of the connection changes that the other end never sees.
LEMMA QuietKeeps ==
    ASSUME NoWrap, TcpInv, NEW e \in Side, NEW t \in Connection,
           SameSender(tcp[e], t), SameReceiver(tcp[e], t),
           tcp' = [tcp EXCEPT ![e] = t], Free, EventsKeep(e, t),
           UNCHANGED <<sending, net, repeats, written, received>>
    PROVE  TcpInv'
<1>1. Fine(e, tcp[e], written[e], received[e], net[Peer(e)]) /\ Heard(e, tcp[e])
  BY FineIs
<1>2. Fine(e, t, written[e], received[e], net[Peer(e)])
  <2> DEFINE u == tcp[e]
             w == written[e]
             r == received[e]
             out == net[Peer(e)]
  <2>1. Fine(e, u, w, r, out) /\ SameSender(u, t) /\ SameReceiver(u, t)
    BY <1>1
  <2> HIDE DEF u, w, r, out
  <2>2. Fine(e, t, w, r, out)
    BY ONLY <2>1, t \in Connection, Quiet
  <2> QED
    BY ONLY <2>2 DEF w, r, out
<1>3. Heard(e, t)
  BY <1>1 DEF Heard, Alive, SameSender, SameReceiver
<1>4. NetKeeps(e) /\ SendingKeeps(e, t) /\ repeats' \in 0..MaxRepeats
  BY NetStays, SendingStays DEF TcpInv, Types
<1>5. Fine(e, t, written[e], received[e], net'[Peer(e)])
  BY ONLY <1>2, UNCHANGED <<sending, net, repeats, written, received>>
<1> QED
  BY ONLY <1>3, <1>4, <1>5, TcpInv, e \in Side, tcp' = [tcp EXCEPT ![e] = t],
     EventsKeep(e, t), UNCHANGED <<sending, net, repeats, written, received>>, StepStays

\* An event that was posted is taken.
LEMMA EventTaken ==
    ASSUME TcpInv, NEW e \in Side, NEW x, x \in events[e], NEW t,
           events' = [events EXCEPT ![e] = @ \ {x}], t.closing = tcp[e].closing
    PROVE  EventsKeep(e, t) /\ ~tcp[e].closing
<1>1. Peer(e) \in Side /\ Peer(e) # e
  BY Sides
<1>2. /\ events \in [Side -> SUBSET {"read", "write", "close"}]
      /\ tcp[e].closing => events[e] = {}
  BY DEF TcpInv, Types
<1> QED
  BY <1>1, <1>2 DEF EventsKeep

\* A program writes.
LEMMA WriteKeeps ==
    ASSUME NoWrap, TcpInv, NEW e \in Side, NEW k \in 1..WriteSize, Write(e, k)
    PROVE  TcpInv'
<1> DEFINE t == tcp[e]
           w == written[e]
           r == received[e]
           out == net[Peer(e)]
           l == Len(t.sbuf)
           m == Least(k, SndBuf - l)
<1>1. Fine(e, t, w, r, out) /\ Heard(e, t)
  BY FineIs
<1>2. t \in Connection /\ w \in Nat /\ Sender(t, w)
  BY <1>1 DEF Fine
<1>3. /\ Free /\ "write" \in events[e] /\ t.state = "ESTABLISHED"
      /\ UNCHANGED <<net, repeats, received>>
  BY DEF Write
<1>4. CASE l = SndBuf
  <2> DEFINE u == [t EXCEPT !.writeEnable = TRUE]
  <2>1. /\ tcp' = [tcp EXCEPT ![e] = u]
        /\ events' = [events EXCEPT ![e] = @ \ {"write"}]
        /\ UNCHANGED <<sending, net, repeats, written, received>>
    BY <1>3, <1>4 DEF Write
  <2>2. u \in Connection /\ SameSender(t, u) /\ SameReceiver(t, u) /\ u.closing = t.closing
    <3>1. u = [t EXCEPT !.writeEnable = TRUE]
      OBVIOUS
    <3> HIDE DEF t, u
    <3> QED
      BY ONLY <3>1, <1>2 DEF Connection, SameSender, SameReceiver
  <2> HIDE DEF u
  <2>3. EventsKeep(e, u)
    BY <1>3, <2>1, <2>2, EventTaken
  <2> QED
    BY ONLY <1>3, <2>1, <2>2, <2>3, NoWrap, TcpInv, e \in Side, QuietKeeps
<1>5. CASE l # SndBuf
  <2> DEFINE data == [i \in 1..m |-> w + i]
             t2 == Queue(t, data, FALSE)
             w2 == w + m
  <2>1. /\ w + k <= MaxWritten[e] /\ tcp' = [tcp EXCEPT ![e] = t2]
        /\ written' = [written EXCEPT ![e] = w2]
        /\ AttemptSend(e, "none", FALSE) /\ UNCHANGED <<net, repeats, received, events>>
    BY <1>3, <1>5 DEF Write
  <2>2. l \in Nat /\ SndBuf \in Nat /\ l <= SndBuf
    BY <1>2, ConnectionIs DEF Sender
  <2>3. m \in Nat /\ 0 < m /\ m <= SndBuf - l /\ m <= k
    <3> DEFINE x == SndBuf - l
    <3>1. x \in Nat /\ 0 < x /\ k \in Nat /\ 0 < k
      BY <1>5, <2>2
    <3>2. m = Least(k, x)
      OBVIOUS
    <3> HIDE DEF x, m
    <3>3. m \in Nat /\ 0 < m /\ m <= x /\ m <= k
      BY ONLY <3>1, <3>2 DEF Least
    <3> QED
      BY <3>3 DEF x
  <2>4. w2 <= MaxWritten[e] /\ w2 + 1 < SeqSpace
    <3>1. MaxWritten[e] \in Nat /\ MaxWritten[e] + 1 < SeqSpace /\ SeqSpace \in Nat
      BY PseudoTcpAssumption DEF NoWrap
    <3> HIDE DEF m, w
    <3> QED
      BY ONLY <3>1, <1>2, <2>1, <2>3, k \in 1..WriteSize
  <2>5. Writes(t, w, m, data, t2, w2)
    BY <1>3, <2>3, <2>4 DEF Writes, NextBytes
  <2> HIDE DEF m, data, t2, w2
  <2>6. t2.state = t.state /\ t2.sndNxt = t.sndNxt
        /\ Fine(e, t2, w2, r, out) /\ SameReceiver(t, t2)
    <3>1. Fine(e, t, w, r, out)
      BY <1>1
    <3> HIDE DEF t, w, r, out
    <3> QED
      BY ONLY <3>1, <2>5, WrittenFine
  <2>7. /\ Fine(e, t2, w2, r, out) /\ SameReceiver(t, t2)
        /\ t2.state = t.state /\ t2.sndNxt = t.sndNxt
    BY ONLY <2>6
  <2>8. Fine(e, t2, w2, received[e], net'[Peer(e)])
    BY ONLY <2>1, <2>7
  <2>9. Heard(e, t2)
    BY ONLY <1>1, <2>7 DEF Heard, Alive, SameReceiver
  <2>10. NetKeeps(e) /\ repeats' \in 0..MaxRepeats
    BY <2>1, NetStays DEF TcpInv, Types
  <2>11. SendingKeeps(e, t2)
    <3> DEFINE f == "none"
               b == FALSE
    <3>1. f \in {"none", "delayed", "immediate"} /\ b \in BOOLEAN /\ AttemptSend(e, f, b)
      BY <2>1
    <3>2. Alive(t2)
      BY ONLY <1>3, <2>7 DEF Alive
    <3> HIDE DEF f, b
    <3> QED
      BY ONLY <3>1, <3>2, e \in Side, SendingStarts
  <2>12. EventsKeep(e, t2)
    <3>1. t2.closing => tcp[e].closing
      BY ONLY <2>7 DEF SameReceiver
    <3> QED
      BY ONLY <3>1, <2>1, TcpInv, e \in Side, EventsStay
  <2>13. received' = [received EXCEPT ![e] = received[e]]
    BY <2>1 DEF TcpInv, Types
  <2>14. w2 <= MaxWritten[e]
    BY ONLY <2>4
  <2> QED
    BY ONLY <2>1, <2>8, <2>9, <2>10, <2>11, <2>12, <2>13, <2>14, TcpInv, e \in Side,
       StepKeeps
<1> QED
  BY <1>4, <1>5

\* A program reads.
LEMMA ReadKeeps ==
    ASSUME NoWrap, TcpInv, NEW e \in Side, NEW k \in 1..ReadSize, Read(e, k)
    PROVE  TcpInv'
<1> DEFINE t == tcp[e]
           w == written[e]
           r == received[e]
           out == net[Peer(e)]
           m == Least(k, t.rlen)
           u == Taken(t, m)
           r2 == r \o SubSeq(t.rbuf, 1, m)
           opens == RcvBuf - u.rlen - t.rcvWnd >= Least(RcvBuf \div 2, t.mss)
           t2 == IF opens THEN Opened(u) ELSE u
<1>1. Fine(e, t, w, r, out) /\ Heard(e, t)
  BY FineIs
<1>2. t \in Connection
  BY <1>1 DEF Fine
<1>3. /\ Free /\ "read" \in events[e] /\ t.state = "ESTABLISHED"
      /\ UNCHANGED <<net, repeats, written>>
  BY DEF Read
<1>4. ~t.closing
  BY <1>3 DEF TcpInv, Types
<1>5. CASE t.rlen = 0
  <2> DEFINE v == [t EXCEPT !.readEnable = TRUE]
  <2>1. /\ tcp' = [tcp EXCEPT ![e] = v]
        /\ events' = [events EXCEPT ![e] = @ \ {"read"}]
        /\ UNCHANGED <<sending, net, repeats, written, received>>
    BY <1>3, <1>5 DEF Read
  <2>2. v \in Connection /\ SameSender(t, v) /\ SameReceiver(t, v) /\ v.closing = t.closing
    <3>1. v = [t EXCEPT !.readEnable = TRUE]
      OBVIOUS
    <3> HIDE DEF t, v
    <3> QED
      BY ONLY <3>1, <1>2 DEF Connection, SameSender, SameReceiver
  <2> HIDE DEF v
  <2>3. EventsKeep(e, v)
    BY <1>3, <2>1, <2>2, EventTaken
  <2> QED
    BY ONLY <1>3, <2>1, <2>2, <2>3, NoWrap, TcpInv, e \in Side, QuietKeeps
<1>6. CASE t.rlen # 0
  <2>1. /\ tcp' = [tcp EXCEPT ![e] = t2] /\ received' = [received EXCEPT ![e] = r2]
        /\ UNCHANGED <<net, repeats, written, events>>
        /\ AttemptSend(e, "immediate", FALSE) \/ UNCHANGED sending
    BY <1>3, <1>6 DEF Read
  <2>2. t.rlen \in Nat
    BY <1>2, ConnectionIs
  <2>3. MayTake(t, m)
    BY <1>6, <2>2 DEF Least, MayTake
  <2>4. u = Taken(t, m) /\ r2 = ReadBytes(r, t, m)
    BY DEF ReadBytes
  <2> HIDE DEF m, u, r2
  <2>5. /\ Fine(e, u, w, r2, out) /\ SameSender(t, u)
        /\ u.rcvNxt = t.rcvNxt /\ u.closing = t.closing
    <3>1. ~t.closing /\ Fine(e, t, w, r, out)
      BY <1>1, <1>4
    <3> HIDE DEF t, w, r, out
    <3> QED
      BY ONLY <3>1, <2>3, <2>4, TakenFine
  <2>6. /\ Fine(e, t2, w, r2, out) /\ SameSender(t, t2)
        /\ t2.rcvNxt = t.rcvNxt /\ t2.closing = t.closing
    <3>1. CASE opens
      <4>1. t2 = Opened(u)
        BY <3>1
      <4> HIDE DEF t2, t, w, out
      <4>2. /\ Fine(e, t2, w, r2, out) /\ SameSender(u, t2)
            /\ t2.rcvNxt = u.rcvNxt /\ t2.closing = u.closing
        BY ONLY <4>1, <2>5, OpenedFine
      <4> QED
        BY ONLY <4>2, <2>5 DEF SameSender
    <3>2. CASE ~opens
      BY <3>2, <2>5
    <3> QED
      BY <3>1, <3>2
  <2> HIDE DEF t2
  <2>7. Heard(e, t2)
    BY ONLY <1>1, <2>6 DEF Heard, Alive, SameSender
  <2>8. NetKeeps(e) /\ repeats' \in 0..MaxRepeats
    BY <2>1, NetStays DEF TcpInv, Types
  <2>9. SendingKeeps(e, t2)
    <3>1. CASE UNCHANGED sending
      BY ONLY <3>1, <1>3, TcpInv, e \in Side, SendingStays
    <3>2. CASE AttemptSend(e, "immediate", FALSE)
      <4> DEFINE f == "immediate"
                 b == FALSE
      <4>1. f \in {"none", "delayed", "immediate"} /\ b \in BOOLEAN /\ AttemptSend(e, f, b)
        BY <3>2
      <4>2. Alive(t2)
        BY ONLY <1>3, <2>6 DEF Alive, SameSender
      <4> HIDE DEF f, b
      <4> QED
        BY ONLY <4>1, <4>2, e \in Side, SendingStarts
    <3> QED
      BY <2>1, <3>1, <3>2
  <2>10. EventsKeep(e, t2)
    <3>1. t2.closing => tcp[e].closing
      BY <2>6
    <3> QED
      BY ONLY <3>1, <2>1, TcpInv, e \in Side, EventsStay
  <2>11. written' = [written EXCEPT ![e] = w] /\ w <= MaxWritten[e]
    BY <2>1 DEF TcpInv, Types
  <2>12. Fine(e, t2, w, r2, net'[Peer(e)])
    BY ONLY <2>1, <2>6
  <2> HIDE DEF w
  <2> QED
    BY ONLY <2>1, <2>7, <2>8, <2>9, <2>10, <2>11, <2>12, TcpInv, e \in Side, StepKeeps
<1> QED
  BY <1>5, <1>6

\* At first nobody is connected and nothing is under way.
LEMMA InitKeeps ==
    ASSUME Init
    PROVE  TcpInv
<1> DEFINE t == NewTcp
<1>1. /\ RcvBuf \in Nat \ {0} /\ SndBuf \in Nat \ {0} /\ Smallest(Mss) \in Mss
      /\ MaxRepeats \in Nat /\ MaxWritten \in [Side -> Nat] /\ Initiator # Acceptor
  BY MssBounds, PseudoTcpAssumption
<1>2. << >> \in Seq(Nat) /\ << >> \in Seq(Segment) /\ Len(<< >>) = 0
  OBVIOUS
<1>3. /\ t.state = "LISTEN" /\ t.closing = FALSE /\ t.sbuf = << >> /\ t.slist = << >>
      /\ t.sndUna = 0 /\ t.sndNxt = 0 /\ t.sndWnd = 1 /\ t.rlen = 0 /\ t.rlist = {}
      /\ t.rcvNxt = 0 /\ t.rcvWnd = RcvBuf /\ t.rtoBase = FALSE /\ t.recover = 0
      /\ t \in Connection
  <2>1. [i \in 1..RcvBuf |-> 0] \in [1..RcvBuf -> Nat] /\ 0 \in 0..RcvBuf
        /\ RcvBuf \in 0..RcvBuf
    BY <1>1
  <2> QED
    BY <1>1, <1>2, <2>1 DEF NewTcp, Connection, States
<1>4. /\ tcp = [e \in Side |-> t] /\ net = [e \in Side |-> {}]
      /\ written = [e \in Side |-> 0] /\ received = [e \in Side |-> << >>]
      /\ sending = Idle /\ repeats = 0 /\ events = [e \in Side |-> {}]
  BY DEF Init
<1> HIDE DEF t
<1>5. Types
  <2>1. Free /\ sending \in [flags : {"none", "delayed", "immediate", "idle"},
                             end : Side, readable : BOOLEAN]
    BY <1>4 DEF Free, Idle, Side
  <2> QED
    BY <1>1, <1>2, <1>3, <1>4, <2>1 DEF Types
<1>6. Sender(t, 0)
  <2>1. Bytes(t.sbuf, 0) /\ SentUpTo(t.slist, 0) /\ ControlFirst(t.slist)
    BY <1>2, <1>3 DEF Bytes, SentUpTo, ControlFirst
  <2>2. Chain(t.slist, 0, 0)
    BY <1>2, <1>3 DEF Chain
  <2> QED
    BY <1>1, <1>2, <1>3, <2>1, <2>2 DEF Sender, Alive, Opening
<1>7. Receiver(t, << >>)
  BY <1>1, <1>2, <1>3 DEF Receiver, Bytes
<1>8. Pair(t, t, 0)
  <2>1. Uncut(t.slist, 0)
    BY <1>2, <1>3 DEF Uncut
  <2> QED
    BY <1>1, <1>3, <2>1 DEF Pair, Edge
<1>9. \A e \in Side : Role(e, t) /\ Heard(e, t)
  BY <1>3 DEF Role, Heard
<1> SUFFICES ASSUME NEW e \in Side
             PROVE  /\ Sender(tcp[e], written[e])
                    /\ Receiver(tcp[e], received[e])
                    /\ Pair(tcp[e], tcp[Peer(e)], written[e])
                    /\ \A p \in net[Peer(e)] : Fits(p, tcp[e], tcp[Peer(e)])
                    /\ Role(e, tcp[e]) /\ Heard(e, tcp[e])
  BY <1>5 DEF TcpInv
<1>10. Peer(e) \in Side
  BY Sides
<1>11. /\ tcp[e] = t /\ tcp[Peer(e)] = t /\ written[e] = 0 /\ received[e] = << >>
       /\ net[Peer(e)] = {}
  BY <1>4, <1>10
<1> QED
  BY ONLY <1>6, <1>7, <1>8, <1>9, <1>11, e \in Side

\* A stuttering step keeps the invariant.
LEMMA NothingHappens ==
    ASSUME TcpInv, UNCHANGED vars
    PROVE  TcpInv'
<1>1. /\ tcp' = tcp /\ sending' = sending /\ net' = net /\ repeats' = repeats
      /\ events' = events /\ written' = written /\ received' = received
  BY DEF vars
<1>2. Types'
  BY <1>1 DEF TcpInv, Types, Free, Alive
<1>3. \A a \in Side :
         /\ Sender(tcp'[a], written'[a])
         /\ Receiver(tcp'[a], received'[a])
         /\ Pair(tcp'[a], tcp'[Peer(a)], written'[a])
         /\ \A p \in net'[Peer(a)] : Fits(p, tcp'[a], tcp'[Peer(a)])
         /\ Role(a, tcp'[a]) /\ Heard(a, tcp'[a])
  BY <1>1 DEF TcpInv
<1> QED
  BY ONLY <1>2, <1>3 DEF TcpInv, Sender, Receiver, Pair, Fits, Role, Heard, Alive, Edge,
     Bytes, Chain, SentUpTo, ControlFirst, Uncut, End, Opening, Peer

\* Every step keeps the invariant.
LEMMA NextKeeps ==
    ASSUME NoWrap, TcpInv, [Next]_vars
    PROVE  TcpInv'
<1>1. CASE Connect
  BY ONLY <1>1, NoWrap, TcpInv, ConnectKeeps
<1>2. ASSUME NEW e \in Side, NEW n \in 1..WriteSize, Write(e, n)
      PROVE  TcpInv'
  BY ONLY <1>2, NoWrap, TcpInv, WriteKeeps
<1>3. ASSUME NEW e \in Side, NEW n \in 1..ReadSize, Read(e, n)
      PROVE  TcpInv'
  BY ONLY <1>3, NoWrap, TcpInv, ReadKeeps
<1>4. ASSUME NEW e \in Side, Close(e)
      PROVE  TcpInv'
  BY ONLY <1>4, NoWrap, TcpInv, CloseKeeps
<1>5. ASSUME NEW e \in Side, SendSegment(e)
      PROVE  TcpInv'
  BY ONLY <1>5, NoWrap, TcpInv, SendSegmentKeeps
<1>6. ASSUME NEW e \in Side, StopSending(e)
      PROVE  TcpInv'
  BY ONLY <1>6, NoWrap, TcpInv, StopSendingKeeps
<1>7. ASSUME NEW e \in Side, Receive(e) \/ ReceiveTwice(e)
      PROVE  TcpInv'
  BY ONLY <1>7, NoWrap, TcpInv, ReceiveKeeps
<1>8. ASSUME NEW e \in Side, Retransmit(e)
      PROVE  TcpInv'
  BY ONLY <1>8, NoWrap, TcpInv, RetransmitKeeps
<1>9. ASSUME NEW e \in Side, Probe(e)
      PROVE  TcpInv'
  BY ONLY <1>9, NoWrap, TcpInv, ProbeKeeps
<1>10. ASSUME NEW e \in Side, DelayedAck(e)
       PROVE  TcpInv'
  BY ONLY <1>10, NoWrap, TcpInv, DelayedAckKeeps
<1>11. CASE UNCHANGED vars
  BY ONLY <1>11, TcpInv, NothingHappens
<1> QED
  BY <1>1, <1>2, <1>3, <1>4, <1>5, <1>6, <1>7, <1>8, <1>9, <1>10, <1>11 DEF Next

----------------------------------------------------------------------------
(* Theorems *)

\* The inductive invariant: the two ends and the packets under way agree.
THEOREM TcpInvariant == NoWrap /\ Spec => []TcpInv
<1>1. Init => TcpInv
  BY InitKeeps
<1>2. NoWrap /\ TcpInv /\ [Next]_vars => TcpInv'
  BY NextKeeps
<1>3. NoWrap => NoWrap'
  BY DEF NoWrap
<1> QED
  BY <1>1, <1>2, <1>3, PTL DEF Spec

\* The connections have their types.
THEOREM TypeCorrect == NoWrap /\ Spec => []TypeOK
<1>1. TcpInv => TypeOK
  <2> SUFFICES ASSUME TcpInv PROVE TypeOK
    OBVIOUS
  <2>1. ASSUME NEW e \in Side
        PROVE  /\ tcp[e].state \in {"LISTEN", "SYN_SENT", "SYN_RECEIVED",
                                    "ESTABLISHED", "CLOSED", "DELETED"}
               /\ tcp[e].mss \in Mss
               /\ Len(tcp[e].sbuf) <= SndBuf
               /\ \A i \in DOMAIN tcp[e].slist : tcp[e].slist[i].len \in 1..SndBuf
               /\ tcp[e].rlen \in 0..RcvBuf /\ tcp[e].rcvWnd \in 0..RcvBuf
    <3> DEFINE t == tcp[e]
               q == t.slist
    <3>1. t \in Connection /\ Sender(t, written[e])
      BY DEF TcpInv, Types
    <3>2. /\ t.state \in States /\ t.mss \in Mss /\ t.rlen \in 0..RcvBuf
          /\ t.rcvWnd \in 0..RcvBuf /\ q \in Seq(Segment)
      BY <3>1, ConnectionIs
    <3>3. Len(t.sbuf) <= SndBuf
      BY <3>1 DEF Sender
    <3>4. \A i \in DOMAIN q : q[i].len \in 1..SndBuf
      <4> HIDE DEF q
      <4> SUFFICES ASSUME NEW i \in DOMAIN q PROVE q[i].len \in 1..SndBuf
        OBVIOUS
      <4>1. q[i] \in Segment
        BY <3>2
      <4> QED
        BY ONLY <4>1 DEF Segment
    <3> QED
      BY <3>2, <3>3, <3>4 DEF States
  <2>2. /\ sending \in [flags : {"none", "delayed", "immediate", "idle"},
                        end : Side, readable : BOOLEAN]
        /\ events \in [Side -> SUBSET {"read", "write", "close"}]
        /\ repeats \in 0..MaxRepeats
    BY DEF TcpInv, Types
  <2> QED
    BY ONLY <2>1, <2>2 DEF TypeOK
<1> QED
  BY <1>1, TcpInvariant, PTL

\* The windows that an end announces are kept, by itself and by the other end:
\* no byte that was sent within its window is thrown away on arrival.
THEOREM WindowsKept == NoWrap /\ Spec => []WindowIsKept
<1>1. TcpInv => WindowIsKept
  <2> SUFFICES ASSUME TcpInv, NEW e \in Side
               PROVE  /\ tcp[e].rcvWnd + tcp[e].rlen <= RcvBuf
                      /\ tcp[Peer(e)].sndNxt <= tcp[e].rcvNxt + tcp[e].rcvWnd
    BY DEF WindowIsKept
  <2>1. Receiver(tcp[e], received[e])
    BY DEF TcpInv
  <2>2. Pair(tcp[Peer(e)], tcp[e], written[Peer(e)])
    <3> DEFINE f == Peer(e)
    <3>1. f \in Side /\ Peer(f) = e
      BY Sides
    <3> HIDE DEF f
    <3>2. Pair(tcp[f], tcp[Peer(f)], written[f])
      BY <3>1 DEF TcpInv
    <3> QED
      BY <3>1, <3>2 DEF f
  <2> QED
    BY <2>1, <2>2 DEF Receiver, Pair, Edge
<1> QED
  BY <1>1, TcpInvariant, PTL

\* A stream that was closed has delivered everything once its connection is
\* deleted: the acknowledged bytes are all there are.
THEOREM ClosingDelivers == NoWrap /\ Spec => []CloseDeliversAll
<1>1. NoWrap /\ TcpInv => CloseDeliversAll
  <2> SUFFICES ASSUME NoWrap, TcpInv, NEW e \in Side, tcp[e].state = "DELETED",
                      written[e] > 0, ~GaveUp(e)
               PROVE  tcp[Peer(e)].rcvNxt = Plus(written[e], 1)
    BY DEF CloseDeliversAll
  <2> DEFINE t == tcp[e]
             u == tcp[Peer(e)]
             w == written[e]
  <2>1. /\ t \in Connection /\ u \in Connection /\ w \in Nat /\ w + 1 < SeqSpace
        /\ Sender(t, w) /\ Pair(t, u, w)
    BY FineIs DEF Fine
  <2>2. ~Alive(t) /\ w > 0 /\ ~(t.sbuf = << >> /\ t.slist # << >>)
    BY DEF Alive, GaveUp
  <2> HIDE DEF t, u, w
  <2>3. t.sndUna \in Nat /\ t.sndNxt \in Nat /\ u.rcvNxt \in Nat
    BY <2>1, ConnectionIs
  <2>4. t.sndUna = w + 1 /\ t.sndNxt <= w + 1
    BY <2>1, <2>2 DEF Sender
  <2>5. u.rcvNxt <= t.sndNxt /\ t.sndUna <= u.rcvNxt
    BY <2>1 DEF Pair
  <2>6. u.rcvNxt = w + 1
    BY ONLY <2>1, <2>3, <2>4, <2>5
  <2>7. Plus(w, 1) = w + 1
    BY <2>1, PlusIs
  <2> QED
    BY <2>6, <2>7 DEF u, w
<1>2. NoWrap => NoWrap'
  BY DEF NoWrap
<1> QED
  BY <1>1, <1>2, TcpInvariant, PTL

\* What was sent of the segments of q.
Masked(q) == [i \in DOMAIN q |-> IF q[i].xmit > 0 THEN q[i]
                                 ELSE [q[i] EXCEPT !.len = 0]]

\* The segments of one end lie one behind the other in its send buffer.
LEMMA BufferCovered ==
    ASSUME NoWrap, TcpInv, NEW e \in Side, Live(e), NEW t, t = tcp[e]
    PROVE  /\ \A i \in DOMAIN t.slist :
                t.slist[i].seq = Plus(t.sndUna, SumLen(SubSeq(t.slist, 1, i - 1)))
           /\ Len(t.sbuf) = SumLen(t.slist)
           /\ InFlight(t) = SumLen(Masked(t.slist))
           /\ t.rtoBase <=> InFlight(t) > 0
<1> DEFINE w == written[e]
           r == received[e]
           out == net[Peer(e)]
           q == t.slist
           a == t.sndUna
           b == a + Len(t.sbuf)
           c == t.sndNxt
<1>1. Fine(e, t, w, r, out)
  BY FineIs
<1>2. Alive(t)
  BY DEF Live, Alive
<1> HIDE DEF w, r, out
<1>3. /\ t \in Connection /\ b < SeqSpace /\ a <= c /\ c <= b
      /\ (t.rtoBase <=> c > a) /\ Chain(q, a, b) /\ SentUpTo(q, c)
  BY <1>1, <1>2, SenderAlive
<1>4. /\ q \in Seq(Segment) /\ a \in Nat /\ c \in Nat /\ b \in Nat /\ SeqSpace \in Nat
      /\ Len(t.sbuf) \in Nat /\ Len(q) \in Nat
  <2>1. t \in Connection
    BY <1>3
  <2>2. /\ t.slist \in Seq(Segment) /\ t.sndUna \in Nat /\ t.sndNxt \in Nat
        /\ SeqSpace \in Nat /\ Len(t.sbuf) \in Nat /\ Len(t.slist) \in Nat
    BY ONLY <2>1, ConnectionIs
  <2> QED
    BY ONLY <2>2
<1>5. Len(t.sbuf) = SumLen(q)
  <2>1. b = a + Len(t.sbuf)
    OBVIOUS
  <2> HIDE DEF b
  <2>2. SumLen(q) = b - a
    BY <1>3, <1>4, SumChain
  <2> QED
    BY ONLY <2>1, <2>2, <1>4
<1> HIDE DEF q, a, b, c
<1>6. InFlight(t) = c - a
  <2>1. c - a < SeqSpace
    BY ONLY <1>3, <1>4
  <2> QED
    BY <2>1, <1>3, <1>4, MinusIs DEF InFlight, a, c
<1>7. SumLen(Masked(q)) = c - a
  <2>1. c \in a..b
    BY ONLY <1>3, <1>4
  <2> QED
    BY <2>1, <1>3, <1>4, SentSum DEF Masked
<1>8. ASSUME NEW i \in DOMAIN q
      PROVE  q[i].seq = Plus(a, SumLen(SubSeq(q, 1, i - 1)))
  <2> DEFINE j == i - 1
             x == q[i].seq
             d == SumLen(SubSeq(q, 1, j))
  <2>1. i \in 1..Len(q) /\ j \in 0..Len(q)
    BY <1>4
  <2>2. q[i] \in Segment /\ x \in Nat /\ q[i].len \in Nat \ {0} /\ a <= x /\ End(q[i]) <= b
    <3>1. q[i] \in Segment
      BY <1>4, <2>1
    <3>2. a <= x /\ End(q[i]) <= b
      BY <1>3, <2>1 DEF Chain
    <3> QED
      BY <3>1, <3>2 DEF Segment
  <2> HIDE DEF j, d
  <2>3. d = IF j = 0 THEN 0 ELSE End(q[j]) - a
    BY <2>1, <1>3, <1>4, PrefixChain DEF d
  <2>4. d = x - a
    <3>1. CASE j = 0
      <4>1. i = 1 /\ q # << >>
        BY <3>1, <2>1, <1>4 DEF j
      <4>2. x = a
        BY <4>1, <1>3 DEF Chain
      <4> QED
        BY ONLY <3>1, <2>3, <4>2, <1>4
    <3>2. CASE j # 0
      <4>1. j \in 1..(Len(q) - 1) /\ i = j + 1
        BY <3>2, <2>1, <1>4 DEF j
      <4>2. q[j + 1].seq = End(q[j])
        BY <4>1, <1>3 DEF Chain
      <4> QED
        BY <3>2, <4>1, <4>2, <2>3
    <3> QED
      BY <3>1, <3>2
  <2> HIDE DEF x
  <2>5. x < SeqSpace
    <3>1. End(q[i]) = x + q[i].len
      BY DEF End, x
    <3> QED
      BY ONLY <3>1, <2>2, <1>3, <1>4
  <2>6. d \in Nat /\ a + d = x
    BY ONLY <2>2, <2>4, <1>4
  <2>7. Plus(a, d) = a + d
    BY <2>5, <2>6, <1>4, PlusIs
  <2> QED
    BY <2>6, <2>7 DEF x, d, j
<1>9. t.rtoBase <=> InFlight(t) > 0
  BY ONLY <1>3, <1>4, <1>6
<1> QED
  BY <1>5, <1>6, <1>7, <1>8, <1>9 DEF q, a

\* transmit finds the bytes of a segment by its number: the segments cover
\* the send buffer, and those that were sent are what is in flight.
THEOREM SegmentsCover == NoWrap /\ Spec => []SegmentsCoverBuffer
<1>1. NoWrap /\ TcpInv => SegmentsCoverBuffer
  <2> SUFFICES ASSUME NoWrap, TcpInv, NEW e \in Side, Live(e), NEW t, t = tcp[e]
               PROVE  /\ \A i \in DOMAIN t.slist :
                           t.slist[i].seq =
                             Plus(t.sndUna, SumLen(SubSeq(t.slist, 1, i - 1)))
                      /\ Len(t.sbuf) = SumLen(t.slist)
                      /\ InFlight(t) = SumLen(Masked(t.slist))
                      /\ t.rtoBase <=> InFlight(t) > 0
    BY DEF SegmentsCoverBuffer, Masked
  <2> QED
    BY BufferCovered
<1>2. NoWrap => NoWrap'
  BY DEF NoWrap
<1> QED
  BY <1>1, <1>2, TcpInvariant, PTL

\* What an end has read are the first bytes that the other one wrote.
ReadInOrder ==
    \A e \in Side : /\ received[e] = [i \in 1..Len(received[e]) |-> i]
                    /\ Len(received[e]) \in Nat
                    /\ Len(received[e]) <= written[Peer(e)]

\* The invariant implies that the bytes were read in order.
LEMMA BytesRead ==
    ASSUME TcpInv
    PROVE  ReadInOrder
<1> SUFFICES ASSUME NEW e \in Side
             PROVE  /\ received[e] = [i \in 1..Len(received[e]) |-> i]
                    /\ Len(received[e]) \in Nat
                    /\ Len(received[e]) <= written[Peer(e)]
  BY DEF ReadInOrder
<1> DEFINE f == Peer(e)
           t == tcp[e]
           u == tcp[f]
           r == received[e]
           v == written[f]
           l == Len(r)
<1>1. f \in Side /\ Peer(f) = e
  BY Sides
<1>2. /\ t \in Connection /\ u \in Connection /\ r \in Seq(Nat) /\ v \in Nat
      /\ Receiver(t, r)
  <2> HIDE DEF f
  <2> QED
    BY <1>1 DEF TcpInv, Types
<1>3. Sender(u, v) /\ Pair(u, t, v)
  <2> HIDE DEF f
  <2>1. Sender(tcp[f], written[f]) /\ Pair(tcp[f], tcp[Peer(f)], written[f])
    BY <1>1 DEF TcpInv
  <2> QED
    BY <2>1, <1>1
<1> HIDE DEF t, u, r, v, f
<1>4. l \in Nat /\ t.rcvNxt \in Nat /\ u.sndNxt \in Nat
  BY <1>2, ConnectionIs
<1>5. r = [i \in 1..l |-> i]
  <2>1. \A i \in 1..l : r[i] = i
    <3> SUFFICES ASSUME NEW i \in 1..l PROVE r[i] = i
      OBVIOUS
    <3>1. r[i] = 1 + i - 1
      BY <1>2 DEF Receiver, Bytes
    <3> QED
      BY <3>1, <1>4
  <2>2. r = [i \in 1..l |-> r[i]]
    BY <1>2
  <2> QED
    BY ONLY <2>1, <2>2
<1>6. l <= v
  <2>1. u.sndNxt <= v + 1 /\ t.rcvNxt <= u.sndNxt
    BY <1>3 DEF Sender, Pair
  <2>2. l = 0 \/ l < t.rcvNxt
    BY <1>2 DEF Receiver
  <2> QED
    BY ONLY <2>1, <2>2, <1>2, <1>4
<1> QED
  BY <1>4, <1>5, <1>6 DEF r, v, f

\* A step that writes or reads is one of the byte stream.
LEMMA StreamStep ==
    ASSUME TcpInv, ReadInOrder', [Next]_vars
    PROVE  [BS!Next]_<<written, received>>
<1>1. ASSUME NEW e \in Side, NEW n \in 1..WriteSize, Write(e, n)
      PROVE  BS!Write(e) \/ UNCHANGED <<written, received>>
  <2> DEFINE m == Least(n, SndBuf - Len(tcp[e].sbuf))
  <2>1. CASE Len(tcp[e].sbuf) = SndBuf
    BY <1>1, <2>1 DEF Write
  <2>2. CASE Len(tcp[e].sbuf) # SndBuf
    <3>1. written' = [written EXCEPT ![e] = @ + m] /\ received' = received
      BY <1>1, <2>2 DEF Write
    <3>2. /\ tcp[e] \in Connection /\ Sender(tcp[e], written[e])
          /\ written \in [Side -> Nat]
      BY DEF TcpInv, Types
    <3>3. m \in Nat /\ m > 0
      <4> DEFINE l == Len(tcp[e].sbuf)
                 x == SndBuf - l
      <4>1. l \in Nat /\ SndBuf \in Nat /\ l <= SndBuf
        BY <3>2, ConnectionIs DEF Sender
      <4>2. x \in Nat /\ x > 0 /\ n \in Nat /\ n > 0
        BY <2>2, <4>1
      <4>3. m = Least(n, x)
        OBVIOUS
      <4> HIDE DEF x, m
      <4> QED
        BY ONLY <4>2, <4>3 DEF Least
    <3> HIDE DEF m
    <3>4. written'[e] = written[e] + m /\ written[e] \in Nat
      BY <3>1, <3>2
    <3>5. written'[e] \in Nat /\ written'[e] > written[e]
      BY ONLY <3>3, <3>4
    <3>6. written' = [written EXCEPT ![e] = written'[e]]
      BY <3>1, <3>2, <3>4
    <3> QED
      BY ONLY <3>1, <3>5, <3>6 DEF BS!Write
  <2> QED
    BY <2>1, <2>2
<1>2. ASSUME NEW e \in Side, NEW n \in 1..ReadSize, Read(e, n)
      PROVE  BS!Read(e) \/ UNCHANGED <<written, received>>
  <2> DEFINE t == tcp[e]
             m == Least(n, t.rlen)
             s == SubSeq(t.rbuf, 1, m)
             r2 == received[e] \o s
  <2>1. CASE t.rlen = 0
    BY <1>2, <2>1 DEF Read
  <2>2. CASE t.rlen # 0
    <3>1. received' = [received EXCEPT ![e] = r2] /\ written' = written
      BY <1>2, <2>2 DEF Read
    <3>2. received \in [Side -> Seq(Nat)] /\ t \in Connection
      BY DEF TcpInv, Types
    <3>3. s \in Seq(Nat) /\ Len(s) \in Nat
      <4>1. t.rbuf \in [1..RcvBuf -> Nat] /\ RcvBuf \in Nat /\ t.rlen \in 0..RcvBuf
        BY <3>2, ConnectionIs
      <4>2. m \in Nat /\ m <= RcvBuf
        BY <4>1 DEF Least
      <4> HIDE DEF m
      <4>3. t.rbuf \in Seq(Nat) /\ Len(t.rbuf) = RcvBuf
        BY <4>1
      <4> QED
        BY ONLY <4>1, <4>2, <4>3
    <3> HIDE DEF s
    <3>4. received'[e] = r2 /\ Len(r2) = Len(received[e]) + Len(s)
          /\ Len(received[e]) \in Nat
      BY <3>1, <3>2, <3>3
    <3> DEFINE k == Len(received'[e])
               l == Len(received[e])
               v == written[Peer(e)]
    <3>5. /\ received'[e] = [i \in 1..k |-> i] /\ k \in Nat /\ k <= v
      BY <3>1 DEF ReadInOrder, Peer
    <3>6. k \in l..v
      <4>1. v \in Nat
        BY Sides DEF TcpInv, Types
      <4>2. k = l + Len(s) /\ l \in Nat
        BY <3>4
      <4> HIDE DEF k, l, v
      <4> QED
        BY ONLY <3>3, <3>5, <4>1, <4>2
    <3>7. received' = [received EXCEPT ![e] = [i \in 1..k |-> i]]
      <4> HIDE DEF r2
      <4>1. received' = [received EXCEPT ![e] = received'[e]]
        BY ONLY <3>1, <3>4
      <4> QED
        BY ONLY <4>1, <3>5
    <3> HIDE DEF k
    <3>8. \E j \in l..v : received' = [received EXCEPT ![e] = [i \in 1..j |-> i]]
      BY ONLY <3>6, <3>7
    <3> QED
      BY ONLY <3>1, <3>8 DEF BS!Read
  <2> QED
    BY <2>1, <2>2
<1>3. CASE UNCHANGED <<written, received>>
  BY <1>3
<1> QED
  <2>1. \/ UNCHANGED <<written, received>>
        \/ \E e \in Side : \/ \E n \in 1..WriteSize : Write(e, n)
                           \/ \E n \in 1..ReadSize : Read(e, n)
    BY DEF Next, vars, Connect, Close, SendSegment, StopSending, Receive, ReceiveTwice,
           Retransmit, Probe, DelayedAck
  <2> QED
    BY ONLY SMTT(40), <2>1, <1>1, <1>2 DEF BS!Next

\* A program reads the bytes that the other one wrote, all of them in order
\* and each of them once.
THEOREM ByteStreamImplemented == NoWrap /\ Spec => ImplementsByteStream
<1>1. Init => BS!Init
  BY DEF Init, BS!Init
<1>2. TcpInv => ReadInOrder
  BY BytesRead
<1>3. TcpInv /\ ReadInOrder' /\ [Next]_vars => [BS!Next]_<<written, received>>
  BY StreamStep
<1> QED
  BY <1>1, <1>2, <1>3, TcpInvariant, PTL DEF Spec, ImplementsByteStream, BS!Spec
=============================================================================
