--------------------------- MODULE TransportProof ---------------------------
(***************************************************************************)
(* What the two threads of a transport owe each other is under way, for    *)
(* any set of channels, any number of redirects and candidates, and queues *)
(* of any length.                                                          *)
(***************************************************************************)
EXTENDS Transport, QueueTheorems, FiniteSetTheorems

----------------------------------------------------------------------------
(* Queues *)

\* Every channel of a finite set posts its message.
LEMMA EachHas ==
    ASSUME NEW C, IsFiniteSet(C), NEW S, NEW m \in S
    PROVE  /\ Each(C, m) \in Seq(S)
           /\ \A n : Has(Each(C, m), n) <=> n = m /\ C # {}
<1>1. Cardinality(C) \in Nat /\ (Cardinality(C) = 0 <=> C = {})
  BY FS_CardinalityType, FS_EmptySet
<1>2. Each(C, m) \in Seq(S)
  BY <1>1 DEF Each
<1>3. DOMAIN Each(C, m) = 1..Cardinality(C)
  BY DEF Each
<1>4. \A i \in 1..Cardinality(C) : Each(C, m)[i] = m
  BY DEF Each
<1>5. C # {} => 1 \in 1..Cardinality(C)
  BY <1>1
<1>6. C = {} => 1..Cardinality(C) = {}
  BY <1>1
<1> QED
  BY <1>2, <1>3, <1>4, <1>5, <1>6 DEF Has

\* The resets that are posted to the worker.
Resets(q) == {i \in DOMAIN q : q[i] = "resetchannels"}

LEMMA ResetsFinite ==
    ASSUME NEW S, NEW q \in Seq(S)
    PROVE  IsFiniteSet(Resets(q)) /\ Cardinality(Resets(q)) \in Nat
<1>1. Len(q) \in Nat /\ DOMAIN q = 1..Len(q)
  OBVIOUS
<1>2. IsFiniteSet(1..Len(q))
  BY <1>1, FS_Interval
<1>3. Resets(q) \in SUBSET (1..Len(q))
  BY <1>1 DEF Resets
<1>4. IsFiniteSet(Resets(q))
  BY <1>2, <1>3, FS_Subset
<1> QED
  BY <1>4, FS_CardinalityType

\* Only a posted reset adds one.
LEMMA ResetsAppend ==
    ASSUME NEW S, NEW q \in Seq(S), NEW e \in S
    PROVE  Cardinality(Resets(Append(q, e))) <=
               Cardinality(Resets(q)) + (IF e = "resetchannels" THEN 1 ELSE 0)
<1> DEFINE n == Len(q) + 1
<1>1. /\ Len(q) \in Nat /\ DOMAIN q = 1..Len(q)
      /\ DOMAIN Append(q, e) = 1..n
      /\ \A i \in 1..Len(q) : Append(q, e)[i] = q[i]
      /\ Append(q, e)[n] = e
  OBVIOUS
<1>2. IsFiniteSet(Resets(q)) /\ Cardinality(Resets(q)) \in Nat
  BY ResetsFinite
<1>3. 1..n = (1..Len(q)) \cup {n} /\ n \notin 1..Len(q)
  BY <1>1
<1>4. CASE e = "resetchannels"
  <2>1. Resets(Append(q, e)) = Resets(q) \cup {n}
    BY <1>1, <1>3, <1>4 DEF Resets
  <2>2. Cardinality(Resets(q) \cup {n}) =
          IF n \in Resets(q) THEN Cardinality(Resets(q))
                            ELSE Cardinality(Resets(q)) + 1
    BY <1>2, FS_AddElement
  <2> QED
    BY <2>1, <2>2, <1>2, <1>4
<1>5. CASE e # "resetchannels"
  <2>1. Resets(Append(q, e)) = Resets(q)
    BY <1>1, <1>3, <1>5 DEF Resets
  <2> QED
    BY <2>1, <1>2, <1>5
<1> QED
  BY <1>4, <1>5

\* None is added when the head is taken.
LEMMA ResetsTail ==
    ASSUME NEW S, NEW q \in Seq(S), q # <<>>
    PROVE  Cardinality(Resets(Tail(q))) <= Cardinality(Resets(q))
<1> DEFINE f == [i \in Resets(Tail(q)) |-> i + 1]
<1>1. /\ Len(q) \in Nat \ {0} /\ DOMAIN q = 1..Len(q)
      /\ DOMAIN Tail(q) = 1..(Len(q) - 1)
      /\ \A i \in 1..(Len(q) - 1) : Tail(q)[i] = q[i + 1]
  OBVIOUS
<1>2. f \in [Resets(Tail(q)) -> Resets(q)]
  <2> SUFFICES ASSUME NEW i \in Resets(Tail(q)) PROVE i + 1 \in Resets(q)
    OBVIOUS
  <2>1. i \in 1..(Len(q) - 1) /\ Tail(q)[i] = "resetchannels"
    BY <1>1 DEF Resets
  <2>2. i + 1 \in 1..Len(q) /\ q[i + 1] = "resetchannels"
    BY <2>1, <1>1
  <2> QED
    BY <2>2, <1>1 DEF Resets
<1>3. ASSUME NEW i \in Resets(Tail(q)), NEW j \in Resets(Tail(q)), f[i] = f[j]
      PROVE  i = j
  BY <1>1, <1>3 DEF Resets
<1>4. f \in Injection(Resets(Tail(q)), Resets(q))
  BY <1>2, <1>3 DEF Injection, IsInjective
<1>5. IsFiniteSet(Resets(q))
  BY ResetsFinite
<1> HIDE DEF f
<1> QED
  BY <1>4, <1>5, FS_Injection

\* The queue of the worker, while there are no more resets than n.
LEMMA WorkerPost ==
    ASSUME NEW q \in Seq(ToWorker), NEW e \in ToWorker, e # "resetchannels",
           NEW n \in Nat, Cardinality(Resets(q)) <= n
    PROVE  /\ Append(q, e) \in Seq(ToWorker)
           /\ Cardinality(Resets(Append(q, e))) <= n
<1>1. Append(q, e) \in Seq(ToWorker)
  OBVIOUS
<1>2. Cardinality(Resets(q)) \in Nat /\ Cardinality(Resets(Append(q, e))) \in Nat
  BY <1>1, ResetsFinite
<1>3. Cardinality(Resets(Append(q, e))) <= Cardinality(Resets(q)) + 0
  BY ResetsAppend
<1> QED
  BY <1>1, <1>2, <1>3

LEMMA WorkerTake ==
    ASSUME NEW q \in Seq(ToWorker), q # <<>>,
           NEW n \in Nat, Cardinality(Resets(q)) <= n
    PROVE  /\ Tail(q) \in Seq(ToWorker)
           /\ Cardinality(Resets(Tail(q))) <= n
<1>1. Tail(q) \in Seq(ToWorker)
  OBVIOUS
<1>2. Cardinality(Resets(q)) \in Nat /\ Cardinality(Resets(Tail(q))) \in Nat
  BY <1>1, ResetsFinite
<1>3. Cardinality(Resets(Tail(q))) <= Cardinality(Resets(q))
  BY ResetsTail
<1> QED
  BY <1>1, <1>2, <1>3

----------------------------------------------------------------------------
(* Types *)

\* TypeOK is not inductive: a candidate belongs to a target that a reset under
\* way has not reached yet, so there are no more of these than redirects that
\* posted one; and what a set of channels posts is a sequence because the set is finite.
TypeInv ==
    /\ TypeOK
    /\ IsFiniteSet(channels)
    /\ late <= target
    /\ Cardinality(Resets(workerQueue)) <= target - late

LEMMA TypeInit == Init => TypeInv
<1> SUFFICES ASSUME Init PROVE TypeInv
  OBVIOUS
<1>1. Resets(workerQueue) = {}
  BY DEF Init, Resets
<1>2. IsFiniteSet({}) /\ Cardinality({}) = 0
  BY FS_EmptySet
<1>3. 0 \in 0..MaxRedirects /\ 0 \in 0..MaxCandidates
  BY TransportAssumption
<1>4. \A S : <<>> \in Seq(S)
  OBVIOUS
<1>5. TypeOK
  BY <1>3, <1>4 DEF Init, TypeOK
<1>6. channels = {} /\ target = 0 /\ late = 0
  BY DEF Init
<1>7. IsFiniteSet(channels)
  BY <1>2, <1>6
<1>8. late <= target /\ Cardinality(Resets(workerQueue)) <= target - late
  BY <1>1, <1>2, <1>6
<1> QED
  BY <1>5, <1>7, <1>8 DEF TypeInv

\* There are as many redirects that posted a reset, or more.
LEMMA FewResets ==
    ASSUME TypeInv
    PROVE  /\ target - late \in Nat
           /\ Cardinality(Resets(workerQueue)) <= target - late
  BY TransportAssumption DEF TypeInv, TypeOK

\* What the client asks for.
LEMMA TypeClient == TypeInv /\ Client => TypeInv'
<1> SUFFICES ASSUME TypeInv, Client PROVE TypeInv'
  OBVIOUS
<1>1. ASSUME NEW c \in Channel, CreateChannel(c) PROVE TypeInv'
  <2>1. signalingQueue' \in Seq(ToSignaling)
    <3>1. /\ <<"requestsignaling">> \in Seq(ToSignaling)
          /\ <<"connecting">> \in Seq(ToSignaling)
          /\ <<>> \in Seq(ToSignaling)
      <4>1. "requestsignaling" \in ToSignaling /\ "connecting" \in ToSignaling
        BY DEF ToSignaling
      <4> QED
        BY <4>1
    <3>2. signalingQueue \in Seq(ToSignaling)
      BY DEF TypeInv, TypeOK
    <3>3. \A a, b, d \in Seq(ToSignaling) : a \o b \o d \in Seq(ToSignaling)
      OBVIOUS
    <3> QED
      BY <1>1, <3>1, <3>2, <3>3 DEF CreateChannel
  <2>2. IsFiniteSet(channels')
    BY <1>1, FS_AddElement DEF TypeInv, CreateChannel
  <2>3. waiting' \subseteq channels'
    BY <1>1 DEF TypeInv, TypeOK, CreateChannel
  <2>4. workerQueue' = workerQueue /\ target' = target /\ late' = late
    BY <1>1 DEF CreateChannel, sessionVars
  <2>5. TypeOK'
    BY <1>1, <2>1, <2>3 DEF TypeInv, TypeOK, CreateChannel, sessionVars
  <2> QED
    BY <2>2, <2>4, <2>5 DEF TypeInv
<1>2. ASSUME NEW c \in Channel, DestroyChannel(c) PROVE TypeInv'
  <2>1. signalingQueue' \in Seq(ToSignaling)
    BY <1>2 DEF TypeInv, TypeOK, DestroyChannel, ToSignaling
  <2>2. IsFiniteSet(channels')
    BY <1>2, FS_RemoveElement DEF TypeInv, DestroyChannel
  <2> QED
    BY <1>2, <2>1, <2>2
    DEF TypeInv, TypeOK, DestroyChannel, sessionVars
<1>3. ASSUME Initiate \/ SetTransport PROVE TypeInv'
  <2>1. workerQueue' \in Seq(ToWorker) /\ late' = late /\ target' = target
    <3>1. ConnectChannels /\ late' = late /\ target' = target
      BY <1>3 DEF Initiate, SetTransport
    <3>2. workerQueue \in Seq(ToWorker) /\ "connectchannels" \in ToWorker
      BY DEF TypeInv, TypeOK, ToWorker
    <3> QED
      BY <3>1, <3>2 DEF ConnectChannels
  <2>2. Cardinality(Resets(workerQueue')) <= target - late
    BY <1>3, FewResets, WorkerPost
    DEF Initiate, SetTransport, ConnectChannels, TypeInv, TypeOK, ToWorker
  <2>3. channels' = channels
    BY <1>3 DEF Initiate, SetTransport, channelVars
  <2>4. TypeOK'
    BY <1>3, <2>1 DEF TypeInv, TypeOK, Initiate, SetTransport, channelVars
  <2> QED
    BY <2>1, <2>2, <2>3, <2>4 DEF TypeInv
<1>4. ASSUME Redirect PROVE TypeInv'
  <2>1. /\ target \in Nat /\ late \in Nat /\ target' = target + 1
        /\ target' \in 0..MaxRedirects
    BY <1>4, TransportAssumption DEF Redirect, TypeInv, TypeOK
  <2>2. /\ workerQueue' \in Seq(ToWorker) /\ late' \in Nat /\ late' <= target'
        /\ Cardinality(Resets(workerQueue')) <= target' - late'
    <3>1. CASE chosen
      <4>1. late' = late + 1 /\ late' <= target' /\ target' - late' = target - late
        BY <1>4, <2>1, <3>1 DEF Redirect, TypeInv
      <4>2. /\ workerQueue' \in Seq(ToWorker)
            /\ Cardinality(Resets(workerQueue')) <= target - late
        BY <1>4, <3>1, FewResets, WorkerPost
        DEF Redirect, ConnectChannels, TypeInv, TypeOK, ToWorker
      <4> QED
        BY <2>1, <4>1, <4>2
    <3>2. CASE ~chosen
      <4> DEFINE q == Append(workerQueue, "resetchannels")
      <4>1. /\ q \in Seq(ToWorker) /\ workerQueue' = Append(q, "connectchannels")
            /\ late' = late
        <5>1. /\ workerQueue' = workerQueue \o <<"resetchannels", "connectchannels">>
              /\ late' = late
          BY <1>4, <3>2 DEF Redirect
        <5>2. /\ workerQueue \in Seq(ToWorker)
              /\ {"resetchannels", "connectchannels"} \subseteq ToWorker
          BY DEF TypeInv, TypeOK, ToWorker
        <5> QED
          BY <5>1, <5>2
      <4>2. Cardinality(Resets(q)) <= Cardinality(Resets(workerQueue)) + 1
        BY ResetsAppend DEF TypeInv, TypeOK, ToWorker
      <4> HIDE DEF q
      <4>3. Cardinality(Resets(workerQueue')) <= Cardinality(Resets(q))
        BY <4>1, ResetsAppend, ResetsFinite DEF ToWorker
      <4>4. workerQueue' \in Seq(ToWorker)
        BY <4>1 DEF ToWorker
      <4>5. /\ Cardinality(Resets(workerQueue)) \in Nat
            /\ Cardinality(Resets(q)) \in Nat
            /\ Cardinality(Resets(workerQueue')) \in Nat
        BY <4>1, <4>4, ResetsFinite DEF TypeInv, TypeOK
      <4> QED
        BY <2>1, <4>1, <4>2, <4>3, <4>4, <4>5 DEF TypeInv
    <3> QED
      BY <3>1, <3>2
  <2>3. late' \in 0..MaxRedirects
    BY <2>1, <2>2, TransportAssumption
  <2> QED
    BY <1>4, <2>1, <2>2, <2>3 DEF TypeInv, TypeOK, Redirect, channelVars
<1> QED
  BY <1>1, <1>2, <1>3, <1>4 DEF Client

\* What the signaling thread takes.
LEMMA TypeSignaling == TypeInv /\ SignalingThread => TypeInv'
<1> SUFFICES ASSUME TypeInv, SignalingThread PROVE TypeInv'
  OBVIOUS
<1>1. \A m : AtHead(signalingQueue, m) => Tail(signalingQueue) \in Seq(ToSignaling)
  BY DEF AtHead, TypeInv, TypeOK
<1>2. channels' = channels /\ target' = target /\ late' = late
  BY DEF SignalingThread, OnConnecting_s, OnChannelWritableState_s,
         OnChannelRequestSignaling_s, OnChannelMessage_s, channelVars, sessionVars
<1>3. CASE OnConnecting_s
  <2>1. TypeOK'
    BY <1>1, <1>3 DEF TypeInv, TypeOK, OnConnecting_s, Watch, channelVars
  <2>2. workerQueue' = workerQueue
    BY <1>3 DEF OnConnecting_s
  <2> QED
    BY <1>2, <2>1, <2>2 DEF TypeInv
<1>4. CASE OnChannelWritableState_s
  <2>1. TypeOK'
    BY <1>1, <1>4 DEF TypeInv, TypeOK, OnChannelWritableState_s, Watch, channelVars
  <2>2. workerQueue' = workerQueue
    BY <1>4 DEF OnChannelWritableState_s
  <2> QED
    BY <1>2, <2>1, <2>2 DEF TypeInv
<1>5. CASE OnChannelRequestSignaling_s
  <2>1. workerQueue' \in Seq(ToWorker)
    BY <1>5 DEF OnChannelRequestSignaling_s, TypeInv, TypeOK, ToWorker
  <2>2. Cardinality(Resets(workerQueue')) <= target - late
    BY <1>5, FewResets, WorkerPost
    DEF OnChannelRequestSignaling_s, TypeInv, TypeOK, ToWorker
  <2>3. TypeOK'
    BY <1>1, <1>5, <2>1
    DEF TypeInv, TypeOK, OnChannelRequestSignaling_s, channelVars, sessionVars
  <2> QED
    BY <1>2, <2>2, <2>3 DEF TypeInv
<1>6. CASE OnChannelMessage_s
  <2>1. sent' \subseteq (0..MaxRedirects) \X (0..MaxRedirects)
    <3>1. /\ messages \in Seq(0..MaxRedirects) /\ target \in 0..MaxRedirects
          /\ sent \subseteq (0..MaxRedirects) \X (0..MaxRedirects)
      BY DEF TypeInv, TypeOK
    <3>2. \A S : \A q \in Seq(S) : \A i \in DOMAIN q : q[i] \in S
      OBVIOUS
    <3>3. \A i \in DOMAIN messages : messages[i] \in 0..MaxRedirects
      BY <3>1, <3>2
    <3>4. sent' = sent \cup {<<messages[i], target>> : i \in DOMAIN messages}
      BY <1>6 DEF OnChannelMessage_s
    <3> QED
      BY <3>1, <3>3, <3>4
  <2>2. messages' \in Seq(0..MaxRedirects)
    BY <1>6 DEF OnChannelMessage_s
  <2>3. TypeOK'
    BY <1>1, <1>6, <2>1, <2>2
    DEF TypeInv, TypeOK, OnChannelMessage_s, channelVars
  <2>4. workerQueue' = workerQueue
    BY <1>6 DEF OnChannelMessage_s
  <2> QED
    BY <1>2, <2>3, <2>4 DEF TypeInv
<1> QED
  BY <1>3, <1>4, <1>5, <1>6 DEF SignalingThread

\* What the worker takes.
LEMMA TypeWorker == TypeInv /\ WorkerThread => TypeInv'
<1> SUFFICES ASSUME TypeInv, WorkerThread PROVE TypeInv'
  OBVIOUS
<1>1. /\ workerQueue # <<>> /\ workerQueue' = Tail(workerQueue)
      /\ channels' = channels /\ target' = target /\ late' = late
  BY DEF WorkerThread, ConnectChannels_w, ResetChannels_w, OnSignalingReady_w,
         AtHead, sessionVars
<1>2. /\ workerQueue' \in Seq(ToWorker)
      /\ Cardinality(Resets(workerQueue')) <= target - late
  BY <1>1, FewResets, WorkerTake DEF TypeInv, TypeOK
<1>3. \A a, b, d \in Seq(ToSignaling) :
        a \o b \in Seq(ToSignaling) /\ a \o b \o d \in Seq(ToSignaling)
  OBVIOUS
<1>4. CASE ConnectChannels_w
  <2>1. /\ Each(channels, "requestsignaling") \in Seq(ToSignaling)
        /\ <<"channelmessage">> \in Seq(ToSignaling)
        /\ <<"connecting">> \in Seq(ToSignaling)
        /\ <<>> \in Seq(ToSignaling)
    <3>1. {"requestsignaling", "channelmessage", "connecting"} \subseteq ToSignaling
      BY DEF ToSignaling
    <3> QED
      BY <3>1, EachHas DEF TypeInv
  <2>2. signalingQueue \in Seq(ToSignaling)
    BY DEF TypeInv, TypeOK
  <2> DEFINE a == signalingQueue \o <<"channelmessage">>
             b == Each(channels, "requestsignaling")
             d == IF channels = {} THEN <<>> ELSE <<"connecting">>
  <2>3. a \in Seq(ToSignaling) /\ b \in Seq(ToSignaling) /\ d \in Seq(ToSignaling)
    BY <2>1, <2>2
  <2>4. signalingQueue' = signalingQueue \/ signalingQueue' = a \o b \o d
    BY <1>4 DEF ConnectChannels_w
  <2>5. signalingQueue' \in Seq(ToSignaling)
    <3> HIDE DEF a, b, d
    <3>1. a \o b \in Seq(ToSignaling)
      BY <2>3
    <3>2. (a \o b) \o d \in Seq(ToSignaling)
      BY <2>3, <3>1
    <3> QED
      BY <2>2, <2>4, <3>2
  <2>6. TypeOK'
    BY <1>1, <1>2, <1>4, <2>5 DEF TypeInv, TypeOK, ConnectChannels_w, sessionVars
  <2> QED
    BY <1>1, <1>2, <2>6 DEF TypeInv
<1>5. CASE ResetChannels_w
  <2>1. IsFiniteSet(chWritable)
    BY FS_Subset DEF TypeInv, TypeOK
  <2>2. Each(chWritable, "writestate") \in Seq(ToSignaling)
    BY <2>1, EachHas DEF ToSignaling
  <2>3. signalingQueue' \in Seq(ToSignaling)
    <3>1. signalingQueue \in Seq(ToSignaling)
      BY DEF TypeInv, TypeOK
    <3>2. signalingQueue' = signalingQueue \o Each(chWritable, "writestate")
      BY <1>5 DEF ResetChannels_w
    <3> QED
      BY <1>3, <2>2, <3>1, <3>2
  <2>4. messages' \in Seq(0..MaxRedirects)
    BY <1>5 DEF ResetChannels_w
  <2>5. TypeOK'
    BY <1>1, <1>2, <1>5, <2>3, <2>4 DEF TypeInv, TypeOK, ResetChannels_w, sessionVars
  <2> QED
    BY <1>1, <1>2, <2>5 DEF TypeInv
<1>6. CASE OnSignalingReady_w
  <2>1. TypeOK'
    BY <1>1, <1>2, <1>6 DEF TypeInv, TypeOK, OnSignalingReady_w, sessionVars
  <2> QED
    BY <1>1, <1>2, <2>1 DEF TypeInv
<1> QED
  BY <1>4, <1>5, <1>6 DEF WorkerThread

\* What the network does to a channel.
LEMMA TypeNetwork == TypeInv /\ Network => TypeInv'
<1> SUFFICES ASSUME TypeInv, NEW c \in Channel,
                    OnChannelMessage(c) \/ HandleWritable(c)
                    \/ HandleNotWritable(c) \/ OnAllocate(c)
             PROVE  TypeInv'
  BY DEF Network
<1>1. /\ channels' = channels /\ target' = target /\ late' = late
      /\ workerQueue' = workerQueue
  BY DEF OnChannelMessage, HandleWritable, HandleNotWritable, OnAllocate,
         channelVars, sessionVars
<1>2. /\ signalingQueue \in Seq(ToSignaling)
      /\ {"channelmessage", "writestate", "requestsignaling"} \subseteq ToSignaling
  BY DEF TypeInv, TypeOK, ToSignaling
<1>3. CASE OnChannelMessage(c)
  <2>1. messages' = Append(messages, Served)
    BY <1>3 DEF OnChannelMessage
  <2>2. Cardinality(Resets(workerQueue)) \in Nat
    BY ResetsFinite DEF TypeInv, TypeOK
  <2>3. Served \in 0..MaxRedirects
    BY <2>2, TransportAssumption DEF TypeInv, TypeOK, Served, Resets
  <2>4. messages' \in Seq(0..MaxRedirects)
    BY <2>1, <2>3 DEF TypeInv, TypeOK
  <2>5. signalingQueue' \in Seq(ToSignaling)
    BY <1>2, <1>3 DEF OnChannelMessage
  <2>6. found' \in 0..MaxCandidates
    BY <1>3, TransportAssumption DEF OnChannelMessage, TypeInv, TypeOK
  <2>7. TypeOK'
    BY <1>1, <1>3, <2>4, <2>5, <2>6
    DEF TypeInv, TypeOK, OnChannelMessage, channelVars, sessionVars
  <2> QED
    BY <1>1, <2>7 DEF TypeInv
<1>4. CASE HandleWritable(c)
  <2>1. signalingQueue' \in Seq(ToSignaling)
    BY <1>2, <1>4 DEF HandleWritable
  <2>2. TypeOK'
    BY <1>1, <1>4, <2>1 DEF TypeInv, TypeOK, HandleWritable, sessionVars
  <2> QED
    BY <1>1, <2>2 DEF TypeInv
<1>5. CASE HandleNotWritable(c)
  <2>1. \A a, b, d \in Seq(ToSignaling) : a \o b \o d \in Seq(ToSignaling)
    OBVIOUS
  <2>2. /\ <<"requestsignaling">> \in Seq(ToSignaling)
        /\ <<"writestate">> \in Seq(ToSignaling) /\ <<>> \in Seq(ToSignaling)
    BY <1>2
  <2>3. signalingQueue' \in Seq(ToSignaling)
    BY <1>2, <1>5, <2>1, <2>2 DEF HandleNotWritable
  <2>4. TypeOK'
    BY <1>1, <1>5, <2>3 DEF TypeInv, TypeOK, HandleNotWritable, sessionVars
  <2> QED
    BY <1>1, <2>4 DEF TypeInv
<1>6. CASE OnAllocate(c)
  <2>1. signalingQueue' \in Seq(ToSignaling)
    BY <1>2, <1>6 DEF OnAllocate
  <2>2. TypeOK'
    BY <1>1, <1>6, <2>1 DEF TypeInv, TypeOK, OnAllocate, sessionVars
  <2> QED
    BY <1>1, <2>2 DEF TypeInv
<1> QED
  BY <1>3, <1>4, <1>5, <1>6

LEMMA TypeStep == TypeInv /\ [Next]_vars => TypeInv'
<1>1. TypeInv /\ UNCHANGED vars => TypeInv'
  BY DEF TypeInv, TypeOK, vars, channelVars, queueVars, sessionVars
<1> QED
  BY <1>1, TypeClient, TypeSignaling, TypeWorker, TypeNetwork DEF Next

\* Every variable of the transport has its type, whatever the bounds are.
THEOREM TransportTypes == Spec => []TypeOK
<1>1. TypeInv => TypeOK
  BY DEF TypeInv
<1> QED
  BY <1>1, TypeInit, TypeStep, PTL DEF Spec

----------------------------------------------------------------------------
(* What the steps do to the queues *)

\* No message leaves the queue of a thread.
SignalsKept == \A m : Has(signalingQueue, m) => Has(signalingQueue', m)
OrdersKept  == \A m : Has(workerQueue, m) => Has(workerQueue', m)

\* Only the message at the head leaves.
SignalsKeptBut(h) ==
    \A m : m # h /\ Has(signalingQueue, m) => Has(signalingQueue', m)
OrdersKeptBut(h) ==
    \A m : m # h /\ Has(workerQueue, m) => Has(workerQueue', m)

LEMMA HasConcat3 ==
    ASSUME NEW q \in Seq(ToSignaling), NEW r \in Seq(ToSignaling),
           NEW t \in Seq(ToSignaling), NEW m
    PROVE  Has(q \o r \o t, m) <=> Has(q, m) \/ Has(r, m) \/ Has(t, m)
<1>1. q \o r \in Seq(ToSignaling)
  OBVIOUS
<1>2. Has(q \o r, m) <=> Has(q, m) \/ Has(r, m)
  BY HasConcat
<1>3. Has((q \o r) \o t, m) <=> Has(q \o r, m) \/ Has(t, m)
  BY <1>1, HasConcat
<1> QED
  BY <1>2, <1>3

LEMMA HasOne == ASSUME NEW e, NEW m PROVE Has(<<e>>, m) <=> e = m
<1>1. DOMAIN <<e>> = {1} /\ <<e>>[1] = e
  OBVIOUS
<1> QED
  BY <1>1 DEF Has

\* What the signaling thread takes from its queue.
LEMMA TakeSignal ==
    ASSUME TypeInv, NEW h, AtHead(signalingQueue, h),
           signalingQueue' = Tail(signalingQueue)
    PROVE  SignalsKeptBut(h)
<1>1. signalingQueue \in Seq(ToSignaling) /\ signalingQueue # <<>>
      /\ Head(signalingQueue) = h
  BY DEF TypeInv, TypeOK, AtHead
<1> QED
  BY <1>1, HasTail DEF SignalsKeptBut

\* What the worker takes from its queue.
LEMMA TakeOrder ==
    ASSUME TypeInv, NEW h, AtHead(workerQueue, h),
           workerQueue' = Tail(workerQueue)
    PROVE  OrdersKeptBut(h)
<1>1. workerQueue \in Seq(ToWorker) /\ workerQueue # <<>>
      /\ Head(workerQueue) = h
  BY DEF TypeInv, TypeOK, AtHead
<1> QED
  BY <1>1, HasTail DEF OrdersKeptBut

\* A new channel that connects at once asks for signaling, and the first one
\* has the session told.
LEMMA CreatePosts ==
    ASSUME TypeInv, NEW c \in Channel, CreateChannel(c)
    PROVE  /\ SignalsKept
           /\ connectRequested => Has(signalingQueue', "requestsignaling")
           /\ connectRequested /\ channels = {} => Has(signalingQueue', "connecting")
<1> DEFINE r == <<"requestsignaling">>
           t == IF channels = {} THEN <<"connecting">> ELSE <<>>
<1>1. signalingQueue \in Seq(ToSignaling)
      /\ {"requestsignaling", "connecting"} \subseteq ToSignaling
  BY DEF TypeInv, TypeOK, ToSignaling
<1>2. r \in Seq(ToSignaling) /\ t \in Seq(ToSignaling)
  BY <1>1
<1>3. Has(r, "requestsignaling") /\ (channels = {} => Has(t, "connecting"))
  BY HasOne
<1>4. CASE connectRequested
  <2>1. signalingQueue' = signalingQueue \o r \o t
    BY <1>4 DEF CreateChannel
  <2> HIDE DEF r, t
  <2> QED
    BY <1>1, <1>2, <1>3, <2>1, HasConcat3 DEF SignalsKept
<1>5. CASE ~connectRequested
  BY <1>5 DEF CreateChannel, SignalsKept
<1> QED
  BY <1>4, <1>5

\* The first order to connect announces the messages that are held, asks for
\* every channel, and has the session told when there is one.
LEMMA ConnectPosts ==
    ASSUME TypeInv, ConnectChannels_w
    PROVE  /\ SignalsKept /\ OrdersKeptBut("connectchannels")
           /\ ~connectRequested =>
                 /\ Has(signalingQueue', "channelmessage")
                 /\ channels # {} => /\ Has(signalingQueue', "requestsignaling")
                                     /\ Has(signalingQueue', "connecting")
<1> DEFINE p == signalingQueue \o <<"channelmessage">>
           r == Each(channels, "requestsignaling")
           t == IF channels = {} THEN <<>> ELSE <<"connecting">>
<1>1. signalingQueue \in Seq(ToSignaling)
      /\ {"requestsignaling", "connecting", "channelmessage"} \subseteq ToSignaling
      /\ IsFiniteSet(channels)
  BY DEF TypeInv, TypeOK, ToSignaling
<1>2. <<"channelmessage">> \in Seq(ToSignaling) /\ t \in Seq(ToSignaling)
  BY <1>1
<1>3. /\ r \in Seq(ToSignaling)
      /\ channels # {} => Has(r, "requestsignaling")
  BY <1>1, EachHas
<1>4. p \in Seq(ToSignaling)
  BY <1>1, <1>2
<1>5. \A m : Has(p, m) <=> Has(signalingQueue, m) \/ Has(<<"channelmessage">>, m)
  BY <1>1, <1>2, HasConcat
<1>6. Has(<<"channelmessage">>, "channelmessage")
      /\ (channels # {} => Has(t, "connecting"))
  BY HasOne
<1>7. OrdersKeptBut("connectchannels")
  BY TakeOrder DEF ConnectChannels_w
<1>8. CASE ~connectRequested
  <2>1. signalingQueue' = p \o r \o t
    BY <1>8 DEF ConnectChannels_w
  <2> HIDE DEF p, r, t
  <2>2. \A m : Has(signalingQueue', m) <=> Has(p, m) \/ Has(r, m) \/ Has(t, m)
    BY <1>2, <1>3, <1>4, <2>1, HasConcat3
  <2> QED
    BY <1>3, <1>5, <1>6, <1>7, <2>2 DEF SignalsKept
<1>9. CASE connectRequested
  BY <1>7, <1>9 DEF ConnectChannels_w, SignalsKept
<1> QED
  BY <1>8, <1>9

\* A reset has the signaling thread told of every channel that was writable.
LEMMA ResetPosts ==
    ASSUME TypeInv, ResetChannels_w
    PROVE  /\ SignalsKept
           /\ chWritable # {} => Has(signalingQueue', "writestate")
<1>1. signalingQueue \in Seq(ToSignaling) /\ "writestate" \in ToSignaling
      /\ IsFiniteSet(chWritable)
  BY FS_Subset DEF TypeInv, TypeOK, ToSignaling
<1>2. /\ Each(chWritable, "writestate") \in Seq(ToSignaling)
      /\ chWritable # {} => Has(Each(chWritable, "writestate"), "writestate")
  BY <1>1, EachHas
<1>3. signalingQueue' = signalingQueue \o Each(chWritable, "writestate")
  BY DEF ResetChannels_w
<1> QED
  BY <1>1, <1>2, <1>3, HasConcat DEF SignalsKept

\* What the network does to a channel is posted to the signaling thread.
LEMMA NetworkPosts ==
    ASSUME TypeInv, NEW c \in Channel,
           OnChannelMessage(c) \/ HandleWritable(c)
           \/ HandleNotWritable(c) \/ OnAllocate(c)
    PROVE  /\ SignalsKept
           /\ OnChannelMessage(c) /\ connectRequested
                 => Has(signalingQueue', "channelmessage")
           /\ HandleWritable(c) => Has(signalingQueue', "writestate")
           /\ HandleNotWritable(c) =>
                 /\ Has(signalingQueue', "requestsignaling")
                 /\ c \in chWritable => Has(signalingQueue', "writestate")
           /\ OnAllocate(c) => Has(signalingQueue', "requestsignaling")
<1>1. /\ signalingQueue \in Seq(ToSignaling)
      /\ {"channelmessage", "writestate", "requestsignaling"} \subseteq ToSignaling
  BY DEF TypeInv, TypeOK, ToSignaling
<1>2. \A e \in ToSignaling : \A m :
        Has(Append(signalingQueue, e), m) <=> Has(signalingQueue, m) \/ e = m
  BY <1>1, HasAppend
<1>3. OnChannelMessage(c) => SignalsKept /\
        (connectRequested => Has(signalingQueue', "channelmessage"))
  BY <1>1, <1>2 DEF OnChannelMessage, SignalsKept
<1>4. HandleWritable(c) => SignalsKept /\ Has(signalingQueue', "writestate")
  BY <1>1, <1>2 DEF HandleWritable, SignalsKept
<1>5. OnAllocate(c) => SignalsKept /\ Has(signalingQueue', "requestsignaling")
  BY <1>1, <1>2 DEF OnAllocate, SignalsKept
<1>6. ASSUME HandleNotWritable(c)
      PROVE  /\ SignalsKept /\ Has(signalingQueue', "requestsignaling")
             /\ c \in chWritable => Has(signalingQueue', "writestate")
  <2> DEFINE r == <<"requestsignaling">>
             t == IF c \in chWritable THEN <<"writestate">> ELSE <<>>
  <2>1. r \in Seq(ToSignaling) /\ t \in Seq(ToSignaling)
    BY <1>1
  <2>2. Has(r, "requestsignaling") /\ (c \in chWritable => Has(t, "writestate"))
    BY HasOne
  <2>3. signalingQueue' = signalingQueue \o r \o t
    BY <1>6 DEF HandleNotWritable
  <2> HIDE DEF r, t
  <2> QED
    BY <1>1, <2>1, <2>2, <2>3, HasConcat3 DEF SignalsKept
<1> QED
  BY <1>3, <1>4, <1>5, <1>6

\* What is posted to the worker.
LEMMA OrderPosts ==
    ASSUME TypeInv
    PROVE  /\ Initiate \/ SetTransport => OrdersKept
           /\ Redirect => /\ OrdersKept
                          /\ Has(workerQueue', "resetchannels") \/ late' > 0
           /\ OnChannelRequestSignaling_s =>
                 OrdersKept /\ Has(workerQueue', "signalingready")
<1>1. /\ workerQueue \in Seq(ToWorker)
      /\ {"connectchannels", "resetchannels", "signalingready"} \subseteq ToWorker
  BY DEF TypeInv, TypeOK, ToWorker
<1>2. \A e \in ToWorker : \A m :
        Has(Append(workerQueue, e), m) <=> Has(workerQueue, m) \/ e = m
  BY <1>1, HasAppend
<1>3. ConnectChannels => OrdersKept
  BY <1>1, <1>2 DEF ConnectChannels, OrdersKept
<1>4. OnChannelRequestSignaling_s =>
        OrdersKept /\ Has(workerQueue', "signalingready")
  BY <1>1, <1>2 DEF OnChannelRequestSignaling_s, OrdersKept
<1>5. Initiate \/ SetTransport => OrdersKept
  BY <1>3 DEF Initiate, SetTransport
<1>6. ASSUME Redirect, ~chosen PROVE OrdersKept /\ Has(workerQueue', "resetchannels")
  <2> DEFINE r == <<"resetchannels", "connectchannels">>
  <2>1. r \in Seq(ToWorker) /\ 1 \in DOMAIN r /\ r[1] = "resetchannels"
    BY <1>1
  <2>2. Has(r, "resetchannels")
    BY <2>1 DEF Has
  <2>3. workerQueue' = workerQueue \o r
    BY <1>6 DEF Redirect
  <2> HIDE DEF r
  <2> QED
    BY <1>1, <2>1, <2>2, <2>3, HasConcat DEF OrdersKept
<1>7. ASSUME Redirect, chosen PROVE OrdersKept /\ late' > 0
  BY <1>3, <1>7 DEF Redirect, TypeInv, TypeOK
<1> QED
  BY <1>4, <1>6, <1>5, <1>7


----------------------------------------------------------------------------
(* What one thread waits for is in the queue of the other *)

\* A candidate that was found for an earlier target is held only while the
\* reset that clears it is posted, if no redirect came after the choice.
StaleIsCleared ==
    late = 0 => \A i \in DOMAIN messages :
        messages[i] # target => Has(workerQueue, "resetchannels")

UnderWay == HeldIsAnnounced /\ WaitingIsAnswered /\ StaleIsCleared

LEMMA UnderWayInit == Init => UnderWay
  BY DEF Init, UnderWay, HeldIsAnnounced, WaitingIsAnswered, StaleIsCleared

LEMMA UnderWayClient == TypeInv /\ UnderWay /\ Client => UnderWay'
<1> SUFFICES ASSUME TypeInv, UnderWay, Client PROVE UnderWay'
  OBVIOUS
<1> USE DEF UnderWay, HeldIsAnnounced, WaitingIsAnswered, StaleIsCleared
<1>1. ASSUME NEW c \in Channel, CreateChannel(c) PROVE UnderWay'
  BY <1>1, CreatePosts DEF CreateChannel, SignalsKept, sessionVars
<1>2. ASSUME NEW c \in Channel, DestroyChannel(c) PROVE UnderWay'
  <2>1. /\ signalingQueue \in Seq(ToSignaling) /\ "connecting" \in ToSignaling
        /\ signalingQueue' \in {signalingQueue, Append(signalingQueue, "connecting")}
    BY <1>2 DEF DestroyChannel, TypeInv, TypeOK, ToSignaling
  <2>2. SignalsKept
    BY ZenonT(80), <2>1, HasAppend DEF SignalsKept
  <2> QED
    BY <1>2, <2>2 DEF DestroyChannel, SignalsKept, sessionVars
<1>3. ASSUME Initiate \/ SetTransport PROVE UnderWay'
  <2>1. OrdersKept
    BY <1>3, OrderPosts
  <2>2. UNCHANGED <<messages, connectRequested, waiting, signalingQueue, target, late>>
    BY <1>3 DEF Initiate, SetTransport, channelVars
  <2> QED
    BY <2>1, <2>2 DEF OrdersKept
<1>4. ASSUME Redirect PROVE UnderWay'
  <2>1. OrdersKept /\ (Has(workerQueue', "resetchannels") \/ late' > 0)
    BY <1>4, OrderPosts
  <2>2. UNCHANGED <<messages, connectRequested, waiting, signalingQueue>>
    BY <1>4 DEF Redirect, channelVars
  <2>3. StaleIsCleared'
    BY <2>1
  <2> QED
    BY <2>1, <2>2, <2>3 DEF OrdersKept
<1> QED
  BY <1>1, <1>2, <1>3, <1>4 DEF Client

LEMMA UnderWaySignaling == TypeInv /\ UnderWay /\ SignalingThread => UnderWay'
<1> SUFFICES ASSUME TypeInv, UnderWay, SignalingThread PROVE UnderWay'
  OBVIOUS
<1> USE DEF UnderWay, HeldIsAnnounced, WaitingIsAnswered, StaleIsCleared
<1>1. CASE OnConnecting_s
  <2>1. SignalsKeptBut("connecting")
    BY <1>1, TakeSignal DEF OnConnecting_s
  <2> QED
    BY <1>1, <2>1 DEF OnConnecting_s, SignalsKeptBut, channelVars
<1>2. CASE OnChannelWritableState_s
  <2>1. SignalsKeptBut("writestate")
    BY <1>2, TakeSignal DEF OnChannelWritableState_s
  <2> QED
    BY <1>2, <2>1 DEF OnChannelWritableState_s, SignalsKeptBut, channelVars
<1>3. CASE OnChannelRequestSignaling_s
  <2>1. SignalsKeptBut("requestsignaling")
    BY <1>3, TakeSignal DEF OnChannelRequestSignaling_s
  <2>2. OrdersKept /\ Has(workerQueue', "signalingready")
    BY <1>3, OrderPosts
  <2> QED
    BY <1>3, <2>1, <2>2
    DEF OnChannelRequestSignaling_s, SignalsKeptBut, OrdersKept, channelVars,
        sessionVars
<1>4. CASE OnChannelMessage_s
  <2>1. SignalsKeptBut("channelmessage")
    BY <1>4, TakeSignal DEF OnChannelMessage_s
  <2>2. messages' = <<>> /\ DOMAIN messages' = {}
    BY <1>4 DEF OnChannelMessage_s
  <2> QED
    BY <1>4, <2>1, <2>2 DEF OnChannelMessage_s, SignalsKeptBut, channelVars
<1> QED
  BY <1>1, <1>2, <1>3, <1>4 DEF SignalingThread

LEMMA UnderWayWorker == TypeInv /\ UnderWay /\ WorkerThread => UnderWay'
<1> SUFFICES ASSUME TypeInv, UnderWay, WorkerThread PROVE UnderWay'
  OBVIOUS
<1> USE DEF UnderWay, HeldIsAnnounced, WaitingIsAnswered, StaleIsCleared
<1>1. CASE ConnectChannels_w
  BY <1>1, ConnectPosts
  DEF ConnectChannels_w, SignalsKept, OrdersKeptBut, sessionVars
<1>2. CASE ResetChannels_w
  <2>1. messages' = <<>> /\ DOMAIN messages' = {} /\ waiting' = {}
    BY <1>2 DEF ResetChannels_w
  <2> QED
    BY <2>1
<1>3. CASE OnSignalingReady_w
  <2>1. OrdersKeptBut("signalingready")
    BY <1>3, TakeOrder DEF OnSignalingReady_w
  <2> QED
    BY <1>3, <2>1 DEF OnSignalingReady_w, OrdersKeptBut, sessionVars
<1> QED
  BY <1>1, <1>2, <1>3 DEF WorkerThread

LEMMA UnderWayNetwork == TypeInv /\ UnderWay /\ Network => UnderWay'
<1> SUFFICES ASSUME TypeInv, UnderWay, NEW c \in Channel,
                    OnChannelMessage(c) \/ HandleWritable(c)
                    \/ HandleNotWritable(c) \/ OnAllocate(c)
             PROVE  UnderWay'
  BY DEF Network
<1> USE DEF UnderWay, HeldIsAnnounced, WaitingIsAnswered, StaleIsCleared
<1>1. SignalsKept
  BY NetworkPosts
<1>2. CASE OnChannelMessage(c)
  <2> DEFINE n == Cardinality(Resets(workerQueue))
  <2>1. messages' = Append(messages, Served) /\ Served = target - late - n
    BY <1>2 DEF OnChannelMessage, Served, Resets
  <2>2. messages \in Seq(0..MaxRedirects) /\ target \in Nat /\ n \in Nat
        /\ late \in Nat
    BY ResetsFinite, TransportAssumption DEF TypeInv, TypeOK
  <2>3. n # 0 => Has(workerQueue, "resetchannels")
    <3>1. Resets(workerQueue) = {} => n = 0
      BY FS_EmptySet
    <3> QED
      BY <3>1 DEF Resets, Has
  <2>4. workerQueue' = workerQueue /\ target' = target /\ late' = late
        /\ waiting' = waiting
        /\ connectRequested' = connectRequested
    BY <1>2 DEF OnChannelMessage, channelVars, sessionVars
  <2>5. StaleIsCleared'
    <3> HIDE DEF n
    <3>1. ASSUME late = 0, NEW i \in DOMAIN messages', messages'[i] # target
          PROVE  Has(workerQueue, "resetchannels")
      <4>1. CASE i \in DOMAIN messages
        BY <2>1, <2>2, <3>1, <4>1
      <4>2. CASE i \notin DOMAIN messages
        <5>1. messages'[i] = target - late - n
          BY <2>1, <2>2, <4>2
        <5> QED
          BY <2>2, <2>3, <3>1, <5>1
      <4> QED
        BY <4>1, <4>2
    <3> QED
      BY <2>4, <3>1
  <2>6. connectRequested => Has(signalingQueue', "channelmessage")
    BY <1>2, NetworkPosts
  <2> QED
    BY <1>1, <2>4, <2>5, <2>6 DEF SignalsKept
<1>3. CASE HandleWritable(c)
  BY <1>1, <1>3 DEF HandleWritable, SignalsKept, sessionVars
<1>4. CASE HandleNotWritable(c)
  BY <1>1, <1>4, NetworkPosts DEF HandleNotWritable, SignalsKept, sessionVars
<1>5. CASE OnAllocate(c)
  BY <1>1, <1>5, NetworkPosts DEF OnAllocate, SignalsKept, sessionVars
<1> QED
  BY <1>2, <1>3, <1>4, <1>5

LEMMA UnderWayStep == TypeInv /\ UnderWay /\ [Next]_vars => UnderWay'
<1>1. UnderWay /\ UNCHANGED vars => UnderWay'
  BY DEF UnderWay, HeldIsAnnounced, WaitingIsAnswered, StaleIsCleared, vars,
         channelVars, queueVars, sessionVars
<1> QED
  BY <1>1, UnderWayClient, UnderWaySignaling, UnderWayWorker, UnderWayNetwork
  DEF Next

\* What a step sends to another target than it was found for.
LEMMA SentStep ==
    UnderWay /\ [Next]_vars =>
        \A s \in sent' \ sent :
            late = 0 /\ s[1] # s[2] => Has(workerQueue, "resetchannels")
<1>1. [Next]_vars /\ ~OnChannelMessage_s => sent' = sent
  BY DEF Next, Client, SignalingThread, WorkerThread, Network, CreateChannel,
         DestroyChannel, Initiate, SetTransport, Redirect, OnConnecting_s,
         OnChannelWritableState_s, OnChannelRequestSignaling_s,
         ConnectChannels_w, ResetChannels_w, OnSignalingReady_w,
         OnChannelMessage, HandleWritable, HandleNotWritable, OnAllocate,
         vars, sessionVars
<1>2. ASSUME UnderWay, OnChannelMessage_s, NEW s \in sent' \ sent,
             late = 0, s[1] # s[2]
      PROVE  Has(workerQueue, "resetchannels")
  <2>1. PICK i \in DOMAIN messages : s = <<messages[i], target>>
    BY <1>2 DEF OnChannelMessage_s
  <2> QED
    BY <1>2, <2>1 DEF UnderWay, StaleIsCleared
<1> QED
  BY <1>1, <1>2

\* If no redirect came after the transport was chosen, a candidate found for an
\* earlier target is sent to the new one only while the reset is under way.
THEOREM OldMessages == Spec => OldMessagesAreCleared
<1>1. Spec => []UnderWay
  BY TypeInit, TypeStep, UnderWayInit, UnderWayStep, PTL DEF Spec
<1> QED
  BY <1>1, SentStep, PTL DEF Spec, OldMessagesAreCleared

----------------------------------------------------------------------------
(* The session's timer *)

\* What the session was told is writable_, not what the channels are: while it
\* believes that none got through, its timer runs or will be started, if no
\* redirect came after the choice.
Watched ==
    late = 0 /\ connectRequested /\ channels # {} /\ ~writable =>
        \/ timer
        \/ Has(signalingQueue, "connecting")
        \/ Has(workerQueue, "resetchannels")

WatchInv == WritableIsTheOr /\ Watched

LEMMA WatchInit == Init => WatchInv
  BY DEF Init, WatchInv, WritableIsTheOr, Watched

LEMMA WatchClient == TypeInv /\ WatchInv /\ ~Destroying /\ Client => WatchInv'
<1> SUFFICES ASSUME TypeInv, WatchInv, ~Destroying, Client PROVE WatchInv'
  OBVIOUS
<1> USE DEF WatchInv, WritableIsTheOr, Watched
<1>1. ASSUME NEW c \in Channel, CreateChannel(c) PROVE WatchInv'
  BY <1>1, CreatePosts DEF CreateChannel, SignalsKept, sessionVars
<1>2. ASSUME Initiate \/ SetTransport PROVE WatchInv'
  <2>1. OrdersKept
    BY <1>2, OrderPosts
  <2>2. UNCHANGED <<channels, chWritable, connectRequested, writable,
                    signalingQueue, timer, late>>
    BY <1>2 DEF Initiate, SetTransport, channelVars
  <2> QED
    BY <2>1, <2>2 DEF OrdersKept
<1>3. ASSUME Redirect PROVE WatchInv'
  <2>1. Has(workerQueue', "resetchannels") \/ late' > 0
    BY <1>3, OrderPosts
  <2>2. UNCHANGED <<chWritable, writable, signalingQueue>>
    BY <1>3 DEF Redirect, channelVars
  <2> QED
    BY <2>1, <2>2
<1> QED
  BY <1>1, <1>2, <1>3 DEF Client, DestroyChannel

LEMMA WatchSignaling == TypeInv /\ WatchInv /\ SignalingThread => WatchInv'
<1> SUFFICES ASSUME TypeInv, WatchInv, SignalingThread PROVE WatchInv'
  OBVIOUS
<1> USE DEF WatchInv, WritableIsTheOr, Watched
<1>1. CASE OnConnecting_s
  <2>1. SignalsKeptBut("connecting")
    BY <1>1, TakeSignal DEF OnConnecting_s
  <2> QED
    BY <1>1, <2>1 DEF OnConnecting_s, Watch, SignalsKeptBut, channelVars
<1>2. CASE OnChannelWritableState_s
  <2>1. SignalsKeptBut("writestate")
    BY <1>2, TakeSignal DEF OnChannelWritableState_s
  <2>2. writable \in BOOLEAN
    BY DEF TypeInv, TypeOK
  <2>3. WritableIsTheOr'
    BY <1>2 DEF OnChannelWritableState_s, channelVars
  <2>4. CASE writable' # writable
    BY <1>2, <2>3, <2>4 DEF OnChannelWritableState_s, Watch, channelVars
  <2>5. CASE writable' = writable
    BY <1>2, <2>1, <2>3, <2>5
    DEF OnChannelWritableState_s, SignalsKeptBut, channelVars
  <2> QED
    BY <2>4, <2>5
<1>3. CASE OnChannelRequestSignaling_s
  <2>1. SignalsKeptBut("requestsignaling")
    BY <1>3, TakeSignal DEF OnChannelRequestSignaling_s
  <2>2. OrdersKept
    BY <1>3, OrderPosts
  <2> QED
    BY <1>3, <2>1, <2>2
    DEF OnChannelRequestSignaling_s, SignalsKeptBut, OrdersKept, channelVars,
        sessionVars
<1>4. CASE OnChannelMessage_s
  <2>1. SignalsKeptBut("channelmessage")
    BY <1>4, TakeSignal DEF OnChannelMessage_s
  <2> QED
    BY <1>4, <2>1 DEF OnChannelMessage_s, SignalsKeptBut, channelVars
<1> QED
  BY <1>1, <1>2, <1>3, <1>4 DEF SignalingThread

LEMMA WatchWorker == TypeInv /\ WatchInv /\ WorkerThread => WatchInv'
<1> SUFFICES ASSUME TypeInv, WatchInv, WorkerThread PROVE WatchInv'
  OBVIOUS
<1> USE DEF WatchInv, WritableIsTheOr, Watched
<1>1. CASE ConnectChannels_w
  BY <1>1, ConnectPosts
  DEF ConnectChannels_w, SignalsKept, OrdersKeptBut, sessionVars
<1>2. CASE ResetChannels_w
  BY <1>2, ResetPosts DEF ResetChannels_w, SignalsKept
<1>3. CASE OnSignalingReady_w
  <2>1. OrdersKeptBut("signalingready")
    BY <1>3, TakeOrder DEF OnSignalingReady_w
  <2> QED
    BY <1>3, <2>1 DEF OnSignalingReady_w, OrdersKeptBut, sessionVars
<1> QED
  BY <1>1, <1>2, <1>3 DEF WorkerThread

LEMMA WatchNetwork == TypeInv /\ WatchInv /\ Network => WatchInv'
<1> SUFFICES ASSUME TypeInv, WatchInv, NEW c \in Channel,
                    OnChannelMessage(c) \/ HandleWritable(c)
                    \/ HandleNotWritable(c) \/ OnAllocate(c)
             PROVE  WatchInv'
  BY DEF Network
<1> USE DEF WatchInv, WritableIsTheOr, Watched
<1>1. SignalsKept
  BY NetworkPosts
<1>2. Watched'
  BY <1>1 DEF OnChannelMessage, HandleWritable, HandleNotWritable, OnAllocate,
              SignalsKept, channelVars, sessionVars
<1>3. CASE chWritable' = chWritable
  BY <1>1, <1>2, <1>3 DEF OnChannelMessage, HandleWritable, HandleNotWritable,
                          OnAllocate, SignalsKept
<1>4. CASE chWritable' # chWritable
  <2>1. HandleWritable(c) \/ (HandleNotWritable(c) /\ c \in chWritable)
    <3>1. c \notin chWritable => chWritable \ {c} = chWritable
      OBVIOUS
    <3>2. ~OnChannelMessage(c) /\ ~OnAllocate(c)
      BY <1>4 DEF OnChannelMessage, OnAllocate, channelVars
    <3>3. HandleNotWritable(c) => c \in chWritable
      BY <1>4, <3>1 DEF HandleNotWritable
    <3> QED
      BY <3>2, <3>3
  <2>2. Has(signalingQueue', "writestate")
    BY <2>1, NetworkPosts
  <2> QED
    BY <1>2, <2>2
<1> QED
  BY <1>3, <1>4

LEMMA WatchStep ==
    TypeInv /\ WatchInv /\ ~Destroying /\ [Next]_vars => WatchInv'
<1>1. WatchInv /\ UNCHANGED vars => WatchInv'
  BY DEF WatchInv, WritableIsTheOr, Watched, vars, channelVars, queueVars,
         sessionVars
<1> QED
  BY <1>1, WatchClient, WatchSignaling, WatchWorker, WatchNetwork DEF Next

\* While no channel is destroyed, what the transport believes agrees with its
\* channels, or the message that corrects it is posted.
THEOREM WritableAgrees ==
    ASSUME ~Destroying PROVE Spec => []WritableIsTheOr
<1>1. TypeInv /\ WatchInv /\ [Next]_vars => WatchInv'
  BY WatchStep
<1>2. WatchInv => WritableIsTheOr
  BY DEF WatchInv
<1> QED
  BY <1>1, <1>2, TypeInit, TypeStep, WatchInit, PTL DEF Spec

\* While no channel is destroyed, whatever one thread waits for is posted to
\* the other: candidates, signaling channels, and the session's timer, if no
\* redirect came after the transport was chosen.
THEOREM RequestsUnderWay ==
    ASSUME ~Destroying PROVE Spec => []RequestsAreUnderWay
<1>1. TypeInv /\ WatchInv /\ [Next]_vars => WatchInv'
  BY WatchStep
<1>2. TypeInv /\ UnderWay /\ WatchInv => RequestsAreUnderWay
  <2>1. TypeInv /\ WatchInv => ConnectingIsWatched
    BY DEF TypeInv, TypeOK, WatchInv, WritableIsTheOr, Watched,
           ConnectingIsWatched, Connecting, WatchUnderWay
  <2> QED
    BY <2>1 DEF UnderWay, RequestsAreUnderWay
<1> QED
  BY <1>1, <1>2, TypeInit, TypeStep, UnderWayInit, UnderWayStep, WatchInit, PTL
  DEF Spec

----------------------------------------------------------------------------
(* The timer of a session without channels *)

\* Without redirects a transport that was not asked to connect has done nothing
\* yet, and it is never reset.
Idle ==
    /\ target = 0 /\ ~Has(workerQueue, "resetchannels")
    /\ connectRequested = FALSE =>
          /\ ~timer /\ ~writable /\ ~Has(signalingQueue, "connecting")
          /\ chWritable = {} /\ allocated = {} /\ waiting = {} /\ delayed = {}

\* When channels are not destroyed, there are some as soon as the timer runs.
Keeping == timer => channels # {}

TimerInv == /\ NoChannelsNoTimer
            /\ \/ MaxRedirects = 0 /\ Idle
               \/ Destroying = FALSE /\ Keeping

LEMMA TimerInit ==
    ASSUME MaxRedirects = 0 \/ ~Destroying
    PROVE  Init => TimerInv
  BY TransportAssumption DEF Init, TimerInv, NoChannelsNoTimer, Idle, Keeping, Has

\* Nothing is reset, and what is posted was asked for.
LEMMA IdleStep == TypeInv /\ Idle /\ MaxRedirects = 0 /\ [Next]_vars => Idle'
<1> SUFFICES ASSUME TypeInv, Idle, MaxRedirects = 0, [Next]_vars PROVE Idle'
  OBVIOUS
<1>1. ~Redirect /\ ~ResetChannels_w
  <2>1. target = 0 /\ ~(0 < MaxRedirects)
    BY DEF Idle
  <2>2. ~AtHead(workerQueue, "resetchannels")
    <3> SUFFICES ASSUME workerQueue # <<>>, Head(workerQueue) = "resetchannels"
                 PROVE  Has(workerQueue, "resetchannels")
      BY DEF AtHead, Idle
    <3> QED
      BY HasTail DEF TypeInv, TypeOK
  <2> QED
    BY <2>1, <2>2 DEF Redirect, ResetChannels_w
<1>2. target' = target
  BY <1>1 DEF Next, Client, SignalingThread, WorkerThread, Network, CreateChannel,
         DestroyChannel, Initiate, SetTransport, ConnectChannels, OnConnecting_s,
         OnChannelWritableState_s, OnChannelRequestSignaling_s, OnChannelMessage_s,
         ConnectChannels_w, OnSignalingReady_w, OnChannelMessage, HandleWritable, HandleNotWritable,
         OnAllocate, vars, sessionVars
<1>3. \/ workerQueue' \in {workerQueue, Append(workerQueue, "connectchannels"),
                           Append(workerQueue, "signalingready")}
      \/ workerQueue # <<>> /\ workerQueue' = Tail(workerQueue)
  BY <1>1 DEF Next, Client, SignalingThread, WorkerThread, Network, CreateChannel,
         DestroyChannel, Initiate, SetTransport, ConnectChannels, OnConnecting_s,
         OnChannelWritableState_s, OnChannelRequestSignaling_s, OnChannelMessage_s,
         ConnectChannels_w, OnSignalingReady_w, OnChannelMessage, HandleWritable, HandleNotWritable,
         OnAllocate, AtHead, vars, queueVars
<1>4. ~Has(workerQueue', "resetchannels")
  <2>1. /\ workerQueue \in Seq(ToWorker) /\ ~Has(workerQueue, "resetchannels")
        /\ "connectchannels" \in ToWorker /\ "signalingready" \in ToWorker
    BY DEF TypeInv, TypeOK, ToWorker, Idle
  <2>2. \A e \in ToWorker : Has(Append(workerQueue, e), "resetchannels")
                            <=> Has(workerQueue, "resetchannels") \/ e = "resetchannels"
    BY <2>1, HasAppend
  <2>3. workerQueue # <<>> => ~Has(Tail(workerQueue), "resetchannels")
    BY <2>1, HasTail
  <2> QED
    BY <1>3, <2>1, <2>2, <2>3
<1>5. CASE connectRequested' = TRUE
  BY <1>2, <1>4, <1>5 DEF Idle
<1>6. CASE connectRequested' # TRUE
  <2>1. connectRequested' = connectRequested /\ connectRequested = FALSE
    BY <1>1, <1>6 DEF TypeInv, TypeOK, Next, Client, SignalingThread, WorkerThread, Network,
         CreateChannel, DestroyChannel, Initiate, SetTransport, ConnectChannels, OnConnecting_s,
         OnChannelWritableState_s, OnChannelRequestSignaling_s, OnChannelMessage_s,
         ConnectChannels_w, OnSignalingReady_w, OnChannelMessage, HandleWritable,
         HandleNotWritable, OnAllocate, vars
  <2>2. /\ ~timer /\ ~writable /\ ~Has(signalingQueue, "connecting")
        /\ chWritable = {} /\ allocated = {} /\ waiting = {} /\ delayed = {}
    BY <2>1 DEF Idle
  <2>3. ~Network /\ ~OnConnecting_s /\ ~ConnectChannels_w
    <3>1. ~AtHead(signalingQueue, "connecting")
      <4> SUFFICES ASSUME signalingQueue # <<>>, Head(signalingQueue) = "connecting"
                   PROVE  Has(signalingQueue, "connecting")
        BY <2>2 DEF AtHead
      <4> QED
        BY HasTail DEF TypeInv, TypeOK
    <3> QED
      BY <1>6, <2>2, <3>1 DEF Network, OnChannelMessage, HandleWritable,
         HandleNotWritable, OnAllocate, OnConnecting_s, ConnectChannels_w
  <2>4. CASE OnChannelWritableState_s
    <3>1. writable' = FALSE /\ timer' = timer
      BY <2>2, <2>4 DEF OnChannelWritableState_s, TypeInv, TypeOK
    <3>2. ~Has(signalingQueue', "connecting")
      BY <2>2, <2>4, TakeSignal, HasTail DEF OnChannelWritableState_s, AtHead, TypeInv,
                                             TypeOK
    <3> QED
      BY <1>2, <1>4, <2>2, <2>4, <3>1, <3>2 DEF OnChannelWritableState_s, Idle, channelVars
  <2>5. CASE OnChannelRequestSignaling_s \/ OnChannelMessage_s
    <3>1. ~Has(signalingQueue', "connecting")
      BY <2>2, <2>5, HasTail DEF OnChannelRequestSignaling_s, OnChannelMessage_s, AtHead,
                                 TypeInv, TypeOK
    <3> QED
      BY <1>2, <1>4, <2>2, <2>5, <3>1
      DEF OnChannelRequestSignaling_s, OnChannelMessage_s, Idle, channelVars, sessionVars
  <2>6. CASE OnSignalingReady_w
    BY <1>2, <1>4, <2>2, <2>6 DEF OnSignalingReady_w, Idle, sessionVars
  <2>7. ASSUME NEW c \in Channel, CreateChannel(c) \/ DestroyChannel(c) PROVE Idle'
    BY <1>2, <1>4, <2>1, <2>2, <2>7 DEF CreateChannel, DestroyChannel, Idle, sessionVars
  <2>8. CASE Initiate \/ SetTransport
    BY <1>2, <1>4, <2>2, <2>8 DEF Initiate, SetTransport, Idle, channelVars
  <2>9. CASE UNCHANGED vars
    BY <1>2, <1>4, <2>2, <2>9 DEF vars, Idle, channelVars, sessionVars, queueVars
  <2> QED
    BY <1>1, <2>3, <2>4, <2>5, <2>6, <2>7, <2>8, <2>9
    DEF Next, Client, SignalingThread, WorkerThread
<1> QED
  BY <1>5, <1>6

\* The timer stops with the last channel, or will.
LEMMA TimerStep == TypeInv /\ TimerInv /\ [Next]_vars => TimerInv'
<1> SUFFICES ASSUME TypeInv, TimerInv, [Next]_vars PROVE TimerInv'
  OBVIOUS
<1>1. CASE OnConnecting_s \/ OnChannelWritableState_s
  <2>1. channels' = channels /\ (timer' => timer \/ channels # {})
    BY <1>1 DEF OnConnecting_s, OnChannelWritableState_s, Watch, channelVars
  <2>2. Keeping => Keeping'
    BY <2>1 DEF Keeping
  <2>3. NoChannelsNoTimer'
    <3>1. CASE OnConnecting_s
      BY <3>1 DEF OnConnecting_s, Watch, NoChannelsNoTimer, channelVars
    <3>2. CASE OnChannelWritableState_s
      <4>1. SignalsKeptBut("writestate")
        BY <3>2, TakeSignal DEF OnChannelWritableState_s
      <4> QED
        BY <2>1, <3>2, <4>1 DEF NoChannelsNoTimer, SignalsKeptBut, TimerInv
    <3> QED
      BY <1>1, <3>1, <3>2
  <2> QED
    BY <2>2, <2>3, IdleStep DEF TimerInv
<1>2. CASE OnChannelRequestSignaling_s \/ OnChannelMessage_s
  <2>1. SignalsKeptBut("requestsignaling") \/ SignalsKeptBut("channelmessage")
    BY <1>2, TakeSignal DEF OnChannelRequestSignaling_s, OnChannelMessage_s
  <2>2. UNCHANGED <<channels, timer>>
    BY <1>2 DEF OnChannelRequestSignaling_s, OnChannelMessage_s, channelVars, sessionVars
  <2> QED
    BY <2>1, <2>2, IdleStep DEF TimerInv, NoChannelsNoTimer, Keeping, SignalsKeptBut
<1>3. CASE WorkerThread \/ Network
  <2>1. SignalsKept
    <3>1. CASE OnSignalingReady_w
      BY <3>1 DEF OnSignalingReady_w, SignalsKept
    <3> QED
      BY <1>3, <3>1, ConnectPosts, ResetPosts, NetworkPosts DEF WorkerThread, Network
  <2>2. UNCHANGED <<channels, timer>>
    BY <1>3 DEF WorkerThread, Network, ConnectChannels_w, ResetChannels_w,
       OnSignalingReady_w, OnChannelMessage, HandleWritable, HandleNotWritable, OnAllocate,
       channelVars, sessionVars
  <2> QED
    BY <2>1, <2>2, IdleStep DEF TimerInv, NoChannelsNoTimer, Keeping, SignalsKept
<1>4. ASSUME NEW c \in Channel, CreateChannel(c) PROVE TimerInv'
  <2>1. channels' # {} /\ timer' = timer
    BY <1>4 DEF CreateChannel, sessionVars
  <2> QED
    BY <2>1, IdleStep DEF TimerInv, NoChannelsNoTimer, Keeping
<1>5. ASSUME NEW c \in Channel, DestroyChannel(c) PROVE TimerInv'
  <2>1. Destroying /\ timer' = timer /\ channels' = channels \ {c} /\ c \in channels
    BY <1>5 DEF DestroyChannel, sessionVars
  <2>2. MaxRedirects = 0 /\ Idle
    BY <2>1 DEF TimerInv
  <2>3. timer => connectRequested
    BY <2>2 DEF Idle, TypeInv, TypeOK
  <2>4. connectRequested /\ channels' = {} => Has(signalingQueue', "connecting")
    <3>1. "connecting" \in ToSignaling /\ signalingQueue \in Seq(ToSignaling)
      BY DEF TypeInv, TypeOK, ToSignaling
    <3>2. Has(Append(signalingQueue, "connecting"), "connecting")
      BY <3>1, HasAppend
    <3> QED
      BY <1>5, <3>2 DEF DestroyChannel
  <2> QED
    BY <2>1, <2>2, <2>3, <2>4, IdleStep DEF TimerInv, NoChannelsNoTimer
<1>6. CASE Initiate \/ SetTransport
  <2>1. UNCHANGED <<channels, timer, signalingQueue>>
    BY <1>6 DEF Initiate, SetTransport, channelVars
  <2> QED
    BY <2>1, IdleStep DEF TimerInv, NoChannelsNoTimer, Keeping
<1>7. CASE Redirect
  <2>1. timer' = FALSE
    BY <1>7 DEF Redirect
  <2> QED
    BY <2>1, IdleStep DEF TimerInv, NoChannelsNoTimer, Keeping
<1>8. CASE UNCHANGED vars
  <2>1. UNCHANGED <<channels, timer, signalingQueue>>
    BY <1>8 DEF vars, channelVars, sessionVars, queueVars
  <2> QED
    BY <2>1, IdleStep DEF TimerInv, NoChannelsNoTimer, Keeping
<1> QED
  BY <1>1, <1>2, <1>3, <1>4, <1>5, <1>6, <1>7, <1>8 DEF Next, Client, SignalingThread

\* If a call that is redirected destroys no channel, the timer stops with the last
\* one: nobody ends a session for the want of a connection it does not need.
THEOREM TimerStops ==
    ASSUME MaxRedirects = 0 \/ ~Destroying
    PROVE  Spec => []NoChannelsNoTimer
<1>1. Init => TimerInv
  BY TimerInit
<1>2. TypeInv /\ TimerInv /\ [Next]_vars => TimerInv'
  BY TimerStep
<1>3. TimerInv => NoChannelsNoTimer
  BY DEF TimerInv
<1> QED
  BY <1>1, <1>2, <1>3, TypeInit, TypeStep, PTL DEF Spec

=============================================================================
