------------------------ MODULE ThreadMessagingProof ------------------------
(***************************************************************************)
(* Proofs about ThreadMessaging: for any set of threads, any number of     *)
(* messages and stacks of any depth.                                       *)
(***************************************************************************)
EXTENDS ThreadMessaging, QueueTheorems

----------------------------------------------------------------------------
(* Activities *)

GetActivity == [kind : {"get"}, at : GetPoint]
SendActivity == [kind : {"send"}, at : SendPoint, to : Thread, msg : Message,
                 waited : BOOLEAN]
HandlerActivity ==
    [kind : {"handler"}, at : HandlerPoint, to : Thread, msg : 0..MaxMessages,
     from : Thread \cup {"post"}, new : 0..MaxMessages]

LEMMA ActivityKinds ==
    ASSUME NEW a \in Activity
    PROVE  /\ a.kind = "get" => a \in GetActivity
           /\ a.kind = "send" => a \in SendActivity
           /\ a.kind = "handler" => a \in HandlerActivity
           /\ a.kind \in {"get", "send", "handler"}
  BY DEF Activity, GetActivity, SendActivity, HandlerActivity

LEMMA GetAt ==
    ASSUME NEW a \in GetActivity, NEW at \in GetPoint
    PROVE  LET b == [a EXCEPT !.at = at]
           IN  b \in Activity /\ b.kind = "get" /\ b.at = at
  BY DEF Activity, GetActivity

LEMMA SendAt ==
    ASSUME NEW a \in SendActivity, NEW at \in SendPoint
    PROVE  LET b == [a EXCEPT !.at = at]
           IN  /\ b \in Activity /\ b.kind = "send" /\ b.at = at
               /\ b.to = a.to /\ b.msg = a.msg /\ b.waited = a.waited
  BY DEF Activity, SendActivity

LEMMA SendWaited ==
    ASSUME NEW a \in SendActivity
    PROVE  LET b == [a EXCEPT !.at = "test", !.waited = TRUE]
           IN  /\ b \in Activity /\ b.kind = "send" /\ b.at = "test"
               /\ b.to = a.to /\ b.msg = a.msg /\ b.waited = TRUE
  BY DEF Activity, SendActivity, SendPoint

LEMMA NewGet == Get \in Activity /\ Get.kind = "get" /\ Get.at = "receive"
  BY DEF Get, Activity, GetPoint

LEMMA NewSend ==
    ASSUME NEW u \in Thread, NEW m \in Message
    PROVE  /\ Send(u, m) \in Activity
           /\ Send(u, m).kind = "send" /\ Send(u, m).at = "push"
           /\ Send(u, m).to = u /\ Send(u, m).msg = m
  BY DEF Send, Activity, SendPoint

LEMMA NewHandler ==
    ASSUME NEW t \in Thread, NEW m \in 0..MaxMessages,
           NEW from \in Thread \cup {"post"}
    PROVE  /\ Handler(t, m, from) \in Activity
           /\ Handler(t, m, from).kind = "handler"
           /\ Handler(t, m, from).at = "run"
           /\ Handler(t, m, from).msg = m /\ Handler(t, m, from).from = from
           /\ Handler(t, m, from).new = 0
<1>1. 0 \in 0..MaxMessages /\ "run" \in HandlerPoint
  BY ThreadAssumption DEF HandlerPoint
<1>2. Handler(t, m, from) \in HandlerActivity
  BY <1>1 DEF Handler, HandlerActivity
<1>3. HandlerActivity \subseteq Activity
  BY DEF HandlerActivity, Activity
<1> QED
  BY <1>2, <1>3 DEF Handler

----------------------------------------------------------------------------
(* Stacks *)

Stacks == [Thread -> Seq(Activity)]

\* The innermost activity of t is replaced by a, or covered by a, or over.
TopIs(t, a) ==
    /\ stack' \in Stacks
    /\ \A u \in Thread : u # t => stack'[u] = stack[u]
    /\ Len(stack'[t]) = Len(stack[t])
    /\ stack'[t][1] = a
    /\ \A i \in 2..Len(stack[t]) : stack'[t][i] = stack[t][i]

Pushed(t, a) ==
    /\ stack' \in Stacks
    /\ \A u \in Thread : u # t => stack'[u] = stack[u]
    /\ Len(stack'[t]) = Len(stack[t]) + 1
    /\ stack'[t][1] = a
    /\ \A i \in 1..Len(stack[t]) : stack'[t][i + 1] = stack[t][i]

Popped(t) ==
    /\ stack' \in Stacks
    /\ \A u \in Thread : u # t => stack'[u] = stack[u]
    /\ Len(stack'[t]) = Len(stack[t]) - 1
    /\ \A i \in 1..(Len(stack[t]) - 1) : stack'[t][i] = stack[t][i + 1]

LEMMA Depth ==
    ASSUME stack \in Stacks, NEW t \in Thread
    PROVE  /\ stack[t] \in Seq(Activity) /\ Len(stack[t]) \in Nat
           /\ DOMAIN stack[t] = 1..Len(stack[t])
           /\ \A i \in 1..Len(stack[t]) : stack[t][i] \in Activity
           /\ Active(t) <=> Len(stack[t]) > 0
           /\ Active(t) => Top(t) = stack[t][1] /\ Top(t) \in Activity
<1>1. stack[t] \in Seq(Activity)
  BY DEF Stacks
<1> QED
  BY <1>1 DEF Active, Top

LEMMA SetStack ==
    ASSUME stack \in Stacks, NEW t \in Thread, NEW s \in Seq(Activity),
           stack' = [stack EXCEPT ![t] = s]
    PROVE  /\ stack' \in Stacks /\ stack'[t] = s
           /\ \A u \in Thread : u # t => stack'[u] = stack[u]
  BY DEF Stacks

LEMMA SetTop ==
    ASSUME stack \in Stacks, NEW t \in Thread, Active(t),
           NEW a \in Activity, stack' = [stack EXCEPT ![t][1] = a]
    PROVE  TopIs(t, a)
<1> DEFINE s == [stack[t] EXCEPT ![1] = a]
<1>1. stack[t] \in Seq(Activity) /\ Len(stack[t]) \in Nat \ {0}
  BY DEF Stacks, Active
<1>2. /\ s \in Seq(Activity) /\ Len(s) = Len(stack[t]) /\ s[1] = a
      /\ \A i \in 2..Len(stack[t]) : s[i] = stack[t][i]
  BY <1>1
<1>3. stack' = [stack EXCEPT ![t] = s]
  OBVIOUS
<1> HIDE DEF s
<1> QED
  BY ZenonT(80), <1>2, <1>3, SetStack DEF TopIs

LEMMA PushTop ==
    ASSUME stack \in Stacks, NEW t \in Thread, NEW a \in Activity, Call(t, a)
    PROVE  Pushed(t, a)
<1> DEFINE s == <<a>> \o stack[t]
<1>1. stack[t] \in Seq(Activity)
  BY DEF Stacks
<1>2. /\ s \in Seq(Activity) /\ Len(s) = Len(stack[t]) + 1 /\ s[1] = a
      /\ \A i \in 1..Len(stack[t]) : s[i + 1] = stack[t][i]
  BY <1>1, Prepended
<1>3. stack' = [stack EXCEPT ![t] = s]
  BY DEF Call
<1> HIDE DEF s
<1> QED
  BY ZenonT(80), <1>2, <1>3, SetStack DEF Pushed

LEMMA PopTop ==
    ASSUME stack \in Stacks, NEW t \in Thread, Active(t),
           stack' = [stack EXCEPT ![t] = Tail(@)]
    PROVE  Popped(t)
<1> DEFINE s == Tail(stack[t])
<1>1. stack[t] \in Seq(Activity) /\ stack[t] # <<>>
  BY DEF Stacks, Active
<1>2. /\ s \in Seq(Activity) /\ Len(s) = Len(stack[t]) - 1
      /\ \A i \in 1..(Len(stack[t]) - 1) : s[i] = stack[t][i + 1]
  BY <1>1, Tailed
<1>3. stack' = [stack EXCEPT ![t] = s]
  OBVIOUS
<1> HIDE DEF s
<1> QED
  BY ZenonT(80), <1>2, <1>3, SetStack DEF Popped

----------------------------------------------------------------------------
(* The shape of a stack: Get is at its bottom and nowhere else, and what is *)
(* covered is where it can be covered: a Get or Send in ReceiveSends, which *)
(* has dispatched a message, a handler in the call of a Send.               *)

FrameOK(a, i, depth) ==
    /\ a.kind = "get" <=> i = depth
    /\ i > 1 /\ a.kind = "get" => a.at \in {"receive", "take"}
    /\ i > 1 /\ a.kind = "send" => a.at = "take"
    /\ a.kind = "handler" /\ a.at = "post" => a.new # 0
    /\ a.kind = "handler" /\ a.from # "post" => a.msg # 0

Shape == \A t \in Thread : \A i \in 1..Len(stack[t]) :
            FrameOK(stack[t][i], i, Len(stack[t]))

TypeInv == TypeOK /\ Shape

LEMMA ShapeOfTop ==
    ASSUME stack \in Stacks, Shape, NEW t \in Thread, Active(t),
           NEW b \in Activity, TopIs(t, b), b.kind = Top(t).kind,
           b.kind = "handler" /\ b.at = "post" => b.new # 0,
           b.kind = "handler" /\ b.from # "post" => b.msg # 0
    PROVE  Shape'
<1>1. /\ Len(stack[t]) \in Nat \ {0} /\ Top(t) = stack[t][1]
      /\ Len(stack'[t]) = Len(stack[t])
  BY Depth DEF TopIs
<1>2. FrameOK(stack[t][1], 1, Len(stack[t]))
  BY <1>1 DEF Shape
<1>3. FrameOK(b, 1, Len(stack[t]))
  BY <1>1, <1>2 DEF FrameOK
<1>4. ASSUME NEW i \in 1..Len(stack'[t])
      PROVE  FrameOK(stack'[t][i], i, Len(stack'[t]))
  BY <1>1, <1>3 DEF Shape, TopIs
<1> QED
  BY <1>4 DEF Shape, TopIs

LEMMA ShapeOfPushed ==
    ASSUME stack \in Stacks, Shape, NEW t \in Thread, Active(t),
           Top(t).kind = "get" => Top(t).at \in {"receive", "take"},
           Top(t).kind = "send" => Top(t).at = "take",
           NEW b \in Activity, Pushed(t, b), b.kind # "get",
           b.kind = "handler" /\ b.at = "post" => b.new # 0,
           b.kind = "handler" /\ b.from # "post" => b.msg # 0
    PROVE  Shape'
<1> DEFINE n == Len(stack[t])
<1>1. n \in Nat \ {0} /\ Top(t) = stack[t][1] /\ Len(stack'[t]) = n + 1
  BY Depth DEF Pushed
<1>2. ASSUME NEW i \in 1..n PROVE FrameOK(stack[t][i], i + 1, n + 1)
  <2>1. FrameOK(stack[t][i], i, n)
    BY DEF Shape
  <2> QED
    BY <1>1, <2>1 DEF FrameOK
<1>3. FrameOK(b, 1, n + 1)
  BY <1>1 DEF FrameOK
<1>4. ASSUME NEW i \in 1..(n + 1) PROVE FrameOK(stack'[t][i], i, n + 1)
  <2>1. CASE i = 1
    BY <1>3, <2>1 DEF Pushed
  <2>2. CASE i # 1
    <3>1. i - 1 \in 1..n /\ (i - 1) + 1 = i
      BY <1>1, <2>2
    <3>2. stack'[t][i] = stack[t][i - 1]
      BY <3>1 DEF Pushed
    <3>3. FrameOK(stack[t][i - 1], (i - 1) + 1, n + 1)
      BY <1>2, <3>1
    <3> QED
      BY <3>1, <3>2, <3>3
  <2> QED
    BY <2>1, <2>2
<1> QED
  BY <1>1, <1>4 DEF Shape, Pushed

LEMMA ShapeOfPopped ==
    ASSUME stack \in Stacks, Shape, NEW t \in Thread, Active(t), Popped(t)
    PROVE  Shape'
<1> DEFINE n == Len(stack[t])
<1>1. n \in Nat \ {0} /\ Len(stack'[t]) = n - 1
  BY Depth DEF Popped
<1>2. ASSUME NEW i \in 1..(n - 1) PROVE FrameOK(stack'[t][i], i, n - 1)
  <2>1. i + 1 \in 1..n /\ stack'[t][i] = stack[t][i + 1]
    BY <1>1 DEF Popped
  <2>2. FrameOK(stack[t][i + 1], i + 1, n)
    BY <2>1 DEF Shape
  <2> QED
    BY <1>1, <2>1, <2>2 DEF FrameOK
<1> QED
  BY <1>1, <1>2 DEF Shape, Popped

----------------------------------------------------------------------------
(* What each step does to the stack of its thread *)

\* Get goes on at another point.
GetMoves(t, at) ==
    /\ TopIs(t, stack'[t][1]) /\ stack'[t][1] \in Activity
    /\ stack'[t][1].kind = "get" /\ stack'[t][1].at = at

SendMoves(t, at, waited) ==
    /\ TopIs(t, stack'[t][1]) /\ stack'[t][1] \in Activity
    /\ stack'[t][1].kind = "send" /\ stack'[t][1].at = at
    /\ stack'[t][1].to = Top(t).to /\ stack'[t][1].msg = Top(t).msg
    /\ stack'[t][1].waited = waited

HandlerMoves(t, at, new) ==
    /\ TopIs(t, stack'[t][1]) /\ stack'[t][1] \in Activity
    /\ stack'[t][1].kind = "handler" /\ stack'[t][1].at = at
    /\ stack'[t][1].msg = Top(t).msg /\ stack'[t][1].from = Top(t).from
    /\ stack'[t][1].new = new

LEMMA GetGoto ==
    ASSUME stack \in Stacks, NEW t \in Thread, NEW x, In(t, "get", x),
           NEW at \in GetPoint, Goto(t, at)
    PROVE  GetMoves(t, at)
<1> DEFINE b == [Top(t) EXCEPT !.at = at]
<1>1. Active(t) /\ Top(t) \in GetActivity /\ Top(t) = stack[t][1]
  BY Depth, ActivityKinds DEF In
<1>2. b \in Activity /\ b.kind = "get" /\ b.at = at
  BY <1>1, GetAt
<1>3. stack' = [stack EXCEPT ![t][1] = b]
  BY <1>1 DEF Goto
<1> HIDE DEF b
<1>4. TopIs(t, b)
  BY <1>1, <1>2, <1>3, SetTop
<1>5. stack'[t][1] = b
  BY <1>4 DEF TopIs
<1> QED
  BY <1>2, <1>4, <1>5 DEF GetMoves

LEMMA SendGoto ==
    ASSUME stack \in Stacks, NEW t \in Thread, NEW x, In(t, "send", x),
           NEW at \in SendPoint, Goto(t, at)
    PROVE  SendMoves(t, at, Top(t).waited)
<1> DEFINE b == [Top(t) EXCEPT !.at = at]
<1>1. Active(t) /\ Top(t) \in SendActivity /\ Top(t) = stack[t][1]
  BY Depth, ActivityKinds DEF In
<1>2. /\ b \in Activity /\ b.kind = "send" /\ b.at = at
      /\ b.to = Top(t).to /\ b.msg = Top(t).msg /\ b.waited = Top(t).waited
  BY <1>1, SendAt
<1>3. stack' = [stack EXCEPT ![t][1] = b]
  BY <1>1 DEF Goto
<1> HIDE DEF b
<1>4. TopIs(t, b)
  BY <1>1, <1>2, <1>3, SetTop
<1>5. stack'[t][1] = b
  BY <1>4 DEF TopIs
<1> QED
  BY <1>2, <1>4, <1>5 DEF SendMoves

LEMMA HandlerSet ==
    ASSUME stack \in Stacks, NEW t \in Thread, Active(t),
           NEW b \in Activity, stack' = [stack EXCEPT ![t][1] = b],
           b.kind = "handler", b.msg = Top(t).msg, b.from = Top(t).from
    PROVE  HandlerMoves(t, b.at, b.new)
<1>1. TopIs(t, b)
  BY SetTop
<1>2. stack'[t][1] = b
  BY <1>1 DEF TopIs
<1> QED
  BY <1>1, <1>2 DEF HandlerMoves

LEMMA BeginPostStack ==
    ASSUME TypeInv, NEW t \in Thread, NEW u \in Thread, BeginPost(t, u)
    PROVE  HandlerMoves(t, "post", used + 1) /\ used + 1 \in Message
<1> DEFINE b == [Top(t) EXCEPT !.at = "post", !.to = u, !.new = used + 1]
<1>1. stack \in Stacks /\ used \in 0..MaxMessages
  BY DEF TypeInv, TypeOK, Stacks
<1>2. Active(t) /\ Top(t) \in HandlerActivity /\ Top(t) = stack[t][1]
  BY <1>1, Depth, ActivityKinds DEF In, BeginPost
<1>3. used + 1 \in Message /\ used + 1 \in 0..MaxMessages
  BY <1>1, ThreadAssumption DEF BeginPost, Message
<1>4. ASSUME NEW a \in HandlerActivity
      PROVE  LET c == [a EXCEPT !.at = "post", !.to = u, !.new = used + 1]
             IN  /\ c \in Activity /\ c.kind = "handler" /\ c.at = "post"
                 /\ c.msg = a.msg /\ c.from = a.from /\ c.new = used + 1
  BY <1>3 DEF Activity, HandlerActivity, HandlerPoint
<1>5. /\ b \in Activity /\ b.kind = "handler" /\ b.at = "post"
      /\ b.msg = Top(t).msg /\ b.from = Top(t).from /\ b.new = used + 1
  BY <1>2, <1>4
<1>6. stack' = [stack EXCEPT ![t][1] = b]
  BY <1>2 DEF BeginPost
<1> HIDE DEF b
<1>7. HandlerMoves(t, b.at, b.new)
  BY <1>1, <1>2, <1>5, <1>6, HandlerSet
<1> QED
  BY <1>3, <1>5, <1>7

LEMMA PostStack ==
    ASSUME TypeInv, NEW t \in Thread, Post(t)
    PROVE  /\ HandlerMoves(t, "run", 0)
           /\ Top(t).to \in Thread /\ Top(t).new \in Message
<1> DEFINE b == [Top(t) EXCEPT !.at = "run", !.new = 0]
<1>1. stack \in Stacks
  BY DEF TypeInv, TypeOK, Stacks
<1>2. Active(t) /\ Top(t) \in HandlerActivity /\ Top(t) = stack[t][1]
  BY <1>1, Depth, ActivityKinds DEF In, Post
<1>3. Top(t).to \in Thread /\ Top(t).new \in Message
  <2>1. Top(t).to \in Thread /\ Top(t).new \in 0..MaxMessages
    BY <1>2 DEF HandlerActivity
  <2>2. 1 \in 1..Len(stack[t])
    BY <1>1, <1>2, Depth
  <2>3. FrameOK(Top(t), 1, Len(stack[t]))
    BY <1>2, <2>2 DEF TypeInv, Shape
  <2>4. Top(t).new # 0
    BY <2>3 DEF FrameOK, Post, In
  <2> QED
    BY <2>1, <2>4, ThreadAssumption DEF Message
<1>4. ASSUME NEW a \in HandlerActivity
      PROVE  LET c == [a EXCEPT !.at = "run", !.new = 0]
             IN  /\ c \in Activity /\ c.kind = "handler" /\ c.at = "run"
                 /\ c.msg = a.msg /\ c.from = a.from /\ c.new = 0
  <2>1. 0 \in 0..MaxMessages /\ "run" \in HandlerPoint
    BY ThreadAssumption DEF HandlerPoint
  <2> QED
    BY <2>1 DEF Activity, HandlerActivity
<1>5. /\ b \in Activity /\ b.kind = "handler" /\ b.at = "run"
      /\ b.msg = Top(t).msg /\ b.from = Top(t).from /\ b.new = 0
  BY <1>2, <1>4
<1>6. stack' = [stack EXCEPT ![t][1] = b]
  BY <1>2 DEF Post
<1> HIDE DEF b
<1>7. HandlerMoves(t, b.at, b.new)
  BY <1>1, <1>2, <1>5, <1>6, HandlerSet
<1> QED
  BY <1>3, <1>5, <1>7

LEMMA StopStack ==
    ASSUME TypeInv, NEW t \in Thread, NEW u \in Thread, Stop(t, u)
    PROVE  stack' = stack \/ HandlerMoves(t, "join", Top(t).new)
<1> DEFINE b == [Top(t) EXCEPT !.at = "join", !.to = u]
<1>1. stack \in Stacks
  BY DEF TypeInv, TypeOK, Stacks
<1>2. Active(t) /\ Top(t) \in HandlerActivity /\ Top(t) = stack[t][1]
  BY <1>1, Depth, ActivityKinds DEF In, Stop
<1>3. ASSUME NEW a \in HandlerActivity
      PROVE  LET c == [a EXCEPT !.at = "join", !.to = u]
             IN  /\ c \in Activity /\ c.kind = "handler" /\ c.at = "join"
                 /\ c.msg = a.msg /\ c.from = a.from /\ c.new = a.new
  BY DEF Activity, HandlerActivity, HandlerPoint
<1>4. /\ b \in Activity /\ b.kind = "handler" /\ b.at = "join"
      /\ b.msg = Top(t).msg /\ b.from = Top(t).from /\ b.new = Top(t).new
  BY <1>2, <1>3
<1>5. CASE u # t
  <2>1. stack' = [stack EXCEPT ![t][1] = b]
    BY <1>2, <1>5 DEF Stop
  <2> HIDE DEF b
  <2>2. HandlerMoves(t, b.at, b.new)
    BY <1>1, <1>2, <1>4, <2>1, HandlerSet
  <2> QED
    BY <1>4, <2>2
<1>6. CASE u = t
  BY <1>6 DEF Stop
<1> QED
  BY <1>5, <1>6

LEMMA JoinStack ==
    ASSUME TypeInv, NEW t \in Thread, Join(t)
    PROVE  HandlerMoves(t, "run", Top(t).new)
<1> DEFINE b == [Top(t) EXCEPT !.at = "run"]
<1>1. stack \in Stacks
  BY DEF TypeInv, TypeOK, Stacks
<1>2. Active(t) /\ Top(t) \in HandlerActivity /\ Top(t) = stack[t][1]
  BY <1>1, Depth, ActivityKinds DEF In, Join
<1>3. ASSUME NEW a \in HandlerActivity
      PROVE  LET c == [a EXCEPT !.at = "run"]
             IN  /\ c \in Activity /\ c.kind = "handler" /\ c.at = "run"
                 /\ c.msg = a.msg /\ c.from = a.from /\ c.new = a.new
  BY DEF Activity, HandlerActivity, HandlerPoint
<1>4. /\ b \in Activity /\ b.kind = "handler" /\ b.at = "run"
      /\ b.msg = Top(t).msg /\ b.from = Top(t).from /\ b.new = Top(t).new
  BY <1>2, <1>3
<1>5. stack' = [stack EXCEPT ![t][1] = b]
  BY <1>2 DEF Join, Goto
<1> HIDE DEF b
<1>6. HandlerMoves(t, b.at, b.new)
  BY <1>1, <1>2, <1>4, <1>5, HandlerSet
<1> QED
  BY <1>4, <1>6

LEMMA BeginSendStack ==
    ASSUME TypeInv, NEW t \in Thread, NEW u \in Thread, BeginSend(t, u)
    PROVE  Pushed(t, Send(u, used + 1)) /\ used + 1 \in Message
<1>1. stack \in Stacks /\ used \in 0..MaxMessages
  BY DEF TypeInv, TypeOK, Stacks
<1>2. used + 1 \in Message
  BY <1>1, ThreadAssumption DEF BeginSend, Message
<1>3. Send(u, used + 1) \in Activity /\ Call(t, Send(u, used + 1))
  BY <1>2, NewSend DEF BeginSend
<1> QED
  BY <1>1, <1>2, <1>3, PushTop

\* The first message that was sent to t.
First(t) == Head(sendlist[t])

LEMMA TakeStack ==
    ASSUME TypeInv, NEW t \in Thread, Take(t)
    PROVE  /\ Pushed(t, Handler(t, First(t).msg, First(t).from))
           /\ First(t) \in Sent /\ First(t).msg \in Message
           /\ First(t).from \in Thread
<1>1. stack \in Stacks /\ sendlist[t] \in Seq(Sent) /\ sendlist[t] # <<>>
  BY DEF TypeInv, TypeOK, Stacks, Take
<1>2. First(t) \in Sent
  BY <1>1 DEF First
<1>3. First(t).msg \in Message /\ First(t).from \in Thread
  BY <1>2 DEF Sent
<1>4. First(t).msg \in 0..MaxMessages
  BY <1>3, ThreadAssumption DEF Message
<1>5. Handler(t, First(t).msg, First(t).from) \in Activity
  BY <1>3, <1>4, NewHandler
<1>6. Call(t, Handler(t, First(t).msg, First(t).from))
  BY DEF Take, First
<1> QED
  BY <1>1, <1>2, <1>3, <1>5, <1>6, PushTop

LEMMA PopStack ==
    ASSUME TypeInv, NEW t \in Thread, Reply(t) \/ Return(t) \/ EndSend(t)
    PROVE  Popped(t)
<1>1. stack \in Stacks
  BY DEF TypeInv, TypeOK, Stacks
<1>2. Active(t) /\ stack' = [stack EXCEPT ![t] = Tail(@)]
  BY DEF Reply, Return, EndSend, In
<1> QED
  BY <1>1, <1>2, PopTop

\* A Get that is not in ReceiveSends is alone on the stack.
LEMMA GetIsAlone ==
    ASSUME TypeInv, NEW t \in Thread, NEW x, In(t, "get", x)
    PROVE  Len(stack[t]) = 1
<1>1. stack \in Stacks
  BY DEF TypeInv, TypeOK, Stacks
<1>2. Active(t) /\ Top(t) = stack[t][1] /\ Len(stack[t]) \in Nat \ {0}
  BY <1>1, Depth DEF In
<1>3. FrameOK(Top(t), 1, Len(stack[t]))
  BY <1>2 DEF TypeInv, Shape
<1> QED
  BY <1>3 DEF FrameOK, In

\* Dispatch calls a handler, and Get starts again below it.
Dispatched(t, b) ==
    /\ stack' \in Stacks
    /\ \A u \in Thread : u # t => stack'[u] = stack[u]
    /\ Len(stack[t]) = 1 /\ Len(stack'[t]) = 2
    /\ stack'[t][1] = b /\ stack'[t][2] = Get

LEMMA DispatchStack ==
    ASSUME TypeInv, NEW t \in Thread, Dispatch(t)
    PROVE  /\ Dispatched(t, Handler(t, Head(msgq[t]), "post"))
           /\ Head(msgq[t]) \in Message
<1>1. stack \in Stacks /\ msgq[t] \in Seq(Message) /\ msgq[t] # <<>>
  BY DEF TypeInv, TypeOK, Stacks, Dispatch
<1>2. Head(msgq[t]) \in Message /\ Head(msgq[t]) \in 0..MaxMessages
  BY <1>1, ThreadAssumption DEF Message
<1> DEFINE b == Handler(t, Head(msgq[t]), "post")
           s == <<b, Get>>
<1>3. b \in Activity /\ Get \in Activity
  BY <1>2, NewHandler, NewGet
<1>4. stack' = [stack EXCEPT ![t] = s]
  BY DEF Dispatch
<1> HIDE DEF b
<1>5. s \in Seq(Activity) /\ Len(s) = 2 /\ s[1] = b /\ s[2] = Get
  BY <1>3
<1> HIDE DEF s
<1>6. Len(stack[t]) = 1
  BY GetIsAlone DEF Dispatch
<1>7. /\ stack' \in Stacks /\ stack'[t] = s
      /\ \A u \in Thread : u # t => stack'[u] = stack[u]
  BY <1>1, <1>4, <1>5, SetStack
<1> QED
  BY <1>2, <1>5, <1>6, <1>7 DEF Dispatched, b

LEMMA ExitStack ==
    ASSUME TypeInv, NEW t \in Thread, Exit(t)
    PROVE  Popped(t)
<1>1. stack \in Stacks
  BY DEF TypeInv, TypeOK, Stacks
<1>2. Len(stack[t]) = 1
  BY GetIsAlone DEF Exit
<1>3. <<>> \in Seq(Activity) /\ Len(<<>>) = 0
  OBVIOUS
<1>4. stack' = [stack EXCEPT ![t] = <<>>]
  BY DEF Exit
<1>5. /\ stack' \in Stacks /\ stack'[t] = <<>>
      /\ \A u \in Thread : u # t => stack'[u] = stack[u]
  BY <1>1, <1>3, <1>4, SetStack
<1> QED
  BY <1>2, <1>3, <1>5 DEF Popped

----------------------------------------------------------------------------
(* Types *)

LEMMA WakeUpType ==
    ASSUME NEW T, WakeUp(T)
    PROVE  signaled' \in [Thread -> BOOLEAN]
  BY DEF WakeUp

LEMMA TypeInitially == Init => TypeInv
<1> SUFFICES ASSUME Init PROVE TypeInv
  OBVIOUS
<1>1. 0 \in 0..MaxMessages /\ Main \in Thread /\ "post" \in Thread \cup {"post"}
  BY ThreadAssumption
<1>2. ASSUME NEW t \in Thread
      PROVE  /\ stack[t] \in Seq(Activity)
             /\ \A i \in 1..Len(stack[t]) : FrameOK(stack[t][i], i, Len(stack[t]))
  <2> DEFINE h == Handler(t, 0, "post")
  <2>1. /\ h \in Activity /\ h.kind = "handler" /\ h.at = "run"
        /\ h.from = "post"
    BY <1>1, NewHandler
  <2> HIDE DEF h
  <2>2. stack[t] = IF t = Main THEN <<h, Get>> ELSE <<Get>>
    BY DEF Init, h
  <2>3. <<h, Get>> \in Seq(Activity) /\ <<Get>> \in Seq(Activity)
    BY <2>1, NewGet
  <2>4. FrameOK(h, 1, 2) /\ FrameOK(Get, 2, 2) /\ FrameOK(Get, 1, 1)
    BY <2>1, NewGet DEF FrameOK
  <2>5. CASE t = Main
    <3>1. /\ Len(stack[t]) = 2 /\ stack[t][1] = h /\ stack[t][2] = Get
          /\ \A i \in 1..2 : i = 1 \/ i = 2
      BY <2>2, <2>5
    <3> QED
      BY <2>2, <2>3, <2>4, <2>5, <3>1
  <2>6. CASE t # Main
    <3>1. /\ Len(stack[t]) = 1 /\ stack[t][1] = Get /\ \A i \in 1..1 : i = 1
      BY <2>2, <2>6
    <3> QED
      BY <2>2, <2>3, <2>4, <2>6, <3>1
  <2> QED
    BY <2>5, <2>6
<1>3. stack \in [Thread -> Seq(Activity)]
  <2>1. stack = [t \in Thread |-> stack[t]]
    BY DEF Init
  <2> QED
    BY <1>2, <2>1
<1>4. Shape
  BY <1>2 DEF Shape
<1>5. /\ msgq \in [Thread -> Seq(Message)] /\ sendlist \in [Thread -> Seq(Sent)]
      /\ hasSends \in [Thread -> BOOLEAN] /\ signaled \in [Thread -> BOOLEAN]
      /\ stop \in [Thread -> BOOLEAN]
  BY DEF Init
<1>6. used \in 0..MaxMessages /\ ready = {} /\ done = {} /\ cleared = {}
  BY <1>1 DEF Init
<1> QED
  BY <1>3, <1>4, <1>5, <1>6 DEF TypeInv, TypeOK

\* What no step but those on the queues and flags touches.
LEMMA TypeOfQueues ==
    ASSUME TypeInv, NEW t \in Thread, Act(t) \/ Progress(t)
    PROVE  /\ msgq' \in [Thread -> Seq(Message)]
           /\ sendlist' \in [Thread -> Seq(Sent)]
<1> USE DEF TypeInv, TypeOK
<1>1. CASE UNCHANGED <<msgq, sendlist>>
  BY <1>1
<1>2. CASE Post(t)
  <2>1. Top(t).to \in Thread /\ Top(t).new \in Message
    BY <1>2, PostStack
  <2>2. Append(msgq[Top(t).to], Top(t).new) \in Seq(Message)
    BY <2>1
  <2> QED
    BY <1>2, <2>1, <2>2 DEF Post
<1>3. CASE Dispatch(t)
  <2>1. Tail(msgq[t]) \in Seq(Message)
    BY <1>3 DEF Dispatch
  <2> QED
    BY <1>3, <2>1 DEF Dispatch
<1>4. CASE Take(t)
  <2>1. Tail(sendlist[t]) \in Seq(Sent)
    BY <1>4 DEF Take
  <2> QED
    BY <1>4, <2>1 DEF Take
<1>5. CASE Push(t)
  <2>1. stack \in Stacks
    BY DEF Stacks
  <2>2. Top(t) \in SendActivity
    BY <1>5, <2>1, Depth, ActivityKinds DEF Push, In
  <2>3. Top(t).to \in Thread /\ [from |-> t, msg |-> Top(t).msg] \in Sent
    BY <2>2 DEF SendActivity, Sent
  <2> DEFINE s == [from |-> t, msg |-> Top(t).msg]
  <2>4. sendlist' = [sendlist EXCEPT ![Top(t).to] = Append(@, s)]
    BY <1>5 DEF Push
  <2> HIDE DEF s
  <2>5. Append(sendlist[Top(t).to], s) \in Seq(Sent)
    BY <2>3 DEF s
  <2> QED
    BY <1>5, <2>3, <2>4, <2>5 DEF Push
<1>6. ASSUME NEW m \in Message, Clear(t, m)
      PROVE  /\ msgq' \in [Thread -> Seq(Message)]
             /\ sendlist' \in [Thread -> Seq(Sent)]
  <2>1. \A u \in Thread : msgq[u] \in Seq(Message) /\ sendlist[u] \in Seq(Sent)
    OBVIOUS
  <2>2. \A u \in Thread : /\ Without(msgq[u], {m}) \in Seq(Message)
                          /\ Without(sendlist[u], SentOf(m)) \in Seq(Sent)
    BY <2>1, WithoutHas
  <2>3. /\ msgq' = [u \in Thread |-> Without(msgq[u], {m})]
        /\ sendlist' = [u \in Thread |-> Without(sendlist[u], SentOf(m))]
    BY <1>6 DEF Clear
  <2> QED
    BY <2>2, <2>3
<1> QED
  BY <1>1, <1>2, <1>3, <1>4, <1>5, <1>6
     DEF Act, Progress, queueVars, historyVars, Join, BeginPost, BeginSend, Stop,
         ReceiveNothing, BeginReceive, EndReceive, Reply, Return, NothingPosted,
         Exit, GoOn, WaitInGet, Wake, StillWaiting, WaitInSend, EndSend

LEMMA TypeOfFlags ==
    ASSUME TypeInv, NEW t \in Thread, Act(t) \/ Progress(t)
    PROVE  /\ hasSends' \in [Thread -> BOOLEAN]
           /\ signaled' \in [Thread -> BOOLEAN]
           /\ stop' \in [Thread -> BOOLEAN]
           /\ used' \in 0..MaxMessages
<1>1. hasSends' \in [Thread -> BOOLEAN]
  BY DEF Act, Progress, queueVars, historyVars, Join, BeginPost, BeginSend, Stop,
         ReceiveNothing, BeginReceive, EndReceive, Reply, Return, NothingPosted,
         Exit, GoOn, WaitInGet, Wake, StillWaiting, WaitInSend, EndSend,
         Post, Dispatch, Take, Push, Clear, TypeInv, TypeOK
<1>2. signaled' \in [Thread -> BOOLEAN]
  BY ZenonT(80) DEF Act, Progress, queueVars, historyVars, Join, BeginPost, BeginSend, Stop,
         ReceiveNothing, BeginReceive, EndReceive, Reply, Return, NothingPosted,
         Exit, GoOn, WaitInGet, Wake, StillWaiting, WaitInSend, EndSend,
         Post, Dispatch, Take, Push, Clear, WakeUp, TypeInv, TypeOK
<1>3. stop' \in [Thread -> BOOLEAN]
  BY DEF Act, Progress, queueVars, historyVars, Join, BeginPost, BeginSend, Stop,
         ReceiveNothing, BeginReceive, EndReceive, Reply, Return, NothingPosted,
         Exit, GoOn, WaitInGet, Wake, StillWaiting, WaitInSend, EndSend,
         Post, Dispatch, Take, Push, Clear, TypeInv, TypeOK
<1>4. used' = used \/ (used < MaxMessages /\ used' = used + 1)
  BY DEF Act, Progress, queueVars, historyVars, Join, BeginPost, BeginSend, Stop,
         ReceiveNothing, BeginReceive, EndReceive, Reply, Return, NothingPosted,
         Exit, GoOn, WaitInGet, Wake, StillWaiting, WaitInSend, EndSend,
         Post, Dispatch, Take, Push, Clear
<1>5. used' \in 0..MaxMessages
  BY <1>4, ThreadAssumption DEF TypeInv, TypeOK
<1> QED
  BY <1>1, <1>2, <1>3, <1>5

LEMMA TypeOfHistory ==
    ASSUME TypeInv, NEW t \in Thread, Act(t) \/ Progress(t)
    PROVE  ready' \subseteq Message /\ done' \subseteq 0..MaxMessages
           /\ cleared' \subseteq Message
<1>1. CASE UNCHANGED <<ready, historyVars>>
  BY <1>1 DEF TypeInv, TypeOK, historyVars
<1>2. CASE Reply(t) \/ Return(t)
  <2>1. stack \in Stacks
    BY DEF TypeInv, TypeOK, Stacks
  <2>2. /\ Top(t) \in HandlerActivity /\ Top(t) = stack[t][1]
        /\ 1 \in 1..Len(stack[t])
    BY <1>2, <2>1, Depth, ActivityKinds DEF Reply, Return, In
  <2>3. Top(t).msg \in 0..MaxMessages
    BY <2>2 DEF HandlerActivity
  <2>4. Reply(t) => Top(t).msg # 0
    BY <2>2 DEF TypeInv, Shape, FrameOK, Reply, In
  <2>5. Reply(t) => Top(t).msg \in Message
    BY <2>3, <2>4, ThreadAssumption DEF Message
  <2> QED
    BY <1>2, <2>3, <2>5 DEF TypeInv, TypeOK, Reply, Return
<1>3. ASSUME NEW m \in Message, Clear(t, m)
      PROVE  ready' \subseteq Message /\ done' \subseteq 0..MaxMessages
             /\ cleared' \subseteq Message
  <2> DEFINE senders == {s \in SentOf(m) : \E u \in Thread : Has(sendlist[u], s)}
  <2>1. ready' = ready \cup {s.msg : s \in senders}
    BY <1>3 DEF Clear
  <2>2. \A s \in senders : s.msg \in Message
    BY DEF SentOf
  <2> HIDE DEF senders
  <2>3. ready' \subseteq Message
    BY <2>1, <2>2 DEF TypeInv, TypeOK
  <2>4. done' = done /\ cleared' = cleared \cup {m}
    BY <1>3 DEF Clear
  <2> QED
    BY <2>3, <2>4 DEF TypeInv, TypeOK
<1> QED
  BY <1>1, <1>2, <1>3
     DEF Act, Progress, queueVars, historyVars, Join, BeginPost, BeginSend, Stop,
         ReceiveNothing, BeginReceive, EndReceive, NothingPosted,
         Exit, GoOn, WaitInGet, Wake, StillWaiting, WaitInSend, EndSend,
         Post, Dispatch, Take, Push

\* The moves of Get and Send.
LEMMA MoveStack ==
    ASSUME TypeInv, NEW t \in Thread
    PROVE  /\ BeginReceive(t) /\ Top(t).kind = "get" => GetMoves(t, "take")
           /\ NothingPosted(t) => GetMoves(t, "stopping")
           /\ GoOn(t) => GetMoves(t, "wait")
           /\ WaitInGet(t) => GetMoves(t, "receive")
           /\ (ReceiveNothing(t) \/ EndReceive(t)) /\ Top(t).kind = "get"
                 => GetMoves(t, "queues")
           /\ BeginReceive(t) /\ Top(t).kind = "send"
                 => SendMoves(t, "take", Top(t).waited)
           /\ (ReceiveNothing(t) \/ EndReceive(t)) /\ Top(t).kind = "send"
                 => SendMoves(t, "wait", Top(t).waited)
           /\ Push(t) => SendMoves(t, "wake", Top(t).waited)
           /\ Wake(t) => SendMoves(t, "test", Top(t).waited)
           /\ StillWaiting(t) => SendMoves(t, "receive", Top(t).waited)
           /\ WaitInSend(t) => SendMoves(t, "test", TRUE)
<1>1. stack \in Stacks
  BY DEF TypeInv, TypeOK, Stacks
<1>2. /\ {"take", "stopping", "wait", "receive", "queues"} \subseteq GetPoint
      /\ {"take", "wait", "wake", "test", "receive"} \subseteq SendPoint
  BY DEF GetPoint, SendPoint
<1>3. BeginReceive(t) /\ Top(t).kind = "get" => GetMoves(t, "take")
  BY <1>1, <1>2, GetGoto DEF BeginReceive, In
<1>4. NothingPosted(t) => GetMoves(t, "stopping")
  BY <1>1, <1>2, GetGoto DEF NothingPosted
<1>5. GoOn(t) => GetMoves(t, "wait")
  BY <1>1, <1>2, GetGoto DEF GoOn
<1>6. WaitInGet(t) => GetMoves(t, "receive")
  BY <1>1, <1>2, GetGoto DEF WaitInGet
<1>7. (ReceiveNothing(t) \/ EndReceive(t)) /\ Top(t).kind = "get"
         => GetMoves(t, "queues")
  BY <1>1, <1>2, GetGoto DEF ReceiveNothing, EndReceive, AfterReceive, In
<1>8. BeginReceive(t) /\ Top(t).kind = "send"
         => SendMoves(t, "take", Top(t).waited)
  BY <1>1, <1>2, SendGoto DEF BeginReceive, In
<1>9. (ReceiveNothing(t) \/ EndReceive(t)) /\ Top(t).kind = "send"
         => SendMoves(t, "wait", Top(t).waited)
  BY <1>1, <1>2, SendGoto DEF ReceiveNothing, EndReceive, AfterReceive, In
<1>10. Push(t) => SendMoves(t, "wake", Top(t).waited)
  BY <1>1, <1>2, SendGoto DEF Push
<1>11. Wake(t) => SendMoves(t, "test", Top(t).waited)
  BY <1>1, <1>2, SendGoto DEF Wake
<1>12. StillWaiting(t) => SendMoves(t, "receive", Top(t).waited)
  BY <1>1, <1>2, SendGoto DEF StillWaiting
<1>13. WaitInSend(t) => SendMoves(t, "test", TRUE)
  <2> SUFFICES ASSUME WaitInSend(t) PROVE SendMoves(t, "test", TRUE)
    OBVIOUS
  <2> DEFINE b == [Top(t) EXCEPT !.at = "test", !.waited = TRUE]
  <2>1. Active(t) /\ Top(t) \in SendActivity /\ Top(t) = stack[t][1]
    BY <1>1, Depth, ActivityKinds DEF In, WaitInSend
  <2>2. /\ b \in Activity /\ b.kind = "send" /\ b.at = "test"
        /\ b.to = Top(t).to /\ b.msg = Top(t).msg /\ b.waited = TRUE
    BY <2>1, SendWaited
  <2>3. stack' = [stack EXCEPT ![t][1] = b]
    BY <2>1 DEF WaitInSend
  <2> HIDE DEF b
  <2>4. TopIs(t, b)
    BY <1>1, <2>1, <2>2, <2>3, SetTop
  <2>5. stack'[t][1] = b
    BY <2>4 DEF TopIs
  <2> QED
    BY <2>2, <2>4, <2>5 DEF SendMoves
<1> QED
  BY <1>3, <1>4, <1>5, <1>6, <1>7, <1>8, <1>9, <1>10, <1>11, <1>12, <1>13

\* The kinds of steps: a step of Get, Send or a handler, a call, a return.
Moves(t) ==
    \/ Top(t).kind = "get" /\ \E at \in GetPoint : GetMoves(t, at)
    \/ Top(t).kind = "send" /\ \E at, w : SendMoves(t, at, w)
    \/ Top(t).kind = "handler" /\ \E at, n :
          HandlerMoves(t, at, n) /\ (at = "post" => n # 0)

Calls(t) ==
    \/ \E u \in Thread : BeginSend(t, u) /\ Pushed(t, Send(u, used + 1))
    \/ Take(t) /\ Pushed(t, Handler(t, First(t).msg, First(t).from))

LEMMA StackSteps ==
    ASSUME TypeInv, NEW t \in Thread, Act(t) \/ Progress(t)
    PROVE  \/ stack' = stack
           \/ Active(t) /\ Moves(t)
           \/ Active(t) /\ Calls(t)
           \/ Dispatch(t) /\ Dispatched(t, Handler(t, Head(msgq[t]), "post"))
           \/ Active(t) /\ Popped(t)
<1> DEFINE P == \/ stack' = stack
                \/ Active(t) /\ Moves(t)
                \/ Active(t) /\ Calls(t)
                \/ Dispatch(t) /\ Dispatched(t, Handler(t, Head(msgq[t]), "post"))
                \/ Active(t) /\ Popped(t)
<1>1. ASSUME NEW u \in Thread, BeginPost(t, u) PROVE P
  <2>1. HandlerMoves(t, "post", used + 1) /\ used + 1 # 0
    BY <1>1, BeginPostStack DEF Message
  <2>2. Active(t) /\ Top(t).kind = "handler"
    BY <1>1 DEF BeginPost, In
  <2> QED
    BY <2>1, <2>2 DEF Moves
<1>2. ASSUME NEW u \in Thread, BeginSend(t, u) PROVE P
  BY <1>2, BeginSendStack DEF Calls, BeginSend, In
<1>3. ASSUME NEW u \in Thread, Stop(t, u) PROVE P
  <2>1. stack' = stack \/ HandlerMoves(t, "join", Top(t).new)
    BY <1>3, StopStack
  <2>2. Active(t) /\ Top(t).kind = "handler" /\ "join" # "post"
    BY <1>3 DEF Stop, In
  <2> QED
    BY <2>1, <2>2 DEF Moves
<1>4. ASSUME NEW m \in Message, Clear(t, m) PROVE P
  BY <1>4 DEF Clear
<1>5. ASSUME Post(t) PROVE P
  <2>1. HandlerMoves(t, "run", 0)
    BY <1>5, PostStack
  <2>2. Active(t) /\ Top(t).kind = "handler" /\ "run" # "post"
    BY <1>5 DEF Post, In
  <2> QED
    BY <2>1, <2>2 DEF Moves
<1>6. ASSUME Join(t) PROVE P
  BY <1>6, JoinStack DEF Moves, Join, In
<1>7. ASSUME Take(t) PROVE P
  BY <1>7, TakeStack DEF Calls, Take, In
<1>8. ASSUME Reply(t) \/ Return(t) \/ EndSend(t) PROVE P
  BY <1>8, PopStack DEF Reply, Return, EndSend, In
<1>9. ASSUME Exit(t) PROVE P
  BY <1>9, ExitStack DEF Exit, In
<1>10. ASSUME Dispatch(t) PROVE P
  BY <1>10, DispatchStack
<1>11. ASSUME BeginReceive(t) \/ ReceiveNothing(t) \/ EndReceive(t) PROVE P
  <2>1. Active(t) /\ Top(t).kind \in {"get", "send"}
    BY <1>11 DEF BeginReceive, ReceiveNothing, EndReceive, Take, In
  <2>2. "take" \in GetPoint /\ "queues" \in GetPoint
    BY DEF GetPoint
  <2> QED
    BY <1>11, <2>1, <2>2, MoveStack DEF Moves
<1>12. ASSUME NothingPosted(t) \/ GoOn(t) \/ WaitInGet(t) PROVE P
  <2>1. {"stopping", "wait", "receive"} \subseteq GetPoint
    BY DEF GetPoint
  <2> QED
    BY <1>12, <2>1, MoveStack DEF Moves, NothingPosted, GoOn, WaitInGet, In
<1>13. ASSUME Push(t) \/ Wake(t) \/ StillWaiting(t) \/ WaitInSend(t) PROVE P
  BY <1>13, MoveStack DEF Moves, Push, Wake, StillWaiting, WaitInSend, In
<1> HIDE DEF P
<1>14. P
  BY <1>1, <1>2, <1>3, <1>4, <1>5, <1>6, <1>7, <1>8, <1>9, <1>10, <1>11, <1>12,
     <1>13 DEF Act, Progress
<1> QED
  BY <1>14 DEF P

LEMMA TypeStep ==
    ASSUME TypeInv, NEW t \in Thread, Act(t) \/ Progress(t)
    PROVE  TypeInv'
<1>1. stack \in Stacks /\ Shape
  BY DEF TypeInv, TypeOK, Stacks
<1>2. ASSUME stack' = stack PROVE stack' \in Stacks /\ Shape'
  BY <1>1, <1>2 DEF Shape
<1> DEFINE b == stack'[t][1]
<1>3. ASSUME Active(t) PROVE FrameOK(Top(t), 1, Len(stack[t])) /\ Top(t) \in Activity
  BY <1>1, <1>3, Depth DEF Shape
<1>4. ASSUME Active(t), Moves(t) PROVE stack' \in Stacks /\ Shape'
  <2>1. /\ TopIs(t, b) /\ b \in Activity /\ b.kind = Top(t).kind
        /\ b.kind = "handler" =>
              b.msg = Top(t).msg /\ b.from = Top(t).from /\ (b.at = "post" => b.new # 0)
    BY <1>4 DEF Moves, GetMoves, SendMoves, HandlerMoves
  <2>2. b.kind = "handler" /\ b.from # "post" => b.msg # 0
    BY <1>3, <1>4, <2>1 DEF FrameOK
  <2>3. stack' \in Stacks
    BY <2>1 DEF TopIs
  <2> HIDE DEF b
  <2> QED
    BY <1>1, <1>4, <2>1, <2>2, <2>3, ShapeOfTop
<1>5. ASSUME Active(t), Calls(t) PROVE stack' \in Stacks /\ Shape'
  <2>1. ASSUME NEW u \in Thread, BeginSend(t, u), Pushed(t, Send(u, used + 1))
        PROVE  stack' \in Stacks /\ Shape'
    <3> DEFINE s == Send(u, used + 1)
    <3>1. s \in Activity /\ s.kind = "send"
      <4>1. used + 1 \in Message
        BY <2>1, BeginSendStack
      <4>2. \A m \in Message : Send(u, m) \in Activity /\ Send(u, m).kind = "send"
        BY NewSend
      <4> QED
        BY <4>1, <4>2
    <3>2. Top(t).kind = "handler"
      BY <2>1 DEF BeginSend, In
    <3> HIDE DEF s
    <3>3. Pushed(t, s)
      BY <2>1 DEF s
    <3>4. stack' \in Stacks
      BY <3>3 DEF Pushed
    <3> QED
      BY <1>1, <1>5, <3>1, <3>2, <3>3, <3>4, ShapeOfPushed
  <2>2. ASSUME Take(t), Pushed(t, Handler(t, First(t).msg, First(t).from))
        PROVE  stack' \in Stacks /\ Shape'
    <3> DEFINE h == Handler(t, First(t).msg, First(t).from)
    <3>1. First(t).msg \in Message /\ First(t).from \in Thread
      BY <2>2, TakeStack
    <3>2. First(t).msg \in 0..MaxMessages /\ First(t).msg # 0
      BY <3>1, ThreadAssumption DEF Message
    <3>3. h \in Activity /\ h.kind = "handler" /\ h.at = "run" /\ h.msg # 0
      BY <3>1, <3>2, NewHandler
    <3>4. Top(t).kind \in {"get", "send"} /\ Top(t).at = "take"
      BY <2>2 DEF Take, In
    <3> HIDE DEF h
    <3>5. Pushed(t, h)
      BY <2>2 DEF h
    <3>6. stack' \in Stacks
      BY <3>5 DEF Pushed
    <3> QED
      BY <1>1, <1>5, <3>3, <3>4, <3>5, <3>6, ShapeOfPushed
  <2> QED
    BY <1>5, <2>1, <2>2 DEF Calls
<1>6. ASSUME Dispatch(t), Dispatched(t, Handler(t, Head(msgq[t]), "post"))
      PROVE  stack' \in Stacks /\ Shape'
  <2> DEFINE h == Handler(t, Head(msgq[t]), "post")
  <2>1. Head(msgq[t]) \in 0..MaxMessages
    BY <1>6, DispatchStack, ThreadAssumption DEF Message
  <2>2. h \in Activity /\ h.kind = "handler" /\ h.at = "run" /\ h.from = "post"
    BY <2>1, NewHandler
  <2> HIDE DEF h
  <2>3. Dispatched(t, h)
    BY <1>6 DEF h
  <2>4. FrameOK(h, 1, 2) /\ FrameOK(Get, 2, 2)
    BY <2>2, NewGet DEF FrameOK
  <2>5. \A i \in 1..2 : FrameOK(stack'[t][i], i, 2)
    <3>1. \A i \in 1..2 : i = 1 \/ i = 2
      OBVIOUS
    <3> QED
      BY <2>3, <2>4, <3>1 DEF Dispatched
  <2> QED
    BY <1>1, <2>3, <2>5 DEF Dispatched, Shape
<1>7. ASSUME Active(t), Popped(t) PROVE stack' \in Stacks /\ Shape'
  <2>1. stack' \in Stacks
    BY <1>7 DEF Popped
  <2> QED
    BY <1>1, <1>7, <2>1, ShapeOfPopped
<1>8. stack' \in Stacks /\ Shape'
  BY <1>2, <1>4, <1>5, <1>6, <1>7, StackSteps
<1> QED
  BY <1>8, TypeOfQueues, TypeOfFlags, TypeOfHistory DEF TypeInv, TypeOK, Stacks

\* Whatever the threads do, their stacks, queues and flags keep their types.
THEOREM ThreadsTypeOK == Spec => []TypeOK
<1>1. Init => TypeInv
  BY TypeInitially
<1>2. TypeInv /\ [Next]_vars => TypeInv'
  <2>1. ASSUME TypeInv, Next PROVE TypeInv'
    BY <2>1, TypeStep DEF Next
  <2>2. ASSUME TypeInv, UNCHANGED vars PROVE TypeInv'
    BY <2>2 DEF vars, queueVars, historyVars, TypeInv, TypeOK, Shape
  <2> QED
    BY <2>1, <2>2
<1>3. TypeInv => TypeOK
  BY DEF TypeInv
<1> QED
  BY <1>1, <1>2, <1>3, PTL DEF Spec

----------------------------------------------------------------------------
(* Where the number of a message is kept before it is handled: in a queue, *)
(* in a sendlist, in the Send about to push it, in its handler, or in the  *)
(* handler about to post it.                                               *)

Frames == {"msg", "new"}
Slot   == {"posted", "sent"} \cup Frames

InFrame(a, l) ==
    IF a.kind = "handler" THEN IF l = "msg" THEN a.msg ELSE a.new
    ELSE IF a.kind = "send" /\ a.at = "push" /\ l = "msg" THEN a.msg
    ELSE 0

Number(t, l, i) ==
    IF l = "posted" THEN IF i \in DOMAIN msgq[t] THEN msgq[t][i] ELSE 0
    ELSE IF l = "sent" THEN IF i \in DOMAIN sendlist[t] THEN sendlist[t][i].msg ELSE 0
    ELSE IF i \in DOMAIN stack[t] THEN InFrame(stack[t][i], l) ELSE 0

numbers == [t \in Thread |-> [l \in Slot |-> [i \in Nat |-> Number(t, l, i)]]]

LEMMA NumbersOf ==
    ASSUME NEW t \in Thread, NEW i \in Nat
    PROVE  /\ numbers[t]["posted"][i] = IF i \in DOMAIN msgq[t] THEN msgq[t][i] ELSE 0
           /\ numbers[t]["sent"][i] =
                 IF i \in DOMAIN sendlist[t] THEN sendlist[t][i].msg ELSE 0
           /\ \A l \in Frames : numbers[t][l][i] =
                 IF i \in DOMAIN stack[t] THEN InFrame(stack[t][i], l) ELSE 0
<1>1. "posted" \in Slot /\ "sent" \in Slot /\ Frames \subseteq Slot
      /\ "posted" \notin Frames /\ "sent" \notin Frames /\ "posted" # "sent"
  BY DEF Slot, Frames
<1>2. \A l \in Slot : numbers[t][l][i] = Number(t, l, i)
  BY DEF numbers
<1> QED
  BY <1>1, <1>2 DEF Number

LEMMA NumbersOfNext ==
    ASSUME NEW t \in Thread, NEW i \in Nat
    PROVE  /\ numbers'[t]["posted"][i] =
                 IF i \in DOMAIN msgq'[t] THEN msgq'[t][i] ELSE 0
           /\ numbers'[t]["sent"][i] =
                 IF i \in DOMAIN sendlist'[t] THEN sendlist'[t][i].msg ELSE 0
           /\ \A l \in Frames : numbers'[t][l][i] =
                 IF i \in DOMAIN stack'[t] THEN InFrame(stack'[t][i], l) ELSE 0
<1>1. "posted" \in Slot /\ "sent" \in Slot /\ Frames \subseteq Slot
      /\ "posted" \notin Frames /\ "sent" \notin Frames /\ "posted" # "sent"
  BY DEF Slot, Frames
<1>2. \A l \in Slot : numbers'[t][l][i] = Number(t, l, i)'
  BY DEF numbers
<1> QED
  BY <1>1, <1>2 DEF Number

\* Which numbers a step leaves where they are.
LEMMA SameQueue ==
    ASSUME NEW t \in Thread
    PROVE  /\ msgq'[t] = msgq[t] =>
                 \A i \in Nat : numbers'[t]["posted"][i] = numbers[t]["posted"][i]
           /\ sendlist'[t] = sendlist[t] =>
                 \A i \in Nat : numbers'[t]["sent"][i] = numbers[t]["sent"][i]
           /\ stack'[t] = stack[t] =>
                 \A l \in Frames, i \in Nat : numbers'[t][l][i] = numbers[t][l][i]
  BY NumbersOf, NumbersOfNext

LEMMA FramesOfTop ==
    ASSUME stack \in Stacks, NEW t \in Thread, Active(t), NEW b, TopIs(t, b)
    PROVE  /\ \A u \in Thread : u # t =>
                 \A l \in Frames, i \in Nat : numbers'[u][l][i] = numbers[u][l][i]
           /\ \A l \in Frames : numbers'[t][l][1] = InFrame(b, l)
           /\ \A l \in Frames : numbers[t][l][1] = InFrame(Top(t), l)
           /\ \A l \in Frames, i \in Nat :
                 i # 1 => numbers'[t][l][i] = numbers[t][l][i]
<1>1. /\ DOMAIN stack[t] = 1..Len(stack[t]) /\ DOMAIN stack'[t] = 1..Len(stack[t])
      /\ Len(stack[t]) \in Nat \ {0} /\ Top(t) = stack[t][1]
  <2>1. stack'[t] \in Seq(Activity)
    BY DEF TopIs, Stacks
  <2> QED
    BY <2>1, Depth DEF TopIs
<1>2. 1 \in DOMAIN stack[t] /\ 1 \in DOMAIN stack'[t] /\ 1 \in Nat
  BY <1>1
<1>3. \A l \in Frames : /\ numbers'[t][l][1] = InFrame(b, l)
                        /\ numbers[t][l][1] = InFrame(Top(t), l)
  BY <1>1, <1>2, NumbersOf, NumbersOfNext DEF TopIs
<1>4. ASSUME NEW l \in Frames, NEW i \in Nat, i # 1
      PROVE  numbers'[t][l][i] = numbers[t][l][i]
  <2>1. CASE i \in 2..Len(stack[t])
    <3>1. i \in DOMAIN stack[t] /\ i \in DOMAIN stack'[t] /\ stack'[t][i] = stack[t][i]
      BY <1>1, <2>1 DEF TopIs
    <3> QED
      BY <3>1, NumbersOf, NumbersOfNext
  <2>2. CASE i \notin 2..Len(stack[t])
    <3>1. i \notin DOMAIN stack[t] /\ i \notin DOMAIN stack'[t]
      BY <1>1, <1>4, <2>2
    <3> QED
      BY <3>1, NumbersOf, NumbersOfNext
  <2> QED
    BY <2>1, <2>2
<1>5. \A u \in Thread : u # t =>
         \A l \in Frames, i \in Nat : numbers'[u][l][i] = numbers[u][l][i]
  BY SameQueue DEF TopIs
<1> QED
  BY <1>3, <1>4, <1>5

LEMMA FramesOfPushed ==
    ASSUME stack \in Stacks, NEW t \in Thread, NEW b, Pushed(t, b)
    PROVE  /\ \A u \in Thread : u # t =>
                 \A l \in Frames, i \in Nat : numbers'[u][l][i] = numbers[u][l][i]
           /\ \A l \in Frames : numbers'[t][l][1] = InFrame(b, l)
           /\ \A l \in Frames : numbers'[t][l][0] = 0
           /\ \A l \in Frames, i \in Nat \ {0} :
                 numbers'[t][l][i + 1] = numbers[t][l][i]
<1>1. /\ DOMAIN stack[t] = 1..Len(stack[t])
      /\ DOMAIN stack'[t] = 1..(Len(stack[t]) + 1)
      /\ Len(stack[t]) \in Nat
  <2>1. stack'[t] \in Seq(Activity)
    BY DEF Pushed, Stacks
  <2> QED
    BY <2>1, Depth DEF Pushed
<1>2. 1 \in DOMAIN stack'[t] /\ 1 \in Nat /\ 0 \notin DOMAIN stack'[t] /\ 0 \in Nat
  BY <1>1
<1>3. \A l \in Frames : numbers'[t][l][1] = InFrame(b, l) /\ numbers'[t][l][0] = 0
  BY <1>2, NumbersOfNext DEF Pushed
<1>4. ASSUME NEW l \in Frames, NEW i \in Nat \ {0}
      PROVE  numbers'[t][l][i + 1] = numbers[t][l][i]
  <2>1. CASE i \in 1..Len(stack[t])
    <3>1. /\ i \in DOMAIN stack[t] /\ i + 1 \in DOMAIN stack'[t] /\ i + 1 \in Nat
          /\ stack'[t][i + 1] = stack[t][i]
      BY <1>1, <2>1 DEF Pushed
    <3> QED
      BY <3>1, NumbersOf, NumbersOfNext
  <2>2. CASE i \notin 1..Len(stack[t])
    <3>1. i \notin DOMAIN stack[t] /\ i + 1 \notin DOMAIN stack'[t] /\ i + 1 \in Nat
      BY <1>1, <2>2
    <3> QED
      BY <3>1, NumbersOf, NumbersOfNext
  <2> QED
    BY <2>1, <2>2
<1>5. \A u \in Thread : u # t =>
         \A l \in Frames, i \in Nat : numbers'[u][l][i] = numbers[u][l][i]
  BY SameQueue DEF Pushed
<1> QED
  BY <1>3, <1>4, <1>5

LEMMA FramesOfPopped ==
    ASSUME stack \in Stacks, NEW t \in Thread, Active(t), Popped(t)
    PROVE  /\ \A u \in Thread : u # t =>
                 \A l \in Frames, i \in Nat : numbers'[u][l][i] = numbers[u][l][i]
           /\ \A l \in Frames : numbers[t][l][1] = InFrame(Top(t), l)
           /\ \A l \in Frames : numbers'[t][l][0] = 0
           /\ \A l \in Frames, i \in Nat \ {0} :
                 numbers'[t][l][i] = numbers[t][l][i + 1]
<1>1. /\ DOMAIN stack[t] = 1..Len(stack[t])
      /\ DOMAIN stack'[t] = 1..(Len(stack[t]) - 1)
      /\ Len(stack[t]) \in Nat \ {0} /\ Top(t) = stack[t][1]
  <2>1. stack'[t] \in Seq(Activity)
    BY DEF Popped, Stacks
  <2> QED
    BY <2>1, Depth DEF Popped
<1>2. 1 \in DOMAIN stack[t] /\ 1 \in Nat /\ 0 \notin DOMAIN stack'[t] /\ 0 \in Nat
  BY <1>1
<1>3. \A l \in Frames : /\ numbers[t][l][1] = InFrame(Top(t), l)
                        /\ numbers'[t][l][0] = 0
  BY <1>1, <1>2, NumbersOf, NumbersOfNext
<1>4. ASSUME NEW l \in Frames, NEW i \in Nat \ {0}
      PROVE  numbers'[t][l][i] = numbers[t][l][i + 1]
  <2>1. CASE i \in 1..(Len(stack[t]) - 1)
    <3>1. /\ i \in DOMAIN stack'[t] /\ i + 1 \in DOMAIN stack[t] /\ i + 1 \in Nat
          /\ stack'[t][i] = stack[t][i + 1]
      BY <1>1, <2>1 DEF Popped
    <3> QED
      BY <3>1, NumbersOf, NumbersOfNext
  <2>2. CASE i \notin 1..(Len(stack[t]) - 1)
    <3>1. i \notin DOMAIN stack'[t] /\ i + 1 \notin DOMAIN stack[t] /\ i + 1 \in Nat
      BY <1>1, <2>2
    <3> QED
      BY <3>1, NumbersOf, NumbersOfNext
  <2> QED
    BY <2>1, <2>2
<1>5. \A u \in Thread : u # t =>
         \A l \in Frames, i \in Nat : numbers'[u][l][i] = numbers[u][l][i]
  BY SameQueue DEF Popped
<1> QED
  BY <1>3, <1>4, <1>5

LEMMA PostedNumber ==
    ASSUME NEW t \in Thread, NEW i \in Nat
    PROVE  /\ i \in DOMAIN msgq[t] => numbers[t]["posted"][i] = msgq[t][i]
           /\ i \notin DOMAIN msgq[t] => numbers[t]["posted"][i] = 0
           /\ i \in DOMAIN msgq'[t] => numbers'[t]["posted"][i] = msgq'[t][i]
           /\ i \notin DOMAIN msgq'[t] => numbers'[t]["posted"][i] = 0
  BY NumbersOf, NumbersOfNext

LEMMA SentNumber ==
    ASSUME NEW t \in Thread, NEW i \in Nat
    PROVE  /\ i \in DOMAIN sendlist[t] =>
                 numbers[t]["sent"][i] = sendlist[t][i].msg
           /\ i \notin DOMAIN sendlist[t] => numbers[t]["sent"][i] = 0
           /\ i \in DOMAIN sendlist'[t] =>
                 numbers'[t]["sent"][i] = sendlist'[t][i].msg
           /\ i \notin DOMAIN sendlist'[t] => numbers'[t]["sent"][i] = 0
  BY NumbersOf, NumbersOfNext

LEMMA PostedTail ==
    ASSUME NEW t \in Thread, msgq[t] \in Seq(Message), msgq[t] # <<>>,
           msgq'[t] = Tail(msgq[t])
    PROVE  /\ numbers[t]["posted"][1] = Head(msgq[t])
           /\ numbers'[t]["posted"][0] = 0
           /\ \A i \in Nat \ {0} :
                 numbers'[t]["posted"][i] = numbers[t]["posted"][i + 1]
<1>1. /\ Len(msgq[t]) \in Nat \ {0} /\ DOMAIN msgq[t] = 1..Len(msgq[t])
      /\ DOMAIN msgq'[t] = 1..(Len(msgq[t]) - 1)
      /\ \A i \in 1..(Len(msgq[t]) - 1) : msgq'[t][i] = msgq[t][i + 1]
      /\ Head(msgq[t]) = msgq[t][1]
  BY Tailed
<1>2. numbers[t]["posted"][1] = Head(msgq[t]) /\ numbers'[t]["posted"][0] = 0
  <2>1. /\ 1 \in DOMAIN msgq[t] /\ 1 \in Nat
        /\ 0 \notin DOMAIN msgq'[t] /\ 0 \in Nat
    BY <1>1
  <2>2. numbers[t]["posted"][1] = msgq[t][1]
    BY <2>1, PostedNumber
  <2>3. numbers'[t]["posted"][0] = 0
    BY <2>1, PostedNumber
  <2> QED
    BY <1>1, <2>2, <2>3
<1>3. ASSUME NEW i \in Nat \ {0}
      PROVE  numbers'[t]["posted"][i] = numbers[t]["posted"][i + 1]
  <2>1. i \in Nat /\ i + 1 \in Nat
        /\ (i \in DOMAIN msgq'[t] <=> i + 1 \in DOMAIN msgq[t])
        /\ (i \in DOMAIN msgq'[t] => msgq'[t][i] = msgq[t][i + 1])
    BY <1>1
  <2>2. CASE i \in DOMAIN msgq'[t]
    <3>1. numbers'[t]["posted"][i] = msgq'[t][i]
      BY <2>1, <2>2, PostedNumber
    <3>2. numbers[t]["posted"][i + 1] = msgq[t][i + 1]
      BY <2>1, <2>2, PostedNumber
    <3> QED
      BY <2>1, <2>2, <3>1, <3>2
  <2>3. CASE i \notin DOMAIN msgq'[t]
    <3>1. numbers'[t]["posted"][i] = 0
      BY <2>1, <2>3, PostedNumber
    <3>2. numbers[t]["posted"][i + 1] = 0
      BY <2>1, <2>3, PostedNumber
    <3> QED
      BY <3>1, <3>2
  <2> QED
    BY <2>2, <2>3
<1> QED
  BY <1>2, <1>3

LEMMA SentTail ==
    ASSUME NEW t \in Thread, sendlist[t] \in Seq(Sent), sendlist[t] # <<>>,
           sendlist'[t] = Tail(sendlist[t])
    PROVE  /\ numbers[t]["sent"][1] = Head(sendlist[t]).msg
           /\ numbers'[t]["sent"][0] = 0
           /\ \A i \in Nat \ {0} :
                 numbers'[t]["sent"][i] = numbers[t]["sent"][i + 1]
<1>1. /\ Len(sendlist[t]) \in Nat \ {0}
      /\ DOMAIN sendlist[t] = 1..Len(sendlist[t])
      /\ DOMAIN sendlist'[t] = 1..(Len(sendlist[t]) - 1)
      /\ \A i \in 1..(Len(sendlist[t]) - 1) : sendlist'[t][i] = sendlist[t][i + 1]
      /\ Head(sendlist[t]) = sendlist[t][1]
  BY Tailed
<1>2. /\ numbers[t]["sent"][1] = Head(sendlist[t]).msg
      /\ numbers'[t]["sent"][0] = 0
  <2>1. /\ 1 \in DOMAIN sendlist[t] /\ 1 \in Nat
        /\ 0 \notin DOMAIN sendlist'[t] /\ 0 \in Nat
    BY <1>1
  <2>2. numbers[t]["sent"][1] = sendlist[t][1].msg
    BY <2>1, SentNumber
  <2>3. numbers'[t]["sent"][0] = 0
    BY <2>1, SentNumber
  <2> QED
    BY <1>1, <2>2, <2>3
<1>3. ASSUME NEW i \in Nat \ {0}
      PROVE  numbers'[t]["sent"][i] = numbers[t]["sent"][i + 1]
  <2>1. i \in Nat /\ i + 1 \in Nat
        /\ (i \in DOMAIN sendlist'[t] <=> i + 1 \in DOMAIN sendlist[t])
        /\ (i \in DOMAIN sendlist'[t] => sendlist'[t][i] = sendlist[t][i + 1])
    BY <1>1
  <2>2. CASE i \in DOMAIN sendlist'[t]
    <3>1. numbers'[t]["sent"][i] = sendlist'[t][i].msg
      BY <2>1, <2>2, SentNumber
    <3>2. numbers[t]["sent"][i + 1] = sendlist[t][i + 1].msg
      BY <2>1, <2>2, SentNumber
    <3> QED
      BY <2>1, <2>2, <3>1, <3>2
  <2>3. CASE i \notin DOMAIN sendlist'[t]
    <3>1. numbers'[t]["sent"][i] = 0
      BY <2>1, <2>3, SentNumber
    <3>2. numbers[t]["sent"][i + 1] = 0
      BY <2>1, <2>3, SentNumber
    <3> QED
      BY <3>1, <3>2
  <2> QED
    BY <2>2, <2>3
<1> QED
  BY <1>2, <1>3

LEMMA PostedAppended ==
    ASSUME NEW t \in Thread, msgq[t] \in Seq(Message), NEW m \in Message,
           msgq'[t] = Append(msgq[t], m)
    PROVE  \E n \in Nat :
              /\ numbers'[t]["posted"][n] = m
              /\ \A i \in Nat :
                    i # n => numbers'[t]["posted"][i] = numbers[t]["posted"][i]
<1> DEFINE n == Len(msgq[t]) + 1
<1>1. /\ Len(msgq[t]) \in Nat /\ DOMAIN msgq[t] = 1..Len(msgq[t])
      /\ DOMAIN msgq'[t] = 1..n /\ msgq'[t][n] = m
      /\ \A i \in 1..Len(msgq[t]) : msgq'[t][i] = msgq[t][i]
  BY Appended
<1>2. numbers'[t]["posted"][n] = m
  BY <1>1, PostedNumber
<1>3. ASSUME NEW i \in Nat, i # n
      PROVE  numbers'[t]["posted"][i] = numbers[t]["posted"][i]
  <2>1. i \in DOMAIN msgq'[t] <=> i \in DOMAIN msgq[t]
    BY <1>1, <1>3
  <2> QED
    BY <1>1, <2>1, PostedNumber
<1>4. n \in Nat
  BY <1>1
<1> QED
  BY <1>2, <1>3, <1>4

LEMMA SentAppended ==
    ASSUME NEW t \in Thread, sendlist[t] \in Seq(Sent), NEW s \in Sent,
           sendlist'[t] = Append(sendlist[t], s)
    PROVE  \E n \in Nat :
              /\ numbers'[t]["sent"][n] = s.msg
              /\ \A i \in Nat :
                    i # n => numbers'[t]["sent"][i] = numbers[t]["sent"][i]
<1> DEFINE n == Len(sendlist[t]) + 1
<1>1. /\ Len(sendlist[t]) \in Nat /\ DOMAIN sendlist[t] = 1..Len(sendlist[t])
      /\ DOMAIN sendlist'[t] = 1..n /\ sendlist'[t][n] = s
      /\ \A i \in 1..Len(sendlist[t]) : sendlist'[t][i] = sendlist[t][i]
  BY Appended
<1>2. numbers'[t]["sent"][n] = s.msg
  BY <1>1, SentNumber
<1>3. ASSUME NEW i \in Nat, i # n
      PROVE  numbers'[t]["sent"][i] = numbers[t]["sent"][i]
  <2>1. i \in DOMAIN sendlist'[t] <=> i \in DOMAIN sendlist[t]
    BY <1>1, <1>3
  <2> QED
    BY SMTT(40), <1>1, <2>1, SentNumber
<1>4. n \in Nat
  BY <1>1
<1> QED
  BY <1>2, <1>3, <1>4

----------------------------------------------------------------------------
(* A number is in one place, and is not handled or cleared as long as it   *)
(* is in one.                                                              *)

OnePlace ==
    \A t, u \in Thread, l, k \in Slot, i, j \in Nat :
       numbers[t][l][i] # 0 /\ numbers[t][l][i] = numbers[u][k][j]
       => t = u /\ l = k /\ i = j

Pending ==
    \A t \in Thread, l \in Slot, i \in Nat : numbers[t][l][i] # 0 =>
       /\ numbers[t][l][i] \in 1..used
       /\ numbers[t][l][i] \notin done /\ numbers[t][l][i] \notin cleared

Unique ==
    /\ OnePlace
    /\ Pending
    /\ done \subseteq 0..used /\ cleared \subseteq 1..used

LEMMA Slots ==
    /\ \A l \in Slot : l = "posted" \/ l = "sent" \/ l = "msg" \/ l = "new"
    /\ {"posted", "sent", "msg", "new"} \subseteq Slot
    /\ \A l : l \in Frames <=> l = "msg" \/ l = "new"
  BY DEF Slot, Frames

\* The numbers stay where they are.
LEMMA UniqueSame ==
    ASSUME Unique, NEW t \in Thread,
           \A u \in Thread : msgq'[u] = msgq[u] /\ sendlist'[u] = sendlist[u],
           \/ stack' = stack
           \/ /\ TopIs(t, stack'[t][1]) /\ stack \in Stacks /\ Active(t)
              /\ \A l \in Frames : InFrame(stack'[t][1], l) \in {0, InFrame(Top(t), l)},
           UNCHANGED <<used, done, cleared>>
    PROVE  Unique'
<1>1. \A u \in Thread, i \in Nat :
         /\ numbers'[u]["posted"][i] = numbers[u]["posted"][i]
         /\ numbers'[u]["sent"][i] = numbers[u]["sent"][i]
  BY SameQueue
<1>2. \A u \in Thread, l \in Frames, i \in Nat :
         numbers'[u][l][i] \in {0, numbers[u][l][i]}
  <2>1. CASE stack' = stack
    BY <2>1, SameQueue
  <2>2. CASE stack' # stack
    BY <2>2, FramesOfTop
  <2> QED
    BY <2>1, <2>2
<1>3. \A u \in Thread, l \in Slot, i \in Nat :
         numbers'[u][l][i] # 0 => numbers'[u][l][i] = numbers[u][l][i]
  BY <1>1, <1>2, Slots
<1>4. OnePlace'
  <2> SUFFICES ASSUME NEW x \in Thread, NEW y \in Thread, NEW l \in Slot,
                      NEW k \in Slot, NEW i \in Nat, NEW j \in Nat,
                      numbers'[x][l][i] # 0,
                      numbers'[x][l][i] = numbers'[y][k][j]
               PROVE  x = y /\ l = k /\ i = j
    BY DEF OnePlace
  <2>1. /\ numbers'[x][l][i] = numbers[x][l][i]
        /\ numbers'[y][k][j] = numbers[y][k][j]
    BY <1>3
  <2>2. numbers[x][l][i] # 0 /\ numbers[x][l][i] = numbers[y][k][j]
    BY <2>1
  <2>3. OnePlace
    BY DEF Unique
  <2> QED
    BY <2>2, <2>3 DEF OnePlace
<1>5. Pending'
  BY <1>3 DEF Unique, Pending
<1> QED
  BY <1>4, <1>5 DEF Unique

LEMMA UniqueBeginPost ==
    ASSUME TypeInv, Unique, NEW t \in Thread, NEW u \in Thread, BeginPost(t, u)
    PROVE  Unique'
<1>1. /\ stack \in Stacks /\ Active(t) /\ used \in Nat
  BY ThreadAssumption DEF TypeInv, TypeOK, Stacks, BeginPost, In
<1> DEFINE b == stack'[t][1]
<1>2. TopIs(t, b) /\ InFrame(b, "new") = used + 1
      /\ InFrame(b, "msg") = InFrame(Top(t), "msg")
  BY BeginPostStack DEF HandlerMoves, InFrame, BeginPost, In
<1>3. \A x \in Thread, i \in Nat :
         /\ numbers'[x]["posted"][i] = numbers[x]["posted"][i]
         /\ numbers'[x]["sent"][i] = numbers[x]["sent"][i]
  BY SameQueue DEF BeginPost, queueVars
<1>4. \A x \in Thread, l \in Slot, i \in Nat :
         \/ x = t /\ l = "new" /\ i = 1 /\ numbers'[x][l][i] = used + 1
         \/ numbers'[x][l][i] = numbers[x][l][i]
  <2> HIDE DEF b
  <2>1. \A x \in Thread : x # t =>
           \A l \in Frames, i \in Nat : numbers'[x][l][i] = numbers[x][l][i]
    BY <1>1, <1>2, FramesOfTop
  <2>2. \A l \in Frames, i \in Nat : \/ numbers'[t][l][i] = numbers[t][l][i]
                                     \/ i = 1 /\ l = "new" /\ numbers'[t][l][1] = used + 1
    BY <1>1, <1>2, FramesOfTop, Slots
  <2> QED
    BY <1>3, <2>1, <2>2, Slots
<1>5. used' = used + 1 /\ done' = done /\ cleared' = cleared
  BY DEF BeginPost, historyVars
<1>6. OnePlace'
  <2> SUFFICES ASSUME NEW x \in Thread, NEW y \in Thread, NEW l \in Slot,
                      NEW k \in Slot, NEW i \in Nat, NEW j \in Nat,
                      numbers'[x][l][i] # 0,
                      numbers'[x][l][i] = numbers'[y][k][j]
               PROVE  x = y /\ l = k /\ i = j
    BY DEF OnePlace
  <2>1. numbers[x][l][i] # used + 1 /\ numbers[y][k][j] # used + 1
    BY <1>1 DEF Unique, Pending
  <2>2. /\ \/ x = t /\ l = "new" /\ i = 1 /\ numbers'[x][l][i] = used + 1
           \/ numbers'[x][l][i] = numbers[x][l][i]
        /\ \/ y = t /\ k = "new" /\ j = 1 /\ numbers'[y][k][j] = used + 1
           \/ numbers'[y][k][j] = numbers[y][k][j]
    BY <1>4
  <2> QED
    BY <2>1, <2>2 DEF Unique, OnePlace
<1>7. Pending'
  BY <1>1, <1>4, <1>5 DEF Unique, Pending
<1> QED
  BY <1>1, <1>5, <1>6, <1>7 DEF Unique

LEMMA UniquePost ==
    ASSUME TypeInv, Unique, NEW t \in Thread, Post(t)
    PROVE  Unique'
<1> DEFINE to == Top(t).to
           m == Top(t).new
           b == stack'[t][1]
<1>1. /\ OnePlace /\ Pending
      /\ UNCHANGED <<used, done, cleared>>
      /\ done \subseteq 0..used /\ cleared \subseteq 1..used
  BY DEF Unique, Post, historyVars
<1>2. stack \in Stacks /\ Active(t) /\ msgq[to] \in Seq(Message)
      /\ to \in Thread /\ m \in Message
  BY PostStack DEF TypeInv, TypeOK, Stacks, Post, In
<1>3. /\ TopIs(t, b) /\ InFrame(b, "new") = 0 /\ InFrame(Top(t), "new") = m
      /\ InFrame(b, "msg") = InFrame(Top(t), "msg")
  BY ZenonT(80), PostStack DEF HandlerMoves, InFrame, Post, In
<1> HIDE DEF b
<1>4. \A x \in Thread, i \in Nat :
         numbers'[x]["sent"][i] = numbers[x]["sent"][i]
  BY SameQueue DEF Post
<1>5. \A x \in Thread, l \in Frames, i \in Nat :
         IF x = t /\ l = "new" /\ i = 1
         THEN numbers'[x][l][i] = 0 /\ numbers[x][l][i] = m
         ELSE numbers'[x][l][i] = numbers[x][l][i]
  BY <1>2, <1>3, FramesOfTop, Slots
<1>6. msgq'[to] = Append(msgq[to], m) /\ \A x \in Thread : x # to => msgq'[x] = msgq[x]
  BY <1>2 DEF Post, TypeInv, TypeOK
<1>7. PICK n \in Nat :
         /\ numbers'[to]["posted"][n] = m
         /\ \A i \in Nat :
               i # n => numbers'[to]["posted"][i] = numbers[to]["posted"][i]
  BY <1>2, <1>6, PostedAppended
<1>8. \A x \in Thread, i \in Nat :
         IF x = to /\ i = n THEN numbers'[x]["posted"][i] = m
         ELSE numbers'[x]["posted"][i] = numbers[x]["posted"][i]
  BY <1>6, <1>7, SameQueue
<1>9. numbers[t]["new"][1] = m
  BY <1>5, Slots
<1>10. ASSUME NEW x \in Thread, NEW l \in Slot, NEW i \in Nat,
             numbers'[x][l][i] # 0
      PROVE  \/ /\ x = to /\ l = "posted" /\ i = n
                /\ numbers'[x][l][i] = numbers[t]["new"][1]
             \/ /\ ~(x = t /\ l = "new" /\ i = 1)
                /\ numbers'[x][l][i] = numbers[x][l][i]
  <2>1. CASE l = "posted"
    BY <1>8, <1>9, <2>1
  <2>2. CASE l = "sent"
    BY <1>4, <2>2
  <2>3. CASE l \in Frames
    BY <1>5, <1>10, <2>3
  <2> QED
    BY <2>1, <2>2, <2>3, Slots
<1>11. OnePlace'
  <2> SUFFICES ASSUME NEW x \in Thread, NEW y \in Thread, NEW l \in Slot,
                      NEW k \in Slot, NEW i \in Nat, NEW j \in Nat,
                      numbers'[x][l][i] # 0,
                      numbers'[x][l][i] = numbers'[y][k][j]
               PROVE  x = y /\ l = k /\ i = j
    BY DEF OnePlace
  <2>1. \/ /\ x = to /\ l = "posted" /\ i = n
           /\ numbers'[x][l][i] = numbers[t]["new"][1]
        \/ /\ ~(x = t /\ l = "new" /\ i = 1)
           /\ numbers'[x][l][i] = numbers[x][l][i]
    BY <1>10
  <2>2. \/ /\ y = to /\ k = "posted" /\ j = n
           /\ numbers'[y][k][j] = numbers[t]["new"][1]
        \/ /\ ~(y = t /\ k = "new" /\ j = 1)
           /\ numbers'[y][k][j] = numbers[y][k][j]
    BY <1>10
  <2>3. "new" \in Slot /\ "posted" # "new"
    BY Slots
  <2> QED
    BY <2>1, <2>2, <2>3, <1>1 DEF OnePlace
<1>12. Pending'
  <2> SUFFICES ASSUME NEW x \in Thread, NEW l \in Slot, NEW i \in Nat,
                      numbers'[x][l][i] # 0
               PROVE  /\ numbers'[x][l][i] \in 1..used'
                      /\ numbers'[x][l][i] \notin done'
                      /\ numbers'[x][l][i] \notin cleared'
    BY DEF Pending
  <2>1. \/ /\ x = to /\ l = "posted" /\ i = n
           /\ numbers'[x][l][i] = numbers[t]["new"][1]
        \/ /\ ~(x = t /\ l = "new" /\ i = 1)
           /\ numbers'[x][l][i] = numbers[x][l][i]
    BY <1>10
  <2>2. "new" \in Slot /\ "posted" # "new"
    BY Slots
  <2> QED
    BY <2>1, <2>2, <1>1 DEF Pending
<1> QED
  BY <1>1, <1>11, <1>12 DEF Unique


LEMMA UniquePush ==
    ASSUME TypeInv, Unique, NEW t \in Thread, Push(t)
    PROVE  Unique'
<1> DEFINE to == Top(t).to
           s == [from |-> t, msg |-> Top(t).msg]
           b == stack'[t][1]
<1>1. /\ OnePlace /\ Pending
      /\ UNCHANGED <<used, done, cleared>>
      /\ done \subseteq 0..used /\ cleared \subseteq 1..used
  BY DEF Unique, Push, historyVars
<1>2. stack \in Stacks /\ Active(t)
  BY DEF TypeInv, TypeOK, Stacks, Push, In
<1>3. /\ TopIs(t, b) /\ InFrame(Top(t), "msg") = s.msg /\ InFrame(b, "msg") = 0
      /\ InFrame(Top(t), "new") = 0 /\ InFrame(b, "new") = 0
  BY MoveStack DEF SendMoves, InFrame, Push, In
<1>4. Top(t) \in SendActivity
  BY <1>2, Depth, ActivityKinds DEF Push, In
<1>5. to \in Thread /\ s \in Sent /\ sendlist[to] \in Seq(Sent)
  BY <1>4 DEF SendActivity, Sent, TypeInv, TypeOK
<1>6. /\ sendlist'[to] = Append(sendlist[to], s)
      /\ \A x \in Thread : x # to => sendlist'[x] = sendlist[x]
  BY <1>5 DEF Push, TypeInv, TypeOK
<1> HIDE DEF b, s
<1>7. \A x \in Thread, i \in Nat :
         numbers'[x]["posted"][i] = numbers[x]["posted"][i]
  BY SameQueue DEF Push
<1>8. \A x \in Thread, l \in Frames, i \in Nat :
         IF x = t /\ l = "msg" /\ i = 1
         THEN numbers'[x][l][i] = 0 /\ numbers[x][l][i] = s.msg
         ELSE numbers'[x][l][i] = numbers[x][l][i]
  BY <1>2, <1>3, FramesOfTop, Slots
<1>9. PICK n \in Nat :
         /\ numbers'[to]["sent"][n] = s.msg
         /\ \A i \in Nat :
               i # n => numbers'[to]["sent"][i] = numbers[to]["sent"][i]
  BY <1>5, <1>6, SentAppended
<1>10. \A x \in Thread, i \in Nat :
         IF x = to /\ i = n THEN numbers'[x]["sent"][i] = s.msg
         ELSE numbers'[x]["sent"][i] = numbers[x]["sent"][i]
  BY <1>6, <1>9, SameQueue
<1>11. numbers[t]["msg"][1] = s.msg
  BY <1>8, Slots
<1>12. ASSUME NEW x \in Thread, NEW l \in Slot, NEW i \in Nat,
             numbers'[x][l][i] # 0
      PROVE  \/ /\ x = to /\ l = "sent" /\ i = n
                /\ numbers'[x][l][i] = numbers[t]["msg"][1]
             \/ /\ ~(x = t /\ l = "msg" /\ i = 1)
                /\ numbers'[x][l][i] = numbers[x][l][i]
  <2>1. CASE l = "sent"
    BY <1>10, <1>11, <2>1
  <2>2. CASE l = "posted"
    BY <1>7, <2>2
  <2>3. CASE l \in Frames
    BY <1>8, <1>12, <2>3
  <2> QED
    BY <2>1, <2>2, <2>3, Slots
<1>13. OnePlace'
  <2> SUFFICES ASSUME NEW x \in Thread, NEW y \in Thread, NEW l \in Slot,
                      NEW k \in Slot, NEW i \in Nat, NEW j \in Nat,
                      numbers'[x][l][i] # 0,
                      numbers'[x][l][i] = numbers'[y][k][j]
               PROVE  x = y /\ l = k /\ i = j
    BY DEF OnePlace
  <2>1. \/ /\ x = to /\ l = "sent" /\ i = n
           /\ numbers'[x][l][i] = numbers[t]["msg"][1]
        \/ /\ ~(x = t /\ l = "msg" /\ i = 1)
           /\ numbers'[x][l][i] = numbers[x][l][i]
    BY <1>12
  <2>2. \/ /\ y = to /\ k = "sent" /\ j = n
           /\ numbers'[y][k][j] = numbers[t]["msg"][1]
        \/ /\ ~(y = t /\ k = "msg" /\ j = 1)
           /\ numbers'[y][k][j] = numbers[y][k][j]
    BY <1>12
  <2>3. "msg" \in Slot /\ "sent" # "msg"
    BY Slots
  <2> QED
    BY <2>1, <2>2, <2>3, <1>1 DEF OnePlace
<1>14. Pending'
  <2> SUFFICES ASSUME NEW x \in Thread, NEW l \in Slot, NEW i \in Nat,
                      numbers'[x][l][i] # 0
               PROVE  /\ numbers'[x][l][i] \in 1..used'
                      /\ numbers'[x][l][i] \notin done'
                      /\ numbers'[x][l][i] \notin cleared'
    BY DEF Pending
  <2>1. \/ /\ x = to /\ l = "sent" /\ i = n
           /\ numbers'[x][l][i] = numbers[t]["msg"][1]
        \/ /\ ~(x = t /\ l = "msg" /\ i = 1)
           /\ numbers'[x][l][i] = numbers[x][l][i]
    BY <1>12
  <2>2. "msg" \in Slot /\ "sent" # "msg"
    BY Slots
  <2> QED
    BY <2>1, <2>2, <1>1 DEF Pending
<1> QED
  BY <1>1, <1>13, <1>14 DEF Unique


LEMMA UniqueBeginSend ==
    ASSUME TypeInv, Unique, NEW t \in Thread, NEW u \in Thread, BeginSend(t, u)
    PROVE  Unique'
<1> DEFINE s == Send(u, used + 1)
<1>1. /\ OnePlace /\ Pending
      /\ used' = used + 1 /\ done' = done /\ cleared' = cleared
      /\ done \subseteq 0..used' /\ cleared \subseteq 1..used' /\ used \in Nat
      /\ used + 1 \notin done /\ used + 1 \notin cleared
  <2>1. used \in Nat
    BY ThreadAssumption DEF TypeInv, TypeOK
  <2>2. used' = used + 1 /\ done' = done /\ cleared' = cleared
    BY DEF BeginSend, historyVars
  <2> QED
    BY <2>1, <2>2 DEF Unique
<1>2. stack \in Stacks /\ Pushed(t, s)
  BY BeginSendStack DEF TypeInv, TypeOK, Stacks
<1>3. InFrame(s, "msg") = used + 1 /\ InFrame(s, "new") = 0
  BY DEF Send, InFrame
<1> HIDE DEF s
<1>4. \A x \in Thread, i \in Nat :
         /\ numbers'[x]["posted"][i] = numbers[x]["posted"][i]
         /\ numbers'[x]["sent"][i] = numbers[x]["sent"][i]
  BY SameQueue DEF BeginSend, queueVars
<1>5. /\ \A x \in Thread : x # t =>
            \A l \in Frames, i \in Nat : numbers'[x][l][i] = numbers[x][l][i]
      /\ numbers'[t]["msg"][1] = used + 1 /\ numbers'[t]["new"][1] = 0
      /\ \A l \in Frames : numbers'[t][l][0] = 0
      /\ \A l \in Frames, i \in Nat \ {0} :
            numbers'[t][l][i + 1] = numbers[t][l][i]
  BY <1>2, <1>3, FramesOfPushed, Slots
<1>6. ASSUME NEW x \in Thread, NEW l \in Slot, NEW i \in Nat,
             numbers'[x][l][i] # 0
      PROVE  \/ /\ x = t /\ l = "msg" /\ i = 1
                /\ numbers'[x][l][i] = used + 1
             \/ /\ x = t /\ l \in Frames /\ i > 1
                /\ numbers'[x][l][i] = numbers[t][l][i - 1]
             \/ /\ ~(x = t /\ l \in Frames)
                /\ numbers'[x][l][i] = numbers[x][l][i]
  <2>1. CASE l \notin Frames
    BY <1>4, <2>1, Slots
  <2>2. CASE l \in Frames /\ x # t
    BY <1>5, <2>2
  <2>3. CASE l \in Frames /\ x = t
    <3>1. CASE i \in {0, 1}
      BY <1>5, <1>6, <2>3, <3>1, Slots
    <3>2. CASE i \notin {0, 1}
      <4>1. i - 1 \in Nat \ {0} /\ (i - 1) + 1 = i /\ i > 1
        BY <3>2
      <4>2. numbers'[t][l][(i - 1) + 1] = numbers[t][l][i - 1]
        BY <1>5, <2>3, <4>1
      <4> QED
        BY <2>3, <4>1, <4>2
    <3> QED
      BY <3>1, <3>2
  <2> QED
    BY <2>1, <2>2, <2>3
<1>7. OnePlace'
  <2> SUFFICES ASSUME NEW x \in Thread, NEW y \in Thread, NEW l \in Slot,
                      NEW k \in Slot, NEW i \in Nat, NEW j \in Nat,
                      numbers'[x][l][i] # 0,
                      numbers'[x][l][i] = numbers'[y][k][j]
               PROVE  x = y /\ l = k /\ i = j
    BY DEF OnePlace
  <2>1. \/ /\ x = t /\ l = "msg" /\ i = 1
           /\ numbers'[x][l][i] = used + 1
        \/ /\ x = t /\ l \in Frames /\ i > 1
           /\ numbers'[x][l][i] = numbers[t][l][i - 1]
        \/ /\ ~(x = t /\ l \in Frames)
           /\ numbers'[x][l][i] = numbers[x][l][i]
    BY <1>6
  <2>2. \/ /\ y = t /\ k = "msg" /\ j = 1
           /\ numbers'[y][k][j] = used + 1
        \/ /\ y = t /\ k \in Frames /\ j > 1
           /\ numbers'[y][k][j] = numbers[t][k][j - 1]
        \/ /\ ~(y = t /\ k \in Frames)
           /\ numbers'[y][k][j] = numbers[y][k][j]
    BY <1>6
  <2>3. "msg" \in Slot /\ "msg" \in Frames
    BY Slots
  <2>4. \A z \in Thread, o \in Slot, n \in Nat : numbers[z][o][n] # used + 1
    BY <1>1 DEF Pending
  <2>5. CASE numbers'[x][l][i] = used + 1 \/ numbers'[y][k][j] = used + 1
    <3>1. /\ x = t /\ l = "msg" /\ i = 1
          /\ y = t /\ k = "msg" /\ j = 1
      BY <2>1, <2>2, <2>3, <2>4, <2>5
    <3> QED
      BY <3>1
  <2>6. CASE numbers'[x][l][i] # used + 1 /\ numbers'[y][k][j] # used + 1
    <3>1. \/ /\ x = t /\ l \in Frames /\ i - 1 \in Nat /\ i > 1
             /\ numbers'[x][l][i] = numbers[x][l][i - 1]
          \/ /\ ~(x = t /\ l \in Frames)
             /\ numbers'[x][l][i] = numbers[x][l][i]
      BY <2>1, <2>6
    <3>2. \/ /\ y = t /\ k \in Frames /\ j - 1 \in Nat /\ j > 1
             /\ numbers'[y][k][j] = numbers[y][k][j - 1]
          \/ /\ ~(y = t /\ k \in Frames)
             /\ numbers'[y][k][j] = numbers[y][k][j]
      BY <2>2, <2>6
    <3>3. \A a, b \in Nat : numbers[x][l][a] # 0 /\ numbers[x][l][a] = numbers[y][k][b]
              => x = y /\ l = k /\ a = b
      BY <1>1 DEF OnePlace
    <3> QED
      BY <3>1, <3>2, <3>3
  <2> QED
    BY <2>5, <2>6
<1>8. Pending'
  <2> SUFFICES ASSUME NEW x \in Thread, NEW l \in Slot, NEW i \in Nat,
                      numbers'[x][l][i] # 0
               PROVE  /\ numbers'[x][l][i] \in 1..used'
                      /\ numbers'[x][l][i] \notin done'
                      /\ numbers'[x][l][i] \notin cleared'
    BY DEF Pending
  <2>1. \/ /\ x = t /\ l = "msg" /\ i = 1
           /\ numbers'[x][l][i] = used + 1
        \/ /\ x = t /\ l \in Frames /\ i > 1
           /\ numbers'[x][l][i] = numbers[t][l][i - 1]
        \/ /\ ~(x = t /\ l \in Frames)
           /\ numbers'[x][l][i] = numbers[x][l][i]
    BY <1>6
  <2>2. "msg" \in Slot /\ "msg" \in Frames
    BY Slots
  <2> QED
    BY <2>1, <2>2, <1>1 DEF Pending
<1> QED
  BY <1>1, <1>7, <1>8 DEF Unique


LEMMA UniqueTake ==
    ASSUME TypeInv, Unique, NEW t \in Thread, Take(t)
    PROVE  Unique'
<1> DEFINE h == Handler(t, First(t).msg, First(t).from)
<1>1. /\ OnePlace /\ Pending
      /\ UNCHANGED <<used, done, cleared>>
      /\ done \subseteq 0..used /\ cleared \subseteq 1..used
  BY DEF Unique, Take, historyVars
<1>2. stack \in Stacks /\ Pushed(t, h)
  BY TakeStack DEF TypeInv, TypeOK, Stacks
<1>3. InFrame(h, "msg") = First(t).msg /\ InFrame(h, "new") = 0
  BY DEF Handler, InFrame
<1> HIDE DEF h
<1>4. \A x \in Thread, i \in Nat :
         numbers'[x]["posted"][i] = numbers[x]["posted"][i]
  BY SameQueue DEF Take
<1>5. /\ \A x \in Thread : x # t =>
            \A i \in Nat : numbers'[x]["sent"][i] = numbers[x]["sent"][i]
      /\ numbers[t]["sent"][1] = First(t).msg
      /\ numbers'[t]["sent"][0] = 0
      /\ \A i \in Nat \ {0} : numbers'[t]["sent"][i] = numbers[t]["sent"][i + 1]
  <2>1. /\ sendlist[t] \in Seq(Sent) /\ sendlist[t] # <<>>
        /\ sendlist'[t] = Tail(sendlist[t])
        /\ \A x \in Thread : x # t => sendlist'[x] = sendlist[x]
    BY DEF Take, TypeInv, TypeOK
  <2> QED
    BY <2>1, SentTail, SameQueue DEF First
<1>6. /\ \A x \in Thread : x # t =>
            \A l \in Frames, i \in Nat : numbers'[x][l][i] = numbers[x][l][i]
      /\ numbers'[t]["msg"][1] = First(t).msg /\ numbers'[t]["new"][1] = 0
      /\ \A l \in Frames : numbers'[t][l][0] = 0
      /\ \A l \in Frames, i \in Nat \ {0} :
            numbers'[t][l][i + 1] = numbers[t][l][i]
  BY <1>2, <1>3, FramesOfPushed, Slots
<1>7. ASSUME NEW x \in Thread, NEW l \in Slot, NEW i \in Nat,
             numbers'[x][l][i] # 0
      PROVE  \/ /\ x = t /\ l = "msg" /\ i = 1
                /\ numbers'[x][l][i] = numbers[t]["sent"][1]
             \/ /\ x = t /\ l = "sent" /\ i # 0
                /\ numbers'[x][l][i] = numbers[t]["sent"][i + 1]
             \/ /\ x = t /\ l \in Frames /\ i > 1
                /\ numbers'[x][l][i] = numbers[t][l][i - 1]
             \/ /\ ~(x = t /\ (l = "sent" \/ l \in Frames))
                /\ numbers'[x][l][i] = numbers[x][l][i]
  <2>1. CASE l = "posted"
    BY <1>4, <2>1, Slots
  <2>2. CASE l = "sent"
    BY <1>5, <1>7, <2>2, Slots
  <2>3. CASE l \in Frames /\ x # t
    BY <1>6, <2>3, Slots
  <2>4. CASE l \in Frames /\ x = t
    <3>1. CASE i \in {0, 1}
      BY <1>5, <1>6, <1>7, <2>4, <3>1, Slots
    <3>2. CASE i \notin {0, 1}
      <4>1. i - 1 \in Nat \ {0} /\ (i - 1) + 1 = i /\ i > 1
        BY <3>2
      <4>2. numbers'[t][l][(i - 1) + 1] = numbers[t][l][i - 1]
        BY <1>6, <2>4, <4>1
      <4> QED
        BY <2>4, <4>1, <4>2
    <3> QED
      BY <3>1, <3>2
  <2> QED
    BY <2>1, <2>2, <2>3, <2>4, Slots
<1>8. OnePlace'
  <2> SUFFICES ASSUME NEW x \in Thread, NEW y \in Thread, NEW l \in Slot,
                      NEW k \in Slot, NEW i \in Nat, NEW j \in Nat,
                      numbers'[x][l][i] # 0,
                      numbers'[x][l][i] = numbers'[y][k][j]
               PROVE  x = y /\ l = k /\ i = j
    BY DEF OnePlace
  <2>1. \/ /\ x = t /\ l = "msg" /\ i = 1
           /\ numbers'[x][l][i] = numbers[t]["sent"][1]
        \/ /\ x = t /\ l = "sent" /\ i # 0
           /\ numbers'[x][l][i] = numbers[t]["sent"][i + 1]
        \/ /\ x = t /\ l \in Frames /\ i > 1
           /\ numbers'[x][l][i] = numbers[t][l][i - 1]
        \/ /\ ~(x = t /\ (l = "sent" \/ l \in Frames))
           /\ numbers'[x][l][i] = numbers[x][l][i]
    BY <1>7
  <2>2. \/ /\ y = t /\ k = "msg" /\ j = 1
           /\ numbers'[y][k][j] = numbers[t]["sent"][1]
        \/ /\ y = t /\ k = "sent" /\ j # 0
           /\ numbers'[y][k][j] = numbers[t]["sent"][j + 1]
        \/ /\ y = t /\ k \in Frames /\ j > 1
           /\ numbers'[y][k][j] = numbers[t][k][j - 1]
        \/ /\ ~(y = t /\ (k = "sent" \/ k \in Frames))
           /\ numbers'[y][k][j] = numbers[y][k][j]
    BY <1>7
  <2>3. "msg" \in Slot /\ "sent" \in Slot /\ "msg" \in Frames
        /\ "sent" # "msg" /\ "sent" \notin Frames
    BY Slots
  <2>4. CASE x = t /\ l = "msg" /\ i = 1
    BY <2>1, <2>2, <2>3, <2>4, <1>1 DEF OnePlace
  <2>5. CASE x = t /\ l = "sent"
    BY <2>1, <2>2, <2>3, <2>5, <1>1 DEF OnePlace
  <2>6. CASE x = t /\ l \in Frames /\ i > 1
    BY <2>1, <2>2, <2>3, <2>6, <1>1 DEF OnePlace
  <2>7. CASE ~(x = t /\ (l = "sent" \/ l \in Frames))
    BY SMTT(60), <2>1, <2>2, <2>3, <2>7, <1>1 DEF OnePlace
  <2> QED
    BY <2>1, <2>4, <2>5, <2>6, <2>7
<1>9. Pending'
  <2> SUFFICES ASSUME NEW x \in Thread, NEW l \in Slot, NEW i \in Nat,
                      numbers'[x][l][i] # 0
               PROVE  /\ numbers'[x][l][i] \in 1..used'
                      /\ numbers'[x][l][i] \notin done'
                      /\ numbers'[x][l][i] \notin cleared'
    BY DEF Pending
  <2>1. \/ /\ x = t /\ l = "msg" /\ i = 1
           /\ numbers'[x][l][i] = numbers[t]["sent"][1]
        \/ /\ x = t /\ l = "sent" /\ i # 0
           /\ numbers'[x][l][i] = numbers[t]["sent"][i + 1]
        \/ /\ x = t /\ l \in Frames /\ i > 1
           /\ numbers'[x][l][i] = numbers[t][l][i - 1]
        \/ /\ ~(x = t /\ (l = "sent" \/ l \in Frames))
           /\ numbers'[x][l][i] = numbers[x][l][i]
    BY <1>7
  <2>2. "msg" \in Slot /\ "sent" \in Slot /\ "msg" \in Frames
        /\ "sent" # "msg" /\ "sent" \notin Frames
    BY Slots
  <2> QED
    BY <2>1, <2>2, <1>1 DEF Pending
<1> QED
  BY <1>1, <1>8, <1>9 DEF Unique


LEMMA UniqueDispatch ==
    ASSUME TypeInv, Unique, NEW t \in Thread, Dispatch(t)
    PROVE  Unique'
<1> DEFINE h == Handler(t, Head(msgq[t]), "post")
<1>1. /\ OnePlace /\ Pending
      /\ UNCHANGED <<used, done, cleared>>
      /\ done \subseteq 0..used /\ cleared \subseteq 1..used
  BY DEF Unique, Dispatch, historyVars
<1>2. stack \in Stacks /\ Dispatched(t, h)
  BY DispatchStack DEF TypeInv, TypeOK, Stacks
<1>3. InFrame(h, "msg") = Head(msgq[t]) /\ InFrame(h, "new") = 0
      /\ \A l \in Frames : InFrame(Get, l) = 0
  BY DEF Handler, InFrame, Get
<1> HIDE DEF h
<1>4. \A x \in Thread, i \in Nat :
         numbers'[x]["sent"][i] = numbers[x]["sent"][i]
  BY SameQueue DEF Dispatch
<1>5. /\ \A x \in Thread : x # t =>
            \A i \in Nat : numbers'[x]["posted"][i] = numbers[x]["posted"][i]
      /\ numbers[t]["posted"][1] = Head(msgq[t])
      /\ numbers'[t]["posted"][0] = 0
      /\ \A i \in Nat \ {0} :
            numbers'[t]["posted"][i] = numbers[t]["posted"][i + 1]
  <2>1. /\ msgq[t] \in Seq(Message) /\ msgq[t] # <<>>
        /\ msgq'[t] = Tail(msgq[t])
        /\ \A x \in Thread : x # t => msgq'[x] = msgq[x]
    BY DEF Dispatch, TypeInv, TypeOK
  <2> QED
    BY <2>1, PostedTail, SameQueue
<1>6. /\ \A x \in Thread : x # t =>
            \A l \in Frames, i \in Nat : numbers'[x][l][i] = numbers[x][l][i]
      /\ numbers'[t]["msg"][1] = Head(msgq[t]) /\ numbers'[t]["new"][1] = 0
      /\ \A l \in Frames : numbers'[t][l][0] = 0
      /\ \A l \in Frames, i \in Nat \ {0} : numbers'[t][l][i + 1] = 0
  <2>1. stack'[t] \in Seq(Activity) /\ Len(stack'[t]) = 2
    BY <1>2 DEF Dispatched, Stacks
  <2>2. DOMAIN stack'[t] = 1..2
    BY <2>1
  <2>3. /\ 1 \in DOMAIN stack'[t] /\ 2 \in DOMAIN stack'[t] /\ 1 \in Nat /\ 2 \in Nat
        /\ 0 \notin DOMAIN stack'[t] /\ 0 \in Nat
    BY <2>2
  <2>4. /\ numbers'[t]["msg"][1] = Head(msgq[t]) /\ numbers'[t]["new"][1] = 0
    BY <1>2, <1>3, <2>3, NumbersOfNext, Slots DEF Dispatched
  <2>5. \A l \in Frames : numbers'[t][l][2] = 0 /\ numbers'[t][l][0] = 0
    BY <1>2, <1>3, <2>3, NumbersOfNext DEF Dispatched
  <2>6. ASSUME NEW l \in Frames, NEW i \in Nat \ {0} PROVE numbers'[t][l][i + 1] = 0
    <3>1. CASE i = 1
      BY <2>5, <3>1
    <3>2. CASE i # 1
      <4>1. i + 1 \notin DOMAIN stack'[t] /\ i + 1 \in Nat
        BY <2>2, <3>2
      <4> QED
        BY <4>1, NumbersOfNext
    <3> QED
      BY <3>1, <3>2
  <2>7. \A x \in Thread : x # t =>
            \A l \in Frames, i \in Nat : numbers'[x][l][i] = numbers[x][l][i]
    BY <1>2, SameQueue DEF Dispatched
  <2> QED
    BY <2>4, <2>5, <2>6, <2>7
<1>7. ASSUME NEW x \in Thread, NEW l \in Slot, NEW i \in Nat,
             numbers'[x][l][i] # 0
      PROVE  \/ /\ x = t /\ l = "msg" /\ i = 1
                /\ numbers'[x][l][i] = numbers[t]["posted"][1]
             \/ /\ x = t /\ l = "posted" /\ i # 0
                /\ numbers'[x][l][i] = numbers[t]["posted"][i + 1]
             \/ /\ ~(x = t /\ (l = "posted" \/ l \in Frames))
                /\ numbers'[x][l][i] = numbers[x][l][i]
  <2>1. CASE l = "sent"
    BY <1>4, <2>1, Slots
  <2>2. CASE l = "posted"
    BY <1>5, <1>7, <2>2, Slots
  <2>3. CASE l \in Frames /\ x # t
    BY <1>6, <2>3, Slots
  <2>4. CASE l \in Frames /\ x = t
    <3>1. CASE i \in {0, 1}
      BY <1>5, <1>6, <1>7, <2>4, <3>1, Slots
    <3>2. CASE i \notin {0, 1}
      <4>1. i - 1 \in Nat \ {0} /\ (i - 1) + 1 = i /\ i > 1
        BY <3>2
      <4> QED
        BY <1>6, <1>7, <2>4, <4>1
    <3> QED
      BY <3>1, <3>2
  <2> QED
    BY <2>1, <2>2, <2>3, <2>4, Slots
<1>8. OnePlace'
  <2> SUFFICES ASSUME NEW x \in Thread, NEW y \in Thread, NEW l \in Slot,
                      NEW k \in Slot, NEW i \in Nat, NEW j \in Nat,
                      numbers'[x][l][i] # 0,
                      numbers'[x][l][i] = numbers'[y][k][j]
               PROVE  x = y /\ l = k /\ i = j
    BY DEF OnePlace
  <2>1. \/ /\ x = t /\ l = "msg" /\ i = 1
           /\ numbers'[x][l][i] = numbers[t]["posted"][1]
        \/ /\ x = t /\ l = "posted" /\ i # 0
           /\ numbers'[x][l][i] = numbers[t]["posted"][i + 1]
        \/ /\ ~(x = t /\ (l = "posted" \/ l \in Frames))
           /\ numbers'[x][l][i] = numbers[x][l][i]
    BY <1>7
  <2>2. \/ /\ y = t /\ k = "msg" /\ j = 1
           /\ numbers'[y][k][j] = numbers[t]["posted"][1]
        \/ /\ y = t /\ k = "posted" /\ j # 0
           /\ numbers'[y][k][j] = numbers[t]["posted"][j + 1]
        \/ /\ ~(y = t /\ (k = "posted" \/ k \in Frames))
           /\ numbers'[y][k][j] = numbers[y][k][j]
    BY <1>7
  <2>3. "msg" \in Slot /\ "posted" \in Slot /\ "msg" \in Frames
        /\ "posted" # "msg" /\ "posted" \notin Frames
    BY Slots
  <2>4. CASE x = t /\ l = "msg" /\ i = 1
    BY <2>1, <2>2, <2>3, <2>4, <1>1 DEF OnePlace
  <2>5. CASE x = t /\ l = "posted"
    BY <2>1, <2>2, <2>3, <2>5, <1>1 DEF OnePlace
  <2>6. CASE ~(x = t /\ (l = "posted" \/ l \in Frames))
    BY <2>1, <2>2, <2>3, <2>6, <1>1 DEF OnePlace
  <2> QED
    BY <2>1, <2>4, <2>5, <2>6
<1>9. Pending'
  <2> SUFFICES ASSUME NEW x \in Thread, NEW l \in Slot, NEW i \in Nat,
                      numbers'[x][l][i] # 0
               PROVE  /\ numbers'[x][l][i] \in 1..used'
                      /\ numbers'[x][l][i] \notin done'
                      /\ numbers'[x][l][i] \notin cleared'
    BY DEF Pending
  <2>1. \/ /\ x = t /\ l = "msg" /\ i = 1
           /\ numbers'[x][l][i] = numbers[t]["posted"][1]
        \/ /\ x = t /\ l = "posted" /\ i # 0
           /\ numbers'[x][l][i] = numbers[t]["posted"][i + 1]
        \/ /\ ~(x = t /\ (l = "posted" \/ l \in Frames))
           /\ numbers'[x][l][i] = numbers[x][l][i]
    BY <1>7
  <2>2. "msg" \in Slot /\ "posted" \in Slot /\ "msg" \in Frames
        /\ "posted" # "msg" /\ "posted" \notin Frames
    BY Slots
  <2> QED
    BY <2>1, <2>2, <1>1 DEF Pending
<1> QED
  BY <1>1, <1>8, <1>9 DEF Unique


LEMMA UniquePopped ==
    ASSUME TypeInv, Unique, NEW t \in Thread, Active(t), Popped(t),
           UNCHANGED <<msgq, sendlist, used, cleared>>,
           \/ done' = done
           \/ Top(t).kind = "handler" /\ done' = done \cup {Top(t).msg}
    PROVE  Unique'
<1>1. OnePlace /\ Pending /\ used' = used /\ cleared' = cleared
  BY DEF Unique
<1>2. stack \in Stacks
  BY DEF TypeInv, TypeOK, Stacks
<1>3. \A x \in Thread, i \in Nat :
         /\ numbers'[x]["posted"][i] = numbers[x]["posted"][i]
         /\ numbers'[x]["sent"][i] = numbers[x]["sent"][i]
  BY SameQueue
<1>4. /\ \A x \in Thread : x # t =>
            \A l \in Frames, i \in Nat : numbers'[x][l][i] = numbers[x][l][i]
      /\ \A l \in Frames : numbers'[t][l][0] = 0
      /\ \A l \in Frames, i \in Nat \ {0} :
            numbers'[t][l][i] = numbers[t][l][i + 1]
  BY <1>2, FramesOfPopped
<1>5. done' = done \/ done' = done \cup {numbers[t]["msg"][1]}
  <2>1. Top(t).kind = "handler" => InFrame(Top(t), "msg") = Top(t).msg
    BY DEF InFrame
  <2>2. numbers[t]["msg"][1] = InFrame(Top(t), "msg")
    BY <1>2, FramesOfPopped, Slots
  <2> QED
    BY <2>1, <2>2
<1>6. /\ done' \subseteq 0..used' /\ cleared' \subseteq 1..used'
  <2>1. "msg" \in Slot /\ 1 \in Nat /\ used \in Nat
    BY Slots, ThreadAssumption DEF TypeInv, TypeOK
  <2>2. numbers[t]["msg"][1] \in 0..used
    BY <1>1, <2>1 DEF Pending
  <2>3. done \subseteq 0..used /\ cleared \subseteq 1..used
    BY DEF Unique
  <2> QED
    BY <1>1, <1>5, <2>2, <2>3
<1>7. ASSUME NEW x \in Thread, NEW l \in Slot, NEW i \in Nat,
             numbers'[x][l][i] # 0
      PROVE  \/ /\ x = t /\ l \in Frames /\ i # 0
                /\ numbers'[x][l][i] = numbers[t][l][i + 1]
             \/ /\ ~(x = t /\ l \in Frames)
                /\ numbers'[x][l][i] = numbers[x][l][i]
  <2>1. CASE l \notin Frames
    BY <1>3, <2>1, Slots
  <2>2. CASE l \in Frames /\ x # t
    BY <1>4, <2>2
  <2>3. CASE l \in Frames /\ x = t
    BY <1>4, <1>7, <2>3
  <2> QED
    BY <2>1, <2>2, <2>3
<1>8. OnePlace'
  <2> SUFFICES ASSUME NEW x \in Thread, NEW y \in Thread, NEW l \in Slot,
                      NEW k \in Slot, NEW i \in Nat, NEW j \in Nat,
                      numbers'[x][l][i] # 0,
                      numbers'[x][l][i] = numbers'[y][k][j]
               PROVE  x = y /\ l = k /\ i = j
    BY DEF OnePlace
  <2>1. \/ /\ x = t /\ l \in Frames /\ i # 0
           /\ numbers'[x][l][i] = numbers[t][l][i + 1]
        \/ /\ ~(x = t /\ l \in Frames)
           /\ numbers'[x][l][i] = numbers[x][l][i]
    BY <1>7
  <2>2. \/ /\ y = t /\ k \in Frames /\ j # 0
           /\ numbers'[y][k][j] = numbers[t][k][j + 1]
        \/ /\ ~(y = t /\ k \in Frames)
           /\ numbers'[y][k][j] = numbers[y][k][j]
    BY <1>7
  <2>3. "msg" \in Slot /\ "msg" \in Frames /\ t \in Thread /\ 1 \in Nat
    BY Slots
  <2> QED
    BY <2>1, <2>2, <2>3, <1>1 DEF OnePlace
<1>9. Pending'
  <2> SUFFICES ASSUME NEW x \in Thread, NEW l \in Slot, NEW i \in Nat,
                      numbers'[x][l][i] # 0
               PROVE  /\ numbers'[x][l][i] \in 1..used'
                      /\ numbers'[x][l][i] \notin done'
                      /\ numbers'[x][l][i] \notin cleared'
    BY DEF Pending
  <2>1. \/ /\ x = t /\ l \in Frames /\ i # 0
           /\ numbers'[x][l][i] = numbers[t][l][i + 1]
        \/ /\ ~(x = t /\ l \in Frames)
           /\ numbers'[x][l][i] = numbers[x][l][i]
    BY <1>7
  <2>2. "msg" \in Slot /\ "msg" \in Frames /\ t \in Thread /\ 1 \in Nat
    BY Slots
  <2>3. numbers'[x][l][i] # numbers[t]["msg"][1]
    BY <2>1, <2>2, <1>1 DEF OnePlace
  <2>4. /\ numbers'[x][l][i] \in 1..used /\ numbers'[x][l][i] \notin done
        /\ numbers'[x][l][i] \notin cleared
    BY <2>1, <1>1 DEF Pending
  <2> QED
    BY <1>1, <1>5, <2>3, <2>4
<1> QED
  BY <1>1, <1>6, <1>8, <1>9 DEF Unique

\* Clearing m moves the messages behind it up: what is at place i of a queue
\* was at place h[i].
ClearedFrom(x, l, m, h) ==
    /\ h \in [Nat -> Nat]
    /\ \A i \in Nat : numbers'[x][l][i] # 0 =>
          numbers'[x][l][i] = numbers[x][l][h[i]] /\ numbers'[x][l][i] # m
    /\ \A i, j \in Nat :
          numbers'[x][l][i] # 0 /\ numbers'[x][l][j] # 0 /\ h[i] = h[j] => i = j

LEMMA ClearedPlaces ==
    ASSUME TypeInv, NEW m \in Message, NEW t \in Thread, NEW x \in Thread,
           Clear(t, m)
    PROVE  \A l \in {"posted", "sent"} : \E h : ClearedFrom(x, l, m, h)
<1>1. /\ msgq[x] \in Seq(Message) /\ sendlist[x] \in Seq(Sent)
      /\ msgq'[x] = Without(msgq[x], {m})
      /\ sendlist'[x] = Without(sendlist[x], SentOf(m))
  BY DEF TypeInv, TypeOK, Clear
<1>2. \E h : ClearedFrom(x, "posted", m, h)
  <2> DEFINE q == msgq[x]
             r == msgq'[x]
  <2>1. r \in Seq(Message) /\ q \in Seq(Message)
    BY <1>1, WithoutPlaces
  <2>2. PICK g \in [1..Len(r) -> 1..Len(q)] :
          /\ \A a, b \in 1..Len(r) : g[a] = g[b] => a = b
          /\ \A a \in 1..Len(r) : r[a] = q[g[a]] /\ q[g[a]] \notin {m}
    <3> DEFINE w == Without(msgq[x], {m})
    <3>1. \E g \in [1..Len(w) -> 1..Len(msgq[x])] :
            /\ \A a, b \in 1..Len(w) : g[a] = g[b] => a = b
            /\ \A a \in 1..Len(w) : w[a] = msgq[x][g[a]] /\ msgq[x][g[a]] \notin {m}
      BY ZenonT(80), <1>1, WithoutPlaces
    <3>2. r = w
      BY <1>1
    <3> HIDE DEF w
    <3> QED
      BY <3>1, <3>2
  <2> DEFINE h == [i \in Nat |-> IF i \in 1..Len(r) THEN g[i] ELSE 0]
  <2>3. /\ DOMAIN r = 1..Len(r) /\ DOMAIN q = 1..Len(q)
        /\ Len(r) \in Nat /\ Len(q) \in Nat
    BY <2>1
  <2>4. h \in [Nat -> Nat] /\ \A i \in 1..Len(r) : h[i] = g[i] /\ h[i] \in 1..Len(q)
    BY <2>3
  <2> HIDE DEF h
  <2>5. ASSUME NEW i \in Nat, numbers'[x]["posted"][i] # 0
        PROVE  i \in 1..Len(r)
    BY <2>3, <2>5, PostedNumber
  <2>6. ASSUME NEW i \in Nat, numbers'[x]["posted"][i] # 0
        PROVE  /\ numbers'[x]["posted"][i] = numbers[x]["posted"][h[i]]
               /\ numbers'[x]["posted"][i] # m
    <3>1. i \in 1..Len(r) /\ i \in DOMAIN msgq'[x]
      BY <2>3, <2>5, <2>6
    <3>2. h[i] \in DOMAIN msgq[x] /\ h[i] \in Nat
      BY <2>3, <2>4, <3>1
    <3>3. numbers'[x]["posted"][i] = r[i]
      BY <3>1, PostedNumber
    <3>4. numbers[x]["posted"][h[i]] = q[h[i]]
      BY <3>2, PostedNumber
    <3> QED
      BY <2>2, <2>4, <3>1, <3>3, <3>4
  <2>7. \A i, j \in Nat : /\ numbers'[x]["posted"][i] # 0
                          /\ numbers'[x]["posted"][j] # 0
                          /\ h[i] = h[j]
                          => i = j
    BY <2>2, <2>4, <2>5
  <2>8. ClearedFrom(x, "posted", m, h)
    BY <2>4, <2>6, <2>7 DEF ClearedFrom
  <2> QED
    BY <2>8
<1>3. \E h : ClearedFrom(x, "sent", m, h)
  <2> DEFINE q == sendlist[x]
             r == sendlist'[x]
  <2>1. r \in Seq(Sent) /\ q \in Seq(Sent)
    BY <1>1, WithoutPlaces
  <2>2. PICK g \in [1..Len(r) -> 1..Len(q)] :
          /\ \A a, b \in 1..Len(r) : g[a] = g[b] => a = b
          /\ \A a \in 1..Len(r) : r[a] = q[g[a]] /\ q[g[a]] \notin SentOf(m)
    <3> DEFINE w == Without(sendlist[x], SentOf(m))
    <3>1. \E g \in [1..Len(w) -> 1..Len(sendlist[x])] :
            /\ \A a, b \in 1..Len(w) : g[a] = g[b] => a = b
            /\ \A a \in 1..Len(w) : w[a] = sendlist[x][g[a]] /\ sendlist[x][g[a]] \notin SentOf(m)
      BY <1>1, WithoutPlaces
    <3>2. r = w
      BY <1>1
    <3> HIDE DEF w
    <3> QED
      BY <3>1, <3>2
  <2> DEFINE h == [i \in Nat |-> IF i \in 1..Len(r) THEN g[i] ELSE 0]
  <2>3. /\ DOMAIN r = 1..Len(r) /\ DOMAIN q = 1..Len(q)
        /\ Len(r) \in Nat /\ Len(q) \in Nat
    BY <2>1
  <2>4. h \in [Nat -> Nat] /\ \A i \in 1..Len(r) : h[i] = g[i] /\ h[i] \in 1..Len(q)
    BY <2>3
  <2> HIDE DEF h
  <2>5. ASSUME NEW i \in Nat, numbers'[x]["sent"][i] # 0
        PROVE  i \in 1..Len(r)
    BY <2>3, <2>5, SentNumber
  <2>6. ASSUME NEW i \in Nat, numbers'[x]["sent"][i] # 0
        PROVE  /\ numbers'[x]["sent"][i] = numbers[x]["sent"][h[i]]
               /\ numbers'[x]["sent"][i] # m
    <3>1. i \in 1..Len(r) /\ i \in DOMAIN sendlist'[x]
      BY <2>3, <2>5, <2>6
    <3>2. h[i] \in DOMAIN sendlist[x] /\ h[i] \in Nat /\ h[i] \in 1..Len(q)
      BY <2>3, <2>4, <3>1
    <3>3. numbers'[x]["sent"][i] = r[i].msg
      BY <3>1, SentNumber
    <3>4. numbers[x]["sent"][h[i]] = q[h[i]].msg
      BY <3>2, SentNumber
    <3>5. r[i] = q[h[i]] /\ q[h[i]] \notin SentOf(m)
      BY <2>2, <2>4, <3>1
    <3>6. q[h[i]] \in Sent
      BY <2>1, <3>2
    <3>7. q[h[i]].msg # m
      BY <3>5, <3>6 DEF Sent, SentOf
    <3> QED
      BY <3>3, <3>4, <3>5, <3>7
  <2>7. \A i, j \in Nat : /\ numbers'[x]["sent"][i] # 0
                          /\ numbers'[x]["sent"][j] # 0
                          /\ h[i] = h[j]
                          => i = j
    BY <2>2, <2>4, <2>5
  <2>8. ClearedFrom(x, "sent", m, h)
    BY <2>4, <2>6, <2>7 DEF ClearedFrom
  <2> QED
    BY <2>8
<1> QED
  BY <1>2, <1>3

LEMMA UniqueClear ==
    ASSUME TypeInv, Unique, NEW t \in Thread, NEW m \in Message, Clear(t, m)
    PROVE  Unique' /\ m \notin done
<1>1. /\ OnePlace /\ Pending
      /\ used' = used /\ done' = done /\ cleared' = cleared \cup {m}
  BY DEF Unique, Clear
<1>2. /\ "posted" \in Slot /\ "sent" \in Slot
      /\ "posted" \notin Frames /\ "sent" \notin Frames
      /\ \A l \in Slot : l \in {"posted", "sent"} \/ l \in Frames
  BY Slots
\* m is in a queue or a sendlist.
<1>3. \E z \in Thread, o \in {"posted", "sent"}, n \in Nat : numbers[z][o][n] = m
  <2>1. PICK z \in Thread : \/ Has(msgq[z], m)
                            \/ \E s \in SentOf(m) : Has(sendlist[z], s)
    BY DEF Clear
  <2>2. msgq[z] \in Seq(Message) /\ sendlist[z] \in Seq(Sent)
    BY DEF TypeInv, TypeOK
  <2>3. CASE Has(msgq[z], m)
    <3>1. PICK n \in DOMAIN msgq[z] : msgq[z][n] = m
      BY <2>3 DEF Has
    <3>2. n \in Nat
      BY <2>2
    <3>3. numbers[z]["posted"][n] = m
      BY <3>1, <3>2, PostedNumber
    <3> QED
      BY <3>2, <3>3
  <2>4. CASE \E s \in SentOf(m) : Has(sendlist[z], s)
    <3>1. PICK s \in SentOf(m) : Has(sendlist[z], s)
      BY <2>4
    <3>2. PICK n \in DOMAIN sendlist[z] : sendlist[z][n] = s
      BY <3>1 DEF Has
    <3>3. n \in Nat /\ s.msg = m
      BY <2>2, <3>1 DEF SentOf
    <3>4. numbers[z]["sent"][n] = m
      BY <3>2, <3>3, SentNumber
    <3> QED
      BY <3>3, <3>4
  <2> QED
    BY <2>1, <2>3, <2>4
<1>4. PICK z \in Thread, o \in {"posted", "sent"}, n \in Nat : numbers[z][o][n] = m
  BY <1>3
<1>5. m # 0 /\ o \in Slot /\ o \notin Frames
  BY <1>2 DEF Message
<1>6. m \in 1..used /\ m \notin done
  BY <1>1, <1>4, <1>5 DEF Pending
<1>7. \A x \in Thread, l \in {"posted", "sent"} :
          \E h : ClearedFrom(x, l, m, h)
  BY ClearedPlaces
\* What stays is not m, and is where something was in the same queue.
<1>8. ASSUME NEW x \in Thread, NEW l \in Slot, NEW i \in Nat,
             numbers'[x][l][i] # 0
      PROVE  /\ numbers'[x][l][i] # m
             /\ \E k \in Nat : numbers'[x][l][i] = numbers[x][l][k]
  <2>1. CASE l \in {"posted", "sent"}
    <3>1. PICK h : ClearedFrom(x, l, m, h)
      BY <1>7, <2>1
    <3>2. h[i] \in Nat
      BY <3>1 DEF ClearedFrom
    <3> QED
      BY <1>8, <3>1, <3>2 DEF ClearedFrom
  <2>2. CASE l \in Frames
    <3>1. numbers'[x][l][i] = numbers[x][l][i]
      BY <2>2, SameQueue DEF Clear
    <3>2. l # o
      BY <1>5, <2>2
    <3>3. numbers[x][l][i] # m
      <4> SUFFICES ASSUME numbers[x][l][i] = m PROVE FALSE
        OBVIOUS
      <4>1. numbers[z][o][n] # 0 /\ numbers[z][o][n] = numbers[x][l][i]
        BY <1>4, <1>5
      <4>2. o = l
        BY <1>1, <1>5, <4>1 DEF OnePlace
      <4> QED
        BY <3>2, <4>2
    <3> QED
      BY <3>1, <3>3
  <2> QED
    BY <1>2, <2>1, <2>2
<1>9. ASSUME NEW x \in Thread, NEW l \in Slot, NEW i \in Nat, NEW j \in Nat,
             numbers'[x][l][i] # 0, numbers'[x][l][i] = numbers'[x][l][j]
      PROVE  i = j
  <2>1. CASE l \in {"posted", "sent"}
    <3>1. PICK h : ClearedFrom(x, l, m, h)
      BY <1>7, <2>1
    <3>2. /\ numbers[x][l][h[i]] # 0 /\ numbers[x][l][h[i]] = numbers[x][l][h[j]]
          /\ h[i] \in Nat /\ h[j] \in Nat
      BY <1>9, <3>1 DEF ClearedFrom
    <3>3. h[i] = h[j]
      BY <1>1, <3>2 DEF OnePlace
    <3> QED
      BY <1>9, <3>1, <3>3 DEF ClearedFrom
  <2>2. CASE l \in Frames
    <3>1. /\ numbers'[x][l][i] = numbers[x][l][i]
          /\ numbers'[x][l][j] = numbers[x][l][j]
      BY <2>2, SameQueue DEF Clear
    <3> QED
      <4>1. numbers[x][l][i] # 0 /\ numbers[x][l][i] = numbers[x][l][j]
        BY <1>9, <3>1
      <4> QED
        BY <1>1, <4>1 DEF OnePlace
  <2> QED
    BY <1>2, <2>1, <2>2
<1>10. OnePlace'
  <2> SUFFICES ASSUME NEW x \in Thread, NEW y \in Thread, NEW l \in Slot,
                      NEW k \in Slot, NEW i \in Nat, NEW j \in Nat,
                      numbers'[x][l][i] # 0,
                      numbers'[x][l][i] = numbers'[y][k][j]
               PROVE  x = y /\ l = k /\ i = j
    BY DEF OnePlace
  <2>1. PICK a \in Nat : numbers'[x][l][i] = numbers[x][l][a]
    BY <1>8
  <2>2. PICK b \in Nat : numbers'[y][k][j] = numbers[y][k][b]
    BY <1>8
  <2>3. x = y /\ l = k
    <3>1. numbers[x][l][a] # 0 /\ numbers[x][l][a] = numbers[y][k][b]
      BY <2>1, <2>2
    <3> QED
      BY <1>1, <3>1 DEF OnePlace
  <2> QED
    BY <1>9, <2>3
<1>11. Pending'
  <2> SUFFICES ASSUME NEW x \in Thread, NEW l \in Slot, NEW i \in Nat,
                      numbers'[x][l][i] # 0
               PROVE  /\ numbers'[x][l][i] \in 1..used'
                      /\ numbers'[x][l][i] \notin done'
                      /\ numbers'[x][l][i] \notin cleared'
    BY DEF Pending
  <2>1. PICK a \in Nat : numbers'[x][l][i] = numbers[x][l][a]
    BY <1>8
  <2>2. /\ numbers[x][l][a] \in 1..used /\ numbers[x][l][a] \notin done
        /\ numbers[x][l][a] \notin cleared
    BY <1>1, <2>1 DEF Pending
  <2>3. numbers'[x][l][i] # m
    BY <1>8
  <2> QED
    BY <1>1, <2>1, <2>2, <2>3
<1> QED
  BY <1>1, <1>6, <1>10, <1>11 DEF Unique

LEMMA UniqueInitially == Init => Unique
<1> SUFFICES ASSUME Init PROVE Unique
  OBVIOUS
<1>1. ASSUME NEW t \in Thread, NEW l \in Slot, NEW i \in Nat
      PROVE  numbers[t][l][i] = 0
  <2>1. msgq[t] = <<>> /\ sendlist[t] = <<>>
    BY DEF Init
  <2>2. numbers[t]["posted"][i] = 0 /\ numbers[t]["sent"][i] = 0
    BY <2>1, PostedNumber, SentNumber
  <2>3. \A f \in Frames : numbers[t][f][i] = 0
    <3> DEFINE h == Handler(t, 0, "post")
    <3>1. \A f \in Frames : InFrame(h, f) = 0 /\ InFrame(Get, f) = 0
      BY DEF InFrame, Handler, Get
    <3> HIDE DEF h
    <3>2. stack[t] = <<h, Get>> \/ stack[t] = <<Get>>
      BY DEF Init, h
    <3>3. \A j \in DOMAIN stack[t] : stack[t][j] = h \/ stack[t][j] = Get
      BY <3>2
    <3>4. i \in DOMAIN stack[t] => \A f \in Frames : InFrame(stack[t][i], f) = 0
      BY <3>1, <3>3
    <3> QED
      BY <3>4, NumbersOf
  <2> QED
    BY <2>2, <2>3, Slots
<1>2. done = {} /\ cleared = {}
  BY DEF Init
<1> QED
  BY <1>1, <1>2 DEF Unique, OnePlace, Pending

LEMMA UniqueStep ==
    ASSUME TypeInv, Unique, NEW t \in Thread, Act(t) \/ Progress(t)
    PROVE  Unique'
<1>1. stack \in Stacks
  BY DEF TypeInv, TypeOK, Stacks
<1>2. ASSUME NEW u \in Thread, BeginPost(t, u) PROVE Unique'
  BY <1>2, UniqueBeginPost
<1>3. ASSUME NEW u \in Thread, BeginSend(t, u) PROVE Unique'
  BY <1>3, UniqueBeginSend
<1>4. ASSUME NEW m \in Message, Clear(t, m) PROVE Unique'
  BY <1>4, UniqueClear
<1>5. ASSUME Post(t) PROVE Unique'
  BY <1>5, UniquePost
<1>6. ASSUME Take(t) PROVE Unique'
  BY <1>6, UniqueTake
<1>7. ASSUME Push(t) PROVE Unique'
  BY <1>7, UniquePush
<1>8. ASSUME Dispatch(t) PROVE Unique'
  BY <1>8, UniqueDispatch
<1>9. ASSUME Reply(t) \/ Return(t) \/ EndSend(t) PROVE Unique'
  <2>1. Popped(t) /\ Active(t)
    BY <1>9, PopStack DEF Reply, Return, EndSend, In
  <2>2. /\ UNCHANGED <<msgq, sendlist, used, cleared>>
        /\ \/ done' = done
           \/ Top(t).kind = "handler" /\ done' = done \cup {Top(t).msg}
    BY <1>9 DEF Reply, Return, EndSend, queueVars, historyVars, In
  <2> QED
    BY <2>1, <2>2, UniquePopped
<1>10. ASSUME Exit(t) PROVE Unique'
  <2>1. Popped(t) /\ Active(t)
    BY <1>10, ExitStack DEF Exit, In
  <2>2. UNCHANGED <<msgq, sendlist, used, cleared>> /\ done' = done
    BY <1>10 DEF Exit, queueVars, historyVars
  <2> QED
    BY <2>1, <2>2, UniquePopped
\* The other steps move no message.
<1> DEFINE Quiet == /\ \A u \in Thread : msgq'[u] = msgq[u] /\ sendlist'[u] = sendlist[u]
                    /\ UNCHANGED <<used, done, cleared>>
           b == stack'[t][1]
<1>11. ASSUME NEW u \in Thread, Stop(t, u) \/ Join(t) PROVE Unique'
  <2>1. Quiet
    BY <1>11 DEF Stop, Join, queueVars, historyVars
  <2>2. In(t, "handler", "run") \/ In(t, "handler", "join")
    BY <1>11 DEF Stop, Join
  <2>3. stack' = stack \/ \E at : HandlerMoves(t, at, Top(t).new)
    BY <1>11, StopStack, JoinStack
  <2>4. stack' # stack => /\ TopIs(t, b) /\ Active(t)
                          /\ \A l \in Frames : InFrame(b, l) = InFrame(Top(t), l)
    BY <2>2, <2>3 DEF HandlerMoves, InFrame, In
  <2> HIDE DEF b
  <2> QED
    BY <1>1, <2>1, <2>4, UniqueSame DEF b
<1>12. ASSUME \/ ReceiveNothing(t) \/ BeginReceive(t) \/ EndReceive(t)
              \/ NothingPosted(t) \/ GoOn(t) \/ WaitInGet(t)
              \/ Wake(t) \/ StillWaiting(t) \/ WaitInSend(t)
       PROVE  Unique'
  <2>1. Quiet
    BY <1>12 DEF ReceiveNothing, BeginReceive, EndReceive, NothingPosted, GoOn,
         WaitInGet, Wake, StillWaiting, WaitInSend, queueVars, historyVars
  <2>2. Active(t) /\ Top(t).kind \in {"get", "send"}
    BY <1>12 DEF ReceiveNothing, BeginReceive, EndReceive, NothingPosted, GoOn,
         WaitInGet, Wake, StillWaiting, WaitInSend, In
  <2>3. (\E at : GetMoves(t, at)) \/ (\E at, w : SendMoves(t, at, w) /\ at # "push")
    <3>1. "wait" # "push" /\ "take" # "push" /\ "test" # "push" /\ "receive" # "push"
      OBVIOUS
    <3> QED
      BY <1>12, <2>2, <3>1, MoveStack
  <2>4. TopIs(t, b) /\ \A l \in Frames : InFrame(b, l) = 0
    BY <2>3 DEF GetMoves, SendMoves, InFrame
  <2> HIDE DEF b
  <2> QED
    BY <1>1, <2>1, <2>2, <2>4, UniqueSame DEF b
<1> QED
  BY <1>2, <1>3, <1>4, <1>5, <1>6, <1>7, <1>8, <1>9, <1>10, <1>11, <1>12
     DEF Act, Progress

----------------------------------------------------------------------------
(* Who waits for an answer *)

\* The messages of the Sends that t is in.
SendsOf(s) == {s[i].msg : i \in {j \in 1..Len(s) : s[j].kind = "send"}}

sends == [t \in Thread |-> SendsOf(stack[t])]

LEMMA SendsIn ==
    ASSUME NEW t \in Thread, NEW m
    PROVE  /\ m \in sends[t] <=> \E i \in 1..Len(stack[t]) :
                 stack[t][i].kind = "send" /\ stack[t][i].msg = m
           /\ m \in sends'[t] <=> \E i \in 1..Len(stack'[t]) :
                 stack'[t][i].kind = "send" /\ stack'[t][i].msg = m
  BY DEF sends, SendsOf

LEMMA SendsOfTop ==
    ASSUME stack \in Stacks, NEW t \in Thread, Active(t), NEW b, TopIs(t, b),
           b.kind = Top(t).kind, b.kind = "send" => b.msg = Top(t).msg
    PROVE  \A m : m \in sends'[t] <=> m \in sends[t]
<1>1. /\ Len(stack'[t]) = Len(stack[t]) /\ Len(stack[t]) \in Nat \ {0}
      /\ Top(t) = stack[t][1] /\ stack'[t][1] = b
      /\ \A i \in 2..Len(stack[t]) : stack'[t][i] = stack[t][i]
  BY Depth DEF TopIs
<1>2. \A i \in 1..Len(stack[t]) :
         /\ stack'[t][i].kind = stack[t][i].kind
         /\ stack[t][i].kind = "send" => stack'[t][i].msg = stack[t][i].msg
  BY <1>1
<1> QED
  BY <1>1, <1>2, SendsIn

LEMMA SendsOfPushed ==
    ASSUME stack \in Stacks, NEW t \in Thread, NEW b, Pushed(t, b)
    PROVE  \A m : m \in sends'[t] <=>
              m \in sends[t] \/ (b.kind = "send" /\ b.msg = m)
<1> SUFFICES ASSUME NEW m
             PROVE  m \in sends'[t] <=> m \in sends[t] \/ (b.kind = "send" /\ b.msg = m)
  OBVIOUS
<1>1. /\ Len(stack'[t]) = Len(stack[t]) + 1 /\ Len(stack[t]) \in Nat
      /\ stack'[t][1] = b
      /\ \A i \in 1..Len(stack[t]) : stack'[t][i + 1] = stack[t][i]
  BY Depth DEF Pushed
<1>2. ASSUME m \in sends[t] PROVE m \in sends'[t]
  <2>1. PICK i \in 1..Len(stack[t]) :
           stack[t][i].kind = "send" /\ stack[t][i].msg = m
    BY <1>2, SendsIn
  <2>2. i + 1 \in 1..Len(stack'[t]) /\ stack'[t][i + 1] = stack[t][i]
    BY <1>1
  <2> QED
    BY <2>1, <2>2, SendsIn
<1>3. ASSUME b.kind = "send", b.msg = m PROVE m \in sends'[t]
  <2>1. 1 \in 1..Len(stack'[t])
    BY <1>1
  <2> QED
    BY <1>1, <1>3, <2>1, SendsIn
<1>4. ASSUME m \in sends'[t], m \notin sends[t] PROVE b.kind = "send" /\ b.msg = m
  <2>1. PICK i \in 1..Len(stack'[t]) :
           stack'[t][i].kind = "send" /\ stack'[t][i].msg = m
    BY <1>4, SendsIn
  <2>2. CASE i # 1
    <3>1. i - 1 \in 1..Len(stack[t]) /\ (i - 1) + 1 = i
      BY <1>1, <2>2
    <3>2. stack'[t][i] = stack[t][i - 1]
      BY <1>1, <3>1
    <3>3. m \in sends[t]
      BY <2>1, <3>1, <3>2, SendsIn
    <3> QED
      BY <1>4, <3>3
  <2> QED
    BY <1>1, <2>1, <2>2
<1> QED
  BY <1>2, <1>3, <1>4

LEMMA SendsOfPopped ==
    ASSUME stack \in Stacks, NEW t \in Thread, Active(t), Popped(t)
    PROVE  \A m : /\ m \in sends'[t] => m \in sends[t]
                  /\ m \in sends[t] => \/ m \in sends'[t]
                                       \/ Top(t).kind = "send" /\ Top(t).msg = m
<1> SUFFICES ASSUME NEW m
             PROVE  /\ m \in sends'[t] => m \in sends[t]
                    /\ m \in sends[t] => \/ m \in sends'[t]
                                         \/ Top(t).kind = "send" /\ Top(t).msg = m
  OBVIOUS
<1>1. /\ Len(stack'[t]) = Len(stack[t]) - 1 /\ Len(stack[t]) \in Nat \ {0}
      /\ stack[t][1] = Top(t)
      /\ \A i \in 1..(Len(stack[t]) - 1) : stack'[t][i] = stack[t][i + 1]
  BY Depth DEF Popped
<1>2. ASSUME m \in sends'[t] PROVE m \in sends[t]
  <2>1. PICK i \in 1..Len(stack'[t]) :
           stack'[t][i].kind = "send" /\ stack'[t][i].msg = m
    BY <1>2, SendsIn
  <2>2. i + 1 \in 1..Len(stack[t]) /\ stack'[t][i] = stack[t][i + 1]
    BY <1>1
  <2> QED
    BY <2>1, <2>2, SendsIn
<1>3. ASSUME m \in sends[t], m \notin sends'[t]
      PROVE  Top(t).kind = "send" /\ Top(t).msg = m
  <2>1. PICK i \in 1..Len(stack[t]) :
           stack[t][i].kind = "send" /\ stack[t][i].msg = m
    BY <1>3, SendsIn
  <2>2. CASE i # 1
    <3>1. i - 1 \in 1..Len(stack'[t]) /\ (i - 1) + 1 = i
      BY <1>1, <2>2
    <3>2. stack'[t][i - 1] = stack[t][i]
      BY <1>1, <3>1
    <3>3. m \in sends'[t]
      BY <2>1, <3>1, <3>2, SendsIn
    <3> QED
      BY <1>3, <3>3
  <2> QED
    BY <1>1, <2>1, <2>2
<1> QED
  BY <1>2, <1>3

LEMMA OthersStack ==
    ASSUME TypeInv, NEW t \in Thread, Act(t) \/ Progress(t)
    PROVE  \A x \in Thread : x # t => stack'[x] = stack[x]
  BY SMTT(40), StackSteps DEF Moves, GetMoves, SendMoves, HandlerMoves, Calls, Dispatched,
     TopIs, Pushed, Popped

LEMMA UsedStep ==
    ASSUME NEW t \in Thread, Act(t) \/ Progress(t)
    PROVE  used' = used \/ used' = used + 1
  BY DEF Act, Progress, queueVars, historyVars, Join, BeginPost, BeginSend, Stop,
         ReceiveNothing, BeginReceive, EndReceive, Reply, Return, NothingPosted,
         Exit, GoOn, WaitInGet, Wake, StillWaiting, WaitInSend, EndSend,
         Post, Dispatch, Take, Push, Clear

\* A Send on top of a stack goes with EndSend.
LEMMA PoppedSend ==
    ASSUME TypeInv, NEW t \in Thread, Act(t) \/ Progress(t),
           Active(t), Popped(t), Top(t).kind = "send"
    PROVE  EndSend(t)
<1>1. stack \in Stacks
  BY DEF TypeInv, TypeOK, Stacks
<1>2. Len(stack'[t]) # Len(stack[t]) /\ Len(stack'[t]) < Len(stack[t])
  BY <1>1, Depth DEF Popped
<1>3. /\ ~(\E u \in Thread : BeginPost(t, u) \/ BeginSend(t, u) \/ Stop(t, u))
      /\ ~(\E m \in Message : Clear(t, m)) /\ ~Post(t) /\ ~Join(t)
      /\ ~Reply(t) /\ ~Return(t)
  BY DEF BeginPost, BeginSend, Stop, Clear, Post, Join, Reply, Return, In
<1>4. ~NothingPosted(t) /\ ~Exit(t) /\ ~GoOn(t) /\ ~WaitInGet(t) /\ ~Dispatch(t)
  BY DEF NothingPosted, Exit, GoOn, WaitInGet, Dispatch, In
<1>5. ~Take(t)
  BY <1>1, <1>2, TakeStack, Depth DEF Pushed
<1>6. ~(\/ BeginReceive(t) \/ ReceiveNothing(t) \/ EndReceive(t)
        \/ Push(t) \/ Wake(t) \/ StillWaiting(t) \/ WaitInSend(t))
  BY <1>2, MoveStack DEF SendMoves, TopIs
<1> QED
  BY <1>3, <1>4, <1>5, <1>6 DEF Act, Progress

\* Sends come with BeginSend and go with EndSend.
LEMMA SendsStep ==
    ASSUME TypeInv, NEW t \in Thread, Act(t) \/ Progress(t)
    PROVE  /\ \A x \in Thread : x # t => sends'[x] = sends[x]
           /\ \A m : m \in sends'[t] =>
                 m \in sends[t] \/ (m = used + 1 /\ used' = used + 1)
           /\ \A m : m \in sends[t] =>
                 m \in sends'[t] \/ (EndSend(t) /\ m = Top(t).msg)
<1>1. stack \in Stacks
  BY DEF TypeInv, TypeOK, Stacks
<1>2. \A x \in Thread : x # t => sends'[x] = sends[x]
  BY OthersStack DEF sends
<1> DEFINE P == /\ \A m : m \in sends'[t] =>
                      m \in sends[t] \/ (m = used + 1 /\ used' = used + 1)
                /\ \A m : m \in sends[t] =>
                      m \in sends'[t] \/ (EndSend(t) /\ m = Top(t).msg)
<1>3. ASSUME stack' = stack PROVE P
  BY <1>3 DEF sends
<1>4. ASSUME Active(t), Moves(t) PROVE P
  <2> DEFINE b == stack'[t][1]
  <2>1. /\ TopIs(t, b) /\ b.kind = Top(t).kind
        /\ b.kind = "send" => b.msg = Top(t).msg
    BY <1>4 DEF Moves, GetMoves, SendMoves, HandlerMoves
  <2> HIDE DEF b
  <2> QED
    BY <1>1, <1>4, <2>1, SendsOfTop
<1>5. ASSUME Active(t), Calls(t) PROVE P
  <2>1. ASSUME NEW u \in Thread, BeginSend(t, u), Pushed(t, Send(u, used + 1))
        PROVE  P
    <3> DEFINE s == Send(u, used + 1)
    <3>1. s.msg = used + 1 /\ used' = used + 1
      BY <2>1 DEF Send, BeginSend
    <3> HIDE DEF s
    <3>2. Pushed(t, s)
      BY <2>1 DEF s
    <3>3. \A m : m \in sends'[t] <=> m \in sends[t] \/ (s.kind = "send" /\ s.msg = m)
      BY <1>1, <3>2, SendsOfPushed
    <3> QED
      BY <3>1, <3>3
  <2>2. ASSUME Take(t), Pushed(t, Handler(t, First(t).msg, First(t).from)) PROVE P
    <3> DEFINE h == Handler(t, First(t).msg, First(t).from)
    <3>1. h.kind # "send"
      BY DEF Handler
    <3> HIDE DEF h
    <3>2. Pushed(t, h)
      BY <2>2 DEF h
    <3> QED
      BY <1>1, <3>1, <3>2, SendsOfPushed
  <2> QED
    BY <1>5, <2>1, <2>2 DEF Calls
<1>6. ASSUME Dispatch(t), Dispatched(t, Handler(t, Head(msgq[t]), "post")) PROVE P
  <2> DEFINE h == Handler(t, Head(msgq[t]), "post")
  <2>1. h.kind # "send" /\ Get.kind # "send"
    BY DEF Handler, Get
  <2> HIDE DEF h
  <2>2. Dispatched(t, h)
    BY <1>6 DEF h
  <2>3. \A m : m \notin sends'[t]
    <3>1. \A i \in 1..Len(stack'[t]) : stack'[t][i].kind # "send"
      BY <2>1, <2>2 DEF Dispatched
    <3> QED
      BY <3>1, SendsIn
  <2>4. \A m : m \notin sends[t]
    <3>1. Len(stack[t]) = 1 /\ stack[t][1].kind = "get"
      BY <1>1, <1>6, <2>2, Depth DEF Dispatched, Dispatch, In
    <3>2. \A i \in 1..Len(stack[t]) : stack[t][i].kind # "send"
      BY <3>1
    <3> QED
      BY <3>2, SendsIn
  <2> QED
    BY <2>3, <2>4
<1>7. ASSUME Active(t), Popped(t) PROVE P
  <2>1. Top(t).kind = "send" => EndSend(t)
    BY <1>7, PoppedSend
  <2> QED
    BY <1>1, <1>7, <2>1, SendsOfPopped
<1>8. P
  BY <1>3, <1>4, <1>5, <1>6, <1>7, StackSteps
<1> QED
  BY <1>2, <1>8

\* A Send belongs to one thread, and was made.
Senders ==
    /\ \A t, u \in Thread, m \in Message : m \in sends[t] /\ m \in sends[u] => t = u
    /\ \A t \in Thread, m \in Message : m \in sends[t] => m <= used

\* ReadyFlagsLive, in terms of sends
Live ==
    /\ \A t \in Thread : \A i \in 1..Len(sendlist[t]) :
          sendlist[t][i].msg \in sends[sendlist[t][i].from]
    /\ \A t \in Thread : \A i \in 1..Len(stack[t]) :
          stack[t][i].kind = "handler" /\ stack[t][i].from # "post"
          => stack[t][i].msg \in sends[stack[t][i].from]

LEMMA SendersStep ==
    ASSUME TypeInv, Senders, NEW t \in Thread, Act(t) \/ Progress(t)
    PROVE  Senders'
<1>1. used \in Nat /\ used' \in Nat /\ \A m \in Message : m \in Nat
  BY TypeOfFlags, ThreadAssumption DEF TypeInv, TypeOK, Message
<1>2. used' >= used
  BY <1>1, UsedStep
<1>3. ASSUME NEW x \in Thread, NEW m \in Message, m \in sends'[x]
      PROVE  m \in sends[x] \/ (x = t /\ m = used + 1 /\ used' = used + 1)
  BY <1>3, SendsStep
<1>4. \A x \in Thread, m \in Message : m \in sends'[x] => m <= used'
  BY <1>1, <1>2, <1>3 DEF Senders
<1>5. ASSUME NEW x \in Thread, NEW y \in Thread, NEW m \in Message,
             m \in sends'[x], m \in sends'[y]
      PROVE  x = y
  <2>1. \A z \in Thread : m \in sends[z] => m # used + 1
    BY <1>1 DEF Senders
  <2> QED
    BY <1>3, <1>5, <2>1 DEF Senders
<1> QED
  BY <1>4, <1>5 DEF Senders

\* Entries of a sendlist come from Push.
LEMMA SendlistStep ==
    ASSUME TypeInv, NEW t \in Thread, Act(t) \/ Progress(t),
           NEW x \in Thread, NEW i \in 1..Len(sendlist'[x])
    PROVE  \/ \E j \in 1..Len(sendlist[x]) : sendlist'[x][i] = sendlist[x][j]
           \/ /\ Push(t) /\ In(t, "send", "push")
              /\ sendlist'[x][i] = [from |-> t, msg |-> Top(t).msg]
<1> DEFINE P == \/ \E j \in 1..Len(sendlist[x]) : sendlist'[x][i] = sendlist[x][j]
                \/ /\ Push(t) /\ In(t, "send", "push")
                   /\ sendlist'[x][i] = [from |-> t, msg |-> Top(t).msg]
<1>1. /\ sendlist[x] \in Seq(Sent) /\ Len(sendlist[x]) \in Nat
      /\ sendlist'[x] \in Seq(Sent)
  BY TypeOfQueues DEF TypeInv, TypeOK
<1>2. ASSUME sendlist' = sendlist PROVE P
  BY <1>2
<1>3. ASSUME Take(t) PROVE P
  <2>1. CASE x # t
    <3>1. sendlist'[x] = sendlist[x]
      BY <1>3, <2>1 DEF Take, TypeInv, TypeOK
    <3> QED
      BY <3>1
  <2>2. CASE x = t
    <3>1. sendlist[x] # <<>> /\ sendlist'[x] = Tail(sendlist[x])
      BY <1>3, <2>2 DEF Take, TypeInv, TypeOK
    <3>2. /\ Len(sendlist'[x]) = Len(sendlist[x]) - 1
          /\ \A k \in 1..(Len(sendlist[x]) - 1) :
                sendlist'[x][k] = sendlist[x][k + 1]
      BY <1>1, <3>1, Tailed
    <3>3. i + 1 \in 1..Len(sendlist[x]) /\ sendlist'[x][i] = sendlist[x][i + 1]
      BY <1>1, <3>2
    <3> QED
      BY <3>3
  <2> QED
    BY <2>1, <2>2
<1>4. ASSUME Push(t) PROVE P
  <2> DEFINE s == [from |-> t, msg |-> Top(t).msg]
  <2>1. stack \in Stacks
    BY DEF TypeInv, TypeOK, Stacks
  <2>2. Top(t) \in SendActivity
    BY <1>4, <2>1, Depth, ActivityKinds DEF Push, In
  <2>3. Top(t).to \in Thread /\ s \in Sent
    BY <2>2 DEF SendActivity, Sent
  <2>4. sendlist' = [sendlist EXCEPT ![Top(t).to] = Append(@, s)]
    BY <1>4 DEF Push
  <2>5. In(t, "send", "push")
    BY <1>4 DEF Push
  <2> HIDE DEF s
  <2>6. CASE x # Top(t).to
    <3>1. sendlist'[x] = sendlist[x]
      BY <2>4, <2>6 DEF TypeInv, TypeOK
    <3> QED
      BY <3>1
  <2>7. CASE x = Top(t).to
    <3>1. sendlist'[x] = Append(sendlist[x], s)
      BY <2>4, <2>7 DEF TypeInv, TypeOK
    <3>2. /\ Len(sendlist'[x]) = Len(sendlist[x]) + 1
          /\ \A k \in 1..Len(sendlist[x]) : sendlist'[x][k] = sendlist[x][k]
          /\ sendlist'[x][Len(sendlist[x]) + 1] = s
      BY <1>1, <2>3, <3>1, Appended
    <3>3. i \in 1..Len(sendlist[x]) \/ i = Len(sendlist[x]) + 1
      BY <1>1, <3>2
    <3>4. CASE i \in 1..Len(sendlist[x])
      BY <3>2, <3>4
    <3>5. CASE i = Len(sendlist[x]) + 1
      BY <1>4, <2>5, <3>2, <3>5 DEF s
    <3> QED
      BY <3>3, <3>4, <3>5
  <2> QED
    BY <2>6, <2>7
<1>5. ASSUME NEW m \in Message, Clear(t, m) PROVE P
  <2> DEFINE r == Without(sendlist[x], SentOf(m))
  <2>1. sendlist'[x] = r
    BY <1>5 DEF Clear
  <2>2. \E h \in [1..Len(r) -> 1..Len(sendlist[x])] :
           \A a \in 1..Len(r) : r[a] = sendlist[x][h[a]]
    BY SMTT(40), <1>1, WithoutPlaces
  <2> HIDE DEF r
  <2>3. PICK h \in [1..Len(r) -> 1..Len(sendlist[x])] :
           \A a \in 1..Len(r) : r[a] = sendlist[x][h[a]]
    BY <2>2
  <2>4. i \in 1..Len(r)
    BY <2>1
  <2>5. h[i] \in 1..Len(sendlist[x]) /\ r[i] = sendlist[x][h[i]]
    BY <2>3, <2>4
  <2> QED
    BY <2>1, <2>5
<1> HIDE DEF P
<1>6. P
  BY <1>2, <1>3, <1>4, <1>5
     DEF Act, Progress, queueVars, historyVars, Join, BeginPost, BeginSend, Stop,
         ReceiveNothing, BeginReceive, EndReceive, Reply, Return, NothingPosted,
         Exit, GoOn, WaitInGet, Wake, StillWaiting, WaitInSend, EndSend,
         Post, Dispatch
<1> QED
  BY <1>6 DEF P

\* Handlers that will answer come from Take.
Answers(a) == a.kind = "handler" /\ a.from # "post"

LEMMA HandlersStep ==
    ASSUME TypeInv, NEW t \in Thread, Act(t) \/ Progress(t),
           NEW x \in Thread, NEW i \in 1..Len(stack'[x]), Answers(stack'[x][i])
    PROVE  \/ \E j \in 1..Len(stack[x]) :
                 /\ Answers(stack[x][j])
                 /\ stack'[x][i].msg = stack[x][j].msg
                 /\ stack'[x][i].from = stack[x][j].from
           \/ /\ Take(t) /\ sendlist[t] # <<>>
              /\ stack'[x][i].msg = First(t).msg
              /\ stack'[x][i].from = First(t).from
<1> DEFINE P == \/ \E j \in 1..Len(stack[x]) :
                      /\ Answers(stack[x][j])
                      /\ stack'[x][i].msg = stack[x][j].msg
                      /\ stack'[x][i].from = stack[x][j].from
                \/ /\ Take(t) /\ sendlist[t] # <<>>
                   /\ stack'[x][i].msg = First(t).msg
                   /\ stack'[x][i].from = First(t).from
<1>1. stack \in Stacks
  BY DEF TypeInv, TypeOK, Stacks
<1>2. CASE x # t
  <2>1. stack'[x] = stack[x]
    BY <1>2, OthersStack
  <2> QED
    BY <2>1
<1>3. ASSUME stack' = stack PROVE P
  BY <1>3
<1>4. ASSUME x = t, Active(t), Moves(t) PROVE P
  <2> DEFINE b == stack'[t][1]
  <2>1. /\ TopIs(t, b) /\ b.kind = Top(t).kind
        /\ b.kind = "handler" => b.msg = Top(t).msg /\ b.from = Top(t).from
    BY <1>4 DEF Moves, GetMoves, SendMoves, HandlerMoves
  <2>2. Top(t) = stack[t][1] /\ Len(stack'[t]) = Len(stack[t]) /\ Len(stack[t]) \in Nat
    BY <1>1, <1>4, <2>1, Depth DEF TopIs
  <2>3. CASE i = 1
    BY <1>4, <2>1, <2>2, <2>3 DEF Answers
  <2>4. CASE i # 1
    <3>1. i \in 1..Len(stack[t]) /\ stack'[t][i] = stack[t][i]
      BY <1>4, <2>1, <2>2, <2>4 DEF TopIs
    <3> QED
      BY <1>4, <3>1
  <2> QED
    BY <2>3, <2>4
<1>5. ASSUME x = t, NEW b, Pushed(t, b), i # 1 PROVE P
  <2>1. i - 1 \in 1..Len(stack[t]) /\ (i - 1) + 1 = i
    BY <1>1, <1>5, Depth DEF Pushed
  <2>2. stack'[t][i] = stack[t][i - 1]
    BY <1>5, <2>1 DEF Pushed
  <2> QED
    BY <1>5, <2>1, <2>2
<1>6. ASSUME x = t, Active(t), Calls(t) PROVE P
  <2>1. ASSUME i = 1 PROVE P
    <3>1. ASSUME NEW u \in Thread, Pushed(t, Send(u, used + 1)) PROVE P
      BY <1>6, <2>1, <3>1 DEF Pushed, Answers, Send
    <3>2. ASSUME Take(t), Pushed(t, Handler(t, First(t).msg, First(t).from)) PROVE P
      <4>1. stack'[x][i] = Handler(t, First(t).msg, First(t).from)
        BY <1>6, <2>1, <3>2 DEF Pushed
      <4>2. stack'[x][i].msg = First(t).msg /\ stack'[x][i].from = First(t).from
        BY <4>1 DEF Handler
      <4> QED
        BY <3>2, <4>2 DEF Take
    <3> QED
      BY <1>6, <3>1, <3>2 DEF Calls
  <2>2. ASSUME i # 1 PROVE P
    BY <1>5, <1>6, <2>2 DEF Calls
  <2> QED
    BY <2>1, <2>2
<1>7. ASSUME x = t, Dispatched(t, Handler(t, Head(msgq[t]), "post")) PROVE P
  <2>1. i = 1 \/ i = 2
    BY <1>7 DEF Dispatched
  <2> QED
    BY <1>7, <2>1 DEF Dispatched, Answers, Handler, Get
<1>8. ASSUME x = t, Active(t), Popped(t) PROVE P
  <2>1. /\ i + 1 \in 1..Len(stack[t]) /\ stack'[t][i] = stack[t][i + 1]
    BY <1>1, <1>8, Depth DEF Popped
  <2> QED
    BY <1>8, <2>1
<1> QED
  BY <1>2, <1>3, <1>4, <1>6, <1>7, <1>8, StackSteps

\* What is under way was not answered: its number is neither done nor cleared.
LEMMA UnansweredSent ==
    ASSUME TypeInv, Unique, NEW x \in Thread, NEW i \in 1..Len(sendlist[x])
    PROVE  /\ sendlist[x][i].msg \in Message
           /\ sendlist[x][i].msg \notin done /\ sendlist[x][i].msg \notin cleared
<1>1. sendlist[x] \in Seq(Sent) /\ i \in Nat /\ i \in DOMAIN sendlist[x]
  BY DEF TypeInv, TypeOK
<1>2. sendlist[x][i] \in Sent
  BY <1>1
<1>3. sendlist[x][i].msg \in Message /\ sendlist[x][i].msg # 0
  BY <1>2 DEF Sent, Message
<1>4. numbers[x]["sent"][i] = sendlist[x][i].msg
  BY <1>1, SentNumber
<1>5. "sent" \in Slot /\ Pending
  BY Slots DEF Unique
<1>6. numbers[x]["sent"][i] # 0
  BY <1>3, <1>4
<1>7. numbers[x]["sent"][i] \notin done /\ numbers[x]["sent"][i] \notin cleared
  BY <1>1, <1>5, <1>6 DEF Pending
<1> QED
  BY <1>3, <1>4, <1>7

LEMMA UnansweredHandler ==
    ASSUME TypeInv, Unique, NEW x \in Thread, NEW i \in 1..Len(stack[x]),
           stack[x][i].kind = "handler"
    PROVE  /\ stack[x][i].msg \in 0..MaxMessages
           /\ stack[x][i].msg # 0 =>
                 stack[x][i].msg \notin done /\ stack[x][i].msg \notin cleared
           /\ Answers(stack[x][i]) => stack[x][i].msg # 0
<1>1. /\ stack \in Stacks /\ i \in Nat /\ i \in DOMAIN stack[x]
      /\ stack[x][i] \in HandlerActivity
  BY Depth, ActivityKinds DEF TypeInv, TypeOK, Stacks
<1>2. stack[x][i].msg \in 0..MaxMessages
  BY <1>1 DEF HandlerActivity
<1>3. "msg" \in Slot /\ "msg" \in Frames /\ Pending
  BY Slots DEF Unique
<1>4. numbers[x]["msg"][i] = stack[x][i].msg
  BY <1>1, <1>3, NumbersOf DEF InFrame
<1>5. Answers(stack[x][i]) => stack[x][i].msg # 0
  BY DEF TypeInv, Shape, FrameOK, Answers
<1>6. ASSUME stack[x][i].msg # 0
      PROVE  stack[x][i].msg \notin done /\ stack[x][i].msg \notin cleared
  <2>1. numbers[x]["msg"][i] # 0
    BY <1>4, <1>6
  <2>2. numbers[x]["msg"][i] \notin done /\ numbers[x]["msg"][i] \notin cleared
    BY SMTT(40), <1>1, <1>3, <2>1 DEF Pending
  <2> QED
    BY <1>4, <2>2
<1> QED
  BY <1>2, <1>5, <1>6

LEMMA SynchronousStep ==
    ASSUME TypeInv, Unique, SendIsSynchronous,
           NEW t \in Thread, Act(t) \/ Progress(t)
    PROVE  SendIsSynchronous'
<1>1. CASE UNCHANGED <<ready, done, cleared>>
  BY <1>1 DEF SendIsSynchronous
<1>2. CASE Reply(t) \/ Return(t)
  <2>1. stack \in Stacks /\ Active(t) /\ Top(t).kind = "handler"
    BY <1>2 DEF TypeInv, TypeOK, Stacks, Reply, Return, In
  <2>2. 1 \in 1..Len(stack[t]) /\ stack[t][1] = Top(t)
    BY <2>1, Depth
  <2>3. Top(t).msg # 0 => Top(t).msg \notin cleared
    BY <2>1, <2>2, UnansweredHandler
  <2>4. 0 \notin cleared
    BY DEF TypeInv, TypeOK, Message
  <2>5. Top(t).msg \notin cleared
    BY <2>3, <2>4
  <2>6. done' = done \cup {Top(t).msg} /\ cleared' = cleared
        /\ ready' \subseteq ready \cup {Top(t).msg}
    BY <1>2 DEF Reply, Return
  <2> QED
    BY <2>5, <2>6 DEF SendIsSynchronous
<1>3. ASSUME NEW m \in Message, Clear(t, m) PROVE SendIsSynchronous'
  <2>1. m \notin done
    BY <1>3, UniqueClear
  <2> DEFINE senders == {s \in SentOf(m) : \E u \in Thread : Has(sendlist[u], s)}
  <2>2. ready' = ready \cup {s.msg : s \in senders}
    BY <1>3 DEF Clear
  <2>3. \A s \in senders : s.msg = m
    BY DEF SentOf
  <2> HIDE DEF senders
  <2>4. ready' \subseteq ready \cup {m}
    BY <2>2, <2>3
  <2>5. done' = done /\ cleared' = cleared \cup {m}
    BY <1>3 DEF Clear
  <2> QED
    BY <2>1, <2>4, <2>5 DEF SendIsSynchronous
<1> QED
  BY <1>1, <1>2, <1>3
     DEF Act, Progress, queueVars, historyVars, Join, BeginPost, BeginSend, Stop,
         ReceiveNothing, BeginReceive, EndReceive, NothingPosted,
         Exit, GoOn, WaitInGet, Wake, StillWaiting, WaitInSend, EndSend,
         Post, Dispatch, Take, Push

\* A Send that ends was answered.
LEMMA EndIsAnswered ==
    ASSUME SendIsSynchronous, NEW t \in Thread, EndSend(t)
    PROVE  Top(t).msg \in done \/ Top(t).msg \in cleared
  BY DEF SendIsSynchronous, EndSend

LEMMA LiveStep ==
    ASSUME TypeInv, Unique, SendIsSynchronous, Live,
           NEW t \in Thread, Act(t) \/ Progress(t)
    PROVE  Live'
<1>1. stack \in Stacks /\ stack' \in Stacks
      /\ \A x \in Thread : sendlist[x] \in Seq(Sent) /\ sendlist'[x] \in Seq(Sent)
  BY TypeStep, TypeOfQueues DEF TypeInv, TypeOK, Stacks
\* Who waits for a message that was not answered goes on waiting.
<1>2. ASSUME NEW u \in Thread, NEW m, m \in sends[u], m \notin done, m \notin cleared
      PROVE  m \in sends'[u]
  BY <1>2, SendsStep, EndIsAnswered
<1>3. ASSUME NEW x \in Thread, NEW i \in 1..Len(sendlist'[x])
      PROVE  sendlist'[x][i].msg \in sends'[sendlist'[x][i].from]
  <2>1. CASE \E j \in 1..Len(sendlist[x]) : sendlist'[x][i] = sendlist[x][j]
    <3>1. PICK j \in 1..Len(sendlist[x]) : sendlist'[x][i] = sendlist[x][j]
      BY <2>1
    <3> DEFINE s == sendlist[x][j]
    <3>2. s \in Sent
      BY <1>1
    <3>3. s.from \in Thread
      BY <3>2 DEF Sent
    <3>4. s.msg \notin done /\ s.msg \notin cleared
      BY UnansweredSent
    <3>5. s.msg \in sends[s.from]
      BY DEF Live
    <3> HIDE DEF s
    <3>6. s.msg \in sends'[s.from]
      BY <1>2, <3>3, <3>4, <3>5
    <3> QED
      BY <3>1, <3>6 DEF s
  <2>2. CASE /\ Push(t) /\ In(t, "send", "push")
             /\ sendlist'[x][i] = [from |-> t, msg |-> Top(t).msg]
    <3>1. SendMoves(t, "wake", Top(t).waited)
      BY <2>2, MoveStack
    <3>2. 1 \in 1..Len(stack'[t])
      BY <1>1, <2>2, <3>1, Depth DEF SendMoves, TopIs, In
    <3>3. stack'[t][1].kind = "send" /\ stack'[t][1].msg = Top(t).msg
      BY <3>1 DEF SendMoves
    <3>4. Top(t).msg \in sends'[t]
      BY <3>2, <3>3, SendsIn
    <3> QED
      BY <2>2, <3>4
  <2> QED
    BY <2>1, <2>2, SendlistStep
<1>4. ASSUME NEW x \in Thread, NEW i \in 1..Len(stack'[x]), Answers(stack'[x][i])
      PROVE  stack'[x][i].msg \in sends'[stack'[x][i].from]
  <2>1. CASE \E j \in 1..Len(stack[x]) :
                 /\ Answers(stack[x][j])
                 /\ stack'[x][i].msg = stack[x][j].msg
                 /\ stack'[x][i].from = stack[x][j].from
    <3>1. PICK j \in 1..Len(stack[x]) :
                 /\ Answers(stack[x][j])
                 /\ stack'[x][i].msg = stack[x][j].msg
                 /\ stack'[x][i].from = stack[x][j].from
      BY <2>1
    <3> DEFINE a == stack[x][j]
    <3>2. a \in HandlerActivity
      BY <1>1, <3>1, Depth, ActivityKinds DEF Answers
    <3>3. a.from \in Thread
      BY <3>1, <3>2 DEF HandlerActivity, Answers
    <3>4. a.msg \notin done /\ a.msg \notin cleared
      BY <3>1, UnansweredHandler DEF Answers
    <3>5. a.msg \in sends[a.from]
      BY <3>1 DEF Live, Answers
    <3> HIDE DEF a
    <3>6. a.msg \in sends'[a.from]
      BY <1>2, <3>3, <3>4, <3>5
    <3> QED
      BY <3>1, <3>6 DEF a
  <2>2. CASE /\ Take(t) /\ sendlist[t] # <<>>
             /\ stack'[x][i].msg = First(t).msg
             /\ stack'[x][i].from = First(t).from
    <3>1. 1 \in 1..Len(sendlist[t]) /\ First(t) = sendlist[t][1]
      BY <1>1, <2>2, Tailed DEF First
    <3>2. First(t) \in Sent
      BY <1>1, <3>1
    <3>3. First(t).from \in Thread
      BY <3>2 DEF Sent
    <3>4. First(t).msg \notin done /\ First(t).msg \notin cleared
      BY <3>1, UnansweredSent
    <3>5. First(t).msg \in sends[First(t).from]
      BY <3>1 DEF Live
    <3>6. First(t).msg \in sends'[First(t).from]
      BY <1>2, <3>3, <3>4, <3>5
    <3> QED
      BY <2>2, <3>6
  <2> QED
    BY <1>4, <2>1, <2>2, HandlersStep
<1> QED
  BY <1>3, <1>4 DEF Live, Answers

LEMMA SendersInitially == Init => SendIsSynchronous /\ Senders /\ Live
<1> SUFFICES ASSUME Init PROVE SendIsSynchronous /\ Senders /\ Live
  OBVIOUS
<1>1. ready = {} /\ done = {} /\ cleared = {}
      /\ \A t \in Thread : sendlist[t] = <<>>
  BY DEF Init
<1>2. ASSUME NEW t \in Thread, NEW i \in 1..Len(stack[t])
      PROVE  stack[t][i].kind # "send" /\ ~Answers(stack[t][i])
  <2> DEFINE h == Handler(t, 0, "post")
  <2>1. h.kind # "send" /\ ~Answers(h) /\ Get.kind # "send" /\ ~Answers(Get)
    BY DEF Handler, Get, Answers
  <2> HIDE DEF h
  <2>2. stack[t] = <<h, Get>> \/ stack[t] = <<Get>>
    BY DEF Init, h
  <2>3. stack[t][i] = h \/ stack[t][i] = Get
    BY <2>2
  <2> QED
    BY <2>1, <2>3
<1>3. \A t \in Thread : \A m : m \notin sends[t]
  BY <1>2, SendsIn
<1> QED
  BY <1>1, <1>2, <1>3 DEF SendIsSynchronous, Senders, Live, Answers

----------------------------------------------------------------------------
SendInv == TypeInv /\ Unique /\ SendIsSynchronous /\ Senders /\ Live

LEMMA SendInvariant == Spec => []SendInv
<1>1. Init => SendInv
  BY TypeInitially, UniqueInitially, SendersInitially DEF SendInv
<1>2. SendInv /\ [Next]_vars => SendInv'
  <2>1. ASSUME SendInv, Next PROVE SendInv'
    <3>1. PICK t \in Thread : Act(t) \/ Progress(t)
      BY <2>1 DEF Next
    <3> QED
      BY <2>1, <3>1, TypeStep, UniqueStep, SynchronousStep, SendersStep, LiveStep
         DEF SendInv
  <2>2. ASSUME SendInv, UNCHANGED vars PROVE SendInv'
    <3>1. stack' = stack /\ msgq' = msgq /\ sendlist' = sendlist /\ ready' = ready
          /\ done' = done /\ cleared' = cleared /\ used' = used
          /\ hasSends' = hasSends /\ signaled' = signaled /\ stop' = stop
      BY <2>2 DEF vars, queueVars, historyVars
    <3>2. TypeInv'
      BY <2>2, <3>1 DEF SendInv, TypeInv, TypeOK, Shape
    <3>3. numbers' = numbers /\ sends' = sends
      BY <3>1 DEF numbers, Number, sends
    <3>4. Unique'
      BY <2>2, <3>1, <3>3 DEF SendInv, Unique, OnePlace, Pending
    <3> QED
      BY <2>2, <3>1, <3>2, <3>3, <3>4 DEF SendInv, SendIsSynchronous, Senders, Live
  <2> QED
    BY <2>1, <2>2
<1> QED
  BY <1>1, <1>2, PTL DEF Spec

\* However the threads call each other, a Send returns only after its message was
\* handled or its handler destroyed, and nothing runs after its handler was
\* destroyed.
THEOREM SendReturnsAnswered == Spec => []SendIsSynchronous
<1>1. SendInv => SendIsSynchronous
  BY DEF SendInv
<1> QED
  BY <1>1, SendInvariant, PTL

\* Whoever will set the ready flag of a Send finds its thread inside that Send.
THEOREM ReadyFlagsOutlive == Spec => []ReadyFlagsLive
<1>1. SendInv => ReadyFlagsLive
  <2> SUFFICES ASSUME SendInv PROVE ReadyFlagsLive
    OBVIOUS
  <2>1. stack \in Stacks /\ Live
        /\ \A x \in Thread : sendlist[x] \in Seq(Sent)
    BY DEF SendInv, TypeInv, TypeOK, Stacks
  <2>2. \A x \in Thread : /\ DOMAIN stack[x] = 1..Len(stack[x])
                          /\ DOMAIN sendlist[x] = 1..Len(sendlist[x])
    BY <2>1, Depth
  <2>3. ASSUME NEW u \in Thread, NEW m, m \in sends[u]
        PROVE  \E i \in DOMAIN stack[u] :
                  stack[u][i].kind = "send" /\ stack[u][i].msg = m
    BY <2>2, <2>3, SendsIn
  <2>4. ASSUME NEW x \in Thread, NEW i \in DOMAIN sendlist[x]
        PROVE  sendlist[x][i].from \in Thread
               /\ sendlist[x][i].msg \in sends[sendlist[x][i].from]
    <3>1. sendlist[x][i] \in Sent
      BY <2>1
    <3> QED
      BY <2>1, <2>2, <3>1 DEF Live, Sent
  <2>5. ASSUME NEW x \in Thread, NEW i \in DOMAIN stack[x], Answers(stack[x][i])
        PROVE  stack[x][i].from \in Thread
               /\ stack[x][i].msg \in sends[stack[x][i].from]
    <3>1. stack[x][i] \in HandlerActivity
      BY <2>1, <2>2, <2>5, Depth, ActivityKinds DEF Answers
    <3> QED
      BY <2>1, <2>2, <2>5, <3>1 DEF Live, Answers, HandlerActivity
  <2> QED
    BY <2>3, <2>4, <2>5 DEF ReadyFlagsLive, Answers
<1> QED
  BY <1>1, SendInvariant, PTL

----------------------------------------------------------------------------
(* Wake-ups.  None is lost, although has_sends_, fStop_ and the ready flags *)
(* are read without the queue's lock, a Send may take a wake-up that was    *)
(* meant for an activity below it, and the event is reset before the queues *)
(* are looked at again.                                                    *)

----------------------------------------------------------------------------
(* The inductive invariant, for a thread whose event is not signaled *)

\* Get has seen what was posted, and that it shall not stop.
GetSees == \A t \in Thread : ~signaled[t] =>
    /\ In(t, "get", "stopping") => msgq[t] = <<>>
    /\ In(t, "get", "wait") => msgq[t] = <<>> /\ ~stop[t]

\* A Send within ReceiveSends that was answered meanwhile will be woken, unless a
\* Send above it took the wake-up, which gives it back when it ends.
Waited(a) == a.kind = "send" /\ a.waited
Covered(s, i) == \E j \in 1..(i - 1) : Waited(s[j])
Receiving(a) == a.kind = "send" /\ a.at \in {"receive", "take", "wait"}

AnswerSeen == \A t \in Thread : ~signaled[t] =>
    \A i \in 1..Len(stack[t]) :
        Receiving(stack[t][i]) /\ stack[t][i].msg \in ready => Covered(stack[t], i)

\* After ReceiveSends nothing was sent, but by a thread that is about to wake this
\* one up.
Received(t) == \/ In(t, "get", "queues") \/ In(t, "get", "stopping")
               \/ In(t, "get", "wait") \/ In(t, "send", "wait")
Waking(u, t) == In(u, "send", "wake") /\ Top(u).to = t

SentSeen == \A t \in Thread : ~signaled[t] /\ Received(t) /\ sendlist[t] # <<>> =>
    \E u \in Thread : Waking(u, t)

WakeInv == HasSendsIsSafe /\ GetSees /\ AnswerSeen /\ SentSeen

----------------------------------------------------------------------------
(* What a step of thread t does to the flags and queues of thread x *)

LEMMA SignalStep ==
    ASSUME TypeInv, NEW t \in Thread, Act(t) \/ Progress(t), NEW x \in Thread,
           signaled[x]
    PROVE  signaled'[x] \/ (x = t /\ (WaitInGet(t) \/ WaitInSend(t)))
  BY DEF Act, Progress, queueVars, historyVars, Join, BeginPost, BeginSend, Stop,
         ReceiveNothing, BeginReceive, EndReceive, Reply, Return, NothingPosted,
         Exit, GoOn, WaitInGet, Wake, StillWaiting, WaitInSend, EndSend,
         Post, Dispatch, Take, Push, Clear, WakeUp, TypeInv, TypeOK

LEMMA ClearedEmpty ==
    ASSUME NEW T, NEW S
    PROVE  Without(<<>>, S) = <<>>
<1> DEFINE q == <<>>
<1>1. q \in Seq(T) /\ Len(q) = 0
  OBVIOUS
<1>2. /\ Without(q, S) \in Seq(T)
      /\ \E h \in [1..Len(Without(q, S)) -> 1..Len(q)] : TRUE
  BY <1>1, WithoutPlaces
<1> DEFINE r == Without(q, S)
<1> HIDE DEF r
<1>3. PICK h \in [1..Len(r) -> 1..0] : TRUE
  BY <1>1, <1>2 DEF r
<1>4. r \in Seq(T)
  BY <1>2 DEF r
<1>5. Len(r) = 0
  <2>1. Len(r) \in Nat
    BY <1>4
  <2>2. 1 \in 1..Len(r) => h[1] \in 1..0
    BY <1>3
  <2> QED
    BY <2>1, <2>2
<1>6. r = <<>>
  BY SMTT(40), <1>4, <1>5
<1> QED
  BY <1>6 DEF r

LEMMA MsgqStep ==
    ASSUME TypeInv, NEW t \in Thread, Act(t) \/ Progress(t), NEW x \in Thread,
           msgq[x] = <<>>
    PROVE  msgq'[x] = <<>> \/ signaled'[x]
<1>1. CASE msgq' = msgq
  BY <1>1
<1>2. CASE Post(t)
  <2>1. Top(t).to = x \/ msgq'[x] = msgq[x]
    BY <1>2 DEF Post, TypeInv, TypeOK
  <2>2. signaled' = [y \in Thread |-> y \in {Top(t).to} \/ signaled[y]]
    BY <1>2 DEF Post, WakeUp
  <2> QED
    BY <2>1, <2>2
<1>3. CASE Dispatch(t)
  BY <1>3 DEF Dispatch, TypeInv, TypeOK
<1>4. ASSUME NEW m \in Message, Clear(t, m) PROVE msgq'[x] = <<>>
  <2>1. msgq'[x] = Without(msgq[x], {m})
    BY SMTT(40), <1>4 DEF Clear
  <2> QED
    BY <2>1, ClearedEmpty
<1> QED
  BY <1>1, <1>2, <1>3, <1>4
     DEF Act, Progress, queueVars, historyVars, Join, BeginPost, BeginSend, Stop,
         ReceiveNothing, BeginReceive, EndReceive, Reply, Return, NothingPosted,
         Exit, GoOn, WaitInGet, Wake, StillWaiting, WaitInSend, EndSend,
         Take, Push

LEMMA StopStep ==
    ASSUME TypeInv, NEW t \in Thread, Act(t) \/ Progress(t), NEW x \in Thread,
           stop'[x]
    PROVE  stop[x] \/ signaled'[x]
<1>1. CASE stop' = stop
  BY <1>1
<1>2. ASSUME NEW u \in Thread, Stop(t, u) PROVE stop[x] \/ signaled'[x]
  <2>1. x = u \/ stop'[x] = stop[x]
    BY <1>2 DEF Stop, TypeInv, TypeOK
  <2>2. signaled' = [y \in Thread |-> y \in {u} \/ signaled[y]]
    BY <1>2 DEF Stop, WakeUp
  <2> QED
    BY <2>1, <2>2
<1> QED
  BY <1>1, <1>2
     DEF Act, Progress, queueVars, historyVars, Join, BeginPost, BeginSend,
         ReceiveNothing, BeginReceive, EndReceive, Reply, Return, NothingPosted,
         Exit, GoOn, WaitInGet, Wake, StillWaiting, WaitInSend, EndSend,
         Post, Dispatch, Take, Push, Clear

\* A sendlist is filled by Push only.
LEMMA FilledByPush ==
    ASSUME TypeInv, NEW t \in Thread, Act(t) \/ Progress(t), NEW x \in Thread,
           sendlist[x] = <<>>, sendlist'[x] # <<>>
    PROVE  Push(t) /\ Top(t).to = x
<1>1. sendlist'[x] \in Seq(Sent) /\ Len(sendlist[x]) = 0
  BY TypeOfQueues
<1>2. 1 \in 1..Len(sendlist'[x])
  BY <1>1
<1>3. ~\E j \in 1..Len(sendlist[x]) : sendlist'[x][1] = sendlist[x][j]
  BY <1>1
<1>4. Push(t)
  BY <1>2, <1>3, SendlistStep
<1>5. Top(t).to = x \/ sendlist'[x] = sendlist[x]
  BY SMTT(40), <1>4 DEF Push, TypeInv, TypeOK
<1> QED
  BY <1>4, <1>5

\* A message that becomes ready wakes the thread that sent it.
LEMMA ReadyWakes ==
    ASSUME SendInv, NEW t \in Thread, Act(t) \/ Progress(t), NEW x \in Thread,
           NEW m \in Message, m \in sends[x], m \in ready', m \notin ready
    PROVE  signaled'[x]
<1>1. stack \in Stacks /\ Live /\ Senders
      /\ \A y \in Thread : sendlist[y] \in Seq(Sent)
  BY DEF SendInv, TypeInv, TypeOK, Stacks
<1>2. CASE Reply(t)
  <2>1. m = Top(t).msg
    BY <1>2 DEF Reply
  <2>2. 1 \in 1..Len(stack[t]) /\ stack[t][1] = Top(t) /\ Answers(Top(t))
        /\ Top(t) \in HandlerActivity
    BY <1>1, <1>2, Depth, ActivityKinds DEF Reply, In, Answers
  <2>3. Top(t).from \in Thread /\ m \in sends[Top(t).from]
    BY <1>1, <2>1, <2>2 DEF Live, HandlerActivity, Answers
  <2>4. x = Top(t).from
    BY <1>1, <2>3 DEF Senders
  <2> QED
    BY <1>2, <2>4 DEF Reply, WakeUp
<1>3. ASSUME NEW n \in Message, Clear(t, n) PROVE signaled'[x]
  <2> DEFINE senders == {s \in SentOf(n) : \E u \in Thread : Has(sendlist[u], s)}
  <2>1. /\ ready' = ready \cup {s.msg : s \in senders}
        /\ signaled' = [y \in Thread |-> y \in {s.from : s \in senders} \/ signaled[y]]
    BY <1>3 DEF Clear, WakeUp
  <2>2. PICK s \in senders : s.msg = m
    BY <2>1
  <2>3. PICK u \in Thread : Has(sendlist[u], s)
    OBVIOUS
  <2>4. PICK i \in 1..Len(sendlist[u]) : sendlist[u][i] = s
    BY <1>1, <2>3 DEF Has
  <2>5. s.from \in Thread
    BY DEF SentOf
  <2>6. m \in sends[s.from]
    BY <1>1, <2>2, <2>4 DEF Live
  <2>7. x = s.from
    BY <1>1, <2>5, <2>6 DEF Senders
  <2> HIDE DEF senders
  <2>8. x \in {r.from : r \in senders}
    BY <2>7
  <2> QED
    BY <2>1, <2>8
<1> QED
  BY <1>2, <1>3
     DEF Act, Progress, queueVars, historyVars, Join, BeginPost, BeginSend, Stop,
         ReceiveNothing, BeginReceive, EndReceive, Return, NothingPosted,
         Exit, GoOn, WaitInGet, Wake, StillWaiting, WaitInSend, EndSend,
         Post, Dispatch, Take, Push

----------------------------------------------------------------------------
(* Where a thread has got to shows which step it took *)

LEMMA TopAfter ==
    ASSUME TypeInv, NEW t \in Thread, Act(t) \/ Progress(t)
    PROVE  /\ In(t, "get", "stopping")' => NothingPosted(t)
           /\ In(t, "get", "wait")' => GoOn(t)
           /\ In(t, "get", "queues")' => ReceiveNothing(t) \/ EndReceive(t)
           /\ In(t, "send", "wait")' => ReceiveNothing(t) \/ EndReceive(t)
           /\ In(t, "send", "receive")' => StillWaiting(t)
           /\ In(t, "send", "take")' => BeginReceive(t) \/ Popped(t)
<1> DEFINE Is(kind, at) ==
               stack'[t] # <<>> /\ stack'[t][1].kind = kind /\ stack'[t][1].at = at
           P == /\ Is("get", "stopping") => NothingPosted(t)
                /\ Is("get", "wait") => GoOn(t)
                /\ Is("get", "queues") => ReceiveNothing(t) \/ EndReceive(t)
                /\ Is("send", "wait") => ReceiveNothing(t) \/ EndReceive(t)
                /\ Is("send", "receive") => StillWaiting(t)
                /\ Is("send", "take") => BeginReceive(t) \/ Popped(t)
<1>1. /\ stack \in Stacks /\ stack' \in Stacks
      /\ stack'[t] \in Seq(Activity)
  BY TypeStep DEF TypeInv, TypeOK, Stacks
<1>2. ASSUME NEW kind, NEW at, In(t, kind, at)' PROVE Is(kind, at)
  <2>1. stack'[t] # <<>> /\ Head(stack'[t]).kind = kind /\ Head(stack'[t]).at = at
    BY <1>2 DEF In, Active, Top
  <2>2. Head(stack'[t]) = stack'[t][1]
    BY <1>1, <2>1
  <2> QED
    BY <2>1, <2>2
<1>3. ASSUME stack' = stack, In(t, "handler", "run") PROVE P
  <2>1. stack[t][1].kind = "handler"
    BY <1>1, <1>3, Depth DEF In
  <2> QED
    BY <1>3, <2>1
<1>4. ASSUME NEW at, NEW new, HandlerMoves(t, at, new) PROVE P
  BY <1>4 DEF HandlerMoves
<1>5. ASSUME NEW b, Pushed(t, b) \/ Dispatched(t, b),
             b.kind = "handler" \/ (b.kind = "send" /\ b.at = "push")
      PROVE  P
  BY <1>5 DEF Pushed, Dispatched
<1>6. ASSUME Active(t), Popped(t) PROVE P
  <2>1. Len(stack[t]) \in Nat /\ Len(stack[t]) > 0
    BY <1>1, <1>6, Depth
  <2>2. CASE Len(stack[t]) > 1
    <3>1. stack'[t][1] = stack[t][2] /\ 2 \in 1..Len(stack[t])
      BY <1>6, <2>1, <2>2 DEF Popped
    <3>2. FrameOK(stack[t][2], 2, Len(stack[t]))
      BY <3>1 DEF TypeInv, Shape
    <3>3. FrameOK(stack'[t][1], 2, Len(stack[t]))
      BY <3>1, <3>2
    <3> QED
      BY <1>6, <3>3 DEF FrameOK
  <2>3. CASE Len(stack[t]) = 1
    <3>1. stack'[t] = <<>>
      BY <1>1, <1>6, <2>3 DEF Popped
    <3> QED
      BY <3>1
  <2>4. \A n \in Nat : n > 0 => n = 1 \/ n > 1
    OBVIOUS
  <2> HIDE DEF P
  <2> QED
    BY <2>1, <2>2, <2>3, <2>4
<1>7. ASSUME BeginReceive(t) \/ ReceiveNothing(t) \/ EndReceive(t) PROVE P
  <2>1. Top(t).kind \in {"get", "send"}
    BY <1>7 DEF BeginReceive, ReceiveNothing, EndReceive, In
  <2>2. CASE BeginReceive(t)
    BY <2>1, <2>2, MoveStack DEF GetMoves, SendMoves
  <2>3. CASE ReceiveNothing(t) \/ EndReceive(t)
    BY <2>1, <2>3, MoveStack DEF GetMoves, SendMoves
  <2> QED
    BY <1>7, <2>2, <2>3
<1>8. ASSUME NothingPosted(t) \/ GoOn(t) \/ WaitInGet(t) PROVE P
  BY <1>8, MoveStack DEF GetMoves
<1>9. ASSUME Push(t) \/ Wake(t) \/ StillWaiting(t) \/ WaitInSend(t) PROVE P
  BY <1>9, MoveStack DEF SendMoves
<1>10. ASSUME NEW u \in Thread, BeginPost(t, u) \/ BeginSend(t, u) \/ Stop(t, u)
       PROVE  P
  <2>1. CASE BeginPost(t, u)
    BY <1>4, <2>1, BeginPostStack
  <2>2. CASE BeginSend(t, u)
    <3> DEFINE s == Send(u, used + 1)
    <3>1. Pushed(t, s)
      BY <2>2, BeginSendStack
    <3>2. s.kind = "send" /\ s.at = "push"
      BY DEF Send
    <3> HIDE DEF s, P
    <3> QED
      BY <1>5, <3>1, <3>2
  <2>3. CASE Stop(t, u)
    <3>1. In(t, "handler", "run")
      BY <2>3 DEF Stop
    <3> HIDE DEF P
    <3> QED
      BY <1>3, <1>4, <2>3, <3>1, StopStack
  <2> QED
    BY <1>10, <2>1, <2>2, <2>3
<1>11. ASSUME NEW m \in Message, Clear(t, m) PROVE P
  <2>1. stack' = stack /\ In(t, "handler", "run")
    BY <1>11 DEF Clear
  <2> QED
    BY <1>3, <2>1
<1>12. ASSUME Post(t) \/ Join(t) PROVE P
  BY <1>4, <1>12, PostStack, JoinStack
<1>13. ASSUME Take(t) \/ Dispatch(t) PROVE P
  <2>1. ASSUME NEW m, NEW from, Pushed(t, Handler(t, m, from))
                                \/ Dispatched(t, Handler(t, m, from))
        PROVE  P
    <3> DEFINE b == Handler(t, m, from)
    <3>1. b.kind = "handler"
      BY DEF Handler
    <3> HIDE DEF P, b
    <3>2. Pushed(t, b) \/ Dispatched(t, b)
      BY <2>1 DEF b
    <3> QED
      BY <1>5, <3>1, <3>2
  <2> HIDE DEF P
  <2>2. CASE Take(t)
    BY <2>1, <2>2, TakeStack
  <2>3. CASE Dispatch(t)
    BY <2>1, <2>3, DispatchStack
  <2> QED
    BY <1>13, <2>2, <2>3
<1>14. ASSUME Reply(t) \/ Return(t) \/ EndSend(t) \/ Exit(t) PROVE P
  <2>1. Active(t) /\ Popped(t)
    BY <1>14, PopStack, ExitStack DEF Reply, Return, EndSend, Exit, In
  <2> QED
    BY <1>6, <2>1
<1> HIDE DEF P
<1>15. P
  BY <1>7, <1>8, <1>9, <1>10, <1>11, <1>12, <1>13, <1>14 DEF Act, Progress
<1> HIDE DEF Is
<1> QED
  BY <1>2, <1>15 DEF P

\* A Send that has waited remembers it, and a thread that is about to wake another
\* one up does so.
LEMMA WaitedStays ==
    ASSUME TypeInv, NEW t \in Thread, Act(t) \/ Progress(t),
           Active(t), Moves(t), Waited(Top(t))
    PROVE  Waited(stack'[t][1])
<1>1. Top(t).kind = "send" /\ Top(t).waited /\ stack \in Stacks
  BY DEF Waited, TypeInv, TypeOK, Stacks
<1>2. /\ ~(\E u \in Thread : BeginPost(t, u) \/ BeginSend(t, u) \/ Stop(t, u))
      /\ ~(\E m \in Message : Clear(t, m)) /\ ~Post(t) /\ ~Join(t)
      /\ ~Reply(t) /\ ~Return(t)
  BY <1>1 DEF BeginPost, BeginSend, Stop, Clear, Post, Join, Reply, Return, In
<1>3. ~NothingPosted(t) /\ ~Exit(t) /\ ~GoOn(t) /\ ~WaitInGet(t) /\ ~Dispatch(t)
  BY <1>1 DEF NothingPosted, Exit, GoOn, WaitInGet, Dispatch, In
<1>4. Len(stack'[t]) = Len(stack[t]) /\ Len(stack[t]) \in Nat
  BY <1>1, Depth DEF Moves, GetMoves, SendMoves, HandlerMoves, TopIs
<1>5. ~Take(t) /\ ~EndSend(t)
  BY <1>4, TakeStack, PopStack DEF Pushed, Popped
<1>6. \E at : \/ SendMoves(t, at, Top(t).waited)
              \/ SendMoves(t, at, TRUE)
  BY <1>1, <1>2, <1>3, <1>5, MoveStack DEF Act, Progress
<1> QED
  BY <1>1, <1>6 DEF SendMoves, Waited

LEMMA WakingStays ==
    ASSUME NEW t \in Thread, Act(t) \/ Progress(t), NEW x \in Thread, Waking(t, x)
    PROVE  signaled'[x]
<1>1. /\ ~(\E u \in Thread : BeginPost(t, u) \/ BeginSend(t, u) \/ Stop(t, u))
      /\ ~(\E m \in Message : Clear(t, m)) /\ ~Post(t) /\ ~Join(t)
      /\ ~Reply(t) /\ ~Return(t)
  BY DEF BeginPost, BeginSend, Stop, Clear, Post, Join, Reply, Return, In, Waking
<1>2. ~NothingPosted(t) /\ ~Exit(t) /\ ~GoOn(t) /\ ~WaitInGet(t) /\ ~Dispatch(t)
  BY DEF NothingPosted, Exit, GoOn, WaitInGet, Dispatch, In, Waking
<1>3. ~(\/ BeginReceive(t) \/ ReceiveNothing(t) \/ EndReceive(t) \/ Take(t)
        \/ Push(t) \/ StillWaiting(t) \/ WaitInSend(t) \/ EndSend(t))
  BY DEF BeginReceive, ReceiveNothing, EndReceive, Take, Push, StillWaiting,
         WaitInSend, EndSend, In, Waking
<1>4. Wake(t)
  BY <1>1, <1>2, <1>3 DEF Act, Progress
<1> QED
  BY <1>4 DEF Wake, WakeUp, Waking

----------------------------------------------------------------------------
LEMMA HasSendsStep ==
    ASSUME TypeInv, HasSendsIsSafe, NEW t \in Thread, Act(t) \/ Progress(t)
    PROVE  HasSendsIsSafe'
<1> SUFFICES ASSUME NEW x \in Thread, sendlist'[x] # <<>>
             PROVE  hasSends'[x]
  BY DEF HasSendsIsSafe
<1>1. CASE sendlist[x] = <<>>
  <2>1. Push(t) /\ Top(t).to = x
    BY SMTT(40), <1>1, FilledByPush
  <2> QED
    BY <2>1 DEF Push, TypeInv, TypeOK
<1>2. CASE sendlist[x] # <<>>
  <2>1. hasSends[x]
    BY <1>2 DEF HasSendsIsSafe
  <2>2. CASE Push(t)
    BY <2>1, <2>2 DEF Push, TypeInv, TypeOK
  <2>3. CASE EndReceive(t)
    BY <1>2, <2>1, <2>3 DEF EndReceive, TypeInv, TypeOK
  <2>4. CASE hasSends' = hasSends
    BY <2>1, <2>4
  <2> QED
    BY <2>2, <2>3, <2>4
       DEF Act, Progress, queueVars, historyVars, Join, BeginPost, BeginSend, Stop,
           ReceiveNothing, BeginReceive, Reply, Return, NothingPosted,
           Exit, GoOn, WaitInGet, Wake, StillWaiting, WaitInSend, EndSend,
           Post, Dispatch, Take, Clear
<1> QED
  BY <1>1, <1>2

LEMMA GetSeesStep ==
    ASSUME TypeInv, GetSees, NEW t \in Thread, Act(t) \/ Progress(t)
    PROVE  GetSees'
<1> SUFFICES ASSUME NEW x \in Thread, ~signaled'[x]
             PROVE  /\ In(x, "get", "stopping")' => msgq'[x] = <<>>
                    /\ In(x, "get", "wait")' => msgq'[x] = <<>> /\ ~stop'[x]
  BY DEF GetSees
<1>1. CASE x # t
  <2>1. stack'[x] = stack[x] /\ ~signaled[x]
    BY <1>1, OthersStack, SignalStep
  <2>2. /\ In(x, "get", "stopping")' => In(x, "get", "stopping")
        /\ In(x, "get", "wait")' => In(x, "get", "wait")
    BY <2>1 DEF In, Active, Top
  <2> QED
    BY <2>1, <2>2, MsgqStep, StopStep DEF GetSees
<1>2. CASE x = t
  <2>1. NothingPosted(t) => msgq'[t] = <<>>
    BY DEF NothingPosted, queueVars
  <2>2. GoOn(t) => msgq'[t] = <<>> /\ ~stop'[t]
    <3> SUFFICES ASSUME GoOn(t) PROVE msgq'[t] = <<>> /\ ~stop'[t]
      OBVIOUS
    <3>1. /\ In(t, "get", "stopping") /\ ~stop[t] /\ signaled' = signaled
          /\ msgq' = msgq /\ stop' = stop
      BY DEF GoOn, queueVars
    <3> QED
      BY <1>2, <3>1 DEF GetSees
  <2> QED
    BY <1>2, <2>1, <2>2, TopAfter
<1> QED
  BY <1>1, <1>2

LEMMA SentSeenStep ==
    ASSUME TypeInv, HasSendsIsSafe, SentSeen,
           NEW t \in Thread, Act(t) \/ Progress(t)
    PROVE  SentSeen'
<1> SUFFICES ASSUME NEW x \in Thread, ~signaled'[x], Received(x)',
                    sendlist'[x] # <<>>
             PROVE  \E u \in Thread : Waking(u, x)'
  BY DEF SentSeen
<1>1. stack \in Stacks /\ stack' \in Stacks
  BY TypeStep DEF TypeInv, TypeOK, Stacks
<1>2. CASE sendlist[x] = <<>>
  <2>1. Push(t) /\ Top(t).to = x
    BY <1>2, FilledByPush
  <2>2. SendMoves(t, "wake", Top(t).waited)
    BY <2>1, MoveStack
  <2>3. Len(stack'[t]) \in Nat \ {0}
    BY <1>1, <2>1, <2>2, Depth DEF SendMoves, TopIs, Push, In
  <2>4. stack'[t] # <<>> /\ Head(stack'[t]) = stack'[t][1]
    BY <1>1, <2>3 DEF Stacks
  <2>5. Waking(t, x)'
    BY <2>1, <2>2, <2>4 DEF SendMoves, Waking, In, Active, Top
  <2> QED
    BY <2>5
<1>3. ASSUME NEW u \in Thread, Waking(u, x) PROVE Waking(u, x)'
  <2>1. u # t
    BY <1>3, WakingStays
  <2>2. stack'[u] = stack[u]
    BY <2>1, OthersStack
  <2> QED
    BY <1>3, <2>2 DEF Waking, In, Active, Top
<1>4. CASE sendlist[x] # <<>> /\ x # t
  <2>1. stack'[x] = stack[x] /\ ~signaled[x]
    BY <1>4, OthersStack, SignalStep
  <2>2. Received(x)
    BY <2>1 DEF Received, In, Active, Top
  <2> QED
    BY <1>3, <1>4, <2>1, <2>2 DEF SentSeen
<1>5. CASE sendlist[x] # <<>> /\ x = t
  <2>1. ~ReceiveNothing(t) /\ ~EndReceive(t)
    BY <1>5 DEF ReceiveNothing, EndReceive, HasSendsIsSafe
  <2>2. NothingPosted(t) \/ GoOn(t)
    BY <1>5, <2>1, TopAfter DEF Received
  <2>3. Received(t) /\ signaled' = signaled
    BY <2>2 DEF NothingPosted, GoOn, Received
  <2> QED
    BY <1>3, <1>5, <2>3 DEF SentSeen
<1> QED
  BY <1>2, <1>4, <1>5

\* Thread x does not see that a message of its became ready: it was already.
LEMMA ReadyBefore ==
    ASSUME SendInv, NEW t \in Thread, Act(t) \/ Progress(t),
           NEW x \in Thread, ~signaled'[x],
           NEW i \in 1..Len(stack'[x]), Receiving(stack'[x][i]),
           stack'[x][i].msg \in ready'
    PROVE  stack'[x][i].msg \in ready
<1> DEFINE m == stack'[x][i].msg
<1>1. TypeInv /\ Senders /\ SendInv
  BY DEF SendInv
<1>2. /\ m \in sends'[x] /\ m \in ready'
  BY SendsIn DEF Receiving
<1>3. m \in Message
  BY <1>1, <1>2, TypeOfHistory
<1>4. CASE m \in sends[x]
  <2> HIDE DEF m
  <2>1. m \in ready
    BY <1>2, <1>3, <1>4, ReadyWakes
  <2> QED
    BY <2>1 DEF m
<1>5. CASE m \notin sends[x]
  <2>1. x = t /\ used' = used + 1
    BY <1>1, <1>2, <1>5, SendsStep
  <2>2. used \in Nat
    BY <1>1 DEF TypeInv, TypeOK
  <2>3. used' # used
    BY SMTT(40), <2>1, <2>2
  <2>4. ready' = ready
    BY <2>3
     DEF Act, Progress, queueVars, historyVars, Join, BeginPost, BeginSend, Stop,
         ReceiveNothing, BeginReceive, EndReceive, Reply, Return, NothingPosted,
         Exit, GoOn, WaitInGet, Wake, StillWaiting, WaitInSend, EndSend,
         Post, Dispatch, Take, Push, Clear
  <2> QED
    BY <1>2, <2>4
<1> QED
  BY <1>4, <1>5

LEMMA AnswerSeenStep ==
    ASSUME SendInv, AnswerSeen, NEW t \in Thread, Act(t) \/ Progress(t)
    PROVE  AnswerSeen'
<1> SUFFICES ASSUME NEW x \in Thread, ~signaled'[x],
                    NEW i \in 1..Len(stack'[x]), Receiving(stack'[x][i]),
                    stack'[x][i].msg \in ready'
             PROVE  Covered(stack'[x], i)
  BY DEF AnswerSeen
<1>1. /\ TypeInv /\ stack \in Stacks /\ stack' \in Stacks
      /\ i \in Nat /\ 1 <= i /\ i <= Len(stack'[x])
      /\ Len(stack[x]) \in Nat /\ Len(stack'[x]) \in Nat
  <2>1. TypeInv /\ TypeInv'
    BY TypeStep DEF SendInv
  <2>2. stack \in Stacks /\ stack' \in Stacks
    BY <2>1 DEF TypeInv, TypeOK, Stacks
  <2>3. Len(stack[x]) \in Nat /\ Len(stack'[x]) \in Nat
    BY <2>2 DEF Stacks
  <2> QED
    BY <2>1, <2>2, <2>3
<1>2. stack'[x][i].msg \in ready
  BY ReadyBefore
<1>3. ASSUME x # t PROVE Covered(stack'[x], i)
  <2>1. stack'[x] = stack[x] /\ ~signaled[x]
    BY <1>1, <1>3, OthersStack, SignalStep
  <2> QED
    BY <1>1, <1>2, <2>1 DEF AnswerSeen
<1>4. ASSUME x = t, WaitInGet(t) PROVE FALSE
  <2>1. Len(stack[t]) = 1
    BY <1>1, <1>4, GetIsAlone DEF WaitInGet
  <2>2. Len(stack'[t]) = 1 /\ stack'[t][1].kind = "get"
    BY <1>1, <1>4, <2>1, MoveStack DEF GetMoves, TopIs
  <2>3. i = 1
    BY <1>1, <1>4, <2>2
  <2> QED
    BY <1>4, <2>2, <2>3 DEF Receiving
<1>5. ASSUME x = t, WaitInSend(t) PROVE Covered(stack'[x], i)
  <2>1. SendMoves(t, "test", TRUE)
    BY <1>1, <1>5, MoveStack
  <2>2. stack'[t][1].kind = "send" /\ stack'[t][1].at = "test"
    BY <2>1 DEF SendMoves
  <2>3. Waited(stack'[t][1])
    BY <2>1 DEF SendMoves, Waited
  <2>4. i # 1
    BY <1>5, <2>2 DEF Receiving
  <2>5. 1 \in 1..(i - 1)
    BY <1>1, <2>4
  <2> QED
    BY <1>5, <2>3, <2>5 DEF Covered
<1>6. ASSUME x = t, ~WaitInGet(t), ~WaitInSend(t) PROVE Covered(stack'[x], i)
  <2>1. ~signaled[t] /\ t \in Thread
    BY <1>1, <1>6, SignalStep
  \* A Send that was receiving, with this message, is covered.
  <2>2. ASSUME NEW k \in 1..Len(stack[t]), Receiving(stack[t][k]),
               stack[t][k].msg \in ready
        PROVE  Covered(stack[t], k)
    BY <2>1, <2>2 DEF AnswerSeen
  <2>3. ASSUME stack' = stack PROVE Covered(stack'[t], i)
    BY <1>2, <1>6, <2>2, <2>3
  <2>4. ASSUME Active(t), Moves(t) PROVE Covered(stack'[t], i)
    <3>1. /\ Len(stack'[t]) = Len(stack[t])
          /\ stack'[t][1].kind = Top(t).kind
          /\ stack'[t][1].kind = "send" => stack'[t][1].msg = Top(t).msg
          /\ \A k \in 2..Len(stack[t]) : stack'[t][k] = stack[t][k]
      BY <2>4 DEF Moves, GetMoves, SendMoves, HandlerMoves, TopIs
    <3>2. Top(t) = stack[t][1] /\ Len(stack[t]) > 0 /\ Len(stack[t]) \in Nat
      BY <1>1, <2>4, Depth
    <3>3. CASE i = 1
      <4> DEFINE b == stack'[t][1]
      <4>1. b.kind = "send" /\ b.at \in {"receive", "take", "wait"} /\ b.msg \in ready
            /\ b.msg = Top(t).msg
        BY <1>2, <1>6, <3>1, <3>3 DEF Receiving
      <4>2. /\ b.at = "receive" => In(t, "send", "receive")'
            /\ b.at = "take" => In(t, "send", "take")'
            /\ b.at = "wait" => In(t, "send", "wait")'
        <5>1. stack'[t] # <<>> /\ Head(stack'[t]) = b
          BY <1>1, <3>1, <3>2 DEF Stacks
        <5> HIDE DEF b
        <5> QED
          BY <4>1, <5>1 DEF In, Active, Top
      <4> HIDE DEF b
      <4>3. ~Popped(t)
        BY <3>1, <3>2 DEF Popped
      <4>4. \/ ReceiveNothing(t) \/ EndReceive(t) \/ StillWaiting(t)
            \/ BeginReceive(t)
        BY <1>1, <4>1, <4>2, <4>3, TopAfter
      <4>5. Top(t).kind = "send" /\ ~StillWaiting(t)
        BY <3>1, <4>1 DEF StillWaiting, b
      <4>6. Receiving(Top(t))
        BY <4>4, <4>5 DEF ReceiveNothing, EndReceive, BeginReceive, In, Receiving
      <4>7. Covered(stack[t], 1)
        BY <2>2, <3>2, <4>1, <4>6
      <4> QED
        BY <4>7 DEF Covered
    <3>4. CASE i # 1
      <4>1. i \in 2..Len(stack[t]) /\ stack'[t][i] = stack[t][i]
        BY <1>1, <1>6, <3>1, <3>4
      <4>2. i \in 1..Len(stack[t])
        BY <4>1
      <4>3. Covered(stack[t], i)
        BY <1>2, <1>6, <2>2, <4>1, <4>2
      <4>4. PICK j \in 1..(i - 1) : Waited(stack[t][j])
        BY <4>3 DEF Covered
      <4>5. CASE j = 1
        <5>1. Waited(stack'[t][1])
          BY <1>1, <2>4, <3>2, <4>4, <4>5, WaitedStays
        <5> QED
          BY <4>5, <5>1 DEF Covered
      <4>6. CASE j # 1
        <5>1. j \in 2..Len(stack[t])
          BY <4>1, <4>6
        <5>2. Waited(stack'[t][j])
          BY <3>1, <4>4, <5>1
        <5> QED
          BY <5>2 DEF Covered
      <4> QED
        BY <4>5, <4>6
    <3> QED
      BY <3>3, <3>4
  <2>5. ASSUME NEW b, Pushed(t, b),
               b.kind = "handler" \/ (b.kind = "send" /\ b.at = "push")
        PROVE  Covered(stack'[t], i)
    <3>1. /\ Len(stack'[t]) = Len(stack[t]) + 1 /\ stack'[t][1] = b
          /\ \A k \in 1..Len(stack[t]) : stack'[t][k + 1] = stack[t][k]
      BY <2>5 DEF Pushed
    <3>2. i # 1
      BY <1>6, <2>5, <3>1 DEF Receiving
    <3>3. i - 1 \in 1..Len(stack[t]) /\ (i - 1) + 1 = i
      BY <1>1, <1>6, <3>1, <3>2
    <3>4. stack'[t][i] = stack[t][i - 1]
      BY <3>1, <3>3
    <3>5. Covered(stack[t], i - 1)
      BY <1>2, <1>6, <2>2, <3>3, <3>4
    <3>6. PICK j \in 1..((i - 1) - 1) : Waited(stack[t][j])
      BY <3>5 DEF Covered
    <3>7. j \in 1..Len(stack[t]) /\ j + 1 \in 1..(i - 1)
      BY <1>1, <3>3
    <3>8. Waited(stack'[t][j + 1])
      BY <3>1, <3>6, <3>7
    <3> QED
      BY <3>7, <3>8 DEF Covered
  <2>6. ASSUME Active(t), Calls(t) PROVE Covered(stack'[t], i)
    <3>1. ASSUME NEW u \in Thread, Pushed(t, Send(u, used + 1))
          PROVE  Covered(stack'[t], i)
      <4> DEFINE b == Send(u, used + 1)
      <4>1. Pushed(t, b) /\ b.kind = "send" /\ b.at = "push"
        BY <3>1 DEF Send
      <4> HIDE DEF b
      <4> QED
        BY <2>5, <4>1
    <3>2. ASSUME Pushed(t, Handler(t, First(t).msg, First(t).from))
          PROVE  Covered(stack'[t], i)
      <4> DEFINE b == Handler(t, First(t).msg, First(t).from)
      <4>1. Pushed(t, b) /\ b.kind = "handler"
        BY <3>2 DEF Handler
      <4> HIDE DEF b
      <4> QED
        BY <2>5, <4>1
    <3> QED
      BY <2>6, <3>1, <3>2 DEF Calls
  <2>7. ASSUME Dispatched(t, Handler(t, Head(msgq[t]), "post")) PROVE FALSE
    <3>1. stack'[t][1].kind = "handler" /\ stack'[t][2].kind = "get"
          /\ Len(stack'[t]) = 2
      BY <2>7 DEF Dispatched, Handler, Get
    <3>2. i = 1 \/ i = 2
      BY <1>1, <1>6, <3>1
    <3> QED
      BY <1>6, <3>1, <3>2 DEF Receiving
  <2>8. ASSUME Active(t), Popped(t) PROVE Covered(stack'[t], i)
    <3>1. /\ Len(stack'[t]) = Len(stack[t]) - 1 /\ Top(t) = stack[t][1]
          /\ \A k \in 1..(Len(stack[t]) - 1) : stack'[t][k] = stack[t][k + 1]
      BY <1>1, <2>8, Depth DEF Popped
    <3>2. i + 1 \in 1..Len(stack[t]) /\ stack'[t][i] = stack[t][i + 1]
      BY <1>1, <1>6, <3>1
    <3>3. Covered(stack[t], i + 1)
      BY <1>2, <1>6, <2>2, <3>2
    <3>4. PICK j \in 1..((i + 1) - 1) : Waited(stack[t][j])
      BY <3>3 DEF Covered
    <3>5. CASE j = 1
      <4>1. Top(t).kind = "send" /\ Top(t).waited
        BY <3>1, <3>4, <3>5 DEF Waited
      <4>2. EndSend(t)
        BY <1>1, <2>8, <4>1, PoppedSend
      <4>3. signaled'[t]
        BY <4>1, <4>2 DEF EndSend, WakeUp
      <4> QED
        BY <1>6, <4>3
    <3>6. CASE j # 1
      <4>1. j - 1 \in 1..(i - 1) /\ j - 1 \in 1..(Len(stack[t]) - 1)
            /\ (j - 1) + 1 = j
        BY <1>1, <3>2, <3>6
      <4>2. Waited(stack'[t][j - 1])
        BY <3>1, <3>4, <4>1
      <4> QED
        BY <4>1, <4>2 DEF Covered
    <3> QED
      BY <3>5, <3>6
  <2>9. Covered(stack'[t], i)
    BY <1>1, <2>3, <2>4, <2>6, <2>7, <2>8, StackSteps
  <2> QED
    BY <1>6, <2>9
<1> QED
  BY <1>3, <1>4, <1>5, <1>6

----------------------------------------------------------------------------
LEMMA WakeInitially == Init => WakeInv
<1> SUFFICES ASSUME Init PROVE WakeInv
  OBVIOUS
<1>1. ready = {} /\ \A t \in Thread : sendlist[t] = <<>>
  BY DEF Init
<1>2. ASSUME NEW t \in Thread
      PROVE  ~In(t, "get", "stopping") /\ ~In(t, "get", "wait")
  <2> DEFINE h == Handler(t, 0, "post")
  <2>1. h.kind = "handler" /\ Get.at = "receive"
    BY DEF Handler, Get
  <2> HIDE DEF h
  <2>2. stack[t] = <<h, Get>> \/ stack[t] = <<Get>>
    BY DEF Init, h
  <2>3. Head(stack[t]) = h \/ Head(stack[t]) = Get
    BY <2>2
  <2> QED
    BY <2>1, <2>3 DEF In, Top
<1> QED
  BY <1>1, <1>2 DEF WakeInv, HasSendsIsSafe, GetSees, AnswerSeen, SentSeen

LEMMA WakeInvariant == Spec => [](SendInv /\ WakeInv)
<1>1. Init => WakeInv
  BY WakeInitially
<1>2. SendInv /\ WakeInv /\ [Next]_vars => WakeInv'
  <2>1. ASSUME SendInv, WakeInv, Next PROVE WakeInv'
    <3>1. PICK t \in Thread : Act(t) \/ Progress(t)
      BY <2>1 DEF Next
    <3>2. TypeInv
      BY <2>1 DEF SendInv
    <3> QED
      BY <2>1, <3>1, <3>2, HasSendsStep, GetSeesStep, AnswerSeenStep, SentSeenStep
         DEF WakeInv
  <2>2. ASSUME SendInv, WakeInv, UNCHANGED vars PROVE WakeInv'
    <3>1. stack' = stack /\ msgq' = msgq /\ sendlist' = sendlist /\ ready' = ready
          /\ hasSends' = hasSends /\ signaled' = signaled /\ stop' = stop
      BY <2>2 DEF vars, queueVars, historyVars
    <3>2. HasSendsIsSafe' /\ GetSees' /\ AnswerSeen'
      BY <2>2, <3>1
         DEF WakeInv, HasSendsIsSafe, GetSees, AnswerSeen, In, Active, Top
    <3>3. SentSeen'
      BY <2>2, <3>1 DEF WakeInv, SentSeen, Received, Waking, In, Active, Top
    <3> QED
      BY <3>2, <3>3 DEF WakeInv
  <2> QED
    BY <2>1, <2>2
<1> QED
  BY <1>1, <1>2, SendInvariant, PTL DEF Spec

\* A thread that waits with nothing to wake it up has nothing to do: nothing was
\* posted or sent to it, it shall not stop and its own Send was not answered; and
\* has_sends_, read without the lock, is never false while something was sent.
THEOREM WakeUpsAreNotLost == Spec => []NoWorkIsMissed
<1>1. SendInv /\ WakeInv => NoWorkIsMissed
  <2> SUFFICES ASSUME SendInv, WakeInv, NEW t \in Thread,
                      Waiting(t), ~signaled[t]
               PROVE  /\ Top(t).kind = "get" => msgq[t] = <<>> /\ ~stop[t]
                      /\ Top(t).kind = "send" => Top(t).msg \notin ready
                      /\ sendlist[t] # <<>> =>
                            \E u \in Thread : In(u, "send", "wake") /\ Top(u).to = t
    BY DEF NoWorkIsMissed, NobodySleepsThroughWork, WakeInv
  <2>1. stack \in Stacks
    BY DEF SendInv, TypeInv, TypeOK, Stacks
  <2>2. Top(t).kind = "get" => msgq[t] = <<>> /\ ~stop[t]
    BY DEF WakeInv, GetSees, Waiting, In
  <2>3. Top(t).kind = "send" => Top(t).msg \notin ready
    <3> SUFFICES ASSUME Top(t).kind = "send", Top(t).msg \in ready PROVE FALSE
      OBVIOUS
    <3>1. Top(t) = stack[t][1] /\ 1 \in 1..Len(stack[t])
      BY <2>1, Depth DEF Waiting, In
    <3>2. Receiving(Top(t))
      BY DEF Waiting, In, Receiving
    <3>3. Covered(stack[t], 1)
      BY <3>1, <3>2 DEF WakeInv, AnswerSeen
    <3> QED
      BY <3>3 DEF Covered
  <2>4. sendlist[t] # <<>> =>
           \E u \in Thread : In(u, "send", "wake") /\ Top(u).to = t
    BY DEF WakeInv, SentSeen, Received, Waiting, Waking
  <2> QED
    BY <2>2, <2>3, <2>4
<1> QED
  BY <1>1, WakeInvariant, PTL
=============================================================================
