-------------------------- MODULE ThreadMessaging --------------------------
(***************************************************************************)
(* Messages between threads: messagequeue.cc, thread.cc and the wake-up    *)
(* event of a thread's socket server (physicalsocketserver.cc).            *)
(*                                                                         *)
(* A thread runs a stack of activities, the innermost first: Get at the    *)
(* bottom; above it the handler of the message Get returned, a Send that   *)
(* handler is waiting in, the handler of a message that was sent to the    *)
(* thread meanwhile, and so on.  Handlers do what they like: they post and *)
(* send messages, destroy handlers and stop other threads, and return.     *)
(* A Send to the thread itself is a call, thus still the same handler.     *)
(*                                                                         *)
(* What the queue's lock protects is one step; has_sends_, fStop_ and the  *)
(* ready flag of a Send are read without it, in steps of their own.        *)
(***************************************************************************)
EXTENDS Queues

CONSTANTS Thread,       \* the threads
          Main,         \* the one that runs code of its own from the start
          MaxMessages,  \* bound: how many messages there are altogether
          Stopping,     \* whether handlers stop threads
          Clearing      \* whether handlers destroy other handlers

ASSUME ThreadAssumption ==
    /\ Main \in Thread
    /\ MaxMessages \in Nat
    /\ Stopping \in BOOLEAN /\ Clearing \in BOOLEAN

VARIABLES
    stack,     \* what the thread is doing, innermost first
    msgq,      \* msgq_
    sendlist,  \* sendlist_
    hasSends,  \* has_sends_
    signaled,  \* the wake-up event of the thread's socket server
    stop,      \* fStop_
    used,      \* how many messages were made; a message is its number
    ready,     \* the Sends whose ready flag was set
    done,      \* the messages whose handler has returned
    cleared    \* the messages whose handler was destroyed before they ran

queueVars   == <<msgq, sendlist, hasSends>>
historyVars == <<done, cleared>>
vars == <<stack, queueVars, signaled, stop, used, ready, historyVars>>

----------------------------------------------------------------------------
(* Activities *)

Message == 1..MaxMessages

\* Sends in sendlist_ name the thread that waits for them.
Sent == [from : Thread, msg : Message]
SentOf(m) == [from : Thread, msg : {m}]

\* MessageQueue::Get, called by Thread::ProcessMessages in a loop.
GetPoint == {"receive", "take", "queues", "stopping", "wait"}

\* Thread::Send after it found fStop_ false.
SendPoint == {"push", "wake", "test", "receive", "take", "wait", "rewake"}

\* A handler; "post" and "join" are inside MessageQueue::Post, which has found
\* fStop_ false and is about to push message new, and Thread::Stop.
HandlerPoint == {"run", "post", "join"}

Activity ==
    [kind : {"get"}, at : GetPoint]
    \cup [kind : {"send"}, at : SendPoint, to : Thread, msg : Message,
          waited : BOOLEAN]
    \cup [kind : {"handler"}, at : HandlerPoint, to : Thread, msg : 0..MaxMessages,
          from : Thread \cup {"post"}, new : 0..MaxMessages]

Get == [kind |-> "get", at |-> "receive"]
Send(u, m) == [kind |-> "send", at |-> "push", to |-> u, msg |-> m,
               waited |-> FALSE]
\* The handler of message m, which a thread is waiting for if it was sent.
Handler(t, m, from) == [kind |-> "handler", at |-> "run", to |-> t, msg |-> m,
                        from |-> from, new |-> 0]

Active(t) == stack[t] # <<>>
Top(t)    == Head(stack[t])
Below(t)  == Tail(stack[t])
In(t, kind, at) == Active(t) /\ Top(t).kind = kind /\ Top(t).at = at

\* The innermost activity goes on at another point.
Goto(t, at) == stack' = [stack EXCEPT ![t][1].at = at]
Call(t, activity) == stack' = [stack EXCEPT ![t] = <<activity>> \o @]

\* SocketServer::WakeUp of every thread in T
WakeUp(T) == signaled' = [t \in Thread |-> t \in T \/ signaled[t]]

----------------------------------------------------------------------------
Init ==
    /\ stack = [t \in Thread |->
                   IF t = Main THEN <<Handler(t, 0, "post"), Get>> ELSE <<Get>>]
    /\ msgq = [t \in Thread |-> <<>>]
    /\ sendlist = [t \in Thread |-> <<>>]
    /\ hasSends = [t \in Thread |-> FALSE]
    /\ signaled = [t \in Thread |-> FALSE]
    /\ stop = [t \in Thread |-> FALSE]
    /\ used = 0
    /\ ready = {} /\ done = {} /\ cleared = {}

----------------------------------------------------------------------------
(* What handlers do *)

\* MessageQueue::Post looks at fStop_ before it takes the lock.
BeginPost(t, u) ==
    /\ In(t, "handler", "run") /\ used < MaxMessages
    /\ ~stop[u]
    /\ used' = used + 1
    /\ stack' = [stack EXCEPT ![t][1] =
                    [@ EXCEPT !.at = "post", !.to = u, !.new = used']]
    /\ UNCHANGED <<queueVars, signaled, stop, ready, historyVars>>

\* Slip: the queue's thread is not woken.
PostSilently(t) ==
    /\ In(t, "handler", "post")
    /\ msgq' = [msgq EXCEPT ![Top(t).to] = Append(@, Top(t).new)]
    /\ stack' = [stack EXCEPT ![t][1] = [@ EXCEPT !.at = "run", !.new = 0]]
    /\ UNCHANGED <<sendlist, hasSends, signaled, stop, used, ready, historyVars>>

Post(t) ==
    /\ In(t, "handler", "post")
    /\ msgq' = [msgq EXCEPT ![Top(t).to] = Append(@, Top(t).new)]
    /\ WakeUp({Top(t).to})
    /\ stack' = [stack EXCEPT ![t][1] = [@ EXCEPT !.at = "run", !.new = 0]]
    /\ UNCHANGED <<sendlist, hasSends, stop, used, ready, historyVars>>

BeginSend(t, u) ==
    /\ In(t, "handler", "run") /\ used < MaxMessages
    /\ u # t /\ ~stop[u]
    /\ used' = used + 1
    /\ Call(t, Send(u, used'))
    /\ UNCHANGED <<queueVars, signaled, stop, ready, historyVars>>

\* MessageQueue::Stop and, for another thread, Join in Thread::Stop.
Stop(t, u) ==
    /\ Stopping
    /\ In(t, "handler", "run") /\ ~stop[u]
    /\ stop' = [stop EXCEPT ![u] = TRUE]
    /\ WakeUp({u})
    /\ stack' = IF u = t THEN stack
                ELSE [stack EXCEPT ![t][1].at = "join", ![t][1].to = u]
    /\ UNCHANGED <<queueVars, used, ready, done, cleared>>

Join(t) ==
    /\ In(t, "handler", "join") /\ ~Active(Top(t).to)
    /\ Goto(t, "run")
    /\ UNCHANGED <<queueVars, signaled, stop, used, ready, historyVars>>

\* Slip: the sender goes on, but its message stays in sendlist_.
ClearUnerased(t, m) ==
    /\ Clearing
    /\ In(t, "handler", "run")
    /\ \E u \in Thread : \/ Has(msgq[u], m)
                        \/ \E s \in SentOf(m) : Has(sendlist[u], s)
    /\ msgq' = [u \in Thread |-> Without(msgq[u], {m})]
    /\ LET senders == {s \in SentOf(m) : \E u \in Thread : Has(sendlist[u], s)}
       IN  /\ ready' = ready \cup {s.msg : s \in senders}
           /\ WakeUp({s.from : s \in senders})
    /\ cleared' = cleared \cup {m}
    /\ UNCHANGED <<stack, sendlist, hasSends, stop, used, done>>

\* The destructor of the handler of m, MessageQueueManager::Clear: Thread::Clear
\* takes it out of the queue, or lets the thread that sent it go on.
Clear(t, m) ==
    /\ Clearing
    /\ In(t, "handler", "run")
    /\ \E u \in Thread : \/ Has(msgq[u], m)
                        \/ \E s \in SentOf(m) : Has(sendlist[u], s)
    /\ msgq' = [u \in Thread |-> Without(msgq[u], {m})]
    /\ sendlist' = [u \in Thread |-> Without(sendlist[u], SentOf(m))]
    /\ LET senders == {s \in SentOf(m) : \E u \in Thread : Has(sendlist[u], s)}
       IN  /\ ready' = ready \cup {s.msg : s \in senders}
           /\ WakeUp({s.from : s \in senders})
    /\ cleared' = cleared \cup {m}
    /\ UNCHANGED <<stack, hasSends, stop, used, done>>

----------------------------------------------------------------------------
(* Thread::ReceiveSends, called at "receive" by Get and Send *)

\* Slip: a Send that waits takes posted messages too.
AfterReceiveQueues(t) == "queues"

\* Where Get or Send goes on.
AfterReceive(t) ==
    IF Top(t).kind = "get" THEN "queues" ELSE "wait"

ReceiveNothing(t) ==
    /\ In(t, "get", "receive") \/ In(t, "send", "receive")
    /\ ~hasSends[t]
    /\ Goto(t, AfterReceive(t))
    /\ UNCHANGED <<queueVars, signaled, stop, used, ready, historyVars>>

BeginReceive(t) ==
    /\ In(t, "get", "receive") \/ In(t, "send", "receive")
    /\ hasSends[t]
    /\ Goto(t, "take")
    /\ UNCHANGED <<queueVars, signaled, stop, used, ready, historyVars>>

\* Slip: the sender is let go before the handler has run.
TakeAnswered(t) ==
    /\ In(t, "get", "take") \/ In(t, "send", "take")
    /\ sendlist[t] # <<>>
    /\ sendlist' = [sendlist EXCEPT ![t] = Tail(@)]
    /\ ready' = ready \cup {Head(sendlist[t]).msg}
    /\ WakeUp({Head(sendlist[t]).from})
    /\ Call(t, Handler(t, Head(sendlist[t]).msg, Head(sendlist[t]).from))
    /\ UNCHANGED <<msgq, hasSends, stop, used, historyVars>>

\* Under the lock: the next message that was sent.
Take(t) ==
    /\ In(t, "get", "take") \/ In(t, "send", "take")
    /\ sendlist[t] # <<>>
    /\ sendlist' = [sendlist EXCEPT ![t] = Tail(@)]
    /\ Call(t, Handler(t, Head(sendlist[t]).msg, Head(sendlist[t]).from))
    /\ UNCHANGED <<msgq, hasSends, signaled, stop, used, ready, historyVars>>

EndReceive(t) ==
    /\ In(t, "get", "take") \/ In(t, "send", "take")
    /\ sendlist[t] = <<>>
    /\ hasSends' = [hasSends EXCEPT ![t] = FALSE]
    /\ Goto(t, AfterReceive(t))
    /\ UNCHANGED <<msgq, sendlist, signaled, stop, used, ready, historyVars>>

\* Slip: the ready flag is set, but the sender is not woken.
ReplySilently(t) ==
    /\ In(t, "handler", "run") /\ Top(t).from # "post"
    /\ done' = done \cup {Top(t).msg}
    /\ ready' = ready \cup {Top(t).msg}
    /\ stack' = [stack EXCEPT ![t] = Tail(@)]
    /\ UNCHANGED <<queueVars, signaled, stop, used, cleared>>

\* OnMessage returns to ReceiveSends, which under the lock lets the sender go
\* on.
Reply(t) ==
    /\ In(t, "handler", "run") /\ Top(t).from # "post"
    /\ done' = done \cup {Top(t).msg}
    /\ ready' = ready \cup {Top(t).msg}
    /\ WakeUp({Top(t).from})
    /\ stack' = [stack EXCEPT ![t] = Tail(@)]
    /\ UNCHANGED <<queueVars, stop, used, cleared>>

\* OnMessage returns to Dispatch, and ProcessMessages calls Get again.
Return(t) ==
    /\ In(t, "handler", "run") /\ Top(t).from = "post"
    /\ done' = done \cup {Top(t).msg}
    /\ stack' = [stack EXCEPT ![t] = Tail(@)]
    /\ UNCHANGED <<queueVars, signaled, stop, used, ready, cleared>>

----------------------------------------------------------------------------
(* MessageQueue::Get *)

Dispatch(t) ==
    /\ In(t, "get", "queues") /\ msgq[t] # <<>>
    /\ msgq' = [msgq EXCEPT ![t] = Tail(@)]
    /\ stack' = [stack EXCEPT ![t] = <<Handler(t, Head(msgq[t]), "post"), Get>>]
    /\ UNCHANGED <<sendlist, hasSends, signaled, stop, used, ready, historyVars>>

NothingPosted(t) ==
    /\ In(t, "get", "queues") /\ msgq[t] = <<>>
    /\ Goto(t, "stopping")
    /\ UNCHANGED <<queueVars, signaled, stop, used, ready, historyVars>>

\* Get returns false, and the thread ends.
Exit(t) ==
    /\ In(t, "get", "stopping") /\ stop[t]
    /\ stack' = [stack EXCEPT ![t] = <<>>]
    /\ UNCHANGED <<queueVars, signaled, stop, used, ready, historyVars>>

GoOn(t) ==
    /\ In(t, "get", "stopping") /\ ~stop[t]
    /\ Goto(t, "wait")
    /\ UNCHANGED <<queueVars, signaled, stop, used, ready, historyVars>>

\* SocketServer::Wait returns when the event is signaled, and resets it.
WaitInGet(t) ==
    /\ In(t, "get", "wait") /\ signaled[t]
    /\ signaled' = [signaled EXCEPT ![t] = FALSE]
    /\ Goto(t, "receive")
    /\ UNCHANGED <<queueVars, stop, used, ready, historyVars>>

----------------------------------------------------------------------------
(* Thread::Send *)

Push(t) ==
    /\ In(t, "send", "push")
    /\ LET s == [from |-> t, msg |-> Top(t).msg]
       IN  sendlist' = [sendlist EXCEPT ![Top(t).to] = Append(@, s)]
    /\ hasSends' = [hasSends EXCEPT ![Top(t).to] = TRUE]
    /\ Goto(t, "wake")
    /\ UNCHANGED <<msgq, signaled, stop, used, ready, historyVars>>

Wake(t) ==
    /\ In(t, "send", "wake")
    /\ WakeUp({Top(t).to})
    /\ Goto(t, "test")
    /\ UNCHANGED <<queueVars, stop, used, ready, historyVars>>

StillWaiting(t) ==
    /\ In(t, "send", "test") /\ Top(t).msg \notin ready
    /\ Goto(t, "receive")
    /\ UNCHANGED <<queueVars, signaled, stop, used, ready, historyVars>>

WaitInSend(t) ==
    /\ In(t, "send", "wait") /\ signaled[t]
    /\ signaled' = [signaled EXCEPT ![t] = FALSE]
    /\ stack' = [stack EXCEPT ![t][1].at = "test", ![t][1].waited = TRUE]
    /\ UNCHANGED <<queueVars, stop, used, ready, historyVars>>

\* Slip: the wake-ups that the loop took from others are not given back.
EndSendSilently(t) ==
    /\ In(t, "send", "test") /\ Top(t).msg \in ready
    /\ stack' = [stack EXCEPT ![t] = Tail(@)]
    /\ UNCHANGED <<queueVars, signaled, stop, used, ready, historyVars>>

\* Send returns; if it has waited it may have taken a wake-up that was meant
\* for an activity below it, and gives it back.
EndSend(t) ==
    /\ In(t, "send", "test") /\ Top(t).msg \in ready
    /\ IF Top(t).waited THEN WakeUp({t}) ELSE UNCHANGED signaled
    /\ stack' = [stack EXCEPT ![t] = Tail(@)]
    /\ UNCHANGED <<queueVars, stop, used, ready, historyVars>>

----------------------------------------------------------------------------
Act(t) ==
    \/ Post(t) \/ Join(t)
    \/ \E u \in Thread : BeginPost(t, u) \/ BeginSend(t, u) \/ Stop(t, u)
    \/ \E m \in Message : Clear(t, m)

\* What a thread does by itself: everything but the choices of its handlers.
Progress(t) ==
    \/ ReceiveNothing(t) \/ BeginReceive(t) \/ Take(t) \/ EndReceive(t)
    \/ Reply(t) \/ Return(t)
    \/ Dispatch(t) \/ NothingPosted(t) \/ Exit(t) \/ GoOn(t) \/ WaitInGet(t)
    \/ Push(t) \/ Wake(t) \/ StillWaiting(t) \/ WaitInSend(t) \/ EndSend(t)
    \/ Post(t) \/ Join(t)

Next == \E t \in Thread : Act(t) \/ Progress(t)

Spec == Init /\ [][Next]_vars

\* Every thread keeps running, and every handler returns.
FairSpec == Spec /\ \A t \in Thread : WF_vars(Progress(t))

----------------------------------------------------------------------------
(* Properties *)

TypeOK ==
    /\ stack \in [Thread -> Seq(Activity)]
    /\ msgq \in [Thread -> Seq(Message)]
    /\ sendlist \in [Thread -> Seq(Sent)]
    /\ hasSends \in [Thread -> BOOLEAN]
    /\ signaled \in [Thread -> BOOLEAN]
    /\ stop \in [Thread -> BOOLEAN]
    /\ used \in 0..MaxMessages
    /\ ready \subseteq Message
    /\ done \subseteq 0..MaxMessages
    /\ cleared \subseteq Message

Waiting(t) == In(t, "get", "wait") \/ In(t, "send", "wait")

\* No wake-up is lost: a thread that waits while there is something for it to
\* do - a posted message for Get, a sent one, the answer to its own Send - has
\* its event signaled, or the thread that pushed is about to signal it.
NobodySleepsThroughWork == \A t \in Thread : Waiting(t) /\ ~signaled[t] =>
    /\ Top(t).kind = "get" => msgq[t] = <<>> /\ ~stop[t]
    /\ Top(t).kind = "send" => Top(t).msg \notin ready
    /\ sendlist[t] # <<>> =>
          \E u \in Thread : In(u, "send", "wake") /\ Top(u).to = t

\* has_sends_ may be read without the lock because it is never false while a
\* message that was sent is waiting.
HasSendsIsSafe == \A t \in Thread : sendlist[t] # <<>> => hasSends[t]

\* What is sent, posted or answered is seen, although flags are read unlocked.
NoWorkIsMissed == NobodySleepsThroughWork /\ HasSendsIsSafe

\* The ready flag lives on the stack of the thread that sends: whoever still
\* refers to it, in a sendlist or in a handler that will answer, finds that
\* thread inside that Send.
ReadyFlagsLive ==
    LET Awaits(u, m) == \E i \in DOMAIN stack[u] :
                            stack[u][i].kind = "send" /\ stack[u][i].msg = m
    IN  /\ \A t \in Thread : \A i \in DOMAIN sendlist[t] :
               Awaits(sendlist[t][i].from, sendlist[t][i].msg)
        /\ \A t \in Thread : \A i \in DOMAIN stack[t] :
               stack[t][i].kind = "handler" /\ stack[t][i].from # "post"
               => Awaits(stack[t][i].from, stack[t][i].msg)

\* A Send that returns was answered or its handler was destroyed, and never
\* both; nothing runs after its handler was destroyed.
SendIsSynchronous ==
    /\ ready \subseteq done \cup cleared
    /\ done \cap cleared = {}

\* Two threads may send to each other, from handlers within handlers: in the end
\* every message is handled, or its handler destroyed, and every Send returns,
\* as long as no thread is stopped (one that is may leave its last messages).
EverythingReturns ==
    []<>( \/ /\ 1..used \subseteq done \cup cleared
             /\ \A t \in Thread : \A i \in DOMAIN stack[t] :
                    stack[t][i].kind # "send"
          \/ \E t \in Thread : stop[t])
=============================================================================
