-------------------------- MODULE XmppSessionProof --------------------------
(***************************************************************************)
(* The stanzas of an XMPP session keep their order, its tasks are served   *)
(* and nothing they wait for is lost, for any set of requests and stanzas  *)
(* and inputs of any length.                                               *)
(***************************************************************************)
EXTENDS XmppSession, QueueTheorems, FiniteSetTheorems

----------------------------------------------------------------------------
(* The pool of tasks *)

States == {"NONE", "INIT", "START", "RESPONSE", "START_XMPP_LOGIN", "DONE",
           "ERROR", "DELETED"}
Gone == {"NONE", "DELETED"}

\* What may lie in the stanza queue of a task.
Takes(t) == {s \in Stanzas :
                \/ t = "manager" /\ s.kind = "set" /\ s.id \in Incoming
                \/ t \in SendTasks /\ s.kind \in {"result", "error"} /\ s.id = t}

TaskRecord(t) == [state : States, blocked : BOOLEAN, done : BOOLEAN,
                  inbox : Seq(Takes(t))]

Tables == {f \in [Task -> UNION {TaskRecord(t) : t \in Task}] :
              \A t \in Task : f[t] \in TaskRecord(t)}

Pools == [of : Tables,
          queue : Seq(Task), at : Nat, did : BOOLEAN, posted : BOOLEAN,
          handlers : SUBSET Children]

LEMMA PoolFields ==
    ASSUME NEW p \in Pools
    PROVE  /\ DOMAIN p.of = Task
           /\ \A t \in Task : p.of[t] \in TaskRecord(t)
           /\ p.queue \in Seq(Task) /\ p.at \in Nat /\ p.did \in BOOLEAN
           /\ p.posted \in BOOLEAN /\ p.handlers \in SUBSET Children
  BY DEF Pools, Tables

LEMMA TaskFields ==
    ASSUME NEW p \in Pools, NEW t \in Task
    PROVE  /\ p.of[t].state \in States /\ p.of[t].blocked \in BOOLEAN
           /\ p.of[t].done \in BOOLEAN /\ p.of[t].inbox \in Seq(Takes(t))
<1>1. p.of[t] \in TaskRecord(t)
  BY PoolFields
<1> QED
  BY <1>1 DEF TaskRecord

LEMMA TableFrom ==
    ASSUME NEW f, f = [t \in Task |-> f[t]], \A t \in Task : f[t] \in TaskRecord(t)
    PROVE  f \in Tables
<1>1. f \in [Task -> UNION {TaskRecord(t) : t \in Task}]
  OBVIOUS
<1> QED
  BY <1>1 DEF Tables

\* One task changes.
LEMMA TableExcept ==
    ASSUME NEW f \in Tables, NEW t \in Task, NEW k \in TaskRecord(t)
    PROVE  /\ [f EXCEPT ![t] = k] \in Tables
           /\ [f EXCEPT ![t] = k][t] = k
           /\ \A u \in Task : u # t => [f EXCEPT ![t] = k][u] = f[u]
<1> DEFINE g == [f EXCEPT ![t] = k]
<1>1. DOMAIN f = Task /\ \A u \in Task : f[u] \in TaskRecord(u)
  BY DEF Tables
<1>2. g[t] = k /\ \A u \in Task : u # t => g[u] = f[u]
  BY <1>1
<1>3. g = [u \in Task |-> g[u]]
  BY <1>1
<1>4. \A u \in Task : g[u] \in TaskRecord(u)
  BY <1>1, <1>2
<1> HIDE DEF g
<1>5. g \in Tables
  BY <1>3, <1>4, TableFrom
<1> QED
  BY <1>2, <1>5 DEF g

LEMMA WakeKeeps ==
    ASSUME NEW p \in Pools, NEW t \in Task
    PROVE  /\ Wake(p, t) \in Pools
           /\ Wake(p, t).queue = p.queue /\ Wake(p, t).at = p.at
           /\ Wake(p, t).did = p.did /\ Wake(p, t).handlers = p.handlers
           /\ p.posted => Wake(p, t).posted
           /\ \A u \in Task :
                 /\ Wake(p, t).of[u].state = p.of[u].state
                 /\ Wake(p, t).of[u].done = p.of[u].done
                 /\ Wake(p, t).of[u].inbox = p.of[u].inbox
                 /\ \/ Wake(p, t).of[u].blocked = p.of[u].blocked
                    \/ Wake(p, t).posted /\ ~p.of[u].done
<1>1. CASE p.of[t].done \/ ~p.of[t].blocked
  BY <1>1 DEF Wake
<1>2. CASE ~(p.of[t].done \/ ~p.of[t].blocked)
  <2> DEFINE q == [p EXCEPT !.of[t].blocked = FALSE, !.posted = TRUE]
             k == [p.of[t] EXCEPT !.blocked = FALSE]
  <2>1. Wake(p, t) = q
    BY <1>2 DEF Wake
  <2>2. /\ q.queue = p.queue /\ q.at = p.at /\ q.did = p.did /\ q.handlers = p.handlers
        /\ q.posted = TRUE /\ q.of = [p.of EXCEPT ![t] = k]
    BY DEF Pools
  <2>3. p.of[t] \in TaskRecord(t)
    BY PoolFields
  <2>4. k \in TaskRecord(t) /\ k.state = p.of[t].state /\ k.done = p.of[t].done
        /\ k.inbox = p.of[t].inbox
    BY <2>3 DEF TaskRecord
  <2> HIDE DEF k
  <2>5. p.of \in Tables
    BY DEF Pools
  <2>6. /\ q.of \in Tables /\ q.of[t] = k
        /\ \A u \in Task : u # t => q.of[u] = p.of[u]
    BY <2>2, <2>4, <2>5, TableExcept
  <2>7. q \in Pools
    BY <2>2, <2>6 DEF Pools
  <2> HIDE DEF q
  <2> QED
    BY <1>2, <2>1, <2>2, <2>4, <2>6, <2>7
<1> QED
  BY <1>1, <1>2

LEMMA LaunchKeeps ==
    ASSUME NEW p \in Pools, NEW e, NEW t \in Children
    PROVE  /\ Launch(p, e, t) \in Pools
           /\ Launch(p, e, t).queue = Append(p.queue, t)
           /\ Launch(p, e, t).at = p.at /\ Launch(p, e, t).did = p.did
           /\ Launch(p, e, t).posted = TRUE
           /\ \A u \in Task : u # t => Launch(p, e, t).of[u] = p.of[u]
<1> DEFINE q == Launch(p, e, t)
<1>1. t \in Task
  BY DEF Task
<1>2. NewTask \in TaskRecord(t)
  BY DEF NewTask, TaskRecord, States
<1>3. /\ q.queue = Append(p.queue, t) /\ q.at = p.at /\ q.did = p.did /\ q.posted = TRUE
      /\ q.handlers = IF e.state = "CLOSED" THEN p.handlers ELSE p.handlers \cup {t}
      /\ q.of = [p.of EXCEPT ![t] = NewTask]
      /\ q = [of |-> q.of, queue |-> q.queue, at |-> q.at, did |-> q.did,
              posted |-> q.posted, handlers |-> q.handlers]
  <2> DEFINE h == IF e.state = "CLOSED" THEN p.handlers ELSE p.handlers \cup {t}
             f == [p.of EXCEPT ![t] = NewTask]
  <2>1. q = [p EXCEPT !.of = f, !.handlers = h, !.queue = Append(p.queue, t),
                      !.posted = TRUE]
    BY DEF Launch, StartTask, Pools
  <2> HIDE DEF f, h, q
  <2>2. /\ q.queue = Append(p.queue, t) /\ q.at = p.at /\ q.did = p.did
        /\ q.posted = TRUE /\ q.handlers = h /\ q.of = f
        /\ q = [of |-> q.of, queue |-> q.queue, at |-> q.at, did |-> q.did,
                posted |-> q.posted, handlers |-> q.handlers]
    BY <2>1 DEF Pools
  <2> QED
    BY <2>2 DEF f, h
<1>4. p.of \in Tables
  BY DEF Pools
<1>5. /\ q.of \in Tables /\ q.of[t] = NewTask
      /\ \A u \in Task : u # t => q.of[u] = p.of[u]
  BY <1>1, <1>2, <1>3, <1>4, TableExcept
<1>6. q.queue \in Seq(Task) /\ q.handlers \in SUBSET Children
  BY <1>1, <1>3, PoolFields
<1>7. q \in Pools
  BY <1>3, <1>5, <1>6 DEF Pools
<1> HIDE DEF q
<1> QED
  BY <1>3, <1>5, <1>7 DEF q

LEMMA Launched ==
    ASSUME NEW p \in Pools, NEW e, NEW t \in Children
    PROVE  /\ Launch(p, e, t).of[t] = NewTask
           /\ Launch(p, e, t).handlers \subseteq p.handlers \cup {t}
<1>1. DOMAIN p.of = Task /\ t \in Task
  BY PoolFields DEF Task
<1> QED
  BY <1>1 DEF Launch, StartTask, Pools

LEMMA LaunchedOthers ==
    ASSUME NEW p \in Pools, NEW e, NEW t \in Children, NEW u \in Task, u # t
    PROVE  Launch(p, e, t).of[u] = p.of[u]
<1>1. DOMAIN p.of = Task /\ t \in Task
  BY PoolFields DEF Task
<1> QED
  BY <1>1 DEF Launch, StartTask, Pools

LEMMA AbortKeeps ==
    ASSUME NEW p \in Pools
    PROVE  /\ AbortAllChildren(p) \in Pools
           /\ AbortAllChildren(p).queue = p.queue
           /\ AbortAllChildren(p).at = p.at /\ AbortAllChildren(p).did = p.did
           /\ AbortAllChildren(p).posted = p.posted
           /\ AbortAllChildren(p).handlers \subseteq p.handlers
           /\ \A t \in p.handlers : p.of[t].state \notin Gone /\ ~p.of[t].done
                 => t \notin AbortAllChildren(p).handlers
           /\ AbortAllChildren(p).of["client"] = p.of["client"]
           /\ \A t \in Children :
                 /\ AbortAllChildren(p).of[t].state = p.of[t].state
                 /\ p.of[t].state \notin Gone => AbortAllChildren(p).of[t].done
                 /\ \/ AbortAllChildren(p).of[t] = p.of[t]
                    \/ AbortAllChildren(p).of[t].blocked
<1> DEFINE q == AbortAllChildren(p)
           G == {t \in Children : p.of[t].state \notin Gone /\ ~p.of[t].done}
<1>1. /\ q.queue = p.queue /\ q.at = p.at /\ q.did = p.did /\ q.posted = p.posted
      /\ q.handlers = p.handlers \ G
      /\ q.of = [t \in Task |-> IF t \in G
                                THEN [p.of[t] EXCEPT !.done = TRUE,
                                         !.blocked = TRUE, !.inbox = <<>>]
                                ELSE p.of[t]]
      /\ q = [of |-> q.of, queue |-> q.queue, at |-> q.at, did |-> q.did,
              posted |-> q.posted, handlers |-> q.handlers]
  <2> DEFINE f == [t \in Task |-> IF t \in G
                                 THEN [p.of[t] EXCEPT !.done = TRUE,
                                          !.blocked = TRUE, !.inbox = <<>>]
                                 ELSE p.of[t]]
             h == p.handlers \ G
  <2>1. q = [p EXCEPT !.of = f, !.handlers = h]
    BY DEF AbortAllChildren, Gone
  <2> HIDE DEF f, h, q
  <2>2. /\ q.queue = p.queue /\ q.at = p.at /\ q.did = p.did
        /\ q.posted = p.posted /\ q.handlers = h /\ q.of = f
        /\ q = [of |-> q.of, queue |-> q.queue, at |-> q.at, did |-> q.did,
                posted |-> q.posted, handlers |-> q.handlers]
    BY <2>1 DEF Pools
  <2> QED
    BY <2>2 DEF f, h
<1>2. \A t \in Task : p.of[t] \in TaskRecord(t)
  BY PoolFields
<1>3. ASSUME NEW t \in Task
      PROVE  /\ q.of[t] \in TaskRecord(t)
             /\ t \notin G => q.of[t] = p.of[t]
             /\ t \in G => /\ q.of[t].done /\ q.of[t].blocked
                           /\ q.of[t].state = p.of[t].state
  <2>1. CASE t \in G
    <3>1. q.of[t] = [p.of[t] EXCEPT !.done = TRUE, !.blocked = TRUE, !.inbox = <<>>]
      BY <1>1, <2>1
    <3>2. <<>> \in Seq(Takes(t))
      OBVIOUS
    <3> QED
      BY <1>2, <2>1, <3>1, <3>2 DEF TaskRecord
  <2>2. CASE t \notin G
    <3>1. q.of[t] = p.of[t]
      BY <1>1, <2>2
    <3> QED
      BY <1>2, <2>2, <3>1
  <2> QED
    BY <2>1, <2>2
<1>4. q.of \in Tables
  <2>1. q.of = [t \in Task |-> q.of[t]]
    BY <1>1
  <2> QED
    BY <1>3, <2>1, TableFrom
<1>5. q \in Pools
  <2>1. q.handlers \in SUBSET Children
    BY <1>1, PoolFields
  <2> QED
    BY <1>1, <1>4, <2>1, PoolFields DEF Pools
<1>6. "client" \in Task /\ "client" \notin Children /\ Children \subseteq Task
  BY XmppSessionAssumption DEF Task, Children, SendTasks
<1>7. ASSUME NEW t \in Children, p.of[t].state \notin Gone PROVE q.of[t].done
  BY <1>3, <1>6, <1>7
<1>8. ASSUME NEW t \in p.handlers, p.of[t].state \notin Gone, ~p.of[t].done
      PROVE  t \notin q.handlers
  BY <1>1, <1>8, PoolFields
<1>9. q.of["client"] = p.of["client"]
  BY <1>3, <1>6
<1> HIDE DEF q
<1> QED
  BY ZenonT(80), <1>1, <1>3, <1>5, <1>6, <1>7, <1>8, <1>9 DEF q

LEMMA QueueKeeps ==
    ASSUME NEW p \in Pools, NEW t \in Task, NEW s \in Takes(t)
    PROVE  [p EXCEPT !.of[t].inbox = Append(@, s)] \in Pools
<1> DEFINE q == [p EXCEPT !.of[t].inbox = Append(@, s)]
           k == [p.of[t] EXCEPT !.inbox = Append(p.of[t].inbox, s)]
<1>1. p.of \in Tables /\ p.of[t] \in TaskRecord(t)
  BY PoolFields DEF Pools
<1>2. q.of = [p.of EXCEPT ![t] = k]
  BY DEF Pools
<1>3. k \in TaskRecord(t)
  BY SMTT(40), <1>1 DEF TaskRecord
<1> HIDE DEF k
<1>4. q.of \in Tables
  BY <1>1, <1>2, <1>3, TableExcept
<1> QED
  BY <1>4 DEF Pools


\* A step after which the task goes on or waits.
LEMMA SteppedOn ==
    ASSUME NEW p \in Pools, NEW t \in Task,
           NEW state \in (States \cup {"BLOCKED"}) \ {"DONE", "ERROR"}
    PROVE  /\ Stepped(p, t, state) \in Pools
           /\ Stepped(p, t, state).queue = p.queue
           /\ Stepped(p, t, state).at = p.at
           /\ Stepped(p, t, state).posted = p.posted
           /\ Stepped(p, t, state).handlers = p.handlers
           /\ Stepped(p, t, state).did
           /\ Stepped(p, t, state).of[t].state =
                  IF state = "BLOCKED" THEN p.of[t].state ELSE state
           /\ Stepped(p, t, state).of[t].done = p.of[t].done
           /\ Stepped(p, t, state).of[t].inbox = p.of[t].inbox
           /\ \A u \in Task : u # t => Stepped(p, t, state).of[u] = p.of[u]
<1> DEFINE q == Stepped(p, t, state)
           k == IF state = "BLOCKED" THEN [p.of[t] EXCEPT !.blocked = TRUE]
                ELSE [p.of[t] EXCEPT !.state = state, !.blocked = FALSE]
           f == [p.of EXCEPT ![t] = k]
<1>1. p.of \in Tables /\ p.of[t] \in TaskRecord(t)
  BY PoolFields DEF Pools
<1>2. q = [p EXCEPT !.did = TRUE, !.of = f]
  <2>1. CASE state = "BLOCKED"
    BY <2>1 DEF Stepped, Pools
  <2>2. CASE state # "BLOCKED"
    BY ZenonT(80), <2>2 DEF Stepped, Pools
  <2> QED
    BY <2>1, <2>2
<1>3. k \in TaskRecord(t) /\ k.done = p.of[t].done /\ k.inbox = p.of[t].inbox
      /\ k.state = IF state = "BLOCKED" THEN p.of[t].state ELSE state
  <2>1. CASE state = "BLOCKED"
    BY <1>1, <2>1 DEF TaskRecord
  <2>2. CASE state # "BLOCKED"
    BY <1>1, <2>2 DEF TaskRecord
  <2> QED
    BY <2>1, <2>2
<1> HIDE DEF k
<1>4. f \in Tables /\ f[t] = k /\ \A u \in Task : u # t => f[u] = p.of[u]
  BY <1>1, <1>3, TableExcept
<1> HIDE DEF f, q
<1>5. /\ q \in Pools /\ q.queue = p.queue /\ q.at = p.at /\ q.posted = p.posted
      /\ q.handlers = p.handlers /\ q.did = TRUE /\ q.of = f
  BY <1>2, <1>4 DEF Pools
<1> QED
  BY <1>3, <1>4, <1>5 DEF q

\* It does nothing to the other tasks, unless it ends the client.
LEMMA SteppedOthers ==
    ASSUME NEW p \in Pools, NEW t \in Task, t # "client",
           NEW state \in {"DONE", "ERROR"}, NEW u \in Task, u # t
    PROVE  Stepped(p, t, state).of[u] = p.of[u]
<1>1. DOMAIN p.of = Task
  BY PoolFields
<1> QED
  BY <1>1 DEF Stepped, Stop, Pools

\* The step that ends a task; with the client its children end.
LEMMA SteppedEnd ==
    ASSUME NEW p \in Pools, NEW t \in Task, NEW state \in {"DONE", "ERROR"}
    PROVE  /\ Stepped(p, t, state) \in Pools
           /\ Stepped(p, t, state).queue = p.queue
           /\ Stepped(p, t, state).at = p.at
           /\ Stepped(p, t, state).posted = p.posted
           /\ Stepped(p, t, state).did
           /\ Stepped(p, t, state).handlers \subseteq p.handlers
           /\ Stepped(p, t, state).of[t].state = state
           /\ Stepped(p, t, state).of[t].done
           /\ Stepped(p, t, state).of[t].blocked
           /\ t # "client" => t \notin Stepped(p, t, state).handlers
           /\ t = "client" =>
                 /\ \A u \in p.handlers : p.of[u].state \notin Gone /\ ~p.of[u].done
                       => u \notin Stepped(p, t, state).handlers
                 /\ \A u \in Children :
                       /\ Stepped(p, t, state).of[u].state = p.of[u].state
                       /\ p.of[u].state \notin Gone => Stepped(p, t, state).of[u].done
                       /\ \/ Stepped(p, t, state).of[u] = p.of[u]
                          \/ Stepped(p, t, state).of[u].blocked
<1> DEFINE q == Stepped(p, t, state)
           k == [p.of[t] EXCEPT !.state = state, !.done = TRUE, !.blocked = TRUE]
           f == [p.of EXCEPT ![t] = k]
           r == [p EXCEPT !.did = TRUE, !.of = f]
<1>1. p.of \in Tables /\ p.of[t] \in TaskRecord(t)
  BY PoolFields DEF Pools
<1>2. k \in TaskRecord(t) /\ k.state = state /\ k.done = TRUE /\ k.blocked = TRUE
      /\ k.inbox = p.of[t].inbox
  BY <1>1 DEF TaskRecord, States
<1>3. q = Stop(r, t)
  <2> DEFINE d == [p EXCEPT !.did = TRUE]
             e == [d EXCEPT !.of[t].state = state, !.of[t].done = TRUE,
                            !.of[t].blocked = TRUE]
  <2>1. q = Stop(e, t)
    BY DEF Stepped
  <2>2. e = r
    <3>1. /\ p = [of |-> p.of, queue |-> p.queue, at |-> p.at, did |-> p.did,
                  posted |-> p.posted, handlers |-> p.handlers]
          /\ DOMAIN p.of = Task
      BY PoolFields DEF Pools
    <3>2. d.of = p.of
      BY <3>1
    <3>3. e = [d EXCEPT !.of = f]
      BY <3>2
    <3> QED
      BY <3>1, <3>3
  <2> HIDE DEF e, r
  <2> QED
    BY <2>1, <2>2
<1> HIDE DEF k
<1>4. f \in Tables /\ f[t] = k /\ \A u \in Task : u # t => f[u] = p.of[u]
  BY <1>1, <1>2, TableExcept
<1> HIDE DEF f
<1>5. /\ r \in Pools /\ r.queue = p.queue /\ r.at = p.at /\ r.posted = p.posted
      /\ r.handlers = p.handlers /\ r.did = TRUE /\ r.of = f
  BY <1>4 DEF Pools
<1> HIDE DEF r, q
<1>6. "client" \in Task /\ "client" \notin Children /\ Children \subseteq Task
  BY XmppSessionAssumption DEF Task, Children, SendTasks
<1>7. CASE t = "client"
  <2>1. q = AbortAllChildren(r)
    BY <1>3, <1>7 DEF Stop
  <2>2. \A u \in Children : r.of[u] = p.of[u]
    BY <1>4, <1>5, <1>6, <1>7
  <2>3. r.of["client"] = k
    BY <1>4, <1>5, <1>7
  <2>4. p.handlers \in SUBSET Children
    BY PoolFields
  <2>5. /\ q \in Pools /\ q.queue = r.queue /\ q.at = r.at /\ q.did = r.did
        /\ q.posted = r.posted /\ q.handlers \subseteq r.handlers
        /\ \A u \in r.handlers : r.of[u].state \notin Gone /\ ~r.of[u].done
              => u \notin q.handlers
        /\ q.of["client"] = r.of["client"]
        /\ \A u \in Children :
              /\ q.of[u].state = r.of[u].state
              /\ r.of[u].state \notin Gone => q.of[u].done
              /\ q.of[u] = r.of[u] \/ q.of[u].blocked
    BY <1>5, <2>1, AbortKeeps
  <2>6. \A u \in p.handlers : p.of[u].state \notin Gone /\ ~p.of[u].done
              => u \notin q.handlers
    BY <1>5, <2>2, <2>4, <2>5
  <2>7. q.of[t].state = state /\ q.of[t].done /\ q.of[t].blocked
    BY <1>2, <1>7, <2>3, <2>5
  <2>8. /\ q.queue = p.queue /\ q.at = p.at /\ q.posted = p.posted /\ q.did
        /\ q.handlers \subseteq p.handlers
    BY <1>5, <2>5
  <2>9. \A u \in Children :
              /\ q.of[u].state = p.of[u].state
              /\ p.of[u].state \notin Gone => q.of[u].done
              /\ q.of[u] = p.of[u] \/ q.of[u].blocked
    BY <2>2, <2>5
  <2> QED
    BY <1>7, <2>5, <2>6, <2>7, <2>8, <2>9 DEF q
<1>8. CASE t # "client"
  <2> DEFINE l == [k EXCEPT !.inbox = <<>>]
             g == [f EXCEPT ![t] = l]
  <2>1. q = [r EXCEPT !.of[t].inbox = <<>>, !.handlers = @ \ {t}]
    BY <1>3, <1>8 DEF Stop
  <2>2. q = [r EXCEPT !.of = g, !.handlers = p.handlers \ {t}]
    BY <1>4, <1>5, <2>1 DEF Pools
  <2>3. l \in TaskRecord(t) /\ l.state = state /\ l.done = TRUE /\ l.blocked = TRUE
    <3>1. <<>> \in Seq(Takes(t))
      OBVIOUS
    <3> QED
      BY <1>2, <3>1 DEF TaskRecord
  <2> HIDE DEF l
  <2>4. g \in Tables /\ g[t] = l /\ \A u \in Task : u # t => g[u] = f[u]
    BY <1>4, <2>3, TableExcept
  <2> HIDE DEF g
  <2>5. p.handlers \ {t} \in SUBSET Children
    BY PoolFields
  <2>6. /\ q \in Pools /\ q.queue = p.queue /\ q.at = p.at /\ q.posted = p.posted
        /\ q.handlers = p.handlers \ {t} /\ q.did = TRUE /\ q.of = g
    BY <1>5, <2>2, <2>4, <2>5 DEF Pools
  <2> QED
    BY <1>4, <1>8, <2>3, <2>4, <2>6 DEF q
<1> QED
  BY <1>7, <1>8

----------------------------------------------------------------------------
(* What is written and what is pending *)

LEMMA HandedSeq ==
    ASSUME NEW w \in Seq(Stanzas)
    PROVE  Handed(w) \in Seq(Stanzas)
  BY WithoutHas DEF Handed

LEMMA HandedConcat ==
    ASSUME NEW v \in Seq(Stanzas), NEW w \in Seq(Stanzas)
    PROVE  Handed(v \o w) = Handed(v) \o Handed(w)
  BY WithoutConcat DEF Handed

LEMMA HandedOne ==
    ASSUME NEW s
    PROVE  Handed(<<s>>) = IF s \in Own THEN <<>> ELSE <<s>>
  BY WithoutOne DEF Handed

LEMMA HandedNone == Handed(<<>>) = <<>> /\ <<>> \in Seq(Stanzas)
<1>1. Handed(<<>>) = <<>>
  BY WithoutOne DEF Handed
<1>2. <<>> \in Seq(Stanzas)
  OBVIOUS
<1> QED
  BY <1>1, <1>2

LEMMA HandedTail ==
    ASSUME NEW w \in Seq(Stanzas), w # <<>>
    PROVE  /\ Head(w) \in Own => Handed(w) = Handed(Tail(w))
           /\ Head(w) \notin Own =>
                 /\ Handed(w) # <<>> /\ Handed(Tail(w)) = Tail(Handed(w))
  BY WithoutTail DEF Handed

\* What is pending in the engine e when w is written: what is written comes
\* first, and what the login holds back follows unless it was given up.
Follows(pend, w, e) ==
    \E rest \in Seq(Stanzas) : /\ pend = Handed(w) \o rest
                               /\ e.error \/ rest = Handed(e.queued)

\* The login writes something of its own.
LEMMA FollowsOwn ==
    ASSUME NEW pend, NEW w \in Seq(Stanzas), NEW e, Follows(pend, w, e),
           NEW s \in Own \cap Stanzas
    PROVE  Follows(pend, w \o <<s>>, e)
<1> DEFINE one == <<s>>
<1>1. one \in Seq(Stanzas) /\ Handed(one) = <<>>
  BY HandedOne
<1> HIDE DEF one
<1>2. Handed(w \o one) = Handed(w) \o <<>>
  BY <1>1, HandedConcat
<1>3. Handed(w) \in Seq(Stanzas)
  BY HandedSeq
<1>4. Handed(w \o one) = Handed(w)
  BY <1>2, <1>3
<1> QED
  BY <1>4 DEF Follows, one

\* A stanza is written at once when the login holds back nothing.
LEMMA FollowsWritten ==
    ASSUME NEW pend, NEW w \in Seq(Stanzas), NEW e, Follows(pend, w, e),
           ~e.error, e.queued = <<>>, NEW s \in Stanzas, s \notin Own
    PROVE  Follows(Append(pend, s), w \o <<s>>, e)
<1> DEFINE one == <<s>>
           h == Handed(w)
<1>1. one \in Seq(Stanzas) /\ Handed(one) = one
  BY HandedOne
<1>2. h \in Seq(Stanzas)
  BY HandedSeq
<1>3. \A q \in Seq(Stanzas) : Append(q, s) = q \o one /\ q \o <<>> = q
  OBVIOUS
<1>4. Handed(<<>>) = <<>> /\ <<>> \in Seq(Stanzas)
  BY HandedNone
<1>5. pend = h
  BY <1>2, <1>3, <1>4 DEF Follows
<1> HIDE DEF one
<1>6. Handed(w \o one) = h \o one
  BY <1>1, HandedConcat
<1>7. h \o one \in Seq(Stanzas)
  BY <1>1, <1>2
<1> HIDE DEF h
<1>8. Append(pend, s) = Handed(w \o one) \o <<>>
  BY <1>2, <1>3, <1>5, <1>6, <1>7
<1> QED
  BY <1>4, <1>8 DEF Follows, one

\* The login holds a stanza back.
LEMMA FollowsHeld ==
    ASSUME NEW pend, NEW w \in Seq(Stanzas), NEW e, NEW f, Follows(pend, w, e),
           ~e.error, e.queued \in Seq(Stanzas), NEW s \in Stanzas, s \notin Own,
           f.queued = Append(e.queued, s)
    PROVE  Follows(Append(pend, s), w, f)
<1> DEFINE one == <<s>>
           h == Handed(w)
           k == Handed(e.queued)
<1>1. one \in Seq(Stanzas) /\ Handed(one) = one
  BY HandedOne
<1>2. h \in Seq(Stanzas) /\ k \in Seq(Stanzas)
  BY HandedSeq
<1>3. \A q \in Seq(Stanzas) : Append(q, s) = q \o one
  OBVIOUS
<1>4. pend = h \o k
  BY DEF Follows
<1> HIDE DEF one
<1>5. Handed(f.queued) = k \o one
  <2> DEFINE d == e.queued
  <2>1. f.queued = d \o one /\ d \in Seq(Stanzas)
    BY <1>3
  <2>2. Handed(d \o one) = Handed(d) \o Handed(one)
    <3> HIDE DEF d
    <3> QED
      BY <1>1, <2>1, HandedConcat
  <2> QED
    BY <1>1, <2>1, <2>2
<1> HIDE DEF h, k
<1>6. k \o one \in Seq(Stanzas) /\ h \o k \in Seq(Stanzas)
  BY <1>1, <1>2
<1>7. (h \o k) \o one = h \o (k \o one)
  BY SMTT(60), <1>1, <1>2
<1>8. Append(pend, s) = h \o (k \o one)
  BY <1>3, <1>4, <1>6, <1>7
<1> QED
  BY <1>5, <1>6, <1>8 DEF Follows, h

\* The login ends and writes what it holds.
LEMMA FollowsFlushed ==
    ASSUME NEW pend, NEW w \in Seq(Stanzas), NEW e, NEW f, Follows(pend, w, e),
           ~e.error, e.queued \in Seq(Stanzas), f.queued = <<>>
    PROVE  Follows(pend, w \o e.queued, f)
<1> DEFINE h == Handed(w)
           k == Handed(e.queued)
<1>1. h \in Seq(Stanzas) /\ k \in Seq(Stanzas)
  BY HandedSeq
<1>2. pend = h \o k
  BY DEF Follows
<1>3. Handed(w \o e.queued) = h \o k
  BY HandedConcat
<1>4. Handed(f.queued) = <<>> /\ <<>> \in Seq(Stanzas)
  BY HandedNone
<1> HIDE DEF h, k
<1>5. pend = Handed(w \o e.queued) \o <<>>
  BY <1>1, <1>2, <1>3
<1> QED
  BY <1>4, <1>5 DEF Follows

\* The server takes what was written first.
LEMMA FollowsTaken ==
    ASSUME NEW pend, NEW w \in Seq(Stanzas), w # <<>>, NEW e, Follows(pend, w, e)
    PROVE  /\ Head(w) \in Own => Follows(pend, Tail(w), e)
           /\ Head(w) \notin Own => pend # <<>> /\ Follows(Tail(pend), Tail(w), e)
<1>1. PICK rest \in Seq(Stanzas) : /\ pend = Handed(w) \o rest
                                   /\ e.error \/ rest = Handed(e.queued)
  BY DEF Follows
<1>2. Handed(w) \in Seq(Stanzas)
  BY HandedSeq
<1>3. CASE Head(w) \in Own
  BY <1>1, <1>3, HandedTail DEF Follows
<1>4. CASE Head(w) \notin Own
  <2> DEFINE h == Handed(w)
  <2>1. h # <<>> /\ Handed(Tail(w)) = Tail(h)
    BY <1>4, HandedTail
  <2> HIDE DEF h
  <2>2. h \in Seq(Stanzas)
    BY <1>2 DEF h
  <2>3. h \o rest # <<>> /\ Tail(h \o rest) = Tail(h) \o rest
    <3>1. h = <<Head(h)>> \o Tail(h) /\ Tail(h) \in Seq(Stanzas) /\ Head(h) \in Stanzas
      BY <2>1, <2>2
    <3> QED
      BY <2>1, <2>2, <3>1
  <2> QED
    BY <1>1, <1>4, <2>1, <2>3 DEF Follows, h
<1> QED
  BY <1>3, <1>4

----------------------------------------------------------------------------
(* The invariant of the stanzas *)

EngineStates == {"START", "OPENING", "OPEN", "CLOSED"}
Logins == {"none", "INIT", "STREAMSTART_SENT", "STARTED_XMPP", "TLS_REQUESTED",
           "SASL_RUNNING", "BIND_REQUESTED", "SESSION_REQUESTED"}
Engines == [state : EngineStates, error : BOOLEAN, auth : BOOLEAN, tls : BOOLEAN,
            encrypted : BOOLEAN, queued : Seq(Stanzas), login : Logins]
Inputs == [left : Nat, entry : {"none", "OPENING", "OPEN"},
           output : Seq(Stanzas), reset : BOOLEAN]
Socks == {"none", "CLOSED", "CONNECTING", "OPEN", "TLS_CONNECTING", "TLS_OPEN"}
Pumps == {"NONE", "START", "OPENING", "OPEN", "CLOSED"}

\* What is read; the requests are those of peers.
Read == Offered \cup {s \in Stanzas : s.kind = "set" => s.id \in Incoming}

Typed ==
    /\ eng \in Engines /\ input \in Inputs /\ sock \in Socks
    /\ up \in Seq(Stanzas) /\ down \in Seq(Read)
    /\ lost \in BOOLEAN /\ pump \in Pumps /\ signalClosed \in BOOLEAN
    /\ pool \in Pools
    /\ accepted \subseteq Raw \cup SendTasks
    /\ pending \in Seq({s \in Stanzas : s.id \in accepted})
    /\ told \in [Requests -> {"none", "result", "error"}]

\* HandleInput runs by itself, with an engine that was open when it began.
InputFits ==
    /\ input.left <= Len(down)
    /\ input.entry = "none" => input = NoInput
    /\ pool.at > 0 => input.entry = "none"
    /\ input.entry # "none" => eng.error \/ eng.state \in {"OPENING", "OPEN"}
    /\ eng.error => eng.state = "CLOSED"

\* The login holds stanzas back as long as it runs, and what was taken
\* follows what was written, also when the engine is closed.
Ordered ==
    /\ lost => up = <<>>
    /\ eng.login = "none" => eng.queued = <<>>
    /\ ~lost => Follows(pending, up \o input.output, eng)

XmppInv == Typed /\ InputFits /\ Ordered

LEMMA InitHolds == Init => XmppInv
<1> SUFFICES ASSUME Init PROVE XmppInv
  OBVIOUS
<1> USE DEF Init
<1>1. <<>> \in Seq(Stanzas) /\ <<>> \in Seq(Read) /\ <<>> \in Seq(Task)
      /\ <<>> \in Seq({s \in Stanzas : s.id \in accepted})
  OBVIOUS
<1>2. pool \in Pools
  <2>1. ASSUME NEW t \in Task PROVE pool.of[t] \in TaskRecord(t)
    <3>1. <<>> \in Seq(Takes(t))
      OBVIOUS
    <3>2. CASE t = "client"
      <4>1. pool.of[t] = NewTask
        BY <3>2
      <4>2. NewTask \in TaskRecord(t)
        <5> HIDE DEF Init
        <5> QED
          BY <3>1 DEF NewTask, TaskRecord, States
      <4> QED
        BY <4>1, <4>2
    <3>3. CASE t # "client"
      <4>1. pool.of[t] = NoTask
        BY <3>3
      <4> QED
        BY <3>1, <4>1 DEF NewTask, NoTask, TaskRecord, States
    <3> QED
      BY <3>2, <3>3
  <2>2. pool.of = [t \in Task |-> pool.of[t]]
    OBVIOUS
  <2>3. pool.of \in Tables
    BY <2>1, <2>2, TableFrom
  <2> QED
    BY <1>1, <2>3 DEF Pools
<1>3. Typed
  BY <1>1, <1>2 DEF Typed, NewEngine, Engines, EngineStates, Logins, NoInput,
                    Inputs, Socks, Pumps
<1>4. InputFits
  BY <1>1 DEF InputFits, NoInput, NewEngine
<1>5. Ordered
  <2>1. Handed(<<>>) = <<>> /\ <<>> \in Seq(Stanzas)
    BY HandedNone
  <2>2. <<>> \o <<>> = <<>>
    OBVIOUS
  <2>3. up \o input.output = <<>> /\ pending = <<>> /\ eng.queued = <<>>
    BY <2>2 DEF NoInput, NewEngine
  <2>4. Follows(pending, up \o input.output, eng)
    BY <2>1, <2>2, <2>3 DEF Follows
  <2> QED
    BY <2>4 DEF Ordered, NewEngine
<1> QED
  BY <1>3, <1>4, <1>5 DEF XmppInv

\* A step of the tasks that writes nothing.
LEMMA TasksKeep ==
    ASSUME XmppInv, pool' \in Pools, pool'.at > 0 => input.entry = "none",
           UNCHANGED <<eng, input, up, down, lost, accepted, pending>>,
           sock' \in Socks, pump' \in Pumps, signalClosed' \in BOOLEAN,
           told' \in [Requests -> {"none", "result", "error"}]
    PROVE  XmppInv'
<1>1. Typed'
  BY DEF XmppInv, Typed
<1>2. InputFits'
  BY DEF XmppInv, InputFits
<1>3. Ordered'
  <2>1. Follows(pending, up \o input.output, eng)' =
            Follows(pending, up \o input.output, eng)
    BY DEF Follows
  <2> QED
    BY <2>1 DEF XmppInv, Ordered
<1> QED
  BY <1>1, <1>2, <1>3 DEF XmppInv

\* What the end of an EnterExit leaves.
LEMMA LeaveKeeps ==
    ASSUME XmppInv, NEW e \in Engines, NEW entry, NEW output \in Seq(Stanzas),
           NEW s \in Socks, NEW p \in Pools, Leave(e, entry, output, s, p)
    PROVE  /\ eng' = e /\ up' = IF lost THEN up ELSE up \o output
           /\ up' \in Seq(Stanzas)
           /\ sock' \in Socks /\ pump' \in Pumps /\ signalClosed' \in BOOLEAN
           /\ pool' \in Pools /\ pool'.at = p.at
<1>1. /\ eng' = e /\ up' = IF lost THEN up ELSE up \o output
      /\ up \in Seq(Stanzas) /\ pump \in Pumps /\ signalClosed \in BOOLEAN
  BY DEF Leave, XmppInv, Typed
<1>2. sock' \in Socks
  BY DEF Leave, Closed, Socks
<1>3. up' \in Seq(Stanzas)
  BY <1>1
<1>4. CASE e.state # entry
  <2>1. OnStateChange(e, p)
    BY <1>4 DEF Leave
  <2>2. pump' \in Pumps /\ signalClosed' \in BOOLEAN
    BY <1>1, <2>1 DEF OnStateChange, EnsureClosed, Engines, EngineStates, Pumps
  <2> DEFINE q == IF e.state = "OPEN" THEN Launch(p, e, "manager") ELSE p
  <2>3. "manager" \in Children /\ "client" \in Task
    BY DEF Children, Task
  <2>4. q \in Pools /\ q.at = p.at
    <3>1. Launch(p, e, "manager") \in Pools /\ Launch(p, e, "manager").at = p.at
      BY ZenonT(60), <2>3, LaunchKeeps
    <3> QED
      BY <3>1
  <2>5. pool' = Wake(q, "client")
    BY <2>1 DEF OnStateChange
  <2> HIDE DEF q
  <2>6. pool' \in Pools /\ pool'.at = p.at
    BY <2>3, <2>4, <2>5, WakeKeeps
  <2> QED
    BY <1>1, <1>2, <1>3, <2>2, <2>6
<1>5. CASE e.state = entry
  BY <1>1, <1>2, <1>3, <1>5 DEF Leave
<1> QED
  BY <1>4, <1>5

\* A callback outside of HandleInput that writes.
LEMMA WritesKeep ==
    ASSUME XmppInv, input.entry = "none", NEW e \in Engines, NEW entry,
           NEW output \in Seq(Stanzas), NEW s \in Socks, NEW p \in Pools,
           Leave(e, entry, output, s, p), UNCHANGED <<input, down, lost>>,
           told' \in [Requests -> {"none", "result", "error"}],
           accepted' \subseteq Raw \cup SendTasks,
           pending' \in Seq({x \in Stanzas : x.id \in accepted'}),
           e.error => e.state = "CLOSED", e.login = "none" => e.queued = <<>>,
           ~lost => Follows(pending', up \o output, e)
    PROVE  XmppInv'
<1>1. /\ eng' = e /\ up' = IF lost THEN up ELSE up \o output
      /\ up' \in Seq(Stanzas)
      /\ sock' \in Socks /\ pump' \in Pumps /\ signalClosed' \in BOOLEAN
      /\ pool' \in Pools
  BY LeaveKeeps
<1>2. Typed'
  BY <1>1 DEF XmppInv, Typed
<1>3. InputFits'
  BY <1>1 DEF XmppInv, InputFits
<1>4. Ordered'
  <2>1. input.output = <<>>
    BY DEF XmppInv, InputFits, NoInput
  <2>2. CASE lost
    BY <1>1, <2>2 DEF XmppInv, Ordered
  <2>3. CASE ~lost
    <3> DEFINE w == up'
    <3>1. w \o <<>> = w
      <4> HIDE DEF w
      <4>1. w \in Seq(Stanzas)
        BY <1>1 DEF w
      <4> QED
        BY <4>1
    <3>2. up' \o input'.output = up'
      BY <2>1, <3>1
    <3>3. up' = up \o output
      BY <1>1, <2>3
    <3>4. Follows(pending', up', e)
      BY <2>3, <3>3
    <3>5. Follows(pending', up' \o input'.output, eng')
      BY <1>1, <3>2, <3>4
    <3> QED
      BY <1>1, <2>3, <3>5 DEF Ordered, Follows
  <2> QED
    BY <2>2, <2>3
<1> QED
  BY <1>2, <1>3, <1>4 DEF XmppInv

LEMMA SendKeeps ==
    ASSUME XmppInv, input.entry = "none", NEW s \in Stanzas, s \notin Own,
           s.id \in Raw \cup SendTasks, NEW p \in Pools, SendStanza(s, p),
           UNCHANGED <<input, down, lost>>,
           told' \in [Requests -> {"none", "result", "error"}]
    PROVE  XmppInv'
<1>1. CASE eng.state = "CLOSED"
  <2>1. /\ pool' \in Pools /\ sock' = sock /\ pump' = pump
        /\ signalClosed' = signalClosed
        /\ UNCHANGED <<eng, input, up, down, lost, accepted, pending>>
    BY <1>1 DEF SendStanza
  <2> QED
    BY <2>1, TasksKeep DEF XmppInv, Typed
<1>2. CASE eng.state # "CLOSED"
  <2> DEFINE w == up \o input.output
  <2>1. /\ up \in Seq(Stanzas) /\ eng \in Engines /\ sock \in Socks
        /\ ~eng.error /\ input.output = <<>>
        /\ ~lost => Follows(pending, w, eng)
    BY <1>2 DEF XmppInv, Typed, InputFits, Ordered, NoInput
  <2>2. w = up
    BY <2>1
  <2>3. ~lost => Follows(pending, up, eng)
    BY <2>1, <2>2
  <2>4. /\ accepted' \subseteq Raw \cup SendTasks
        /\ pending' = Append(pending, s)
        /\ pending' \in Seq({x \in Stanzas : x.id \in accepted'})
    <3>1. accepted' = accepted \cup {s.id} /\ pending' = Append(pending, s)
      BY <1>2 DEF SendStanza
    <3>2. pending \in Seq({x \in Stanzas : x.id \in accepted'})
      BY <3>1 DEF XmppInv, Typed
    <3>3. s \in {x \in Stanzas : x.id \in accepted'}
      BY <3>1
    <3> QED
      BY <3>1, <3>2, <3>3 DEF XmppInv, Typed
  <2>5. CASE eng.login # "none"
    <3> DEFINE e == [eng EXCEPT !.queued = Append(@, s)]
    <3>1. Leave(e, eng.state, <<>>, sock, p)
      BY <1>2, <2>5 DEF SendStanza
    <3>2. /\ e \in Engines /\ e.error = FALSE /\ e.login # "none"
          /\ e.queued = Append(eng.queued, s) /\ eng.queued \in Seq(Stanzas)
      <4> DEFINE q == Append(eng.queued, s)
      <4>1. eng.queued \in Seq(Stanzas)
        BY <2>1 DEF Engines
      <4>2. q \in Seq(Stanzas)
        BY <4>1
      <4>3. e = [eng EXCEPT !.queued = q]
        OBVIOUS
      <4> HIDE DEF q
      <4>4. /\ e \in Engines /\ e.error = eng.error /\ e.login = eng.login
            /\ e.queued = q
        BY SMTT(40), <2>1, <4>2, <4>3 DEF Engines
      <4> QED
        BY <2>1, <2>5, <4>1, <4>4 DEF q
    <3> HIDE DEF e
    <3>3. ~lost => Follows(pending', up, e)
      BY <2>1, <2>3, <2>4, <3>2, FollowsHeld
    <3>4. up \o <<>> = up /\ <<>> \in Seq(Stanzas)
      BY <2>1
    <3> QED
      BY <2>1, <2>4, <3>1, <3>2, <3>3, <3>4, WritesKeep
  <2>6. CASE eng.login = "none"
    <3>1. Leave(eng, eng.state, <<s>>, sock, p)
      BY <1>2, <2>6 DEF SendStanza
    <3>2. eng.queued = <<>>
      BY <2>6 DEF XmppInv, Ordered
    <3>3. ~lost => Follows(pending', up \o <<s>>, eng)
      BY <2>1, <2>3, <2>4, <3>2, FollowsWritten
    <3>4. <<s>> \in Seq(Stanzas)
      OBVIOUS
    <3> QED
      BY <2>1, <2>4, <2>6, <3>1, <3>2, <3>3, <3>4, WritesKeep
  <2> QED
    BY <2>5, <2>6
<1> QED
  BY <1>1, <1>2

LEMMA OwnStanzas ==
    \A kind \in {"start", "TLS_REQUESTED", "SASL_RUNNING", "abort",
                    "BIND_REQUESTED", "SESSION_REQUESTED", "end"} :
           Plain(kind) \in Own \cap Stanzas
<1>1. ASSUME NEW kind \in {"start", "TLS_REQUESTED", "SASL_RUNNING", "abort",
                           "BIND_REQUESTED", "SESSION_REQUESTED", "end"}
      PROVE  Plain(kind) \in Own \cap Stanzas
  BY DEF Own, Plain, Stanza, Stanzas, StanzaKinds, StanzaIds
<1> QED
  BY <1>1

LEMMA SentStanzas ==
    ASSUME NEW kind \in {"raw", "set", "result", "error"},
           NEW id \in Raw \cup SendTasks
    PROVE  /\ Stanza(kind, id) \in Stanzas /\ Stanza(kind, id) \notin Own
           /\ Stanza(kind, id).id = id
  BY DEF Own, Plain, Stanza, Stanzas, StanzaKinds, StanzaIds, SendTasks

LEMMA StanzaAppends ==
    ASSUME NEW w \in Seq(Stanzas), NEW s \in Stanzas
    PROVE  w \o <<s>> \in Seq(Stanzas) /\ <<s>> \in Seq(Stanzas)
  OBVIOUS

\* A stanza is read.
LEMMA ParseKeeps ==
    ASSUME XmppInv, Parsing, NEW e \in Engines, NEW output \in Seq(Stanzas),
           NEW reset \in BOOLEAN, Parse(e, output, reset),
           sock' \in Socks, pool' \in Pools, pool'.at = pool.at,
           accepted' \subseteq Raw \cup SendTasks,
           pending' \in Seq({x \in Stanzas : x.id \in accepted'}),
           e.error \/ e.state \in {"OPENING", "OPEN"},
           e.error => e.state = "CLOSED", e.login = "none" => e.queued = <<>>,
           ~lost => Follows(pending', (up \o input.output) \o output, e)
    PROVE  XmppInv'
<1> DEFINE i == [input EXCEPT !.left = @ - 1, !.output = @ \o output,
                              !.reset = @ \/ reset]
<1>1. /\ eng' = e /\ down' = Tail(down) /\ input' = i
      /\ UNCHANGED <<up, lost, pump, signalClosed, told>>
  BY DEF Parse
<1>2. /\ input \in Inputs /\ input.left > 0 /\ input.entry # "none"
      /\ input.left \in Nat /\ down \in Seq(Read) /\ input.left <= Len(down)
  BY DEF XmppInv, Typed, InputFits, Parsing, Inputs
<1>3. /\ i \in Inputs /\ i.left = input.left - 1 /\ i.entry = input.entry
      /\ i.output = input.output \o output
  <2>1. input.output \o output \in Seq(Stanzas)
    BY <1>2 DEF Inputs
  <2>2. (input.reset \/ reset) \in BOOLEAN /\ input.left - 1 \in Nat
    BY <1>2
  <2> DEFINE o == input.output \o output
             l == input.left - 1
             r == input.reset \/ reset
  <2>3. i = [input EXCEPT !.left = l, !.output = o, !.reset = r]
    OBVIOUS
  <2> HIDE DEF o, l, r
  <2>4. i \in Inputs /\ i.left = l /\ i.entry = input.entry /\ i.output = o
    BY <1>2, <2>1, <2>2, <2>3 DEF Inputs, o, l, r
  <2> QED
    BY <2>4 DEF o, l
<1>4. Tail(down) \in Seq(Read) /\ Len(Tail(down)) = Len(down) - 1 /\ Len(down) \in Nat
  BY <1>2
<1> HIDE DEF i
<1>5. Typed'
  BY <1>1, <1>3, <1>4 DEF XmppInv, Typed
<1>6. InputFits'
  BY <1>1, <1>2, <1>3, <1>4 DEF XmppInv, InputFits
<1>7. Ordered'
  <2> DEFINE o == input.output
  <2>1. up \in Seq(Stanzas) /\ o \in Seq(Stanzas)
    BY <1>2 DEF XmppInv, Typed, Inputs
  <2>2. (up \o o) \o output = up \o (o \o output)
    <3> HIDE DEF o
    <3> QED
      BY <2>1, ConcatAssociates
  <2>3. up' \o input'.output = up \o (o \o output)
    BY <1>1, <1>3
  <2>4. ~lost => Follows(pending', up' \o input'.output, e)
    BY <2>2, <2>3
  <2> QED
    BY <1>1, <2>4 DEF XmppInv, Ordered, Follows
<1> QED
  BY <1>5, <1>6, <1>7 DEF XmppInv

\* What the login may do with a stanza: say something itself and go on, give
\* up what it holds, or end and write it.
GoesOn(e, output) ==
    /\ e.state = eng.state /\ e.error = eng.error /\ e.queued = eng.queued
    /\ e.login # "none"
    /\ output = <<>> \/ \E s \in Own \cap Stanzas : output = <<s>>
Fails(e, output) == e = Fail(eng) /\ output = <<>>
Ends(e, output) ==
    /\ e.login = "none" /\ e.error = eng.error /\ e.queued = <<>>
    /\ e.state = IF eng.state = "OPENING" THEN "OPEN" ELSE eng.state
    /\ output = eng.queued
Reads(e, output) == GoesOn(e, output) \/ Fails(e, output) \/ Ends(e, output)

LEMMA FailReads ==
    ASSUME eng \in Engines
    PROVE  Fail(eng) \in Engines /\ Reads(Fail(eng), <<>>) /\ <<>> \in Seq(Stanzas)
<1>1. <<>> \in Seq(Stanzas)
  OBVIOUS
<1> QED
  BY <1>1 DEF Fail, Engines, EngineStates, Logins, Reads, Fails

\* The login goes on to another state, or stays.
LEMMA OnReads ==
    ASSUME eng \in Engines, NEW login \in Logins \ {"none"}
    PROVE  /\ [eng EXCEPT !.login = login] \in Engines
           /\ Reads([eng EXCEPT !.login = login], <<>>)
           /\ \A s \in Own \cap Stanzas :
                 /\ Reads([eng EXCEPT !.login = login], <<s>>)
                 /\ <<s>> \in Seq(Stanzas)
<1> DEFINE e == [eng EXCEPT !.login = login]
<1>1. /\ e \in Engines /\ e.state = eng.state /\ e.error = eng.error
      /\ e.queued = eng.queued /\ e.login # "none"
  BY DEF Engines
<1> HIDE DEF e
<1>2. GoesOn(e, <<>>)
  BY <1>1 DEF GoesOn
<1>3. ASSUME NEW s \in Own \cap Stanzas PROVE GoesOn(e, <<s>>) /\ <<s>> \in Seq(Stanzas)
  BY <1>1 DEF GoesOn
<1> QED
  BY <1>1, <1>2, <1>3 DEF Reads, e

LEMMA NegotiateReads ==
    ASSUME eng \in Engines, NEW has, Negotiate(has)
    PROVE  \E e \in Engines, output \in Seq(Stanzas), reset \in BOOLEAN :
               Parse(e, output, reset) /\ Reads(e, output)
<1> DEFINE Goal == \E e \in Engines, output \in Seq(Stanzas), reset \in BOOLEAN :
                       Parse(e, output, reset) /\ Reads(e, output)
<1>1. ASSUME NEW login \in {"TLS_REQUESTED", "SASL_RUNNING", "BIND_REQUESTED"},
             Parse([eng EXCEPT !.login = login], <<Plain(login)>>, FALSE)
      PROVE  Goal
  <2>1. login \in Logins \ {"none"}
    BY DEF Logins
  <2>2. Plain(login) \in Own \cap Stanzas
    BY OwnStanzas
  <2> DEFINE s == Plain(login)
             e == [eng EXCEPT !.login = login]
  <2>3. e \in Engines /\ Reads(e, <<s>>) /\ <<s>> \in Seq(Stanzas)
    BY <2>1, <2>2, OnReads
  <2>4. Parse(e, <<s>>, FALSE)
    BY <1>1
  <2> HIDE DEF s, e
  <2> QED
    BY <2>3, <2>4
<1>2. ASSUME Parse(Fail(eng), <<>>, FALSE) PROVE Goal
  BY <1>2, FailReads
<1> HIDE DEF Goal
<1>3. \/ \E login \in {"TLS_REQUESTED", "SASL_RUNNING", "BIND_REQUESTED"} :
            Parse([eng EXCEPT !.login = login], <<Plain(login)>>, FALSE)
      \/ Parse(Fail(eng), <<>>, FALSE)
  BY DEF Negotiate
<1>4. Goal
  BY <1>1, <1>2, <1>3
<1> QED
  BY <1>4 DEF Goal

LEMMA LoginReads ==
    ASSUME eng \in Engines, ParseLogin
    PROVE  /\ \E e \in Engines, output \in Seq(Stanzas), reset \in BOOLEAN :
                  Parse(e, output, reset) /\ Reads(e, output)
           /\ sock' \in {sock, "TLS_CONNECTING"}
<1> DEFINE Goal == \E e \in Engines, output \in Seq(Stanzas), reset \in BOOLEAN :
                       Parse(e, output, reset) /\ Reads(e, output)
           s == Head(down)
<1>1. ASSUME NEW login \in Logins \ {"none"}, NEW reset \in BOOLEAN,
             Parse([eng EXCEPT !.login = login], <<>>, reset)
      PROVE  Goal
  <2> DEFINE e == [eng EXCEPT !.login = login]
  <2>1. e \in Engines /\ Reads(e, <<>>)
    BY OnReads
  <2>2. Parse(e, <<>>, reset) /\ <<>> \in Seq(Stanzas)
    BY <1>1, FailReads
  <2> HIDE DEF e
  <2> QED
    BY <2>1, <2>2
<1>2. ASSUME NEW f \in Engines, f.state = eng.state, f.error = eng.error,
             f.queued = eng.queued, f.login # "none", NEW reset \in BOOLEAN,
             NEW own \in Own \cap Stanzas, Parse(f, <<own>>, reset)
      PROVE  Goal
  <2>1. Reads(f, <<own>>)
    BY <1>2 DEF Reads, GoesOn
  <2>2. <<own>> \in Seq(Stanzas)
    OBVIOUS
  <2> QED
    BY <1>2, <2>1, <2>2
<1>3. ASSUME Parse(Fail(eng), <<>>, FALSE) PROVE Goal
  BY <1>3, FailReads
<1>4. ASSUME Parse(eng, <<>>, FALSE), eng.login # "none" PROVE Goal
  <2>1. Reads(eng, <<>>)
    BY <1>4 DEF Reads, GoesOn
  <2> QED
    BY <1>4, <2>1, FailReads
<1>5. ASSUME Bound(eng) PROVE Goal
  <2> DEFINE e == [eng EXCEPT !.login = "none", !.queued = <<>>,
                       !.state = IF @ = "OPENING" THEN "OPEN" ELSE @]
  <2>1. <<>> \in Seq(Stanzas)
    OBVIOUS
  <2>2. e \in Engines /\ eng.queued \in Seq(Stanzas)
    BY <2>1 DEF Engines, EngineStates, Logins
  <2>3. Ends(e, eng.queued)
    BY DEF Engines, Ends
  <2>4. Parse(e, eng.queued, FALSE)
    BY <1>5 DEF Bound
  <2> HIDE DEF e
  <2> QED
    BY <2>2, <2>3, <2>4 DEF Reads
<1>6. /\ Plain("start") \in Own \cap Stanzas /\ Plain("abort") \in Own \cap Stanzas
      /\ Plain("SESSION_REQUESTED") \in Own \cap Stanzas
  BY OwnStanzas
<1>7. CASE Advance(s)
  <2>1. CASE /\ eng.login = "STREAMSTART_SENT"
             /\ IF s.kind = "stream"
                THEN Parse([eng EXCEPT !.login = "STARTED_XMPP"], <<>>, FALSE)
                ELSE Parse(Fail(eng), <<>>, FALSE)
             /\ UNCHANGED sock
    <3>1. "STARTED_XMPP" \in Logins \ {"none"}
      BY DEF Logins
    <3> QED
      BY <1>1, <1>3, <2>1, <3>1
  <2>2. CASE /\ eng.login = "STARTED_XMPP"
             /\ IF s.kind = "features" THEN Negotiate(s.has)
                ELSE Parse(Fail(eng), <<>>, FALSE)
             /\ UNCHANGED sock
    BY <1>3, <2>2, NegotiateReads
  <2>3. CASE /\ eng.login = "TLS_REQUESTED"
             /\ IF s.kind = "proceed"
                THEN /\ Parse([[eng EXCEPT !.encrypted = TRUE, !.tls = FALSE]
                                  EXCEPT !.login = "STREAMSTART_SENT"],
                              <<Plain("start")>>, TRUE)
                     /\ sock' = "TLS_CONNECTING"
                ELSE Parse(Fail(eng), <<>>, FALSE) /\ UNCHANGED sock
    <3> DEFINE f == [[eng EXCEPT !.encrypted = TRUE, !.tls = FALSE]
                         EXCEPT !.login = "STREAMSTART_SENT"]
    <3>1. /\ f \in Engines /\ f.state = eng.state /\ f.error = eng.error
          /\ f.queued = eng.queued /\ f.login # "none"
      BY DEF Engines, Logins
    <3>2. CASE s.kind = "proceed"
      <4>1. Parse(f, <<Plain("start")>>, TRUE) /\ sock' = "TLS_CONNECTING"
        BY <2>3, <3>2
      <4> HIDE DEF f
      <4> QED
        BY <1>2, <1>6, <3>1, <4>1
    <3>3. CASE s.kind # "proceed"
      BY <1>3, <2>3, <3>3
    <3> QED
      BY <3>2, <3>3
  <2>4. CASE /\ eng.login = "SASL_RUNNING"
             /\ CASE s.kind = "challenge" -> Parse(eng, <<Plain("abort")>>, FALSE)
                  [] s.kind = "success" ->
                        Parse([[eng EXCEPT !.auth = FALSE]
                                   EXCEPT !.login = "STREAMSTART_SENT"],
                              <<Plain("start")>>, TRUE)
                  [] OTHER -> Parse(Fail(eng), <<>>, FALSE)
             /\ UNCHANGED sock
    <3> DEFINE f == [[eng EXCEPT !.auth = FALSE] EXCEPT !.login = "STREAMSTART_SENT"]
    <3>1. /\ f \in Engines /\ f.state = eng.state /\ f.error = eng.error
          /\ f.queued = eng.queued /\ f.login # "none"
      BY DEF Engines, Logins
    <3>2. CASE s.kind = "challenge"
      <4>1. Parse(eng, <<Plain("abort")>>, FALSE) /\ UNCHANGED sock
            /\ eng.login # "none"
        BY <2>4, <3>2
      <4> QED
        BY <1>2, <1>6, <4>1
    <3>3. CASE s.kind = "success"
      <4>1. Parse(f, <<Plain("start")>>, TRUE) /\ UNCHANGED sock
        BY <2>4, <3>3
      <4> HIDE DEF f
      <4> QED
        BY <1>2, <1>6, <3>1, <4>1
    <3>4. CASE s.kind \notin {"challenge", "success"}
      BY <1>3, <2>4, <3>4
    <3> QED
      BY <3>2, <3>3, <3>4
  <2>5. CASE /\ eng.login = "BIND_REQUESTED"
             /\ IF Answers(s, "BIND_REQUESTED")
                THEN IF s.kind = "result"
                     THEN Parse([eng EXCEPT !.login = "SESSION_REQUESTED"],
                                <<Plain("SESSION_REQUESTED")>>, FALSE)
                     ELSE Parse(Fail(eng), <<>>, FALSE)
                ELSE Parse(eng, <<>>, FALSE)
             /\ UNCHANGED sock
    <3> DEFINE f == [eng EXCEPT !.login = "SESSION_REQUESTED"]
    <3>1. /\ f \in Engines /\ f.state = eng.state /\ f.error = eng.error
          /\ f.queued = eng.queued /\ f.login # "none"
      BY DEF Engines, Logins
    <3>2. CASE Parse(f, <<Plain("SESSION_REQUESTED")>>, FALSE)
      <4> HIDE DEF f
      <4> QED
        BY <1>2, <1>6, <2>5, <3>1, <3>2
    <3>3. CASE Parse(Fail(eng), <<>>, FALSE)
      BY <1>3, <2>5, <3>3
    <3>4. CASE Parse(eng, <<>>, FALSE)
      BY <1>4, <2>5, <3>4
    <3> QED
      BY <2>5, <3>2, <3>3, <3>4
  <2>6. CASE /\ eng.login = "SESSION_REQUESTED"
             /\ IF Answers(s, "SESSION_REQUESTED")
                THEN Parse(Fail(eng), <<>>, FALSE) ELSE Parse(eng, <<>>, FALSE)
             /\ UNCHANGED sock
    BY <1>3, <1>4, <2>6
  <2> HIDE DEF Goal
  <2> QED
    BY <1>7, <2>1, <2>2, <2>3, <2>4, <2>5, <2>6 DEF Advance
<1>8. CASE ~Advance(s)
  BY <1>5, <1>8 DEF ParseLogin
<1> QED
  BY <1>7, <1>8

LEMMA ParserKeeps == XmppInv /\ Parser => XmppInv'
<1> SUFFICES ASSUME XmppInv, Parser PROVE XmppInv'
  OBVIOUS
<1> DEFINE w == up \o input.output
<1>1. /\ eng \in Engines /\ input \in Inputs /\ sock \in Socks
      /\ up \in Seq(Stanzas) /\ down \in Seq(Read) /\ pool \in Pools
      /\ accepted \subseteq Raw \cup SendTasks
      /\ pending \in Seq({s \in Stanzas : s.id \in accepted})
      /\ eng.login = "none" => eng.queued = <<>>
      /\ ~lost => Follows(pending, w, eng)
  BY DEF XmppInv, Typed, Ordered
<1>2. /\ w \in Seq(Stanzas) /\ w \o <<>> = w /\ <<>> \in Seq(Stanzas)
      /\ input.output \in Seq(Stanzas)
  <2>1. input.output \in Seq(Stanzas)
    BY <1>1 DEF Inputs
  <2>2. w \in Seq(Stanzas)
    BY <1>1, <2>1
  <2> HIDE DEF w
  <2> QED
    BY <2>1, <2>2
<1>3. ASSUME Parsing
      PROVE  /\ eng.error \/ eng.state \in {"OPENING", "OPEN"}
             /\ Head(down) \in Read /\ (eng.error => eng.state = "CLOSED")
  <2>1. input.left \in Nat /\ input.left > 0 /\ input.left <= Len(down)
    BY <1>1, <1>3 DEF Inputs, Parsing, XmppInv, InputFits
  <2>2. Head(down) \in Read
    BY <1>1, <2>1
  <2> QED
    BY <1>3, <2>2 DEF XmppInv, InputFits, Parsing
<1> HIDE DEF w
<1>4. CASE ParseIgnored
  <2>1. /\ Parsing /\ Parse(eng, <<>>, FALSE) /\ FALSE \in BOOLEAN
        /\ UNCHANGED <<sock, pool, accepted, pending>>
    BY <1>4 DEF ParseIgnored
  <2>2. ~lost => Follows(pending', w \o <<>>, eng)
    BY <1>1, <1>2, <2>1
  <2> QED
    BY <1>1, <1>2, <1>3, <2>1, <2>2, ParseKeeps DEF w
<1>5. CASE ParseEnd
  <2> DEFINE e == [eng EXCEPT !.state = "CLOSED", !.error = TRUE]
  <2>1. /\ Parsing /\ Parse(e, <<>>, FALSE) /\ FALSE \in BOOLEAN
        /\ UNCHANGED <<sock, pool, accepted, pending>>
    BY <1>5 DEF ParseEnd
  <2>2. /\ e \in Engines /\ e.error = TRUE /\ e.state = "CLOSED"
        /\ e.login = eng.login /\ e.queued = eng.queued
    BY <1>1 DEF Engines, EngineStates
  <2> HIDE DEF e
  <2>3. ~lost => Follows(pending', w \o <<>>, e)
    BY <1>1, <1>2, <2>1, <2>2 DEF Follows
  <2> QED
    BY <1>1, <1>2, <2>1, <2>2, <2>3, ParseKeeps DEF w
<1>6. CASE ParseLogin
  <2>1. /\ Parsing /\ UNCHANGED <<pool, accepted, pending>> /\ eng.error = FALSE
        /\ eng.state \in {"OPENING", "OPEN"}
    BY <1>1, <1>3, <1>6 DEF ParseLogin, Engines
  <2>2. sock' \in Socks
    BY <1>1, <1>6, LoginReads DEF Socks
  <2>3. PICK e \in Engines, output \in Seq(Stanzas), reset \in BOOLEAN :
            Parse(e, output, reset) /\ Reads(e, output)
    BY <1>1, <1>6, LoginReads
  <2>4. CASE GoesOn(e, output)
    <3>1. /\ e.state = eng.state /\ e.error = eng.error /\ e.queued = eng.queued
          /\ e.login # "none"
          /\ output = <<>> \/ \E s \in Own \cap Stanzas : output = <<s>>
      BY <2>4 DEF GoesOn
    <3>2. ~lost => Follows(pending, w, e)
      BY <1>1, <3>1 DEF Follows
    <3>3. ~lost => Follows(pending, w \o output, e)
      <4>1. CASE output = <<>>
        BY <1>2, <3>2, <4>1
      <4>2. CASE \E s \in Own \cap Stanzas : output = <<s>>
        BY <1>2, <3>2, <4>2, FollowsOwn
      <4> QED
        BY <3>1, <4>1, <4>2
    <3> QED
      BY <1>1, <2>1, <2>2, <2>3, <3>1, <3>3, ParseKeeps DEF w
  <2>5. CASE Fails(e, output)
    <3>1. /\ e.error = TRUE /\ e.state = "CLOSED" /\ e.queued = <<>>
          /\ output = <<>>
      BY <1>1, <2>5 DEF Fails, Fail, Engines
    <3>2. ~lost => Follows(pending, w \o output, e)
      BY <1>1, <1>2, <3>1 DEF Follows
    <3> QED
      BY <1>1, <2>1, <2>2, <2>3, <3>1, <3>2, ParseKeeps DEF w
  <2>6. CASE Ends(e, output)
    <3>1. /\ e.error = FALSE /\ e.queued = <<>> /\ output = eng.queued
          /\ e.state \in {"OPENING", "OPEN"}
      BY <2>1, <2>6 DEF Ends
    <3>2. ~lost => Follows(pending, w \o eng.queued, e)
      BY <1>1, <1>2, <2>1, <2>3, <3>1, FollowsFlushed
    <3> QED
      BY <1>1, <2>1, <2>2, <2>3, <3>1, <3>2, ParseKeeps DEF w
  <2> QED
    BY <2>3, <2>4, <2>5, <2>6 DEF Reads
<1>7. CASE ParseStanza
  <2> DEFINE s == Head(down)
  <2>1. /\ Parsing /\ eng.login = "none" /\ eng.error = FALSE /\ sock' = sock
        /\ eng.state \in {"OPENING", "OPEN"} /\ s \in Read
    BY <1>1, <1>3, <1>7 DEF ParseStanza, Engines
  <2>2. CASE \E t \in HandlerOf(s) :
                /\ pool' = QueueStanza(pool, t, s)
                /\ Parse(eng, <<>>, FALSE) /\ UNCHANGED <<accepted, pending>>
    <3>1. PICK t \in HandlerOf(s) :
                /\ pool' = QueueStanza(pool, t, s)
                /\ Parse(eng, <<>>, FALSE) /\ UNCHANGED <<accepted, pending>>
      BY <2>2
    <3>2. t \in pool.handlers
      BY DEF HandlerOf
    <3>3. t \in Task
      BY <1>1, <3>2, PoolFields DEF Task
    <3>4. s \in Takes(t)
      <4>1. s.kind \in {"set", "result", "error"}
        BY DEF HandlerOf
      <4>2. s \notin Offered
        BY <4>1 DEF Offered
      <4> QED
        BY <2>1, <4>2 DEF HandlerOf, Takes, Read
    <3> DEFINE p == [pool EXCEPT !.of[t].inbox = Append(@, s)]
    <3>5. p \in Pools /\ p.at = pool.at
      <4>1. p \in Pools
        BY <1>1, <3>3, <3>4, QueueKeeps
      <4> QED
        BY <1>1, <4>1 DEF Pools
    <3>6. pool' = Wake(p, t)
      BY <3>1 DEF QueueStanza
    <3> HIDE DEF p
    <3>7. pool' \in Pools /\ pool'.at = pool.at
      BY <3>3, <3>5, <3>6, WakeKeeps
    <3>8. ~lost => Follows(pending', w \o <<>>, eng)
      BY <1>1, <1>2, <3>1
    <3> QED
      BY <1>1, <1>2, <1>3, <2>1, <3>1, <3>7, <3>8, ParseKeeps DEF w
  <2>3. CASE /\ s.kind = "set"
             /\ Parse(eng, <<Stanza("error", s.id)>>, FALSE)
             /\ accepted' = accepted \cup {s.id}
             /\ pending' = Append(pending, Stanza("error", s.id))
             /\ UNCHANGED pool
    <3>1. s.id \in Raw \cup SendTasks
      <4>1. s \notin Offered
        BY <2>3 DEF Offered
      <4> QED
        BY <2>1, <2>3, <4>1 DEF Read, SendTasks
    <3> DEFINE x == Stanza("error", s.id)
    <3>2. x \in Stanzas /\ x \notin Own /\ x.id = s.id
      BY <3>1, SentStanzas
    <3> HIDE DEF x
    <3>3. pending' = Append(pending, x) /\ Parse(eng, <<x>>, FALSE)
      BY <2>3 DEF x
    <3>4. pending' \in Seq({y \in Stanzas : y.id \in accepted'})
      <4>1. pending \in Seq({y \in Stanzas : y.id \in accepted'})
        BY SMTT(60), <1>1, <2>3
      <4>2. x \in {y \in Stanzas : y.id \in accepted'}
        BY <2>3, <3>2
      <4> QED
        BY <3>3, <4>1, <4>2
    <3>5. ~lost => Follows(pending', w \o <<x>>, eng)
      BY <1>1, <1>2, <2>1, <3>2, <3>3, FollowsWritten
    <3>6. <<x>> \in Seq(Stanzas) /\ FALSE \in BOOLEAN
      BY <3>2
    <3>7. accepted' \subseteq Raw \cup SendTasks
      BY <1>1, <2>3, <3>1
    <3> QED
      BY <1>1, <1>2, <2>1, <2>3, <3>3, <3>4, <3>5, <3>6, <3>7, ParseKeeps DEF w
  <2>4. CASE /\ Parse(eng, <<>>, FALSE)
             /\ UNCHANGED <<accepted, pending, pool>>
    <3>1. ~lost => Follows(pending', w \o <<>>, eng)
      BY <1>1, <1>2, <2>4
    <3> QED
      BY <1>1, <1>2, <1>3, <2>1, <2>4, <3>1, ParseKeeps DEF w
  <2> QED
    BY <1>7, <2>2, <2>3, <2>4 DEF ParseStanza
<1>8. CASE HandleInputDone
  <2> DEFINE o == input.output
  <2>1. /\ Leave(eng, input.entry, o, sock, pool) /\ input' = NoInput
        /\ input.entry # "none"
        /\ UNCHANGED <<down, lost, server, accepted, pending, told>>
    BY <1>8 DEF HandleInputDone
  <2>2. /\ eng' = eng /\ up' = IF lost THEN up ELSE up \o o
        /\ up' \in Seq(Stanzas) /\ pool'.at = pool.at
        /\ sock' \in Socks /\ pump' \in Pumps /\ signalClosed' \in BOOLEAN
        /\ pool' \in Pools
    BY <1>1, <1>2, <2>1, LeaveKeeps
  <2>3. NoInput \in Inputs
    BY <1>2 DEF NoInput, Inputs
  <2>4. Typed'
    BY <2>1, <2>2, <2>3 DEF XmppInv, Typed
  <2>5. InputFits'
    <3>1. 0 <= Len(down) /\ NoInput.left = 0 /\ NoInput.entry = "none"
      BY <1>1 DEF NoInput
    <3> QED
      BY <2>1, <2>2, <3>1 DEF XmppInv, InputFits
  <2>6. Ordered'
    <3>1. CASE lost
      BY <2>1, <2>2, <3>1 DEF XmppInv, Ordered
    <3>2. CASE ~lost
      <4>1. up' = w
        BY <2>2, <3>2 DEF w
      <4>2. input'.output = <<>>
        BY <2>1 DEF NoInput
      <4>3. up' \o input'.output = w
        BY <1>2, <4>1, <4>2
      <4>4. Follows(pending', up' \o input'.output, eng')
        BY <1>1, <2>1, <2>2, <3>2, <4>3
      <4> QED
        BY <1>1, <2>1, <2>2, <3>2, <4>4 DEF Ordered, Follows
    <3> QED
      BY <3>1, <3>2
  <2> QED
    BY <2>4, <2>5, <2>6 DEF XmppInv
<1> QED
  BY <1>4, <1>5, <1>6, <1>7, <1>8 DEF Parser

\* A task takes what came first from its queue.
LEMMA TakeKeeps ==
    ASSUME NEW p \in Pools, NEW t \in Task, p.of[t].inbox # <<>>
    PROVE  /\ [p EXCEPT !.of[t].inbox = Tail(@)] \in Pools
           /\ Head(p.of[t].inbox) \in Takes(t)
           /\ [p EXCEPT !.of[t].inbox = Tail(@)].queue = p.queue
           /\ [p EXCEPT !.of[t].inbox = Tail(@)].at = p.at
           /\ [p EXCEPT !.of[t].inbox = Tail(@)].did = p.did
           /\ [p EXCEPT !.of[t].inbox = Tail(@)].handlers = p.handlers
           /\ \A u \in Task :
                 /\ [p EXCEPT !.of[t].inbox = Tail(@)].of[u].state = p.of[u].state
                 /\ [p EXCEPT !.of[t].inbox = Tail(@)].of[u].done = p.of[u].done
                 /\ [p EXCEPT !.of[t].inbox = Tail(@)].of[u].blocked = p.of[u].blocked
<1> DEFINE q == [p EXCEPT !.of[t].inbox = Tail(@)]
           k == [p.of[t] EXCEPT !.inbox = Tail(p.of[t].inbox)]
           f == [p.of EXCEPT ![t] = k]
<1>1. p.of \in Tables /\ p.of[t] \in TaskRecord(t)
  BY PoolFields DEF Pools
<1>2. p.of[t].inbox \in Seq(Takes(t))
  BY <1>1 DEF TaskRecord
<1>3. Tail(p.of[t].inbox) \in Seq(Takes(t)) /\ Head(p.of[t].inbox) \in Takes(t)
  BY <1>2
<1>4. k \in TaskRecord(t) /\ k.state = p.of[t].state /\ k.done = p.of[t].done
      /\ k.blocked = p.of[t].blocked
  BY <1>1, <1>3 DEF TaskRecord
<1>5. q = [p EXCEPT !.of = f]
  BY DEF Pools
<1> HIDE DEF k
<1>6. f \in Tables /\ f[t] = k /\ \A u \in Task : u # t => f[u] = p.of[u]
  BY <1>1, <1>4, TableExcept
<1> HIDE DEF f, q
<1>7. /\ q \in Pools /\ q.queue = p.queue /\ q.at = p.at /\ q.did = p.did
      /\ q.handlers = p.handlers /\ q.of = f
  BY <1>5, <1>6 DEF Pools
<1>8. ASSUME NEW u \in Task
      PROVE  /\ q.of[u].state = p.of[u].state /\ q.of[u].done = p.of[u].done
             /\ q.of[u].blocked = p.of[u].blocked
  BY <1>4, <1>6, <1>7
<1> QED
  BY <1>3, <1>7, <1>8 DEF q

LEMMA Stepping1 ==
    ASSUME XmppInv, NEW t, Stepping(t)
    PROVE  /\ t \in Task /\ pool \in Pools /\ pool.at > 0 /\ input.entry = "none"
           /\ UNCHANGED <<input, down, lost, server>>
<1>1. pool \in Pools /\ pool.queue \in Seq(Task)
  BY PoolFields DEF XmppInv, Typed
<1>2. pool.at \in 1..Len(pool.queue) /\ pool.queue[pool.at] = t
  BY DEF Stepping
<1>3. t \in Task /\ pool.at > 0
  BY <1>1, <1>2
<1> QED
  BY <1>1, <1>3 DEF Stepping, XmppInv, InputFits

LEMMA StepTyped ==
    ASSUME NEW p \in Pools, NEW t \in Task, NEW state \in States \cup {"BLOCKED"}
    PROVE  Stepped(p, t, state) \in Pools /\ Stepped(p, t, state).at = p.at
<1>1. CASE state \in {"DONE", "ERROR"}
  BY <1>1, SteppedEnd
<1>2. CASE state \notin {"DONE", "ERROR"}
  BY <1>2, SteppedOn
<1> QED
  BY <1>1, <1>2

LEMMA StepsKeep == XmppInv /\ Steps => XmppInv'
<1> SUFFICES ASSUME XmppInv, Steps PROVE XmppInv'
  OBVIOUS
<1>1. /\ eng \in Engines /\ sock \in Socks /\ pump \in Pumps
      /\ signalClosed \in BOOLEAN /\ pool \in Pools
      /\ told \in [Requests -> {"none", "result", "error"}]
      /\ "manager" \in Task /\ "manager" \in Children /\ "client" \in Task
      /\ Requests \subseteq SendTasks /\ SendTasks \subseteq Children
      /\ Incoming \subseteq Children /\ Requests \subseteq Children
      /\ "manager" \notin SendTasks
  BY XmppSessionAssumption DEF XmppInv, Typed, Task, Children, SendTasks
<1>2. ASSUME NEW t \in Task, StepInit(t) PROVE XmppInv'
  <2>1. pool' \in Pools /\ pool'.at = pool.at
    BY <1>1, <1>2, StepTyped DEF StepInit, States
  <2>2. /\ UNCHANGED <<input, down, lost, server>> /\ input.entry = "none"
        /\ UNCHANGED <<eng, sock, up, pump, signalClosed, accepted, pending, told>>
    BY <1>2, Stepping1 DEF StepInit
  <2> QED
    BY <1>1, <2>1, <2>2, TasksKeep
<1>3. CASE StepConnect
  <2>1. /\ UNCHANGED <<input, down, lost, server>> /\ input.entry = "none"
        /\ UNCHANGED <<eng, up, accepted, pending, told>>
    BY <1>3, Stepping1 DEF StepConnect
  <2>2. \E state \in {"START_XMPP_LOGIN", "RESPONSE", "ERROR"} :
            pool' = Stepped(pool, "client", state)
    BY <1>3 DEF StepConnect
  <2>3. pool' \in Pools
    <3>1. PICK state \in {"START_XMPP_LOGIN", "RESPONSE", "ERROR"} :
            pool' = Stepped(pool, "client", state)
      BY <2>2
    <3>2. state \in States
      BY DEF States
    <3> QED
      BY <1>1, <3>1, <3>2, StepTyped
  <2>4. sock' \in Socks /\ pump' \in Pumps /\ signalClosed' \in BOOLEAN
    BY <1>1, <1>3 DEF StepConnect, EnsureClosed, Socks, Pumps
  <2> QED
    BY <1>1, <2>1, <2>3, <2>4, TasksKeep
<1>4. CASE StepClient
  <2>1. pool' \in Pools
    BY <1>1, <1>4, StepTyped DEF StepClient, States
  <2>2. /\ UNCHANGED <<input, down, lost, server>> /\ input.entry = "none"
        /\ UNCHANGED <<eng, sock, up, pump, signalClosed, accepted, pending, told>>
    BY <1>4, Stepping1 DEF StepClient
  <2> QED
    BY <1>1, <2>1, <2>2, TasksKeep
<1>5. CASE StepManager
  <2>1. /\ UNCHANGED <<input, down, lost, server>> /\ input.entry = "none"
        /\ UNCHANGED <<eng, sock, up, pump, signalClosed, accepted, pending, told>>
    BY <1>5, Stepping1 DEF StepManager
  <2> DEFINE inbox == pool.of["manager"].inbox
             q == [pool EXCEPT !.of["manager"].inbox = Tail(@)]
             p == Launch(q, eng, Head(inbox).id)
  <2>2. CASE inbox = <<>>
    <3>1. pool' = Stepped(pool, "manager", "BLOCKED")
      BY <1>5, <2>2 DEF StepManager
    <3>2. pool' \in Pools
      BY <1>1, <3>1, StepTyped
    <3> QED
      BY <1>1, <2>1, <3>2, TasksKeep
  <2>3. CASE inbox # <<>>
    <3>1. q \in Pools /\ Head(inbox) \in Takes("manager")
      BY <1>1, <2>3, TakeKeeps
    <3>2. Head(inbox).id \in Children
      BY <1>1, <3>1 DEF Takes
    <3>3. p \in Pools
      <4> DEFINE i == Head(inbox).id
      <4> HIDE DEF q, i
      <4>1. Launch(q, eng, i) \in Pools
        BY <3>1, <3>2, LaunchKeeps DEF i
      <4> QED
        BY <4>1 DEF i
    <3>4. \/ pool' = Stepped(p, "manager", "START")
          \/ \E r \in Requests : pool' = Stepped(Launch(p, eng, r), "manager", "START")
      BY <1>5, <2>3 DEF StepManager
    <3> HIDE DEF p
    <3>5. CASE pool' = Stepped(p, "manager", "START")
      <4>1. pool' \in Pools
        BY <1>1, <3>3, <3>5, StepTyped DEF States
      <4> QED
        BY <1>1, <2>1, <4>1, TasksKeep
    <3>6. ASSUME NEW r \in Requests,
                 pool' = Stepped(Launch(p, eng, r), "manager", "START")
          PROVE  XmppInv'
      <4>1. Launch(p, eng, r) \in Pools
        BY <1>1, <3>3, LaunchKeeps
      <4>2. pool' \in Pools
        BY <1>1, <3>6, <4>1, StepTyped DEF States
      <4> QED
        BY <1>1, <2>1, <4>2, TasksKeep
    <3> QED
      BY <3>4, <3>5, <3>6
  <2> QED
    BY <2>2, <2>3
<1>6. ASSUME NEW t \in SendTasks, StepSend(t) PROVE XmppInv'
  <2>1. /\ UNCHANGED <<input, down, lost, server>> /\ input.entry = "none"
        /\ t \in Task /\ told' = told
    BY <1>6, Stepping1 DEF StepSend
  <2> DEFINE state == IF t \in Requests THEN "RESPONSE" ELSE "DONE"
             kind == IF t \in Requests THEN "set" ELSE "result"
             p == Stepped(pool, t, state)
             s == Stanza(kind, t)
  <2>2. p \in Pools
    BY <1>1, <2>1, StepTyped DEF States
  <2>3. s \in Stanzas /\ s \notin Own /\ s.id \in Raw \cup SendTasks
    BY SentStanzas
  <2>4. SendStanza(s, p)
    BY <1>6 DEF StepSend
  <2> HIDE DEF s, p
  <2> QED
    BY <1>1, <2>1, <2>2, <2>3, <2>4, SendKeeps
<1>7. ASSUME NEW t \in Requests, StepAwait(t) PROVE XmppInv'
  <2>1. /\ UNCHANGED <<input, down, lost, server>> /\ input.entry = "none"
        /\ t \in Task
        /\ UNCHANGED <<eng, sock, up, pump, signalClosed, accepted, pending>>
    BY <1>7, Stepping1 DEF StepAwait
  <2>2. pool' \in Pools
    BY <1>1, <1>7, <2>1, StepTyped DEF StepAwait, States
  <2>3. told' \in [Requests -> {"none", "result", "error"}]
    <3>1. CASE told' = told
      BY <1>1, <3>1
    <3>2. CASE told' # told
      <4>1. /\ pool.of[t].inbox # <<>>
            /\ told' = [told EXCEPT ![t] = Head(pool.of[t].inbox).kind]
        BY <1>7, <3>2 DEF StepAwait
      <4>2. Head(pool.of[t].inbox) \in Takes(t)
        BY <1>1, <2>1, <4>1, TakeKeeps
      <4>3. Head(pool.of[t].inbox).kind \in {"result", "error"}
        BY <1>1, <4>2 DEF Takes
      <4> QED
        BY <1>1, <4>1, <4>3
    <3> QED
      BY <3>1, <3>2
  <2> QED
    BY <1>1, <2>1, <2>2, <2>3, TasksKeep
<1>8. CASE NextTask
  <2>1. /\ UNCHANGED <<eng, input, sock, up, down, lost, server, pump,
                       signalClosed, accepted, pending, told>>
        /\ pool.at > 0
        /\ \/ pool' = [pool EXCEPT !.at = @ + 1]
           \/ pool' = [pool EXCEPT !.at = 1, !.did = FALSE]
    BY <1>8 DEF NextTask
  <2>2. pool' \in Pools
    <3>1. pool.at + 1 \in Nat /\ 1 \in Nat
      BY <1>1 DEF Pools
    <3>2. CASE pool' = [pool EXCEPT !.at = @ + 1]
      BY <1>1, <3>1, <3>2 DEF Pools
    <3>3. CASE pool' = [pool EXCEPT !.at = 1, !.did = FALSE]
      BY <1>1, <3>1, <3>3 DEF Pools
    <3> QED
      BY <2>1, <3>2, <3>3
  <2>3. input.entry = "none"
    BY <2>1 DEF XmppInv, InputFits
  <2> QED
    BY <1>1, <2>1, <2>2, <2>3, TasksKeep
<1>9. CASE DeleteDone
  <2> DEFINE f == [t \in Task |-> IF t \in Range(pool.queue) /\ pool.of[t].done
                                  THEN [NoTask EXCEPT !.state = "DELETED",
                                                      !.done = TRUE]
                                  ELSE pool.of[t]]
             q == Without(pool.queue, {t \in Task : pool.of[t].done})
  <2>1. pool' = [pool EXCEPT !.of = f, !.queue = q, !.at = 0]
    BY <1>9 DEF DeleteDone
  <2>2. q \in Seq(Task)
    BY <1>1, PoolFields, WithoutHas
  <2>3. f \in Tables
    <3>1. ASSUME NEW t \in Task PROVE f[t] \in TaskRecord(t)
      <4>1. <<>> \in Seq(Takes(t))
        OBVIOUS
      <4>2. [NoTask EXCEPT !.state = "DELETED", !.done = TRUE] \in TaskRecord(t)
        BY <4>1 DEF NoTask, NewTask, TaskRecord, States
      <4>3. pool.of[t] \in TaskRecord(t)
        BY <1>1, PoolFields
      <4> QED
        BY <4>2, <4>3
    <3>2. f = [t \in Task |-> f[t]]
      OBVIOUS
    <3> HIDE DEF f
    <3> QED
      BY <3>1, <3>2, TableFrom
  <2> HIDE DEF f, q
  <2>4. pool' \in Pools /\ pool'.at = 0
    BY <1>1, <2>1, <2>2, <2>3 DEF Pools
  <2>5. sock' \in Socks
    BY <1>1, <1>9 DEF DeleteDone, Socks
  <2>6. UNCHANGED <<eng, input, up, down, lost, server, pump, signalClosed,
                    accepted, pending, told>>
    BY <1>9 DEF DeleteDone
  <2> QED
    BY <1>1, <2>4, <2>5, <2>6, TasksKeep
<1> QED
  BY <1>2, <1>3, <1>4, <1>5, <1>6, <1>7, <1>8, <1>9 DEF Steps

\* Nothing runs: nothing is written that was not flushed.
LEMMA Idle ==
    ASSUME XmppInv, NotRunning
    PROVE  /\ input = NoInput /\ input.entry = "none" /\ pool.at = 0
           /\ up \in Seq(Stanzas) /\ down \in Seq(Read)
           /\ ~lost => Follows(pending, up, eng)
<1>1. /\ input = NoInput /\ up \in Seq(Stanzas) /\ down \in Seq(Read)
      /\ ~lost => Follows(pending, up \o input.output, eng)
  BY DEF NotRunning, XmppInv, Typed, InputFits, Ordered
<1>2. up \o input.output = up
  <2>1. up \o <<>> = up
    BY <1>1
  <2> QED
    BY <1>1, <2>1 DEF NoInput
<1> QED
  BY <1>1, <1>2 DEF NotRunning

LEMMA NetworkKeeps ==
    ASSUME XmppInv, NotRunning, UNCHANGED <<eng, pump, signalClosed, pool,
                                            accepted, told>>,
           sock' \in Socks, lost' \in BOOLEAN, up' \in Seq(Stanzas),
           down' \in Seq(Read), NEW i \in Inputs, input' = i, i.output = <<>>,
           i.left <= Len(down'), i.entry = "none" => i = NoInput,
           i.entry # "none" => eng.state \in {"OPENING", "OPEN"},
           pending' \in Seq({s \in Stanzas : s.id \in accepted}),
           lost' => up' = <<>>, ~lost' => Follows(pending', up', eng)
    PROVE  XmppInv'
<1>1. Typed'
  BY DEF XmppInv, Typed
<1>2. InputFits'
  BY DEF XmppInv, InputFits, NotRunning
<1>3. Ordered'
  <2> DEFINE w == up'
  <2>1. w \o <<>> = w
    <3> HIDE DEF w
    <3>1. w \in Seq(Stanzas)
      BY DEF w
    <3> QED
      BY <3>1
  <2>2. up' \o input'.output = up'
    BY <2>1
  <2>3. ~lost' => Follows(pending', up' \o input'.output, eng)
    BY <2>2
  <2> QED
    BY <2>3 DEF XmppInv, Ordered, Follows
<1> QED
  BY <1>1, <1>2, <1>3 DEF XmppInv

LEMMA SocketsKeep == XmppInv /\ Sockets => XmppInv'
<1> SUFFICES ASSUME XmppInv, Sockets PROVE XmppInv'
  OBVIOUS
<1>1. /\ eng \in Engines /\ sock \in Socks /\ pump \in Pumps
      /\ signalClosed \in BOOLEAN /\ pool \in Pools /\ lost \in BOOLEAN
      /\ told \in [Requests -> {"none", "result", "error"}]
      /\ accepted \subseteq Raw \cup SendTasks
      /\ pending \in Seq({s \in Stanzas : s.id \in accepted})
      /\ lost => up = <<>>
  BY DEF XmppInv, Typed, Ordered
<1>2. NoInput \in Inputs /\ NoInput.output = <<>> /\ <<>> \in Seq(Stanzas)
      /\ <<>> \in Seq(Read)
  <2>1. <<>> \in Seq(Stanzas) /\ <<>> \in Seq(Read)
    OBVIOUS
  <2> QED
    BY <2>1 DEF NoInput, Inputs
<1>3. CASE Connected
  <2>1. /\ NotRunning /\ ~lost
        /\ UNCHANGED <<input, down, lost, server, accepted, pending, told>>
    BY <1>3 DEF Connected
  <2>2. /\ input.entry = "none" /\ up \in Seq(Stanzas)
        /\ Follows(pending, up, eng)
    BY <2>1, Idle
  <2>3. CASE eng.state = "START"
    <3> DEFINE e == [eng EXCEPT !.state = "OPENING", !.login = "STREAMSTART_SENT"]
               own == Plain("start")
    <3>1. Leave(e, "START", <<own>>, "OPEN", pool)
      BY <1>3, <2>3 DEF Connected
    <3>2. /\ e \in Engines /\ e.error = eng.error /\ e.queued = eng.queued
          /\ e.login # "none" /\ eng.error = FALSE
      BY <1>1, <2>3 DEF Engines, EngineStates, Logins, XmppInv, InputFits
    <3>3. own \in Own \cap Stanzas
      BY OwnStanzas
    <3> HIDE DEF e, own
    <3>4. <<own>> \in Seq(Stanzas) /\ "OPEN" \in Socks
      BY <3>3 DEF Socks
    <3>5. Follows(pending, up, e)
      BY <2>2, <3>2 DEF Follows
    <3>6. Follows(pending', up \o <<own>>, e)
      BY <2>1, <2>2, <3>3, <3>5, FollowsOwn
    <3> QED
      BY <1>1, <2>1, <2>2, <3>1, <3>2, <3>4, <3>6, WritesKeep
  <2>4. CASE eng.state # "START"
    <3>1. sock' = "OPEN" /\ UNCHANGED <<eng, up, pool, pump, signalClosed>>
      BY <1>3, <2>4 DEF Connected
    <3>2. sock' \in Socks
      BY <3>1 DEF Socks
    <3> QED
      BY <1>1, <2>1, <2>2, <3>1, <3>2, TasksKeep
  <2> QED
    BY <2>3, <2>4
<1>4. CASE TlsConnected
  <2>1. /\ NotRunning /\ sock' = "TLS_OPEN"
        /\ UNCHANGED <<eng, input, up, down, lost, server, pump, signalClosed,
                       pool, accepted, pending, told>>
    BY <1>4 DEF TlsConnected
  <2>2. sock' \in Socks /\ input.entry = "none"
    BY <2>1, Idle DEF Socks
  <2> QED
    BY <1>1, <2>1, <2>2, TasksKeep
<1>5. CASE ReadClosed
  <2>1. /\ NotRunning /\ down' = <<>>
        /\ UNCHANGED <<eng, input, sock, up, lost, server, pump, signalClosed,
                       pool, accepted, pending, told>>
    BY <1>5 DEF ReadClosed
  <2>2. /\ input' = NoInput /\ up \in Seq(Stanzas)
        /\ ~lost => Follows(pending, up, eng)
    BY <2>1, Idle
  <2>3. NoInput.left <= Len(down') /\ NoInput.entry = "none"
    BY <2>1 DEF NoInput
  <2>4. down' \in Seq(Read)
    BY <1>2, <2>1
  <2> QED
    BY <1>1, <1>2, <2>1, <2>2, <2>3, <2>4, NetworkKeeps
<1>6. ASSUME NEW n \in 1..Len(down), HandleInput(n) PROVE XmppInv'
  <2>1. /\ NotRunning /\ eng.state \in {"OPENING", "OPEN"}
        /\ input' = [NoInput EXCEPT !.left = n, !.entry = eng.state]
        /\ UNCHANGED <<eng, sock, up, down, lost, server, pump, signalClosed,
                       pool, accepted, pending, told>>
    BY <1>6 DEF HandleInput
  <2> DEFINE i == [NoInput EXCEPT !.left = n, !.entry = eng.state]
  <2>2. /\ i \in Inputs /\ i.output = <<>> /\ i.left = n
        /\ i.entry \in {"OPENING", "OPEN"}
    <3>1. n \in Nat
      BY DEF XmppInv, Typed
    <3> QED
      BY <1>2, <2>1, <3>1 DEF NoInput, Inputs
  <2>3. /\ up \in Seq(Stanzas) /\ down \in Seq(Read)
        /\ ~lost => Follows(pending, up, eng)
    BY <2>1, Idle
  <2>4. i.left <= Len(down') /\ input' = i
    BY <2>1, <2>2
  <2> HIDE DEF i
  <2> QED
    BY <1>1, <2>1, <2>2, <2>3, <2>4, NetworkKeeps
<1> QED
  BY <1>3, <1>4, <1>5, <1>6 DEF Sockets

LEMMA PlainRead ==
    \A kind \in StanzaKinds \ {"set"} : Plain(kind) \in Read
  BY DEF Plain, Stanza, Stanzas, StanzaIds, Read

\* What the server replies are no requests.
LEMMA ReplyRead ==
    ASSUME XmppInv, Reply
    PROVE  down' \in Seq(Read)
<1> DEFINE s == Head(up)
<1>1. /\ up \in Seq(Stanzas) /\ up # <<>> /\ down \in Seq(Read)
  BY DEF Reply, XmppInv, Typed
<1>2. s \in Stanzas
  BY <1>1
<1>3. ASSUME NEW kind \in {"result", "error"} PROVE Stanza(kind, s.id) \in Read
  BY <1>2 DEF Stanza, Stanzas, StanzaKinds, Read
<1>4. ASSUME NEW a \in Read, down' = down \o <<a>> PROVE down' \in Seq(Read)
  BY <1>1, <1>4
<1>5. ASSUME NEW a \in Read, NEW b \in Read, down' = down \o <<a, b>>
      PROVE down' \in Seq(Read)
  BY <1>1, <1>5
<1>6. CASE s.kind = "start"
  <2>1. PICK has \in Offers(server) : down' = down \o <<Plain("stream"), Features(has)>>
    BY <1>6 DEF Reply
  <2>2. Features(has) \in Read
    BY DEF Offers, Features, Offered, Read
  <2>3. Plain("stream") \in Read
    BY PlainRead DEF StanzaKinds
  <2> QED
    BY <1>5, <2>1, <2>2, <2>3
<1>7. CASE s.kind = "TLS_REQUESTED"
  <2>1. \/ down' = down \o <<Plain("proceed")>>
        \/ down' = down \o <<Plain("failure"), Plain("streamEnd")>>
    BY <1>7 DEF Reply
  <2>2. Plain("proceed") \in Read /\ Plain("failure") \in Read /\ Plain("streamEnd") \in Read
    BY PlainRead DEF StanzaKinds
  <2> QED
    BY <1>4, <1>5, <2>1, <2>2
<1>8. CASE s.kind \in {"SASL_RUNNING", "abort", "end"}
  <2>1. \E kind \in {"success", "challenge", "failure", "streamEnd"} :
            down' = down \o <<Plain(kind)>>
    BY <1>8 DEF Reply
  <2>2. \A kind \in {"success", "challenge", "failure", "streamEnd"} : Plain(kind) \in Read
    BY PlainRead DEF StanzaKinds
  <2> QED
    BY <1>4, <2>1, <2>2
<1>9. CASE s.kind \in {"BIND_REQUESTED", "SESSION_REQUESTED"}
  <2>1. \E kind \in {"result", "error"} : down' = down \o <<Stanza(kind, s.id)>>
    BY <1>9 DEF Reply
  <2> QED
    BY <1>3, <1>4, <2>1
<1>10. CASE s.kind \notin {"start", "TLS_REQUESTED", "SASL_RUNNING", "abort", "end",
                           "BIND_REQUESTED", "SESSION_REQUESTED"}
  <2>1. down' = down
    BY <1>10 DEF Reply
  <2> QED
    BY <1>1, <2>1
<1> QED
  BY <1>6, <1>7, <1>8, <1>9, <1>10

LEMMA ServerKeeps ==
    XmppInv /\ (\/ Reply \/ ServerEnds \/ Lose
                \/ \E r \in Requests : Answer(r)
                \/ \E i \in Incoming : PeerRequest(i)) => XmppInv'
<1> SUFFICES ASSUME XmppInv, \/ Reply \/ ServerEnds \/ Lose
                             \/ \E r \in Requests : Answer(r)
                             \/ \E i \in Incoming : PeerRequest(i)
             PROVE  XmppInv'
  OBVIOUS
<1>1. /\ sock \in Socks /\ lost \in BOOLEAN
      /\ up \in Seq(Stanzas) /\ down \in Seq(Read)
      /\ pending \in Seq({s \in Stanzas : s.id \in accepted})
      /\ lost => up = <<>>
      /\ ~lost => Follows(pending, up \o input.output, eng)
  BY DEF XmppInv, Typed, Ordered
<1>2. /\ NoInput \in Inputs /\ NoInput.output = <<>> /\ NoInput.left = 0
      /\ NoInput.entry = "none" /\ <<>> \in Seq(Stanzas) /\ <<>> \in Seq(Read)
  <2>1. <<>> \in Seq(Stanzas) /\ <<>> \in Seq(Read)
    OBVIOUS
  <2> QED
    BY <2>1 DEF NoInput, Inputs
<1>3. CASE Reply
  <2>1. /\ NotRunning /\ up # <<>> /\ up' = Tail(up)
        /\ pending' = IF Head(up) \in Own THEN pending ELSE Tail(pending)
        /\ UNCHANGED <<eng, input, sock, lost, pump, signalClosed, pool,
                       accepted, told>>
    BY <1>3 DEF Reply
  <2>2. down' \in Seq(Read)
    BY <1>3, ReplyRead
  <2>3. ~lost
    BY <1>1, <2>1
  <2>4. input = NoInput /\ Follows(pending, up, eng)
    BY <2>1, <2>3, Idle
  <2>5. up' \in Seq(Stanzas)
    BY <1>1, <2>1
  <2>6. /\ Follows(pending', up', eng)
        /\ pending' \in Seq({s \in Stanzas : s.id \in accepted})
    <3>1. CASE Head(up) \in Own
      <4>1. Follows(pending, Tail(up), eng)
        BY <1>1, <2>1, <2>4, <3>1, FollowsTaken
      <4>2. pending' = pending
        BY <2>1, <3>1
      <4> QED
        BY <1>1, <2>1, <4>1, <4>2
    <3>2. CASE Head(up) \notin Own
      <4>1. pending # <<>> /\ Follows(Tail(pending), Tail(up), eng)
        BY <1>1, <2>1, <2>4, <3>2, FollowsTaken
      <4>2. pending' = Tail(pending)
        BY <2>1, <3>2
      <4>3. Tail(pending) \in Seq({s \in Stanzas : s.id \in accepted})
        BY <1>1, <4>1
      <4> QED
        BY <2>1, <4>1, <4>2, <4>3
    <3> QED
      BY <3>1, <3>2
  <2>7. NoInput.left <= Len(down')
    BY <1>2, <2>2
  <2> QED
    BY SMTT(40), <1>1, <1>2, <2>1, <2>2, <2>3, <2>4, <2>5, <2>6, <2>7, NetworkKeeps
<1>4. ASSUME NEW s \in Read, NEW srv, ServerSends(s, srv) PROVE XmppInv'
  <2>1. /\ NotRunning /\ ~lost /\ down' = Append(down, s)
        /\ UNCHANGED <<eng, input, sock, up, lost, pump, signalClosed, pool,
                       accepted, pending, told>>
    BY <1>4 DEF ServerSends
  <2>2. input = NoInput /\ Follows(pending, up, eng)
    BY <2>1, Idle
  <2>3. down' \in Seq(Read)
    BY <1>1, <2>1
  <2>4. NoInput.left <= Len(down')
    BY <1>2, <2>3
  <2> QED
    BY <1>1, <1>2, <2>1, <2>2, <2>3, <2>4, NetworkKeeps
<1>5. CASE ServerEnds
  <2>1. PICK kind \in {"streamEnd", "streamError"} :
            ServerSends(Plain(kind), [server EXCEPT !.over = TRUE])
    BY <1>5 DEF ServerEnds
  <2>2. Plain(kind) \in Read
    BY PlainRead DEF StanzaKinds
  <2> QED
    BY <1>4, <2>1, <2>2
<1>6. ASSUME NEW r \in Requests, Answer(r) PROVE XmppInv'
  <2>1. PICK kind \in {"result", "error"} :
            ServerSends(Stanza(kind, r),
                        [server EXCEPT !.asked = @ \ {r},
                                       !.answer = [@ EXCEPT ![r] = kind]])
    BY <1>6 DEF Answer
  <2>2. Stanza(kind, r) \in Read
    BY DEF Stanza, Stanzas, StanzaKinds, StanzaIds, Read
  <2> QED
    BY <1>4, <2>1, <2>2
<1>7. ASSUME NEW i \in Incoming, PeerRequest(i) PROVE XmppInv'
  <2>1. ServerSends(Stanza("set", i), [server EXCEPT !.sent = @ \cup {i}])
    BY <1>7 DEF PeerRequest
  <2>2. Stanza("set", i) \in Read
    BY DEF Stanza, Stanzas, StanzaKinds, StanzaIds, Read
  <2> QED
    BY <1>4, <2>1, <2>2
<1>8. CASE Lose
  <2>1. /\ NotRunning /\ lost' = TRUE /\ up' = <<>> /\ down' = <<>>
        /\ UNCHANGED <<eng, input, sock, server, pump, signalClosed, pool,
                       accepted, pending, told>>
    BY <1>8 DEF Lose
  <2>2. input = NoInput
    BY <2>1, Idle
  <2>3. NoInput.left <= Len(down')
    BY <1>2, <2>1
  <2>4. /\ lost' \in BOOLEAN /\ up' \in Seq(Stanzas) /\ down' \in Seq(Read)
        /\ lost' => up' = <<>>
        /\ lost' = TRUE
    BY <1>2, <2>1
  <2> QED
    BY <1>1, <1>2, <2>1, <2>2, <2>3, <2>4, NetworkKeeps
<1> QED
  BY <1>3, <1>5, <1>6, <1>7, <1>8

LEMMA PumpKeeps ==
    XmppInv /\ (\/ DoLogin \/ DoDisconnect
                \/ \E x \in Raw : PumpSend(x)
                \/ \E r \in Requests : SendRequest(r)
                \/ RunTasks) => XmppInv'
<1> SUFFICES ASSUME XmppInv, \/ DoLogin \/ DoDisconnect
                             \/ \E x \in Raw : PumpSend(x)
                             \/ \E r \in Requests : SendRequest(r)
                             \/ RunTasks
             PROVE  XmppInv'
  OBVIOUS
<1>1. /\ eng \in Engines /\ sock \in Socks /\ pump \in Pumps
      /\ signalClosed \in BOOLEAN /\ pool \in Pools /\ lost \in BOOLEAN
      /\ told \in [Requests -> {"none", "result", "error"}]
      /\ accepted \subseteq Raw \cup SendTasks
      /\ pending \in Seq({s \in Stanzas : s.id \in accepted})
  BY DEF XmppInv, Typed
<1>2. CASE DoLogin
  <2>1. /\ NotRunning /\ sock' = "CLOSED" /\ pump' = "START"
        /\ pool' = StartTask(pool, "client")
        /\ UNCHANGED <<eng, input, up, down, lost, server, signalClosed, accepted,
                       pending, told>>
    BY <1>2 DEF DoLogin
  <2>2. pool' \in Pools
    <3> DEFINE q == Append(pool.queue, "client")
    <3>1. q \in Seq(Task)
      <4>1. "client" \in Task /\ pool.queue \in Seq(Task)
        BY <1>1, PoolFields DEF Task
      <4> QED
        BY <4>1
    <3>2. pool' = [pool EXCEPT !.queue = q, !.posted = TRUE]
      BY <2>1 DEF StartTask
    <3> HIDE DEF q
    <3> QED
      BY <1>1, <3>1, <3>2 DEF Pools
  <2>3. sock' \in Socks /\ pump' \in Pumps /\ input.entry = "none"
    BY <2>1, Idle DEF Socks, Pumps
  <2> QED
    BY <1>1, <2>1, <2>2, <2>3, TasksKeep
<1>3. CASE DoDisconnect
  <2>1. /\ NotRunning
        /\ UNCHANGED <<input, down, lost, server, accepted, pending, told>>
    BY <1>3 DEF DoDisconnect
  <2>2. /\ input.entry = "none" /\ up \in Seq(Stanzas)
        /\ ~lost => Follows(pending, up, eng)
    BY <2>1, Idle
  <2>3. CASE Disconnect /\ eng.state # "CLOSED"
    <3> DEFINE e == [eng EXCEPT !.state = "CLOSED"]
               own == Plain("end")
               o == IF eng.state = "OPEN" THEN <<own>> ELSE <<>>
    <3>1. Leave(e, eng.state, o, sock, pool)
      BY <2>3 DEF Disconnect
    <3>2. /\ e \in Engines /\ e.state = "CLOSED" /\ e.error = eng.error
          /\ e.queued = eng.queued /\ e.login = eng.login
      BY <1>1 DEF Engines, EngineStates
    <3>3. own \in Own \cap Stanzas
      BY OwnStanzas
    <3> HIDE DEF e, own
    <3>4. ~lost => Follows(pending, up, e)
      BY <2>2, <3>2 DEF Follows
    <3>5. o \in Seq(Stanzas) /\ (~lost => Follows(pending', up \o o, e))
      <4>1. CASE eng.state = "OPEN"
        <5>1. o = <<own>>
          BY <4>1
        <5>2. <<own>> \in Seq(Stanzas)
          BY <3>3
        <5>3. ~lost => Follows(pending, up \o <<own>>, e)
          BY <2>2, <3>3, <3>4, FollowsOwn
        <5> QED
          BY <2>1, <5>1, <5>2, <5>3
      <4>2. CASE eng.state # "OPEN"
        <5>1. up \o <<>> = up /\ <<>> \in Seq(Stanzas)
          BY <2>2
        <5>2. o = <<>>
          BY <4>2
        <5> QED
          BY <2>1, <3>4, <5>1, <5>2
      <4> QED
        BY <4>1, <4>2
    <3> HIDE DEF o
    <3>6. e.login = "none" => e.queued = <<>>
      BY <3>2 DEF XmppInv, Ordered
    <3> QED
      BY <1>1, <2>1, <2>2, <3>1, <3>2, <3>5, <3>6, WritesKeep
  <2>4. CASE pump' = "CLOSED" /\ UNCHANGED <<eng, up, sock, pool, signalClosed>>
    <3>1. pump' \in Pumps
      BY <2>4 DEF Pumps
    <3> QED
      BY <1>1, <2>1, <2>2, <2>4, <3>1, TasksKeep
  <2> QED
    BY <1>3, <2>3, <2>4 DEF DoDisconnect
<1>4. ASSUME NEW x \in Raw, PumpSend(x) PROVE XmppInv'
  <2>1. /\ NotRunning /\ SendStanza(Stanza("raw", x), pool)
        /\ UNCHANGED <<input, down, lost, server, told>>
    BY <1>4 DEF PumpSend
  <2> DEFINE s == Stanza("raw", x)
  <2>2. s \in Stanzas /\ s \notin Own /\ s.id \in Raw \cup SendTasks
    BY SentStanzas
  <2>3. input.entry = "none" /\ SendStanza(s, pool)
    BY <2>1, Idle
  <2> HIDE DEF s
  <2> QED
    BY <1>1, <2>1, <2>2, <2>3, SendKeeps
<1>5. ASSUME NEW r \in Requests, SendRequest(r) PROVE XmppInv'
  <2>1. /\ NotRunning /\ pool' = Launch(pool, eng, r)
        /\ UNCHANGED <<eng, input, sock, up, down, lost, server, pump,
                       signalClosed, accepted, pending, told>>
    BY <1>5 DEF SendRequest
  <2>2. r \in Children
    BY DEF Children, SendTasks
  <2>3. pool' \in Pools /\ input.entry = "none"
    BY <1>1, <2>1, <2>2, LaunchKeeps, Idle
  <2> QED
    BY <1>1, <2>1, <2>3, TasksKeep
<1>6. CASE RunTasks
  <2>1. /\ NotRunning
        /\ pool' = [pool EXCEPT !.posted = FALSE, !.at = 1, !.did = FALSE]
        /\ UNCHANGED <<eng, input, sock, up, down, lost, server, pump,
                       signalClosed, accepted, pending, told>>
    BY <1>6 DEF RunTasks
  <2>2. pool' \in Pools
    BY <1>1, <2>1 DEF Pools
  <2>3. input.entry = "none"
    BY <2>1, Idle
  <2> QED
    BY <1>1, <2>1, <2>2, <2>3, TasksKeep
<1> QED
  BY <1>2, <1>3, <1>4, <1>5, <1>6

LEMMA StepKeepsOrder == XmppInv /\ [Next]_vars => XmppInv'
<1> SUFFICES ASSUME XmppInv, [Next]_vars PROVE XmppInv'
  OBVIOUS
<1>1. CASE UNCHANGED vars
  <2>1. Typed'
    BY <1>1 DEF XmppInv, Typed, vars
  <2>2. InputFits'
    BY <1>1 DEF XmppInv, InputFits, vars
  <2>3. Ordered'
    BY <1>1 DEF XmppInv, Ordered, Follows, vars
  <2> QED
    BY <2>1, <2>2, <2>3 DEF XmppInv
<1>2. CASE Next
  BY <1>2, ParserKeeps, StepsKeep, SocketsKeep, ServerKeeps, PumpKeeps DEF Next
<1> QED
  BY <1>1, <1>2

LEMMA XmppInvHolds == Spec => []XmppInv
<1>1. Init => XmppInv
  BY InitHolds
<1>2. XmppInv /\ [Next]_vars => XmppInv'
  BY StepKeepsOrder
<1> QED
  BY <1>1, <1>2, PTL DEF Spec

\* Every variable has its type: the queues of the tasks and the stanzas under
\* way as well, however many there are.
THEOREM XmppTypeOK == Spec => []TypeOK
<1>1. XmppInv => TypeOK
  <2> SUFFICES ASSUME XmppInv PROVE TypeOK
    OBVIOUS
  <2>1. /\ eng \in Engines /\ input \in Inputs /\ sock \in Socks
        /\ up \in Seq(Stanzas) /\ down \in Seq(Read)
        /\ lost \in BOOLEAN /\ pump \in Pumps /\ signalClosed \in BOOLEAN
        /\ pool \in Pools /\ accepted \subseteq Raw \cup SendTasks
        /\ pending \in Seq({s \in Stanzas : s.id \in accepted})
        /\ told \in [Requests -> {"none", "result", "error"}]
        /\ input.left <= Len(down)
    BY DEF XmppInv, Typed, InputFits
  <2>2. down \in Seq(Stanzas \cup Offered)
    <3>1. Read \subseteq Stanzas \cup Offered
      BY DEF Read
    <3> QED
      BY <2>1, <3>1
  <2> DEFINE Records == [state : States, blocked : BOOLEAN, done : BOOLEAN,
                         inbox : Seq(Stanzas)]
  <2>3. pool.of \in [Task -> Records]
    <3>1. ASSUME NEW t \in Task PROVE pool.of[t] \in Records
      <4>1. pool.of[t] \in TaskRecord(t)
        BY <2>1, PoolFields
      <4>2. Takes(t) \subseteq Stanzas
        BY DEF Takes
      <4>3. pool.of[t].inbox \in Seq(Stanzas)
        BY <4>1, <4>2 DEF TaskRecord
      <4> QED
        BY <4>1, <4>3 DEF TaskRecord
    <3>2. pool.of = [t \in Task |-> pool.of[t]]
      BY <2>1 DEF Pools, Tables
    <3> HIDE DEF Records
    <3> QED
      BY <3>1, <3>2
  <2> HIDE DEF Records
  <2>4. pool \in [of : [Task -> Records], queue : Seq(Task), at : Nat,
                  did : BOOLEAN, posted : BOOLEAN, handlers : SUBSET Children]
    BY <2>1, <2>3 DEF Pools
  <2> QED
    BY <2>1, <2>2, <2>4 DEF TypeOK, Engines, EngineStates, Logins, Inputs, Socks,
                            Pumps, Records, States
<1> QED
  BY <1>1, XmppInvHolds, PTL

\* What SendStanza has taken goes to the server once and in that order, and
\* nothing else does.
THEOREM StanzasKeepOrder == Spec => []StanzasInOrder
<1>1. XmppInv => StanzasInOrder
  <2> SUFFICES ASSUME XmppInv, ~lost, eng.state # "CLOSED"
               PROVE  pending = Handed(up) \o Handed(input.output)
                                   \o Handed(eng.queued)
    BY DEF StanzasInOrder
  <2> DEFINE o == input.output
             q == eng.queued
  <2>1. /\ up \in Seq(Stanzas) /\ o \in Seq(Stanzas) /\ ~eng.error
        /\ Follows(pending, up \o o, eng)
    BY DEF XmppInv, Typed, Inputs, InputFits, Ordered
  <2>2. pending = Handed(up \o o) \o Handed(q)
    BY <2>1 DEF Follows
  <2> HIDE DEF o, q
  <2>3. Handed(up \o o) = Handed(up) \o Handed(o)
    BY <2>1, HandedConcat
  <2> QED
    BY <2>2, <2>3 DEF o, q
<1> QED
  BY <1>1, XmppInvHolds, PTL

----------------------------------------------------------------------------
(* The tasks are served *)

Alive(p)   == {t \in Task : p.of[t].state \notin Gone}
Ended(p)   == {t \in Task : p.of[t].done}
Blocked(p) == {t \in Task : p.of[t].blocked}
Queued(p)  == {t \in Task : Has(p.queue, t)}
ClientState(p) == p.of["client"].state

\* What is true of the tasks and their runner alone.
Pooled(p) ==
    /\ Queued(p) \subseteq Alive(p)
    /\ Alive(p) \cap Children \subseteq Queued(p)
    /\ Alive(p) \cap Ended(p) \subseteq Blocked(p)
    /\ Alive(p) \cap Ended(p) # {} => p.at > 0
    /\ p.handlers \subseteq Alive(p) \ Ended(p)
    /\ "client" \in Ended(p) => Alive(p) \cap Children \subseteq Ended(p)
    /\ ClientState(p) = "DELETED" => Alive(p) \cap Children = {}
    /\ p.at > 0 \/ Queued(p) \subseteq Blocked(p) \/ p.posted = TRUE

\* The client task, the engine in state e and the socket in state s.
Linked(p, e, s) ==
    /\ s = "none" => ClientState(p) = "INIT" /\ "client" \notin Ended(p)
    /\ "client" \in Queued(p) => s # "none"
    /\ s # "none" /\ "client" \in Alive(p) => "client" \in Queued(p)
    /\ "client" \in Ended(p) => e = "CLOSED" \/ (e = "START" /\ s = "CLOSED")
    /\ ClientState(p) \in {"INIT", "START", "START_XMPP_LOGIN"} =>
          s \in {"none", "CLOSED"} /\ e \in {"START", "CLOSED"}
    /\ ClientState(p) = "DELETED" => "client" \in Ended(p)

\* RunTasks has left nothing behind that is ready, unless something was done
\* since it began at the first task.
Checked(p) ==
    p.at > 0 /\ p.did = FALSE =>
        \A n \in 1..Len(p.queue) : n < p.at => p.queue[n] \in Blocked(p)

ServedInv == Pooled(pool) /\ Linked(pool, eng.state, sock) /\ Checked(pool)

LEMMA Clients ==
    /\ "client" \in Task /\ "client" \notin Children /\ Task = Children \cup {"client"}
    /\ "manager" \in Children /\ SendTasks \subseteq Children /\ "manager" \notin SendTasks
    /\ Requests \subseteq SendTasks /\ Incoming \subseteq SendTasks
  BY XmppSessionAssumption DEF Task, Children, SendTasks

LEMMA WakeServes ==
    ASSUME NEW p \in Pools, NEW t \in Task, Pooled(p)
    PROVE  /\ Pooled(Wake(p, t)) /\ Queued(Wake(p, t)) = Queued(p)
           /\ Alive(Wake(p, t)) = Alive(p) /\ Ended(Wake(p, t)) = Ended(p)
           /\ ClientState(Wake(p, t)) = ClientState(p)
<1> DEFINE q == Wake(p, t)
<1>1. /\ q.queue = p.queue /\ q.at = p.at /\ q.handlers = p.handlers
      /\ \A u \in Task : q.of[u].state = p.of[u].state
      /\ \A u \in Task : q.of[u].done = p.of[u].done
      /\ "client" \in Task
  BY WakeKeeps, Clients
<1>2. /\ Queued(q) = Queued(p) /\ Alive(q) = Alive(p) /\ Ended(q) = Ended(p)
      /\ ClientState(q) = ClientState(p)
  <2> HIDE DEF q
  <2> QED
    BY <1>1 DEF Queued, Alive, Ended, ClientState
<1>3. \/ Blocked(q) = Blocked(p) /\ q.posted = p.posted
      \/ /\ q.posted = TRUE /\ t \notin Ended(p)
         /\ Blocked(p) \subseteq Blocked(q) \cup {t}
  <2>1. CASE p.of[t].done \/ ~p.of[t].blocked
    <3>1. q = p
      BY <2>1 DEF Wake
    <3> HIDE DEF q
    <3> QED
      BY <3>1
  <2>2. CASE ~(p.of[t].done \/ ~p.of[t].blocked)
    <3>1. q = [p EXCEPT !.of[t].blocked = FALSE, !.posted = TRUE]
      BY <2>2 DEF Wake
    <3> HIDE DEF q
    <3>2. q.posted = TRUE /\ t \notin Ended(p)
      BY <2>2, <3>1 DEF Pools, Ended
    <3>3. \A u \in Task : u # t => q.of[u] = p.of[u]
      BY <3>1, PoolFields DEF Pools
    <3>4. Blocked(p) \subseteq Blocked(q) \cup {t}
      BY <3>3 DEF Blocked
    <3> QED
      BY <3>2, <3>4
  <2> QED
    BY <2>1, <2>2
<1> HIDE DEF q
<1>4. Alive(p) \cap Ended(p) \subseteq Blocked(q)
  BY <1>3 DEF Pooled
<1>5. p.at > 0 \/ Queued(q) \subseteq Blocked(q) \/ q.posted = TRUE
  BY <1>2, <1>3 DEF Pooled
<1>6. Pooled(q)
  BY <1>1, <1>2, <1>4, <1>5 DEF Pooled
<1> QED
  BY <1>2, <1>6 DEF q

LEMMA LaunchServes ==
    ASSUME NEW p \in Pools, NEW e, NEW t \in Children, Pooled(p),
           "client" \notin Ended(p), ClientState(p) # "DELETED"
    PROVE  /\ Pooled(Launch(p, e, t))
           /\ Queued(Launch(p, e, t)) = Queued(p) \cup {t}
           /\ Alive(Launch(p, e, t)) = Alive(p) \cup {t}
           /\ Ended(Launch(p, e, t)) = Ended(p) \ {t}
           /\ ClientState(Launch(p, e, t)) = ClientState(p)
<1> DEFINE q == Launch(p, e, t)
<1>1. /\ q.queue = Append(p.queue, t) /\ q.at = p.at /\ q.posted = TRUE
      /\ \A u \in Task : u # t => q.of[u] = p.of[u]
  BY ZenonT(80), LaunchKeeps
<1>2. q.of[t] = NewTask /\ q.handlers \subseteq p.handlers \cup {t}
  BY Launched
<1>3. "client" \in Task /\ "client" # t /\ t \in Task
  BY Clients
<1>4. NewTask.state = "INIT" /\ NewTask.done = FALSE
  BY DEF NewTask
<1> HIDE DEF q
<1>5. Queued(q) = Queued(p) \cup {t}
  <2>1. \A u \in Task : Has(q.queue, u) <=> (Has(p.queue, u) \/ t = u)
    <3>1. p.queue \in Seq(Task)
      BY PoolFields
    <3> QED
      BY <1>1, <1>3, <3>1, HasAppend
  <2> QED
    BY <1>3, <2>1 DEF Queued
<1>6. Alive(q) = Alive(p) \cup {t} /\ Ended(q) = Ended(p) \ {t}
  BY <1>1, <1>2, <1>3, <1>4 DEF Alive, Ended, Gone
<1>7. Blocked(p) \ {t} \subseteq Blocked(q)
  BY <1>1 DEF Blocked
<1>8. ClientState(q) = ClientState(p)
  BY <1>1, <1>3 DEF ClientState
<1>9. Pooled(q)
  BY <1>1, <1>2, <1>3, <1>5, <1>6, <1>7, <1>8 DEF Pooled
<1> QED
  BY <1>5, <1>6, <1>8, <1>9 DEF q

LEMMA TakeServes ==
    ASSUME NEW p \in Pools, NEW q \in Pools, Pooled(p),
           q.queue = p.queue, q.at = p.at, q.handlers = p.handlers,
           q.posted = p.posted,
           \A u \in Task : /\ q.of[u].state = p.of[u].state
                           /\ q.of[u].done = p.of[u].done
                           /\ q.of[u].blocked = p.of[u].blocked
    PROVE  /\ Pooled(q) /\ Queued(q) = Queued(p) /\ Alive(q) = Alive(p)
           /\ Ended(q) = Ended(p) /\ ClientState(q) = ClientState(p)
<1>1. /\ Queued(q) = Queued(p) /\ Alive(q) = Alive(p) /\ Ended(q) = Ended(p)
      /\ Blocked(q) = Blocked(p)
  BY DEF Queued, Alive, Ended, Blocked
<1>2. ClientState(q) = ClientState(p)
  BY Clients DEF ClientState
<1> QED
  BY <1>1, <1>2 DEF Pooled

LEMMA StepServes ==
    ASSUME NEW p \in Pools, NEW t \in Task, Pooled(p), p.at > 0,
           t \in Alive(p), t \notin Ended(p),
           NEW state \in ((States \cup {"BLOCKED"}) \ Gone) \ {"DONE", "ERROR"}
    PROVE  /\ Pooled(Stepped(p, t, state)) /\ Checked(Stepped(p, t, state))
           /\ Queued(Stepped(p, t, state)) = Queued(p)
           /\ Alive(Stepped(p, t, state)) = Alive(p)
           /\ Ended(Stepped(p, t, state)) = Ended(p)
           /\ t # "client" => ClientState(Stepped(p, t, state)) = ClientState(p)
           /\ t = "client" => ClientState(Stepped(p, t, state)) =
                                  IF state = "BLOCKED" THEN ClientState(p) ELSE state
<1> DEFINE q == Stepped(p, t, state)
<1>1. /\ q.queue = p.queue /\ q.at = p.at /\ q.handlers = p.handlers
      /\ q.of[t].state = IF state = "BLOCKED" THEN p.of[t].state ELSE state
      /\ q.of[t].done = p.of[t].done
      /\ \A u \in Task : u # t => q.of[u] = p.of[u]
  BY SteppedOn
<1>2. q.did
  BY SteppedOn
<1> HIDE DEF q
<1>3. Queued(q) = Queued(p) /\ Ended(q) = Ended(p)
  BY <1>1 DEF Queued, Ended
<1>4. Alive(q) = Alive(p)
  BY <1>1 DEF Alive
<1>5. Blocked(p) \subseteq Blocked(q) \cup {t}
  BY <1>1 DEF Blocked
<1>6. /\ t # "client" => ClientState(q) = ClientState(p)
      /\ t = "client" => ClientState(q) = IF state = "BLOCKED" THEN ClientState(p)
                                          ELSE state
  BY <1>1, Clients DEF ClientState
<1>7. ClientState(q) = "DELETED" => ClientState(p) = "DELETED"
  BY <1>6 DEF Gone
<1>8. Pooled(q)
  BY <1>1, <1>3, <1>4, <1>5, <1>7 DEF Pooled
<1>9. Checked(q)
  BY <1>2 DEF Checked
<1> QED
  BY <1>3, <1>4, <1>6, <1>8, <1>9 DEF q

LEMMA EndServes ==
    ASSUME NEW p \in Pools, NEW t \in Task, Pooled(p), p.at > 0,
           t \in Alive(p), t \notin Ended(p), NEW state \in {"DONE", "ERROR"}
    PROVE  /\ Pooled(Stepped(p, t, state)) /\ Checked(Stepped(p, t, state))
           /\ Queued(Stepped(p, t, state)) = Queued(p)
           /\ Alive(Stepped(p, t, state)) = Alive(p)
           /\ t # "client" =>
                 /\ Ended(Stepped(p, t, state)) = Ended(p) \cup {t}
                 /\ ClientState(Stepped(p, t, state)) = ClientState(p)
           /\ t = "client" => ClientState(Stepped(p, t, state)) = state
<1> DEFINE q == Stepped(p, t, state)
<1>1. /\ q.queue = p.queue /\ q.at = p.at /\ q.handlers \subseteq p.handlers
      /\ q.of[t].state = state
  BY SteppedEnd
<1>2. q.did
  BY SteppedEnd
<1>3. q.of[t].done /\ q.of[t].blocked
  BY SteppedEnd
<1>4. t # "client" => t \notin q.handlers
  BY SteppedEnd
<1>5. t # "client" => \A u \in Task : u # t => q.of[u] = p.of[u]
  BY SteppedOthers
<1> HIDE DEF q
<1>6. Queued(q) = Queued(p) /\ Checked(q)
  BY <1>1, <1>2 DEF Queued, Checked
<1>7. t \in Alive(q) /\ t \in Ended(q) /\ t \in Blocked(q)
  BY <1>1, <1>3 DEF Alive, Ended, Blocked, Gone
<1>8. CASE t # "client"
  <2>1. /\ q.handlers \subseteq p.handlers \ {t}
        /\ \A u \in Task : u # t => q.of[u] = p.of[u]
    BY <1>1, <1>8, <1>4, <1>5
  <2>2. /\ Alive(q) = Alive(p) /\ Ended(q) = Ended(p) \cup {t}
        /\ Blocked(q) = Blocked(p) \cup {t}
    BY <1>7, <2>1 DEF Alive, Ended, Blocked
  <2>3. ClientState(q) = ClientState(p)
    BY <1>8, <2>1, Clients DEF ClientState
  <2>4. Pooled(q)
    BY <1>1, <1>6, <1>8, <2>1, <2>2, <2>3 DEF Pooled
  <2> QED
    BY <1>6, <1>8, <2>2, <2>3, <2>4 DEF q
<1>9. CASE t = "client"
  <2>1. /\ \A u \in p.handlers : p.of[u].state \notin Gone /\ ~p.of[u].done
              => u \notin q.handlers
        /\ \A u \in Children :
              /\ q.of[u].state = p.of[u].state
              /\ p.of[u].state \notin Gone => q.of[u].done
              /\ \/ q.of[u] = p.of[u]
                 \/ q.of[u].blocked
    BY <1>9, SteppedEnd DEF q
  <2>2. Alive(q) = Alive(p)
    BY <1>7, <1>9, <2>1, Clients DEF Alive
  <2>3. Alive(q) \cap Children \subseteq Ended(q)
    BY <2>1, <2>2, Clients DEF Alive, Ended
  <2>4. Alive(q) \cap Ended(q) \subseteq Blocked(q)
    <3> SUFFICES ASSUME NEW u \in Alive(q), u \in Ended(q), u # t
                 PROVE  u \in Blocked(q)
      BY <1>7
    <3>1. u \in Children /\ u \in Task
      BY <1>9, Clients DEF Alive
    <3>2. CASE q.of[u].blocked
      BY <3>1, <3>2 DEF Blocked
    <3>3. CASE q.of[u] = p.of[u]
      <4>1. u \in Ended(p) /\ u \in Alive(p)
        BY <2>2, <3>1, <3>3 DEF Ended
      <4>2. u \in Blocked(p)
        BY <4>1 DEF Pooled
      <4> QED
        BY <3>1, <3>3, <4>2 DEF Blocked
    <3> QED
      BY <2>1, <3>1, <3>2, <3>3
  <2>5. q.handlers = {}
    <3>1. \A u \in p.handlers : p.of[u].state \notin Gone /\ ~p.of[u].done
      BY DEF Pooled, Alive, Ended
    <3> QED
      BY <1>1, <2>1, <3>1
  <2>6. ClientState(q) = state
    BY <1>1, <1>9 DEF ClientState
  <2>7. Pooled(q)
    BY <1>1, <1>6, <2>2, <2>3, <2>4, <2>5, <2>6 DEF Pooled
  <2> QED
    BY <1>6, <1>9, <2>2, <2>6, <2>7 DEF q
<1> QED
  BY <1>8, <1>9

\* The client's part does not change with the other tasks.
LEMMA LinkedSame ==
    ASSUME NEW p, NEW q, NEW e, NEW s, Linked(p, e, s),
           ClientState(q) = ClientState(p),
           "client" \in Ended(q) <=> "client" \in Ended(p),
           "client" \in Alive(q) <=> "client" \in Alive(p),
           "client" \in Queued(q) <=> "client" \in Queued(p)
    PROVE  Linked(q, e, s)
  BY DEF Linked

\* What the end of an EnterExit leaves of the tasks.
LEMMA LeaveServes ==
    ASSUME NEW e \in Engines, NEW entry, NEW output, NEW s \in Socks,
           NEW p \in Pools, Leave(e, entry, output, s, p),
           Pooled(p), Linked(p, e.state, s)
    PROVE  /\ Pooled(pool') /\ Linked(pool', eng'.state, sock')
           /\ pool'.at = p.at /\ (e.state = entry => pool' = p)
<1>1. eng' = e /\ sock' = IF e.state # entry /\ e.state = "CLOSED" THEN Closed(s) ELSE s
  BY DEF Leave
<1>2. Linked(p, e.state, sock')
  BY <1>1 DEF Linked, Closed
<1>3. CASE e.state = entry
  BY <1>1, <1>2, <1>3 DEF Leave
<1>4. CASE e.state # entry
  <2> DEFINE q == IF e.state = "OPEN" THEN Launch(p, e, "manager") ELSE p
  <2>1. pool' = Wake(q, "client")
    BY <1>4 DEF Leave, OnStateChange
  <2>2. /\ q \in Pools /\ q.at = p.at /\ Pooled(q) /\ Linked(q, e.state, sock')
    <3>1. CASE e.state = "OPEN"
      <4> DEFINE r == Launch(p, e, "manager")
      <4>1. "manager" \in Children /\ "manager" # "client"
        BY Clients
      <4>2. "client" \notin Ended(p) /\ ClientState(p) # "DELETED"
        BY <3>1 DEF Linked
      <4>3. r \in Pools /\ r.at = p.at
        BY <4>1, LaunchKeeps
      <4>4. /\ Pooled(r) /\ Queued(r) = Queued(p) \cup {"manager"}
            /\ Alive(r) = Alive(p) \cup {"manager"}
            /\ Ended(r) = Ended(p) \ {"manager"}
            /\ ClientState(r) = ClientState(p)
        BY <4>1, <4>2, LaunchServes
      <4> HIDE DEF r
      <4>5. Linked(r, e.state, sock')
        BY <1>2, <4>1, <4>4, LinkedSame
      <4>6. q = r
        BY <3>1 DEF r
      <4> HIDE DEF q
      <4> QED
        BY <4>3, <4>4, <4>5, <4>6
    <3>2. CASE e.state # "OPEN"
      <4>1. q = p
        BY <3>2
      <4> HIDE DEF q
      <4> QED
        BY <1>2, <4>1
    <3> QED
      BY <3>1, <3>2
  <2> HIDE DEF q
  <2>3. "client" \in Task
    BY Clients
  <2>4. /\ Pooled(pool') /\ Queued(pool') = Queued(q) /\ Alive(pool') = Alive(q)
        /\ Ended(pool') = Ended(q) /\ ClientState(pool') = ClientState(q)
    BY <2>1, <2>2, <2>3, WakeServes
  <2>5. pool'.at = p.at
    BY <2>1, <2>2, <2>3, WakeKeeps
  <2>6. Linked(pool', e.state, sock')
    BY <2>2, <2>4, LinkedSame
  <2> QED
    BY <1>1, <1>4, <2>4, <2>5, <2>6
<1> QED
  BY <1>3, <1>4

LEMMA InitServes == Init => ServedInv
<1> SUFFICES ASSUME Init PROVE ServedInv
  OBVIOUS
<1>1. /\ pool.queue = <<>> /\ pool.at = 0 /\ pool.handlers = {}
      /\ \A t \in Task : pool.of[t] = IF t = "client" THEN NewTask ELSE NoTask
      /\ sock = "none" /\ eng.state = "START"
  BY DEF Init, NewEngine
<1>2. /\ NewTask.state = "INIT" /\ NewTask.done = FALSE
      /\ NoTask.state = "NONE" /\ NoTask.done = FALSE
  BY DEF NewTask, NoTask
<1>3. Queued(pool) = {}
  BY <1>1 DEF Queued, Has
<1>4. Ended(pool) = {} /\ Alive(pool) = {"client"} /\ ClientState(pool) = "INIT"
  BY <1>1, <1>2, Clients DEF Ended, Alive, ClientState, Gone
<1>5. Pooled(pool)
  BY <1>1, <1>3, <1>4, Clients DEF Pooled
<1>6. Linked(pool, eng.state, sock)
  BY <1>1, <1>3, <1>4 DEF Linked
<1> QED
  BY <1>1, <1>5, <1>6 DEF ServedInv, Checked

LEMMA ParserServes == XmppInv /\ ServedInv /\ Parser => ServedInv'
<1> SUFFICES ASSUME XmppInv, ServedInv, Parser PROVE ServedInv'
  OBVIOUS
<1>1. /\ eng \in Engines /\ input \in Inputs /\ sock \in Socks /\ pool \in Pools
      /\ Pooled(pool) /\ Linked(pool, eng.state, sock)
  BY DEF XmppInv, Typed, ServedInv
<1>2. pool.at = 0 /\ input.entry # "none"
  <2>1. input.entry # "none"
    BY DEF Parser, ParseIgnored, ParseEnd, ParseLogin, ParseStanza,
           HandleInputDone, Parsing
  <2>2. pool.at \in Nat
    BY <1>1, PoolFields
  <2> QED
    BY <2>1, <2>2 DEF XmppInv, InputFits
<1>3. eng.error = FALSE => eng.state \in {"OPENING", "OPEN"}
  BY <1>2 DEF XmppInv, InputFits
<1>4. ASSUME Pooled(pool'), Linked(pool', eng'.state, sock'), pool'.at = 0
      PROVE  ServedInv'
  BY <1>4 DEF ServedInv, Checked
<1>5. CASE ParseIgnored
  BY <1>1, <1>2, <1>4, <1>5 DEF ParseIgnored, Parse
<1>6. CASE ParseEnd
  <2> DEFINE e == [eng EXCEPT !.state = "CLOSED", !.error = TRUE]
  <2>1. eng' = e /\ pool' = pool /\ sock' = sock
    BY <1>6 DEF ParseEnd, Parse
  <2>2. e.state = "CLOSED"
    BY <1>1 DEF Engines
  <2>3. Linked(pool, "CLOSED", sock)
    BY <1>1 DEF Linked
  <2> HIDE DEF e
  <2> QED
    BY <1>1, <1>2, <1>4, <2>1, <2>2, <2>3
<1>7. CASE ParseLogin
  <2>1. eng.state \in {"OPENING", "OPEN"} /\ pool' = pool
    BY <1>1, <1>3, <1>7 DEF ParseLogin, Engines
  <2>2. sock' \in {sock, "TLS_CONNECTING"}
    BY <1>1, <1>7, LoginReads
  <2>3. /\ sock # "none" /\ "client" \notin Ended(pool)
        /\ ClientState(pool) \notin {"INIT", "START", "START_XMPP_LOGIN"}
    BY <1>1, <2>1 DEF Linked
  <2>4. Linked(pool, eng'.state, sock')
    BY <1>1, <2>2, <2>3 DEF Linked
  <2> QED
    BY <1>1, <1>2, <1>4, <2>1, <2>4
<1>8. CASE ParseStanza
  <2> DEFINE s == Head(down)
  <2>1. eng' = eng /\ sock' = sock
    BY <1>8 DEF ParseStanza, Parse
  <2>2. CASE pool' = pool
    BY <1>1, <1>2, <1>4, <2>1, <2>2
  <2>3. CASE pool' # pool
    <3>1. PICK t \in HandlerOf(s) : pool' = QueueStanza(pool, t, s)
      BY <1>8, <2>3 DEF ParseStanza
    <3>2. t \in Task /\ s \in Takes(t)
      <4>1. t \in pool.handlers
        BY DEF HandlerOf
      <4>2. t \in Task
        BY <1>1, <4>1, PoolFields DEF Task
      <4>3. s.kind \in {"set", "result", "error"}
        BY DEF HandlerOf
      <4>4. s \notin Offered
        BY <4>3 DEF Offered
      <4>5. s \in Read
        <5>1. input.left \in Nat /\ input.left > 0 /\ input.left <= Len(down)
              /\ down \in Seq(Read)
          BY <1>1, <1>8 DEF Inputs, Parsing, ParseStanza, XmppInv, InputFits, Typed
        <5> QED
          BY <5>1
      <4> QED
        BY <4>2, <4>4, <4>5 DEF HandlerOf, Takes, Read
    <3> DEFINE p == [pool EXCEPT !.of[t].inbox = Append(@, s)]
    <3>3. p \in Pools
      BY <1>1, <3>2, QueueKeeps
    <3>4. /\ p.queue = pool.queue /\ p.at = pool.at /\ p.handlers = pool.handlers
          /\ p.posted = pool.posted
          /\ \A u \in Task : /\ p.of[u].state = pool.of[u].state
                             /\ p.of[u].done = pool.of[u].done
                             /\ p.of[u].blocked = pool.of[u].blocked
      <4> DEFINE k == [pool.of[t] EXCEPT !.inbox = Append(@, s)]
                 f == [pool.of EXCEPT ![t] = k]
      <4>1. p = [pool EXCEPT !.of = f]
        BY <1>1 DEF Pools
      <4>2. pool.of[t] \in TaskRecord(t) /\ pool.of \in Tables
        BY <1>1, <3>2, PoolFields DEF Pools
      <4>3. /\ k.state = pool.of[t].state /\ k.done = pool.of[t].done
            /\ k.blocked = pool.of[t].blocked
        BY <4>2 DEF TaskRecord
      <4> HIDE DEF k
      <4>4. f[t] = k /\ \A u \in Task : u # t => f[u] = pool.of[u]
        BY <3>2, <4>2 DEF Tables
      <4> HIDE DEF f, p
      <4>5. /\ p.queue = pool.queue /\ p.at = pool.at /\ p.handlers = pool.handlers
            /\ p.posted = pool.posted /\ p.of = f
        BY <1>1, <4>1 DEF Pools
      <4> QED
        BY <4>3, <4>4, <4>5
    <3>5. pool' = Wake(p, t)
      BY <3>1 DEF QueueStanza
    <3> HIDE DEF p
    <3>6. /\ Pooled(p) /\ Queued(p) = Queued(pool) /\ Alive(p) = Alive(pool)
          /\ Ended(p) = Ended(pool) /\ ClientState(p) = ClientState(pool)
      BY <1>1, <3>3, <3>4, TakeServes
    <3>7. /\ Pooled(pool') /\ Queued(pool') = Queued(p) /\ Alive(pool') = Alive(p)
          /\ Ended(pool') = Ended(p) /\ ClientState(pool') = ClientState(p)
      BY <3>2, <3>3, <3>5, <3>6, WakeServes
    <3>8. pool'.at = 0
      BY <1>2, <3>2, <3>3, <3>4, <3>5, WakeKeeps
    <3>9. Linked(pool', eng.state, sock)
      BY <1>1, <3>6, <3>7, LinkedSame
    <3> QED
      BY <1>4, <2>1, <3>7, <3>8, <3>9
  <2> QED
    BY <2>2, <2>3
<1>9. CASE HandleInputDone
  <2>1. Leave(eng, input.entry, input.output, sock, pool)
    BY <1>9 DEF HandleInputDone
  <2>2. Pooled(pool') /\ Linked(pool', eng'.state, sock') /\ pool'.at = pool.at
    BY <1>1, <2>1, LeaveServes
  <2> QED
    BY <1>2, <1>4, <2>2
<1> QED
  BY <1>5, <1>6, <1>7, <1>8, <1>9 DEF Parser

LEMMA SteppingServes ==
    ASSUME XmppInv, ServedInv, NEW t, Stepping(t)
    PROVE  /\ t \in Task /\ t \in Queued(pool) /\ t \in Alive(pool)
           /\ t \notin Ended(pool) /\ pool.at > 0 /\ pool \in Pools
           /\ Pooled(pool) /\ Linked(pool, eng.state, sock) /\ eng \in Engines
           /\ sock \in Socks
<1>1. t \in Task /\ pool \in Pools /\ pool.at > 0 /\ eng \in Engines /\ sock \in Socks
  BY Stepping1 DEF XmppInv, Typed
<1>2. pool.queue \in Seq(Task)
  BY <1>1, PoolFields
<1>3. t \in Queued(pool)
  <2>1. pool.at \in DOMAIN pool.queue /\ pool.queue[pool.at] = t
    BY <1>2 DEF Stepping
  <2> QED
    BY <1>1, <2>1 DEF Queued, Has
<1>4. t \notin Blocked(pool)
  BY DEF Stepping, Blocked
<1> QED
  BY <1>1, <1>3, <1>4 DEF ServedInv, Pooled

\* A stanza is sent by a task, or by the pump while no task runs.
LEMMA SendServes ==
    ASSUME XmppInv, NEW s, NEW p \in Pools, SendStanza(s, p), Pooled(p), Checked(p),
           Linked(p, eng.state, sock)
    PROVE  Pooled(pool') /\ Linked(pool', eng'.state, sock') /\ Checked(pool')
<1>1. eng \in Engines
  BY DEF XmppInv, Typed
<1>2. CASE eng.state = "CLOSED"
  BY <1>2 DEF SendStanza
<1>3. CASE eng.state # "CLOSED"
  <2>1. PICK e, output : /\ Leave(e, eng.state, output, sock, p)
                         /\ e.state = eng.state
    <3>1. [eng EXCEPT !.queued = Append(@, s)].state = eng.state
      BY <1>1 DEF Engines
    <3> QED
      BY <1>3, <3>1 DEF SendStanza
  <2>2. eng' = e /\ sock' = sock /\ pool' = p
    BY <2>1 DEF Leave
  <2> QED
    BY <2>1, <2>2
<1> QED
  BY <1>2, <1>3

LEMMA NextServes ==
    ASSUME pool \in Pools, Pooled(pool), Linked(pool, eng.state, sock), Checked(pool),
           NextTask
    PROVE  Pooled(pool') /\ Linked(pool', eng'.state, sock') /\ Checked(pool')
<1>1. /\ pool.at > 0 /\ eng' = eng /\ sock' = sock
      /\ \/ /\ pool.at <= Len(pool.queue)
            /\ pool.of[pool.queue[pool.at]].blocked
            /\ pool' = [pool EXCEPT !.at = @ + 1]
         \/ pool' = [pool EXCEPT !.at = 1, !.did = FALSE]
  BY DEF NextTask
<1>2. pool.at \in Nat /\ pool.queue \in Seq(Task)
  BY PoolFields
<1>3. /\ pool'.of = pool.of /\ pool'.queue = pool.queue /\ pool'.at > 0
      /\ pool'.handlers = pool.handlers
  <2>1. CASE pool' = [pool EXCEPT !.at = @ + 1]
    BY <1>2, <2>1 DEF Pools
  <2>2. CASE pool' = [pool EXCEPT !.at = 1, !.did = FALSE]
    BY <2>2 DEF Pools
  <2> QED
    BY <1>1, <2>1, <2>2
<1>4. /\ Queued(pool') = Queued(pool) /\ Alive(pool') = Alive(pool)
      /\ Ended(pool') = Ended(pool) /\ Blocked(pool') = Blocked(pool)
      /\ ClientState(pool') = ClientState(pool)
  BY <1>3 DEF Queued, Alive, Ended, Blocked, ClientState
<1>5. Pooled(pool')
  BY <1>1, <1>3, <1>4 DEF Pooled
<1>6. Linked(pool', eng'.state, sock')
  BY <1>1, <1>4, LinkedSame
<1>7. CASE /\ pool.at <= Len(pool.queue)
           /\ pool.of[pool.queue[pool.at]].blocked
           /\ pool' = [pool EXCEPT !.at = @ + 1]
  <2>1. pool.queue[pool.at] \in Blocked(pool)
    <3>1. pool.queue[pool.at] \in Task
      BY <1>1, <1>2, <1>7
    <3> QED
      BY <1>7, <3>1 DEF Blocked
  <2>2. pool'.at = pool.at + 1 /\ pool'.did = pool.did
    BY <1>7 DEF Pools
  <2>3. Checked(pool')
    BY <1>1, <1>2, <1>3, <1>4, <2>1, <2>2 DEF Checked
  <2> QED
    BY <1>5, <1>6, <2>3
<1>8. CASE pool' = [pool EXCEPT !.at = 1, !.did = FALSE]
  <2>1. pool'.at = 1
    BY <1>8 DEF Pools
  <2>2. Checked(pool')
    BY <2>1 DEF Checked
  <2> QED
    BY <1>5, <1>6, <2>2
<1> QED
  BY <1>1, <1>7, <1>8

\* The tasks that are done go, and those that are left wait.
LEMMA DeleteServes ==
    ASSUME pool \in Pools, Pooled(pool), Linked(pool, eng.state, sock), Checked(pool),
           DeleteDone
    PROVE  Pooled(pool') /\ Linked(pool', eng'.state, sock') /\ Checked(pool')
<1> DEFINE gone == [NoTask EXCEPT !.state = "DELETED", !.done = TRUE]
           D == Queued(pool) \cap Ended(pool)
<1>1. pool.queue \in Seq(Task) /\ pool.at \in Nat /\ pool.did \in BOOLEAN
  BY PoolFields
<1>2. /\ pool.at > Len(pool.queue) /\ pool.did = FALSE /\ eng' = eng
      /\ sock' = IF "client" \in Ended(pool) THEN "CLOSED" ELSE sock
  BY <1>1, Clients DEF DeleteDone, Ended
<1>3. Queued(pool) \subseteq Blocked(pool)
  <2>1. pool.at > 0
    BY <1>1, <1>2
  <2> QED
    BY <1>1, <1>2, <2>1 DEF Checked, Queued, Has
<1>4. /\ pool'.at = 0 /\ pool'.handlers = pool.handlers
      /\ pool'.queue = Without(pool.queue, Ended(pool))
      /\ pool'.of = [t \in Task |-> IF t \in D THEN gone ELSE pool.of[t]]
  <2> DEFINE f == [t \in Task |-> IF t \in Range(pool.queue) /\ pool.of[t].done
                                  THEN gone ELSE pool.of[t]]
             w == Without(pool.queue, {t \in Task : pool.of[t].done})
  <2>1. pool' = [pool EXCEPT !.of = f, !.queue = w, !.at = 0]
    BY DEF DeleteDone
  <2>2. w = Without(pool.queue, Ended(pool))
    BY DEF Ended
  <2>3. \A t \in Task : t \in Range(pool.queue) <=> t \in Queued(pool)
    BY DEF Range, Queued, Has
  <2>4. f = [t \in Task |-> IF t \in D THEN gone ELSE pool.of[t]]
    <3> HIDE DEF gone
    <3>1. \A t \in Task : (t \in Range(pool.queue) /\ pool.of[t].done) <=> t \in D
      BY <2>3 DEF Ended
    <3> QED
      BY <3>1
  <2> HIDE DEF f, w, D, gone
  <2>5. /\ pool'.at = 0 /\ pool'.handlers = pool.handlers
        /\ pool'.queue = w /\ pool'.of = f
    BY <2>1 DEF Pools
  <2> QED
    BY <2>2, <2>4, <2>5
<1>5. gone.state = "DELETED" /\ gone.done = TRUE
  BY DEF NoTask, NewTask
<1> HIDE DEF gone
<1>6. Queued(pool') = Queued(pool) \ Ended(pool)
  <2>1. \A m : Has(pool'.queue, m) <=> (Has(pool.queue, m) /\ m \notin Ended(pool))
    BY <1>1, <1>4, WithoutHas
  <2> QED
    BY <2>1 DEF Queued
<1>7. /\ Alive(pool') = Alive(pool) \ D /\ Ended(pool') = Ended(pool)
      /\ Blocked(pool) \ D \subseteq Blocked(pool')
  <2>1. \A t \in Task : pool'.of[t] = IF t \in D THEN gone ELSE pool.of[t]
    BY <1>4
  <2>2. Alive(pool') = Alive(pool) \ D
    BY <1>5, <2>1 DEF Alive, Gone
  <2>3. Ended(pool') = Ended(pool)
    BY <1>5, <2>1 DEF Ended
  <2>4. Blocked(pool) \ D \subseteq Blocked(pool')
    BY <2>1 DEF Blocked
  <2> QED
    BY <2>2, <2>3, <2>4
<1>8. ClientState(pool') = IF "client" \in D THEN "DELETED" ELSE ClientState(pool)
  BY <1>4, <1>5, Clients DEF ClientState
\* Whatever is done lies in the queue.
<1>9. Alive(pool) \cap Ended(pool) \subseteq D
  <2>1. Alive(pool) \cap Children \subseteq Queued(pool)
    BY DEF Pooled
  <2>2. "client" \in Alive(pool) \cap Ended(pool) => "client" \in Queued(pool)
    BY DEF Linked
  <2>3. Alive(pool) \subseteq Children \cup {"client"}
    BY Clients DEF Alive
  <2> QED
    BY <2>1, <2>2, <2>3
<1>10. Alive(pool') \cap Ended(pool') = {}
  BY <1>7, <1>9
<1>11. "client" \in Ended(pool) => Alive(pool') \cap Children = {}
  BY <1>7, <1>9 DEF Pooled
<1>12. Pooled(pool')
  <2>1. Queued(pool') \subseteq Alive(pool')
    BY <1>6, <1>7 DEF Pooled
  <2>2. Alive(pool') \cap Children \subseteq Queued(pool')
    BY <1>6, <1>7, <1>9 DEF Pooled
  <2>3. pool'.handlers \subseteq Alive(pool') \ Ended(pool')
    BY <1>4, <1>7 DEF Pooled
  <2>4. ClientState(pool') = "DELETED" => "client" \in Ended(pool)
    BY <1>8 DEF Linked
  <2>5. Queued(pool') \subseteq Blocked(pool')
    BY <1>3, <1>6, <1>7
  <2> QED
    BY <1>7, <1>10, <1>11, <2>1, <2>2, <2>3, <2>4, <2>5 DEF Pooled
<1>13. Linked(pool', eng'.state, sock')
  <2>1. CASE "client" \in Ended(pool)
    BY <1>2, <1>6, <1>7, <1>8, <1>9, <2>1 DEF Linked, ClientState, Alive, Gone
  <2>2. CASE "client" \notin Ended(pool)
    <3>1. /\ sock' = sock /\ ClientState(pool') = ClientState(pool)
          /\ "client" \in Queued(pool') <=> "client" \in Queued(pool)
          /\ "client" \in Alive(pool') <=> "client" \in Alive(pool)
      BY <1>2, <1>6, <1>7, <1>8, <2>2
    <3> QED
      BY <1>2, <1>7, <3>1, LinkedSame
  <2> QED
    BY <2>1, <2>2
<1> QED
  BY <1>4, <1>12, <1>13 DEF Checked

LEMMA StepsServe == XmppInv /\ ServedInv /\ Steps => ServedInv'
<1> SUFFICES ASSUME XmppInv, ServedInv, Steps PROVE ServedInv'
  OBVIOUS
<1>1. /\ eng \in Engines /\ sock \in Socks /\ pool \in Pools
      /\ Pooled(pool) /\ Linked(pool, eng.state, sock) /\ Checked(pool)
  BY DEF XmppInv, Typed, ServedInv
<1>2. ASSUME Pooled(pool'), Linked(pool', eng'.state, sock'), Checked(pool')
      PROVE  ServedInv'
  BY <1>2 DEF ServedInv
<1>3. ASSUME NEW t \in Task, StepInit(t) PROVE ServedInv'
  <2>1. /\ Stepping(t) /\ pool.of[t].state = "INIT"
        /\ pool' = Stepped(pool, t, "START") /\ eng' = eng /\ sock' = sock
    BY <1>3 DEF StepInit
  <2>2. t \in Alive(pool) /\ t \notin Ended(pool) /\ pool.at > 0 /\ t \in Queued(pool)
    BY <2>1, SteppingServes
  <2>3. "START" \in ((States \cup {"BLOCKED"}) \ Gone) \ {"DONE", "ERROR"}
    BY DEF States, Gone
  <2>4. /\ Pooled(pool') /\ Checked(pool') /\ Queued(pool') = Queued(pool)
        /\ Alive(pool') = Alive(pool) /\ Ended(pool') = Ended(pool)
        /\ t # "client" => ClientState(pool') = ClientState(pool)
        /\ t = "client" => ClientState(pool') = "START"
    BY <1>1, <2>1, <2>2, <2>3, StepServes
  <2>5. Linked(pool', eng.state, sock)
    <3>1. CASE t # "client"
      BY <1>1, <2>4, <3>1, LinkedSame
    <3>2. CASE t = "client"
      BY <1>1, <2>1, <2>2, <2>4, <3>2 DEF Linked, ClientState
    <3> QED
      BY <3>1, <3>2
  <2> QED
    BY <1>2, <2>1, <2>4, <2>5
<1>4. CASE StepConnect
  <2>1. /\ Stepping("client") /\ eng' = eng
        /\ \/ /\ ClientState(pool) = "START"
              /\ pool' = Stepped(pool, "client", "START_XMPP_LOGIN")
              /\ sock' = sock
           \/ /\ ClientState(pool) = "START_XMPP_LOGIN"
              /\ \/ sock' = "CONNECTING" /\ pool' = Stepped(pool, "client", "RESPONSE")
                 \/ pool' = Stepped(pool, "client", "ERROR") /\ sock' = sock
    BY <1>4 DEF StepConnect, ClientState
  <2>2. /\ "client" \in Alive(pool) /\ "client" \notin Ended(pool) /\ pool.at > 0
        /\ "client" \in Queued(pool) /\ "client" \in Task
    BY <2>1, SteppingServes
  <2>3. /\ sock = "CLOSED" /\ eng.state \in {"START", "CLOSED"}
    BY <1>1, <2>1, <2>2 DEF Linked
  <2>4. ASSUME NEW state \in {"START_XMPP_LOGIN", "RESPONSE"},
               pool' = Stepped(pool, "client", state)
        PROVE  /\ Pooled(pool') /\ Checked(pool') /\ Queued(pool') = Queued(pool)
               /\ Alive(pool') = Alive(pool) /\ Ended(pool') = Ended(pool)
               /\ ClientState(pool') = state
    <3>1. state \in ((States \cup {"BLOCKED"}) \ Gone) \ {"DONE", "ERROR"}
      BY DEF States, Gone
    <3> QED
      BY <1>1, <2>2, <2>4, <3>1, StepServes
  <2>5. CASE sock' = sock /\ pool' = Stepped(pool, "client", "START_XMPP_LOGIN")
    <3>1. /\ Pooled(pool') /\ Checked(pool') /\ Queued(pool') = Queued(pool)
          /\ Alive(pool') = Alive(pool) /\ Ended(pool') = Ended(pool)
          /\ ClientState(pool') = "START_XMPP_LOGIN"
      BY <2>4, <2>5
    <3>2. Linked(pool', eng'.state, sock')
      BY <2>1, <2>2, <2>3, <2>5, <3>1 DEF Linked
    <3> QED
      BY <1>2, <3>1, <3>2
  <2>6. CASE sock' = "CONNECTING" /\ pool' = Stepped(pool, "client", "RESPONSE")
    <3>1. /\ Pooled(pool') /\ Checked(pool') /\ Queued(pool') = Queued(pool)
          /\ Alive(pool') = Alive(pool) /\ Ended(pool') = Ended(pool)
          /\ ClientState(pool') = "RESPONSE"
      BY <2>4, <2>6
    <3>2. Linked(pool', eng'.state, sock')
      BY <2>2, <2>6, <3>1 DEF Linked
    <3> QED
      BY <1>2, <3>1, <3>2
  <2>7. CASE sock' = sock /\ pool' = Stepped(pool, "client", "ERROR")
    <3>1. /\ Pooled(pool') /\ Checked(pool') /\ Queued(pool') = Queued(pool)
          /\ ClientState(pool') = "ERROR"
      BY <1>1, <2>2, <2>7, EndServes
    <3>2. Linked(pool', eng'.state, sock')
      BY <2>1, <2>2, <2>3, <2>7, <3>1 DEF Linked
    <3> QED
      BY <1>2, <3>1, <3>2
  <2> QED
    BY <2>1, <2>5, <2>6, <2>7
<1>5. CASE StepClient
  <2>1. /\ Stepping("client") /\ ClientState(pool) = "RESPONSE" /\ eng' = eng
        /\ sock' = sock
        /\ pool' = Stepped(pool, "client",
                           IF eng.state = "CLOSED" THEN "DONE" ELSE "BLOCKED")
    BY <1>5 DEF StepClient, ClientState
  <2>2. /\ "client" \in Alive(pool) /\ "client" \notin Ended(pool) /\ pool.at > 0
        /\ "client" \in Queued(pool) /\ "client" \in Task
    BY <2>1, SteppingServes
  <2>3. CASE eng.state = "CLOSED"
    <3>1. /\ Pooled(pool') /\ Checked(pool') /\ Queued(pool') = Queued(pool)
          /\ ClientState(pool') = "DONE"
      BY <1>1, <2>1, <2>2, <2>3, EndServes
    <3>2. Linked(pool', eng'.state, sock')
      BY <1>1, <2>1, <2>2, <2>3, <3>1 DEF Linked
    <3> QED
      BY <1>2, <3>1, <3>2
  <2>4. CASE eng.state # "CLOSED"
    <3>1. "BLOCKED" \in ((States \cup {"BLOCKED"}) \ Gone) \ {"DONE", "ERROR"}
      BY DEF Gone
    <3>2. pool' = Stepped(pool, "client", "BLOCKED")
      BY <2>1, <2>4
    <3>3. /\ Pooled(pool') /\ Checked(pool') /\ Queued(pool') = Queued(pool)
          /\ Alive(pool') = Alive(pool) /\ Ended(pool') = Ended(pool)
          /\ ClientState(pool') = ClientState(pool)
      BY <1>1, <2>2, <3>1, <3>2, StepServes
    <3>4. Linked(pool', eng'.state, sock')
      BY <1>1, <2>1, <3>3, LinkedSame
    <3> QED
      BY <1>2, <3>3, <3>4
  <2> QED
    BY <2>3, <2>4
<1>6. CASE StepManager
  <2>1. /\ Stepping("manager") /\ eng' = eng /\ sock' = sock
        /\ "manager" \in Children /\ "manager" # "client"
    BY <1>6, Clients DEF StepManager
  <2>2. /\ "manager" \in Alive(pool) /\ "manager" \notin Ended(pool) /\ pool.at > 0
        /\ "manager" \in Queued(pool) /\ "manager" \in Task
    BY <2>1, SteppingServes
  <2>3. "client" \notin Ended(pool) /\ ClientState(pool) # "DELETED"
    BY <1>1, <2>1, <2>2 DEF Pooled
  <2>4. ASSUME NEW p \in Pools, Pooled(p), p.at > 0, "manager" \in Alive(p),
               "manager" \notin Ended(p), Linked(p, eng.state, sock),
               NEW state \in {"START", "BLOCKED"},
               pool' = Stepped(p, "manager", state)
        PROVE  ServedInv'
    <3>1. state \in ((States \cup {"BLOCKED"}) \ Gone) \ {"DONE", "ERROR"}
      BY DEF States, Gone
    <3>2. /\ Pooled(pool') /\ Checked(pool') /\ Queued(pool') = Queued(p)
          /\ Alive(pool') = Alive(p) /\ Ended(pool') = Ended(p)
          /\ ClientState(pool') = ClientState(p)
      BY <2>1, <2>2, <2>4, <3>1, StepServes
    <3>3. Linked(pool', eng'.state, sock')
      BY <2>1, <2>4, <3>2, LinkedSame
    <3> QED
      BY <1>2, <3>2, <3>3
  \* A task is started that is not the manager itself.
  <2>5. ASSUME NEW p \in Pools, Pooled(p), p.at > 0, "manager" \in Alive(p),
               "manager" \notin Ended(p), "client" \notin Ended(p),
               ClientState(p) # "DELETED", Linked(p, eng.state, sock),
               NEW t \in SendTasks
        PROVE  /\ Launch(p, eng, t) \in Pools /\ Pooled(Launch(p, eng, t))
               /\ Launch(p, eng, t).at > 0
               /\ "manager" \in Alive(Launch(p, eng, t))
               /\ "manager" \notin Ended(Launch(p, eng, t))
               /\ "client" \notin Ended(Launch(p, eng, t))
               /\ ClientState(Launch(p, eng, t)) # "DELETED"
               /\ Linked(Launch(p, eng, t), eng.state, sock)
    <3>1. t \in Children /\ t # "client"
      BY Clients
    <3> DEFINE q == Launch(p, eng, t)
    <3>2. q \in Pools /\ q.at = p.at
      BY <3>1, LaunchKeeps
    <3>3. /\ Pooled(q) /\ Queued(q) = Queued(p) \cup {t}
          /\ Alive(q) = Alive(p) \cup {t} /\ Ended(q) = Ended(p) \ {t}
          /\ ClientState(q) = ClientState(p)
      BY <2>5, <3>1, LaunchServes
    <3> HIDE DEF q
    <3>4. Linked(q, eng.state, sock)
      BY <2>5, <3>1, <3>3, LinkedSame
    <3>5. q.at > 0
      BY <2>5, <3>2
    <3>6. "manager" \in Alive(q) /\ "manager" \notin Ended(q) /\ "client" \notin Ended(q)
      BY <2>5, <3>3
    <3> QED
      BY <2>5, <3>2, <3>3, <3>4, <3>5, <3>6 DEF q
  <2> DEFINE inbox == pool.of["manager"].inbox
             q == [pool EXCEPT !.of["manager"].inbox = Tail(@)]
  <2>6. CASE inbox = <<>>
    <3>1. pool' = Stepped(pool, "manager", "BLOCKED")
      BY <1>6, <2>6 DEF StepManager
    <3> QED
      BY <1>1, <2>2, <2>4, <3>1
  <2>7. CASE inbox # <<>>
    <3>1. /\ q \in Pools /\ Head(inbox) \in Takes("manager")
          /\ q.queue = pool.queue /\ q.at = pool.at /\ q.handlers = pool.handlers
      BY <1>1, <2>2, <2>7, TakeKeeps
    <3>2. \A u \in Task : /\ q.of[u].state = pool.of[u].state
                          /\ q.of[u].done = pool.of[u].done
                          /\ q.of[u].blocked = pool.of[u].blocked
      BY <1>1, <2>2, <2>7, TakeKeeps
    <3>3. q.posted = pool.posted
      BY <1>1 DEF Pools
    <3> DEFINE i == Head(inbox).id
               p == Launch(q, eng, i)
    <3>4. i \in SendTasks
      BY <3>1, Clients DEF Takes
    <3>5. \/ pool' = Stepped(p, "manager", "START")
          \/ \E r \in Requests : pool' = Stepped(Launch(p, eng, r), "manager", "START")
      BY <1>6, <2>7 DEF StepManager
    <3> HIDE DEF q, i
    <3>6. /\ Pooled(q) /\ Queued(q) = Queued(pool) /\ Alive(q) = Alive(pool)
          /\ Ended(q) = Ended(pool) /\ ClientState(q) = ClientState(pool)
      BY <1>1, <3>1, <3>2, <3>3, TakeServes
    <3>7. Linked(q, eng.state, sock)
      BY <1>1, <3>6, LinkedSame
    <3>8. /\ p \in Pools /\ Pooled(p) /\ p.at > 0
          /\ "manager" \in Alive(p) /\ "manager" \notin Ended(p)
          /\ "client" \notin Ended(p) /\ ClientState(p) # "DELETED"
          /\ Linked(p, eng.state, sock)
      BY <2>2, <2>3, <2>5, <3>1, <3>4, <3>6, <3>7
    <3> HIDE DEF p
    <3>9. CASE pool' = Stepped(p, "manager", "START")
      BY <2>4, <3>8, <3>9
    <3>10. ASSUME NEW r \in Requests,
                  pool' = Stepped(Launch(p, eng, r), "manager", "START")
           PROVE  ServedInv'
      <4> DEFINE l == Launch(p, eng, r)
      <4>1. /\ l \in Pools /\ Pooled(l) /\ l.at > 0
            /\ "manager" \in Alive(l) /\ "manager" \notin Ended(l)
            /\ Linked(l, eng.state, sock)
        BY <2>5, <3>8, Clients
      <4>2. pool' = Stepped(l, "manager", "START")
        BY <3>10
      <4> HIDE DEF l
      <4> QED
        BY <2>4, <4>1, <4>2
    <3> QED
      BY <3>5, <3>9, <3>10
  <2> QED
    BY <2>6, <2>7
<1>7. ASSUME NEW t \in SendTasks, NEW state \in {"RESPONSE", "BLOCKED", "DONE"},
             Stepping(t)
      PROVE  LET p == Stepped(pool, t, state)
             IN  /\ p \in Pools /\ Pooled(p) /\ Checked(p)
                 /\ Linked(p, eng.state, sock)
  <2> DEFINE p == Stepped(pool, t, state)
  <2>1. /\ t \in Alive(pool) /\ t \notin Ended(pool) /\ pool.at > 0 /\ t \in Task
        /\ t # "client"
    BY <1>7, SteppingServes, Clients
  <2>2. p \in Pools
    BY <1>1, <2>1, StepTyped DEF States
  <2>3. CASE state = "DONE"
    <3>1. /\ Pooled(p) /\ Checked(p) /\ Queued(p) = Queued(pool)
          /\ Alive(p) = Alive(pool) /\ Ended(p) = Ended(pool) \cup {t}
          /\ ClientState(p) = ClientState(pool)
      BY <1>1, <2>1, <2>3, EndServes
    <3> HIDE DEF p
    <3>2. Linked(p, eng.state, sock)
      BY <1>1, <2>1, <3>1, LinkedSame
    <3> QED
      BY <2>2, <3>1, <3>2 DEF p
  <2>4. CASE state # "DONE"
    <3>1. state \in ((States \cup {"BLOCKED"}) \ Gone) \ {"DONE", "ERROR"}
      BY <2>4 DEF States, Gone
    <3>2. /\ Pooled(p) /\ Checked(p) /\ Queued(p) = Queued(pool)
          /\ Alive(p) = Alive(pool) /\ Ended(p) = Ended(pool)
          /\ ClientState(p) = ClientState(pool)
      BY <1>1, <2>1, <3>1, StepServes
    <3> HIDE DEF p
    <3>3. Linked(p, eng.state, sock)
      BY <1>1, <3>2, LinkedSame
    <3> QED
      BY <2>2, <3>2, <3>3 DEF p
  <2> QED
    BY <2>3, <2>4
<1>8. ASSUME NEW t \in SendTasks, StepSend(t) PROVE ServedInv'
  <2> DEFINE state == IF t \in Requests THEN "RESPONSE" ELSE "DONE"
             kind == IF t \in Requests THEN "set" ELSE "result"
             p == Stepped(pool, t, state)
  <2>1. Stepping(t) /\ SendStanza(Stanza(kind, t), p)
    BY <1>8 DEF StepSend
  <2>2. p \in Pools /\ Pooled(p) /\ Checked(p) /\ Linked(p, eng.state, sock)
    BY <1>7, <2>1
  <2> HIDE DEF p
  <2> QED
    BY <1>1, <1>2, <2>1, <2>2, SendServes
<1>9. ASSUME NEW t \in Requests, StepAwait(t) PROVE ServedInv'
  <2>1. \E state \in {"BLOCKED", "DONE"} : pool' = Stepped(pool, t, state)
    BY <1>9 DEF StepAwait
  <2>2. Stepping(t) /\ eng' = eng /\ sock' = sock
    BY <1>9 DEF StepAwait
  <2>3. Pooled(pool') /\ Checked(pool') /\ Linked(pool', eng.state, sock)
    BY <1>7, <2>1, <2>2, Clients
  <2> QED
    BY <1>2, <2>2, <2>3
<1>10. CASE NextTask
  BY <1>1, <1>2, <1>10, NextServes
<1>11. CASE DeleteDone
  BY <1>1, <1>2, <1>11, DeleteServes
<1> QED
  BY <1>3, <1>4, <1>5, <1>6, <1>8, <1>9, <1>10, <1>11 DEF Steps

LEMMA SocketsServe ==
    XmppInv /\ ServedInv /\ (\/ Sockets \/ Reply \/ ServerEnds \/ Lose
                             \/ \E r \in Requests : Answer(r)
                             \/ \E i \in Incoming : PeerRequest(i)) => ServedInv'
<1> SUFFICES ASSUME XmppInv, ServedInv,
                    \/ Sockets \/ Reply \/ ServerEnds \/ Lose
                    \/ \E r \in Requests : Answer(r)
                    \/ \E i \in Incoming : PeerRequest(i)
             PROVE  ServedInv'
  OBVIOUS
<1>1. /\ eng \in Engines /\ sock \in Socks /\ pool \in Pools
      /\ Pooled(pool) /\ Linked(pool, eng.state, sock) /\ Checked(pool)
  BY DEF XmppInv, Typed, ServedInv
<1>2. ASSUME UNCHANGED <<eng, sock, pool>> PROVE ServedInv'
  BY <1>1, <1>2 DEF ServedInv
<1>3. CASE \/ Reply \/ ServerEnds \/ Lose
           \/ \E r \in Requests : Answer(r)
           \/ \E i \in Incoming : PeerRequest(i)
  <2>1. UNCHANGED <<eng, sock, pool>>
    BY <1>3 DEF Reply, ServerEnds, Lose, Answer, PeerRequest, ServerSends
  <2> QED
    BY SMTT(40), <1>2, <2>1
<1>4. CASE ReadClosed \/ \E n \in 1..Len(down) : HandleInput(n)
  <2>1. UNCHANGED <<eng, sock, pool>>
    BY <1>4 DEF ReadClosed, HandleInput
  <2> QED
    BY <1>2, <2>1
<1>5. CASE TlsConnected
  <2>1. sock = "TLS_CONNECTING" /\ sock' = "TLS_OPEN" /\ eng' = eng /\ pool' = pool
    BY <1>5 DEF TlsConnected
  <2>2. Linked(pool, eng.state, sock')
    BY <1>1, <2>1 DEF Linked
  <2> QED
    BY <1>1, <2>1, <2>2 DEF ServedInv
<1>6. CASE Connected
  <2>1. sock = "CONNECTING" /\ pool.at = 0
    BY <1>6 DEF Connected, NotRunning
  <2>2. /\ "client" \in Ended(pool) => eng.state = "CLOSED"
        /\ ClientState(pool) \notin {"INIT", "START", "START_XMPP_LOGIN"}
    BY <1>1, <2>1 DEF Linked
  <2>3. CASE eng.state = "START"
    <3> DEFINE e == [eng EXCEPT !.state = "OPENING", !.login = "STREAMSTART_SENT"]
    <3>1. Leave(e, "START", <<Plain("start")>>, "OPEN", pool)
      BY <1>6, <2>3 DEF Connected
    <3>2. e \in Engines /\ e.state = "OPENING" /\ "OPEN" \in Socks
      BY <1>1 DEF Engines, EngineStates, Logins, Socks
    <3> HIDE DEF e
    <3>3. Linked(pool, e.state, "OPEN")
      BY <1>1, <2>1, <2>2, <2>3, <3>2 DEF Linked
    <3>4. Pooled(pool') /\ Linked(pool', eng'.state, sock') /\ pool'.at = pool.at
      BY <1>1, <3>1, <3>2, <3>3, LeaveServes
    <3> QED
      BY <2>1, <3>4 DEF ServedInv, Checked
  <2>4. CASE eng.state # "START"
    <3>1. sock' = "OPEN" /\ eng' = eng /\ pool' = pool
      BY <1>6, <2>4 DEF Connected
    <3>2. Linked(pool, eng.state, sock')
      BY <1>1, <2>1, <2>2, <3>1 DEF Linked
    <3> QED
      BY <1>1, <3>1, <3>2 DEF ServedInv
  <2> QED
    BY <2>3, <2>4
<1> QED
  BY <1>3, <1>4, <1>5, <1>6 DEF Sockets

LEMMA PumpServes ==
    XmppInv /\ ServedInv /\ (\/ DoLogin \/ DoDisconnect
                             \/ \E x \in Raw : PumpSend(x)
                             \/ \E r \in Requests : SendRequest(r)
                             \/ RunTasks) => ServedInv'
<1> SUFFICES ASSUME XmppInv, ServedInv,
                    \/ DoLogin \/ DoDisconnect
                    \/ \E x \in Raw : PumpSend(x)
                    \/ \E r \in Requests : SendRequest(r)
                    \/ RunTasks
             PROVE  ServedInv'
  OBVIOUS
<1>1. /\ eng \in Engines /\ sock \in Socks /\ pool \in Pools
      /\ Pooled(pool) /\ Linked(pool, eng.state, sock) /\ Checked(pool)
  BY DEF XmppInv, Typed, ServedInv
<1>2. pool.at = 0
  BY DEF DoLogin, DoDisconnect, PumpSend, SendRequest, RunTasks, NotRunning
<1>3. ASSUME Pooled(pool'), Linked(pool', eng'.state, sock'), Checked(pool')
      PROVE  ServedInv'
  BY <1>3 DEF ServedInv
<1>4. CASE DoLogin
  <2>1. /\ sock = "none" /\ sock' = "CLOSED" /\ eng' = eng
        /\ pool' = StartTask(pool, "client")
    BY <1>4 DEF DoLogin
  <2>2. /\ pool'.of = pool.of /\ pool'.queue = Append(pool.queue, "client")
        /\ pool'.at = 0 /\ pool'.handlers = pool.handlers /\ pool'.posted = TRUE
    <3> DEFINE q == Append(pool.queue, "client")
    <3>1. pool' = [pool EXCEPT !.queue = q, !.posted = TRUE]
      BY <2>1 DEF StartTask
    <3> HIDE DEF q
    <3>2. /\ pool'.of = pool.of /\ pool'.queue = q /\ pool'.at = pool.at
          /\ pool'.handlers = pool.handlers /\ pool'.posted = TRUE
      BY <1>1, <3>1 DEF Pools
    <3> QED
      BY <1>2, <3>2 DEF q
  <2>3. /\ Alive(pool') = Alive(pool) /\ Ended(pool') = Ended(pool)
        /\ ClientState(pool') = ClientState(pool)
    BY <2>2 DEF Alive, Ended, ClientState
  <2>4. Blocked(pool') = Blocked(pool)
    BY <2>2 DEF Blocked
  <2>5. Queued(pool') = Queued(pool) \cup {"client"}
    <3>1. pool.queue \in Seq(Task) /\ "client" \in Task
      BY <1>1, PoolFields, Clients
    <3>2. \A u \in Task : Has(pool'.queue, u) <=> (Has(pool.queue, u) \/ "client" = u)
      BY <2>2, <3>1, HasAppend
    <3> QED
      BY <3>1, <3>2 DEF Queued
  <2>6. ClientState(pool) = "INIT" /\ "client" \notin Ended(pool)
    BY <1>1, <2>1 DEF Linked
  <2>7. "client" \in Alive(pool)
    BY <2>6, Clients DEF Alive, ClientState, Gone
  <2>8. Pooled(pool')
    BY <1>1, <1>2, <2>2, <2>3, <2>4, <2>5, <2>6, <2>7 DEF Pooled
  <2>9. Linked(pool', eng'.state, sock')
    BY <1>1, <2>1, <2>3, <2>5, <2>6 DEF Linked
  <2> QED
    BY <1>3, <2>2, <2>8, <2>9 DEF Checked
<1>5. CASE DoDisconnect
  <2>1. CASE Disconnect /\ "client" \notin Ended(pool) /\ sock # "none"
    <3> DEFINE e == [eng EXCEPT !.state = "CLOSED"]
               o == IF eng.state = "OPEN" THEN <<Plain("end")>> ELSE <<>>
    <3>1. Leave(e, eng.state, o, sock, pool)
      BY <2>1 DEF Disconnect
    <3>2. e \in Engines /\ e.state = "CLOSED"
      BY <1>1 DEF Engines, EngineStates
    <3> HIDE DEF e, o
    <3>3. Linked(pool, e.state, sock)
      BY <1>1, <2>1, <3>2 DEF Linked
    <3>4. Pooled(pool') /\ Linked(pool', eng'.state, sock') /\ pool'.at = pool.at
      BY <1>1, <3>1, <3>2, <3>3, LeaveServes
    <3> QED
      BY <1>2, <1>3, <3>4 DEF Checked
  <2>2. CASE UNCHANGED <<eng, sock, pool>>
    BY <1>1, <1>3, <2>2
  <2> QED
    BY <1>5, <2>1, <2>2 DEF DoDisconnect, Ended
<1>6. ASSUME NEW x \in Raw, PumpSend(x) PROVE ServedInv'
  <2>1. SendStanza(Stanza("raw", x), pool)
    BY <1>6 DEF PumpSend
  <2> QED
    BY <1>1, <1>3, <2>1, SendServes
<1>7. ASSUME NEW r \in Requests, SendRequest(r) PROVE ServedInv'
  <2>1. /\ Exists("manager") /\ pool' = Launch(pool, eng, r) /\ eng' = eng
        /\ sock' = sock
    BY <1>7 DEF SendRequest
  <2>2. r \in Children /\ "manager" \in Children /\ r # "client" /\ "manager" \in Task
    BY Clients
  <2>3. "manager" \in Alive(pool)
    BY <2>1, <2>2 DEF Exists, Alive, Gone
  <2>4. "client" \notin Ended(pool) /\ ClientState(pool) # "DELETED"
    BY <1>1, <1>2, <2>2, <2>3 DEF Pooled
  <2>5. /\ Pooled(pool') /\ Queued(pool') = Queued(pool) \cup {r}
        /\ Alive(pool') = Alive(pool) \cup {r} /\ Ended(pool') = Ended(pool) \ {r}
        /\ ClientState(pool') = ClientState(pool)
    BY <1>1, <2>1, <2>2, <2>4, LaunchServes
  <2>6. Linked(pool', eng.state, sock)
    BY <1>1, <2>2, <2>5, LinkedSame
  <2>7. pool'.at = 0
    BY ZenonT(80), <1>1, <1>2, <2>1, <2>2, LaunchKeeps
  <2> QED
    BY <1>3, <2>1, <2>5, <2>6, <2>7 DEF Checked
<1>8. CASE RunTasks
  <2>1. /\ pool' = [pool EXCEPT !.posted = FALSE, !.at = 1, !.did = FALSE]
        /\ eng' = eng /\ sock' = sock
    BY <1>8 DEF RunTasks
  <2>2. /\ pool'.of = pool.of /\ pool'.queue = pool.queue /\ pool'.at = 1
        /\ pool'.handlers = pool.handlers
    BY <1>1, <2>1 DEF Pools
  <2>3. /\ Alive(pool') = Alive(pool) /\ Ended(pool') = Ended(pool)
        /\ ClientState(pool') = ClientState(pool)
        /\ Blocked(pool') = Blocked(pool) /\ Queued(pool') = Queued(pool)
    BY <2>2 DEF Alive, Ended, ClientState, Blocked, Queued
  <2>4. Pooled(pool') /\ Linked(pool', eng'.state, sock')
    <3>1. Pooled(pool')
      BY <1>1, <2>2, <2>3 DEF Pooled
    <3> QED
      BY <1>1, <2>1, <2>3, <3>1, LinkedSame
  <2>5. Checked(pool')
    BY <2>2 DEF Checked
  <2> QED
    BY <1>3, <2>4, <2>5
<1> QED
  BY <1>4, <1>5, <1>6, <1>7, <1>8

LEMMA StepServesTasks == XmppInv /\ ServedInv /\ [Next]_vars => ServedInv'
<1> SUFFICES ASSUME XmppInv, ServedInv, [Next]_vars PROVE ServedInv'
  OBVIOUS
<1>1. CASE UNCHANGED vars
  BY <1>1 DEF ServedInv, Pooled, Linked, Checked, vars
<1>2. CASE Next
  BY <1>2, ParserServes, StepsServe, SocketsServe, PumpServes DEF Next
<1> QED
  BY <1>1, <1>2

\* No task is forgotten by the runner, none is given a stanza after its end,
\* and none outlives the client whose engine it would use.
THEOREM TasksRunToTheirEnd == Spec => []TasksAreServed
<1>1. Init => ServedInv
  BY InitServes
<1>2. XmppInv /\ ServedInv /\ [Next]_vars => ServedInv'
  BY StepServesTasks
<1>3. XmppInv /\ ServedInv => TasksAreServed
  <2> SUFFICES ASSUME XmppInv, ServedInv PROVE TasksAreServed
    OBVIOUS
  <2>1. pool \in Pools /\ Pooled(pool) /\ "client" \in Task
    BY Clients DEF XmppInv, Typed, ServedInv
  <2>2. /\ pool.queue \in Seq(Task) /\ pool.at \in Nat
        /\ pool.handlers \subseteq Task
    BY <2>1, PoolFields, Clients
  <2>3. ReadyTasksAreRun
    <3> SUFFICES ASSUME NEW t \in Range(pool.queue)
                 PROVE  pool.of[t].blocked \/ pool.posted \/ pool.at > 0
      BY DEF ReadyTasksAreRun
    <3>1. t \in Queued(pool)
      BY <2>2 DEF Range, Queued, Has
    <3>2. pool.at > 0 \/ t \in Blocked(pool) \/ pool.posted = TRUE
      BY <2>1, <3>1 DEF Pooled
    <3> QED
      BY <3>2 DEF Blocked
  <2>4. \A t \in Task : /\ Exists(t) <=> t \in Alive(pool)
                        /\ pool.of[t].done <=> t \in Ended(pool)
    BY DEF Exists, Alive, Ended, Gone
  <2>5. HandlersLive
    <3>1. \A t \in pool.handlers : Exists(t) /\ ~pool.of[t].done
      BY <2>1, <2>2, <2>4 DEF Pooled
    <3>2. pool.of["client"].done => \A t \in Children : Exists(t) => pool.of[t].done
      BY <2>1, <2>4, Clients DEF Pooled
    <3>3. pool.of["client"].state = "DELETED" => \A t \in Children : ~Exists(t)
      BY <2>1, <2>4, Clients DEF Pooled, ClientState
    <3> QED
      BY <3>1, <3>2, <3>3 DEF HandlersLive
  <2> QED
    BY <2>3, <2>5 DEF TasksAreServed
<1> QED
  BY <1>1, <1>2, <1>3, XmppInvHolds, PTL DEF Spec

----------------------------------------------------------------------------
(* The end of a session *)

LEMMA SuffixesOf ==
    ASSUME NEW w \in Seq(Stanzas)
    PROVE  /\ IsSuffix(w, w) /\ IsSuffix(<<>>, w)
           /\ w # <<>> => IsSuffix(Tail(w), w)
<1> DEFINE n == Len(w)
           r == Reverse(w)
<1>1. n \in Nat /\ r = [i \in 1..n |-> w[(n - i) + 1]]
  BY DEF Reverse
<1>2. r \in Seq(Stanzas) /\ Len(r) = n
  BY <1>1
<1>3. ASSUME NEW v \in Seq(Stanzas), NEW m \in Nat, m <= n,
             Len(v) = m, \A i \in 1..m : v[(m - i) + 1] = w[(n - i) + 1]
      PROVE  IsSuffix(v, w)
  <2> DEFINE q == Reverse(v)
  <2>1. q = [i \in 1..m |-> v[(m - i) + 1]]
    BY <1>3 DEF Reverse
  <2>2. q \in Seq(Stanzas) /\ Len(q) = m
    BY <1>3, <2>1
  <2>3. \A i \in 1..m : q[i] = r[i]
    BY <1>1, <1>3, <2>1
  <2> HIDE DEF q, r
  <2>4. SubSeq(q, 1, m) = SubSeq(r, 1, m)
    BY <1>2, <2>2, <2>3, <1>3
  <2>5. IsPrefix(q, r)
    BY <1>2, <1>3, <2>2, <2>4 DEF IsPrefix
  <2> QED
    BY <2>5 DEF IsSuffix, q, r
<1>4. IsSuffix(w, w)
  BY <1>1, <1>3
<1>5. IsSuffix(<<>>, w)
  <2> DEFINE e == <<>>
  <2>1. e \in Seq(Stanzas) /\ Len(e) = 0
    OBVIOUS
  <2> HIDE DEF e, n
  <2>2. 0 \in Nat /\ 0 <= n /\ \A i \in 1..0 : e[(0 - i) + 1] = w[(n - i) + 1]
    BY <1>1
  <2>3. IsSuffix(e, w)
    BY <1>3, <2>1, <2>2
  <2> QED
    BY <2>3 DEF e
<1>6. ASSUME w # <<>> PROVE IsSuffix(Tail(w), w)
  <2> DEFINE t == Tail(w)
  <2>1. /\ t \in Seq(Stanzas) /\ Len(t) = n - 1 /\ n - 1 \in Nat
        /\ \A i \in 1..(n - 1) : t[i] = w[i + 1]
    BY <1>6
  <2> HIDE DEF t, n
  <2>2. \A i \in 1..(n - 1) : t[((n - 1) - i) + 1] = w[(n - i) + 1]
    BY <1>1, <2>1
  <2>3. IsSuffix(t, w)
    BY <1>1, <1>3, <2>1, <2>2
  <2> QED
    BY <2>3 DEF t
<1> QED
  BY <1>4, <1>5, <1>6

\* The pump hears of the end of a session that has begun, and hears of it once.
Closing ==
    /\ sock = "none" => /\ eng.state = "START" /\ signalClosed = FALSE
                        /\ input.entry = "none"
    /\ signalClosed = TRUE =>
          pump = "CLOSED" /\ (eng.state = "CLOSED" \/ "client" \in Ended(pool))
    /\ eng.state = "CLOSED" /\ input.entry = "none" => pump = "CLOSED"

Closes == /\ Closing'
          /\ eng.state = "CLOSED" /\ input.entry = "none" =>
                eng'.state = "CLOSED" /\ IsSuffix(up', up)

EndInv == XmppInv /\ ServedInv /\ Closing

LEMMA EndFacts ==
    ASSUME EndInv
    PROVE  /\ eng \in Engines /\ sock \in Socks /\ pool \in Pools
           /\ signalClosed \in BOOLEAN /\ pump \in Pumps /\ input \in Inputs
           /\ IsSuffix(up, up) /\ "client" \in Task
           /\ Linked(pool, eng.state, sock) /\ Pooled(pool)
           /\ eng.error = FALSE /\ input.entry # "none"
                 => eng.state \in {"OPENING", "OPEN"}
  BY SuffixesOf, Clients DEF EndInv, XmppInv, Typed, ServedInv, InputFits

\* A step that leaves the engine and the pump alone.
LEMMA QuietCloses ==
    ASSUME EndInv, UNCHANGED <<eng, pump, signalClosed>>, input'.entry = input.entry,
           sock' = "none" => sock = "none",
           "client" \in Ended(pool) => "client" \in Ended(pool'), IsSuffix(up', up)
    PROVE  Closes
  BY DEF EndInv, Closing, Closes

\* The end of an EnterExit that reports that the engine is closed.
LEMMA EndCloses ==
    ASSUME EndInv, NEW e \in Engines, NEW entry, NEW output, NEW s, s # "none",
           Leave(e, entry, output, s, pool), e.state # entry, e.state = "CLOSED",
           input'.entry = "none", eng.state # "CLOSED" \/ input.entry # "none"
    PROVE  Closes
<1>1. /\ eng' = e /\ sock' = Closed(s) /\ EnsureClosed
  BY DEF Leave, OnStateChange
<1>2. pump' = "CLOSED"
  BY <1>1 DEF EnsureClosed, EndInv, Closing
<1>3. sock' # "none"
  BY <1>1 DEF Closed
<1> QED
  BY <1>1, <1>2, <1>3 DEF Closes, Closing

LEMMA SendCloses ==
    ASSUME EndInv, NEW s, NEW p \in Pools, SendStanza(s, p), input' = input,
           "client" \in Ended(pool) => "client" \in Ended(p)
    PROVE  Closes
<1>1. CASE eng.state = "CLOSED"
  BY <1>1, QuietCloses, EndFacts DEF SendStanza
<1>2. CASE eng.state # "CLOSED"
  <2>1. PICK e, output : /\ Leave(e, eng.state, output, sock, p)
                         /\ e.state = eng.state
    <3>1. [eng EXCEPT !.queued = Append(@, s)].state = eng.state
      BY EndFacts DEF Engines
    <3> QED
      BY <1>2, <3>1 DEF SendStanza
  <2>2. /\ eng' = e /\ sock' = sock /\ pool' = p
        /\ UNCHANGED <<pump, signalClosed>>
    BY <2>1 DEF Leave
  <2> QED
    BY <1>2, <2>1, <2>2 DEF Closes, Closing, EndInv
<1> QED
  BY <1>1, <1>2

LEMMA ParserCloses == EndInv /\ Parser => Closes
<1> SUFFICES ASSUME EndInv, Parser PROVE Closes
  OBVIOUS
<1>1. input.entry # "none"
  BY DEF Parser, ParseIgnored, ParseEnd, ParseLogin, ParseStanza,
         HandleInputDone, Parsing
<1>2. sock # "none" /\ eng \in Engines /\ pool \in Pools
  BY <1>1, EndFacts DEF EndInv, Closing
\* Parsing leaves the pump alone.
<1>3. ASSUME UNCHANGED <<pump, signalClosed, pool>>, sock' # "none",
             input'.entry = input.entry,
             eng' = eng \/ eng.error = FALSE
      PROVE  Closes
  <2>1. CASE eng' = eng
    BY <1>1, <1>3, <2>1 DEF EndInv, Closing, Closes
  <2>2. CASE eng.error = FALSE
    <3>1. eng.state \in {"OPENING", "OPEN"}
      BY <1>1, <2>2, EndFacts
    <3>2. "client" \notin Ended(pool)
      BY <3>1, EndFacts DEF Linked
    <3>3. signalClosed = FALSE
      BY <3>1, <3>2, EndFacts DEF EndInv, Closing
    <3> QED
      BY <1>1, <1>3, <3>1, <3>3 DEF Closing, Closes
  <2> QED
    BY <1>3, <2>1, <2>2
<1>4. ASSUME NEW e, NEW output, NEW reset, Parse(e, output, reset)
      PROVE  UNCHANGED <<pump, signalClosed>> /\ input'.entry = input.entry /\ eng' = e
  BY <1>4, EndFacts DEF Parse, Inputs
<1>5. CASE ParseIgnored
  <2>1. Parse(eng, <<>>, FALSE) /\ UNCHANGED <<sock, pool>>
    BY <1>5 DEF ParseIgnored
  <2> QED
    BY <1>2, <1>3, <1>4, <2>1
<1>6. CASE ParseEnd
  <2>1. /\ \E e : Parse(e, <<>>, FALSE)
        /\ UNCHANGED <<sock, pool>> /\ eng.error = FALSE
    BY <1>2, <1>6 DEF ParseEnd, Engines
  <2> QED
    BY <1>2, <1>3, <1>4, <2>1
<1>7. CASE ParseLogin
  <2>1. sock' \in {sock, "TLS_CONNECTING"} /\ pool' = pool /\ eng.error = FALSE
    BY <1>2, <1>7, LoginReads DEF ParseLogin, Engines
  <2>2. \E e, output, reset : Parse(e, output, reset)
    BY <1>2, <1>7, LoginReads
  <2> QED
    BY <1>2, <1>3, <1>4, <2>1, <2>2
<1>8. CASE ParseStanza
  <2>1. /\ \E output : Parse(eng, output, FALSE)
        /\ sock' = sock
    BY <1>8 DEF ParseStanza
  <2>2. /\ UNCHANGED <<pump, signalClosed>> /\ input'.entry = input.entry /\ eng' = eng
    BY <1>4, <2>1
  <2>3. eng.error = FALSE
    BY <1>2, <1>8 DEF ParseStanza, Engines
  <2>4. eng.state \in {"OPENING", "OPEN"}
    BY <1>1, <2>3, EndFacts
  <2>5. signalClosed = FALSE
    BY <2>4, EndFacts DEF EndInv, Closing, Linked
  <2> QED
    BY <1>2, <2>1, <2>2, <2>4, <2>5 DEF Closing, Closes
<1>9. CASE HandleInputDone
  <2>1. /\ Leave(eng, input.entry, input.output, sock, pool) /\ input' = NoInput
        /\ input'.entry = "none"
    BY <1>9 DEF HandleInputDone, NoInput
  <2>2. input.entry \in {"OPENING", "OPEN"}
    BY <1>1, EndFacts DEF Inputs
  <2>3. CASE eng.state = "CLOSED"
    BY <1>1, <1>2, <2>1, <2>2, <2>3, EndCloses
  <2>4. CASE eng.state # "CLOSED"
    <3>1. eng' = eng /\ sock' = sock /\ signalClosed' = signalClosed
      BY <2>1, <2>4 DEF Leave, OnStateChange
    <3>2. eng.state \in {"OPENING", "OPEN"}
      BY <1>1, <2>4, EndFacts DEF EndInv, XmppInv, InputFits
    <3>3. signalClosed = FALSE
      BY <3>2, EndFacts DEF EndInv, Closing, Linked
    <3> QED
      BY <1>1, <1>2, <2>4, <3>1, <3>3 DEF Closes, Closing
  <2> QED
    BY <2>3, <2>4
<1> QED
  BY <1>5, <1>6, <1>7, <1>8, <1>9 DEF Parser

LEMMA StepsClose == EndInv /\ Steps => Closes
<1> SUFFICES ASSUME EndInv, Steps PROVE Closes
  OBVIOUS
<1>1. XmppInv /\ ServedInv /\ eng \in Engines /\ pool \in Pools /\ Pooled(pool)
  BY EndFacts DEF EndInv
\* No task but the client itself ends the client or starts it again.
<1>2. ASSUME UNCHANGED <<eng, pump, signalClosed, up>>, input'.entry = input.entry,
             sock' = "none" => sock = "none",
             "client" \in Ended(pool) => "client" \in Ended(pool')
      PROVE  Closes
  BY <1>2, QuietCloses, EndFacts
<1>3. ASSUME NEW t \in Task, StepInit(t) PROVE Closes
  <2>1. /\ Stepping(t) /\ pool' = Stepped(pool, t, "START") /\ input' = input
        /\ UNCHANGED <<eng, sock, pump, signalClosed, up>>
    BY <1>3 DEF StepInit, Stepping
  <2>2. t \in Alive(pool) /\ t \notin Ended(pool) /\ pool.at > 0
    BY <1>1, <2>1, SteppingServes
  <2>3. "START" \in ((States \cup {"BLOCKED"}) \ Gone) \ {"DONE", "ERROR"}
    BY DEF States, Gone
  <2>4. Ended(pool') = Ended(pool)
    BY <1>1, <2>1, <2>2, <2>3, StepServes
  <2> QED
    BY <1>2, <2>1, <2>4
<1>4. CASE StepConnect
  <2>1. /\ Stepping("client") /\ input' = input /\ eng' = eng /\ up' = up
        /\ sock' \in {sock, "CONNECTING"}
        /\ \/ UNCHANGED <<pump, signalClosed>>
           \/ EnsureClosed /\ pool' = Stepped(pool, "client", "ERROR") /\ sock' = sock
              /\ ClientState(pool) = "START_XMPP_LOGIN"
    BY <1>4 DEF StepConnect, Stepping, ClientState
  <2>2. "client" \notin Ended(pool) /\ "client" \in Queued(pool) /\ "client" \in Task
    BY <1>1, <2>1, SteppingServes
  <2>3. CASE UNCHANGED <<pump, signalClosed>>
    BY <1>2, <2>1, <2>2, <2>3
  <2>4. CASE EnsureClosed /\ pool' = Stepped(pool, "client", "ERROR") /\ sock' = sock
    <3>1. "client" \in Ended(pool')
      <4>1. Stepped(pool, "client", "ERROR").of["client"].done
        BY <1>1, <2>2, SteppedEnd
      <4> QED
        BY <2>2, <2>4, <4>1 DEF Ended
    <3>2. pump' = "CLOSED"
      BY <2>4 DEF EnsureClosed, EndInv, Closing
    <3>3. sock # "none"
      BY <2>2, EndFacts DEF Linked
    <3>4. IsSuffix(up', up)
      BY <2>1, EndFacts
    <3> QED
      BY <2>1, <2>4, <3>1, <3>2, <3>3, <3>4 DEF Closes, Closing
  <2> QED
    BY <2>1, <2>3, <2>4
<1>5. CASE StepClient
  <2>1. /\ Stepping("client") /\ input' = input
        /\ UNCHANGED <<eng, sock, up, pump, signalClosed>>
    BY <1>5 DEF StepClient, Stepping
  <2>2. "client" \notin Ended(pool)
    BY <1>1, <2>1, SteppingServes
  <2> QED
    BY <1>2, <2>1, <2>2
<1>6. CASE StepManager
  <2>1. /\ Stepping("manager") /\ input' = input
        /\ UNCHANGED <<eng, sock, up, pump, signalClosed>>
    BY <1>6 DEF StepManager, Stepping
  <2>2. "manager" \in Alive(pool) /\ "manager" \notin Ended(pool)
    BY <1>1, <2>1, SteppingServes
  <2>3. "client" \notin Ended(pool)
    BY <1>1, <2>2, Clients DEF Pooled
  <2> QED
    BY <1>2, <2>1, <2>3
<1>7. ASSUME NEW t \in SendTasks, Stepping(t)
      PROVE  /\ t \in Task /\ "client" \notin Ended(pool)
             /\ UNCHANGED <<input>>
  <2>1. t \in Alive(pool) /\ t \notin Ended(pool) /\ t \in Task
    BY <1>1, <1>7, SteppingServes
  <2> QED
    BY <1>1, <1>7, <2>1, Clients DEF Pooled, Stepping
<1>8. ASSUME NEW t \in SendTasks, StepSend(t) PROVE Closes
  <2> DEFINE state == IF t \in Requests THEN "RESPONSE" ELSE "DONE"
             kind == IF t \in Requests THEN "set" ELSE "result"
             p == Stepped(pool, t, state)
  <2>1. Stepping(t) /\ SendStanza(Stanza(kind, t), p)
    BY <1>8 DEF StepSend
  <2>2. t \in Task /\ "client" \notin Ended(pool) /\ input' = input
    BY <1>7, <2>1
  <2>3. p \in Pools
    BY <1>1, <2>2, StepTyped DEF States
  <2> HIDE DEF p
  <2> QED
    BY <2>1, <2>2, <2>3, SendCloses
<1>9. ASSUME NEW t \in Requests, StepAwait(t) PROVE Closes
  <2>1. Stepping(t) /\ UNCHANGED <<eng, sock, up, pump, signalClosed>>
    BY <1>9 DEF StepAwait
  <2>2. "client" \notin Ended(pool) /\ input' = input
    BY <1>7, <2>1, Clients
  <2> QED
    BY <1>2, <2>1, <2>2
<1>10. CASE NextTask
  <2>1. /\ UNCHANGED <<eng, input, sock, up, pump, signalClosed>>
        /\ \/ pool' = [pool EXCEPT !.at = @ + 1]
           \/ pool' = [pool EXCEPT !.at = 1, !.did = FALSE]
    BY <1>10 DEF NextTask
  <2>2. pool'.of = pool.of
    BY <1>1, <2>1 DEF Pools
  <2>3. Ended(pool') = Ended(pool)
    BY <2>2 DEF Ended
  <2> QED
    BY <1>2, <2>1, <2>3
<1>11. CASE DeleteDone
  <2>1. /\ UNCHANGED <<eng, input, up, pump, signalClosed>>
        /\ sock' \in {sock, "CLOSED"}
        /\ "client" \in Ended(pool) => "client" \in Ended(pool')
    <3>1. pool.of["client"].done => pool'.of["client"].done
      <4> DEFINE gone == [NoTask EXCEPT !.state = "DELETED", !.done = TRUE]
                 f == [t \in Task |-> IF t \in Range(pool.queue) /\ pool.of[t].done
                                      THEN gone ELSE pool.of[t]]
                 w == Without(pool.queue, {t \in Task : pool.of[t].done})
      <4>1. pool' = [pool EXCEPT !.of = f, !.queue = w, !.at = 0]
        BY <1>11 DEF DeleteDone
      <4>2. gone.done
        BY DEF NoTask, NewTask
      <4>3. pool.of["client"].done => f["client"].done
        <5> HIDE DEF gone
        <5> QED
          BY <4>2, Clients
      <4> HIDE DEF f, w
      <4>4. pool'.of = f
        BY <1>1, <4>1 DEF Pools
      <4> QED
        BY <4>3, <4>4
    <3> QED
      BY <1>11, <3>1 DEF DeleteDone, Ended
  <2> QED
    BY <1>2, <2>1
<1> QED
  BY <1>3, <1>4, <1>5, <1>6, <1>8, <1>9, <1>10, <1>11 DEF Steps

\* A closed engine parses nothing.
LEMMA FinalEntry ==
    ASSUME EndInv, Next, eng.state = "CLOSED", input.entry = "none"
    PROVE  input'.entry = "none"
<1>1. ~Parser
  BY DEF Parser, ParseIgnored, ParseEnd, ParseLogin, ParseStanza,
         HandleInputDone, Parsing
<1>2. CASE Steps
  <2>1. ASSUME NEW t, Stepping(t) PROVE input' = input
    BY <2>1 DEF Stepping
  <2>2. CASE NextTask \/ DeleteDone
    BY <2>2 DEF NextTask, DeleteDone
  <2>3. CASE StepConnect \/ StepClient \/ StepManager
    BY <2>1, <2>3 DEF StepConnect, StepClient, StepManager
  <2>4. ASSUME NEW t, StepInit(t) \/ StepSend(t) \/ StepAwait(t)
        PROVE  input' = input
    BY <2>1, <2>4 DEF StepInit, StepSend, StepAwait
  <2> QED
    BY <1>2, <2>2, <2>3, <2>4 DEF Steps
<1>3. CASE ~Steps
  BY <1>1, <1>3 DEF Next, Sockets, Connected, TlsConnected, ReadClosed, HandleInput,
                    Reply, ServerEnds, Lose, Answer, PeerRequest, ServerSends,
                    DoLogin, DoDisconnect, PumpSend, SendRequest, RunTasks
<1> QED
  BY <1>2, <1>3

LEMMA OthersClose ==
    EndInv /\ (\/ Sockets \/ Reply \/ ServerEnds \/ Lose
               \/ \E r \in Requests : Answer(r)
               \/ \E i \in Incoming : PeerRequest(i)
               \/ DoLogin \/ DoDisconnect
               \/ \E x \in Raw : PumpSend(x)
               \/ \E r \in Requests : SendRequest(r)
               \/ RunTasks) => Closes
<1> SUFFICES ASSUME EndInv,
                    \/ Sockets \/ Reply \/ ServerEnds \/ Lose
                    \/ \E r \in Requests : Answer(r)
                    \/ \E i \in Incoming : PeerRequest(i)
                    \/ DoLogin \/ DoDisconnect
                    \/ \E x \in Raw : PumpSend(x)
                    \/ \E r \in Requests : SendRequest(r)
                    \/ RunTasks
             PROVE  Closes
  OBVIOUS
<1>1. /\ eng \in Engines /\ pool \in Pools /\ up \in Seq(Stanzas)
      /\ input.entry = "none" /\ IsSuffix(up, up)
  <2>1. NotRunning
    BY DEF Sockets, Connected, TlsConnected, ReadClosed, HandleInput, Reply,
           ServerEnds, Lose, Answer, PeerRequest, ServerSends, DoLogin,
           DoDisconnect, PumpSend, SendRequest, RunTasks
  <2> QED
    BY SMTT(40), <2>1, EndFacts DEF NotRunning, EndInv, XmppInv, Typed
<1>2. ASSUME UNCHANGED <<eng, pump, signalClosed>>, input'.entry = input.entry,
             sock' = "none" => sock = "none", IsSuffix(up', up),
             "client" \in Ended(pool) => "client" \in Ended(pool')
      PROVE  Closes
  BY <1>2, QuietCloses
<1>3. CASE \/ Reply \/ ServerEnds \/ Lose
           \/ \E r \in Requests : Answer(r)
           \/ \E i \in Incoming : PeerRequest(i)
  <2>1. UNCHANGED <<eng, input, sock, pump, signalClosed, pool>>
    BY ZenonT(80), <1>3 DEF Reply, ServerEnds, Lose, Answer, PeerRequest, ServerSends
  <2>2. up' = up \/ up' = <<>> \/ (up # <<>> /\ up' = Tail(up))
    BY <1>3 DEF Reply, ServerEnds, Lose, Answer, PeerRequest, ServerSends
  <2>3. IsSuffix(up', up)
    BY <1>1, <2>2, SuffixesOf
  <2> QED
    BY SMTT(40), <1>2, <2>1, <2>3
<1>4. CASE ReadClosed \/ TlsConnected
  <2>1. UNCHANGED <<eng, input, up, pump, signalClosed, pool>>
        /\ sock' \in {sock, "TLS_OPEN"}
    BY <1>4 DEF ReadClosed, TlsConnected
  <2> QED
    BY <1>1, <1>2, <2>1
<1>5. CASE \E n \in 1..Len(down) : HandleInput(n)
  <2>1. /\ UNCHANGED <<eng, up, sock, pump, signalClosed, pool>>
        /\ sock # "none" /\ eng.state \in {"OPENING", "OPEN"}
    BY <1>5 DEF HandleInput
  <2> QED
    BY <2>1 DEF EndInv, Closing, Closes
<1>6. CASE Connected
  <2>1. CASE eng.state = "START"
    <3> DEFINE e == [eng EXCEPT !.state = "OPENING", !.login = "STREAMSTART_SENT"]
    <3>1. Leave(e, "START", <<Plain("start")>>, "OPEN", pool) /\ sock = "CONNECTING"
      BY <1>6, <2>1 DEF Connected
    <3>2. e.state = "OPENING"
      BY <1>1 DEF Engines
    <3> HIDE DEF e
    <3>3. /\ eng' = e /\ sock' = "OPEN" /\ signalClosed' = signalClosed
      BY <3>1, <3>2 DEF Leave, OnStateChange
    <3>4. signalClosed = FALSE
      BY <2>1, <3>1, EndFacts DEF EndInv, Closing, Linked
    <3> QED
      BY <2>1, <3>2, <3>3, <3>4 DEF Closes, Closing
  <2>2. CASE eng.state # "START"
    <3>1. /\ sock' = "OPEN"
          /\ UNCHANGED <<eng, up, pool, pump, signalClosed, input>>
      BY <1>6, <2>2 DEF Connected
    <3> QED
      BY <1>1, <1>2, <3>1
  <2> QED
    BY <2>1, <2>2
<1>7. CASE DoLogin
  <2>1. /\ sock = "none" /\ sock' = "CLOSED"
        /\ UNCHANGED <<eng, input, up, signalClosed>>
    BY <1>7 DEF DoLogin
  <2> QED
    BY <1>1, <2>1 DEF EndInv, Closing, Closes
<1>8. CASE DoDisconnect
  <2>1. input' = input
    BY <1>8 DEF DoDisconnect
  <2>2. CASE Disconnect /\ eng.state # "CLOSED" /\ sock # "none"
    <3> DEFINE e == [eng EXCEPT !.state = "CLOSED"]
               o == IF eng.state = "OPEN" THEN <<Plain("end")>> ELSE <<>>
    <3>1. Leave(e, eng.state, o, sock, pool)
      BY <2>2 DEF Disconnect
    <3>2. e \in Engines /\ e.state = "CLOSED"
      BY <1>1 DEF Engines, EngineStates
    <3> HIDE DEF e, o
    <3> QED
      BY <1>1, <2>1, <2>2, <3>1, <3>2, EndCloses
  <2>3. CASE pump' = "CLOSED" /\ UNCHANGED <<eng, up, sock, pool, signalClosed>>
    BY <1>1, <2>1, <2>3 DEF EndInv, Closing, Closes
  <2> QED
    BY <1>8, <2>2, <2>3 DEF DoDisconnect
<1>9. ASSUME NEW x \in Raw, PumpSend(x) PROVE Closes
  <2>1. SendStanza(Stanza("raw", x), pool) /\ input' = input
    BY <1>9 DEF PumpSend
  <2> QED
    BY <1>1, <2>1, SendCloses
<1>10. ASSUME NEW r \in Requests, SendRequest(r) PROVE Closes
  <2>1. /\ pool' = Launch(pool, eng, r)
        /\ UNCHANGED <<eng, input, sock, up, pump, signalClosed>>
    BY <1>10 DEF SendRequest
  <2>2. "client" \in Ended(pool) => "client" \in Ended(pool')
    <3>1. r \in Children /\ r # "client" /\ "client" \in Task
      BY Clients
    <3>2. pool'.of["client"] = pool.of["client"]
      BY <1>1, <2>1, <3>1, LaunchedOthers
    <3> QED
      BY <3>1, <3>2 DEF Ended
  <2> QED
    BY <1>1, <1>2, <2>1, <2>2
<1>11. CASE RunTasks
  <2>1. /\ pool' = [pool EXCEPT !.posted = FALSE, !.at = 1, !.did = FALSE]
        /\ UNCHANGED <<eng, input, sock, up, pump, signalClosed>>
    BY <1>11 DEF RunTasks
  <2>2. pool'.of = pool.of
    BY <1>1, <2>1 DEF Pools
  <2> QED
    BY <1>1, <1>2, <2>1, <2>2 DEF Ended
<1> QED
  BY <1>3, <1>4, <1>5, <1>6, <1>7, <1>8, <1>9, <1>10, <1>11 DEF Sockets

\* Once the engine is closed and has told so, it stays closed, the pump knows,
\* and nothing is written behind the end of the stream.
THEOREM ClosedStaysClosed == Spec => ClosedIsFinal
<1>1. Init => EndInv
  <2>1. Init => Closing
    BY DEF Init, Closing, NewEngine, NoInput
  <2> QED
    BY <2>1, InitHolds, InitServes DEF EndInv
<1>2. EndInv /\ Next => Closes
  BY ParserCloses, StepsClose, OthersClose DEF Next
<1>3. EndInv /\ [Next]_vars => EndInv'
  <2> SUFFICES ASSUME EndInv, [Next]_vars PROVE EndInv'
    OBVIOUS
  <2>1. XmppInv'
    BY StepKeepsOrder DEF EndInv
  <2>2. ServedInv'
    BY StepServesTasks DEF EndInv
  <2>3. Closing'
    <3>1. CASE Next
      BY <1>2, <3>1 DEF Closes
    <3>2. CASE UNCHANGED vars
      BY <3>2 DEF EndInv, Closing, vars, Ended
    <3> QED
      BY <3>1, <3>2
  <2> QED
    BY <2>1, <2>2, <2>3 DEF EndInv
<1>4. EndInv /\ EndInv' /\ [Next]_vars =>
        [eng.state = "CLOSED" /\ input.entry = "none" =>
            /\ pump = "CLOSED" /\ pump' = "CLOSED" /\ eng'.state = "CLOSED"
            /\ IsSuffix(up', up)]_vars
  <2> SUFFICES ASSUME EndInv, EndInv', Next, eng.state = "CLOSED",
                      input.entry = "none"
               PROVE  /\ pump = "CLOSED" /\ pump' = "CLOSED"
                      /\ eng'.state = "CLOSED" /\ IsSuffix(up', up)
    OBVIOUS
  <2>1. Closes
    BY <1>2
  <2>2. pump = "CLOSED"
    BY DEF EndInv, Closing
  <2>3. input'.entry = "none"
    BY FinalEntry
  <2> QED
    BY <2>1, <2>2, <2>3 DEF Closes, Closing
<1> QED
  BY <1>1, <1>3, <1>4, PTL DEF Spec, ClosedIsFinal

----------------------------------------------------------------------------
(* Nothing is dropped *)

\* An element of S is in q, or is there once.
Found(q, S) == \E n \in 1..Len(q) : q[n] \in S
Once(q, S)  == \A m, n \in 1..Len(q) : q[m] \in S /\ q[n] \in S => m = n

\* Requests and the answers to them.
Replies == {"result", "error"}
RequestOf(id) == {s \in Stanzas : s.kind = "set" /\ s.id = id}
AnswersTo(id) == {s \in Stanzas : s.kind \in Replies /\ s.id = id}

\* What the tasks wait for, and the answer that ends the login.
Carried  == {s \in Stanzas : \/ s.kind = "set"
                             \/ s.kind \in Replies /\ s.id \in Requests}
LoggedIn == Stanza("result", "SESSION_REQUESTED")

\* The last request of the login.
SessionRequests == {s \in Stanzas : s.kind = "SESSION_REQUESTED"}

\* What the tasks wait for comes behind the end of the login.
Behind(dn) == \E n \in 1..Len(dn) : /\ dn[n] = LoggedIn
                                    /\ \A m \in 1..(n - 1) : dn[m] \notin Carried

\* It and the one before it have ids of their own.
Odd == {s \in Stanzas : /\ s.kind \in {"BIND_REQUESTED", "SESSION_REQUESTED"}
                        /\ s.id # s.kind}

\* The server knows no more of the session than the login has asked for.
LoginFits(e, in, u, dn, srv) ==
    /\ e.state = "START" => e.login = "INIT"
    /\ e.state = "OPEN" <=> e.login = "none"
    /\ srv.bound \/ Found(u, SessionRequests) \/ Found(in.output, SessionRequests) =>
          e.login \in {"SESSION_REQUESTED", "none"}
    /\ ~Found(u, Odd) /\ ~Found(in.output, Odd) /\ ~Found(e.queued, Odd)
    /\ in.reset => e.login = "STREAMSTART_SENT"
    /\ ~srv.bound => ~Found(dn, Carried)
    /\ srv.bound /\ e.login = "SESSION_REQUESTED" => Behind(dn)

\* Before the session manager's task starts there is no task but the client.
Before(e, in) == e.state # "OPEN" \/ in.entry = "OPENING"
NoTasks(p) == p.handlers = {} /\ \A t \in Children : /\ p.of[t].state = "NONE"
                                                     /\ p.of[t].inbox = <<>>

\* A request that is to be sent, is with the server, or whose answer is to be
\* read, has its task waiting with an empty queue.  After that the answer is
\* in the queue or told.
Stage(asks, asked, answered, answer, k, handled, heard) ==
    /\ asks => ~asked /\ ~answered /\ answer = "none"
    /\ asked => ~answered /\ answer = "none"
    /\ asks \/ asked \/ answered => k.state = "RESPONSE" /\ handled /\ k.inbox = <<>>
    /\ answered => answer # "none"
    /\ k.inbox # <<>> => answer # "none" /\ Head(k.inbox).kind = answer /\ ~k.done
    /\ k.state \in {"NONE", "INIT", "START"} => answer = "none"
    /\ k.state \in {"INIT", "START"} => handled
    /\ answer # "none" /\ ~answered => heard = answer \/ k.inbox # <<>>

\* The answers to be read are the one the server has given.
Given(dn, r, answer) ==
    \A n \in 1..Len(dn) : dn[n] \in AnswersTo(r) => dn[n].kind = answer

Question(r, pend, dn, srv, p, heard) ==
    /\ Once(pend, RequestOf(r)) /\ Once(dn, AnswersTo(r))
    /\ Given(dn, r, srv.answer[r])
    /\ Stage(Found(pend, RequestOf(r)), r \in srv.asked, Found(dn, AnswersTo(r)),
             srv.answer[r], p.of[r], r \in p.handlers, heard[r])

\* A peer's request that was sent is to be read, or with the session manager's
\* task, or has its own task, or was refused.
Place(sent, read, queued, started, refused) ==
    /\ sent <=> read \/ queued \/ started \/ refused
    /\ read => ~queued /\ ~started /\ ~refused
    /\ queued => ~started /\ ~refused

Delivered(i, dn, srv, p, acc) ==
    /\ Once(dn, RequestOf(i)) /\ Once(p.of["manager"].inbox, RequestOf(i))
    /\ Place(i \in srv.sent, Found(dn, RequestOf(i)),
             Found(p.of["manager"].inbox, RequestOf(i)),
             p.of[i].state # "NONE", i \in acc)

Carries(pend, dn, srv, p, acc, heard) ==
    /\ ~p.of["manager"].done
    /\ \A r \in Requests : Question(r, pend, dn, srv, p, heard)
    /\ \A i \in Incoming : Delivered(i, dn, srv, p, acc)

\* What the server may know.
Servers == [secure : BOOLEAN, known : BOOLEAN, bound : BOOLEAN, over : BOOLEAN,
            asked : SUBSET StanzaIds, sent : SUBSET Incoming,
            answer : [Requests -> {"none", "result", "error"}]]

\* The connection holds and the engine is not closed.
Going == ~lost /\ eng.state # "CLOSED"

\* The inductive invariant.
KeptInv ==
    /\ server \in Servers
    /\ Going => /\ LoginFits(eng, input, up, down, server)
                /\ Before(eng, input) => NoTasks(pool)
                /\ Carries(pending, down, server, pool, accepted, told)

\* What an empty queue holds, ...
LEMMA FoundNone == \A S : ~Found(<<>>, S) /\ Once(<<>>, S)
  BY DEF Found, Once

\* ... a queue with one more behind it, ...
LEMMA FoundAppend ==
    ASSUME NEW T, NEW q \in Seq(T), NEW s \in T, NEW S
    PROVE  /\ Found(Append(q, s), S) <=> Found(q, S) \/ s \in S
           /\ Once(q, S) /\ (s \in S => ~Found(q, S)) => Once(Append(q, s), S)
<1> DEFINE n == Len(q)
           a == Append(q, s)
<1>1. /\ n \in Nat /\ Len(a) = n + 1 /\ a[n + 1] = s
      /\ \A i \in 1..n : a[i] = q[i]
  BY Appended
<1> HIDE DEF a
<1>2. \A i \in 1..(n + 1) : i \in 1..n \/ i = n + 1
  BY <1>1
<1>3. 1..n \subseteq 1..(n + 1) /\ n + 1 \in 1..(n + 1)
  BY <1>1
<1> HIDE DEF n
<1>4. Found(a, S) <=> Found(q, S) \/ s \in S
  <2>1. Found(q, S) => Found(a, S)
    BY <1>1, <1>3 DEF Found, n
  <2>2. s \in S => Found(a, S)
    BY <1>1, <1>3 DEF Found
  <2>3. Found(a, S) => Found(q, S) \/ s \in S
    BY <1>1, <1>2 DEF Found, n
  <2> QED
    BY <2>1, <2>2, <2>3
<1>5. ASSUME Once(q, S), s \in S => ~Found(q, S) PROVE Once(a, S)
  <2> SUFFICES ASSUME NEW i \in 1..(n + 1), NEW j \in 1..(n + 1),
                      a[i] \in S, a[j] \in S
               PROVE  i = j
    BY <1>1 DEF Once
  <2>1. CASE i \in 1..n /\ j \in 1..n
    BY <1>1, <1>5, <2>1 DEF Once, n
  <2>2. CASE i = n + 1 /\ j \in 1..n
    BY <1>1, <1>5, <2>2 DEF Found, n
  <2>3. CASE j = n + 1 /\ i \in 1..n
    BY <1>1, <1>5, <2>3 DEF Found, n
  <2> QED
    BY <1>2, <2>1, <2>2, <2>3
<1> QED
  BY <1>4, <1>5 DEF a

\* ... a queue whose first was taken, ...
LEMMA FoundTail ==
    ASSUME NEW T, NEW q \in Seq(T), q # <<>>, NEW S
    PROVE  /\ Found(q, S) <=> Head(q) \in S \/ Found(Tail(q), S)
           /\ Once(q, S) => Once(Tail(q), S)
           /\ Once(q, S) /\ Head(q) \in S => ~Found(Tail(q), S)
<1> DEFINE n == Len(q)
           t == Tail(q)
<1>1. /\ n \in Nat \ {0} /\ Len(t) = n - 1 /\ Head(q) = q[1]
      /\ \A i \in 1..(n - 1) : t[i] = q[i + 1]
  BY Tailed
<1> HIDE DEF t, n
<1>2. /\ 1 \in 1..n
      /\ \A i \in 1..(n - 1) : i + 1 \in 1..n /\ i + 1 # 1
      /\ \A i \in 1..n : i = 1 \/ (i - 1 \in 1..(n - 1) /\ (i - 1) + 1 = i)
      /\ \A i, j \in 1..(n - 1) : i + 1 = j + 1 => i = j
  BY <1>1
<1>3. Found(q, S) => Head(q) \in S \/ Found(t, S)
  <2> SUFFICES ASSUME NEW i \in 1..n, q[i] \in S, i # 1 PROVE Found(t, S)
    BY <1>1 DEF Found, n
  <2>1. i - 1 \in 1..(n - 1) /\ t[i - 1] = q[i]
    BY <1>1, <1>2
  <2> QED
    BY <1>1, <2>1 DEF Found
<1>4. Head(q) \in S => Found(q, S)
  BY <1>1, <1>2 DEF Found, n
<1>5. Found(t, S) => Found(q, S)
  BY <1>1, <1>2 DEF Found, n
<1>6. Once(q, S) => Once(t, S)
  <2> SUFFICES ASSUME Once(q, S), NEW i \in 1..(n - 1), NEW j \in 1..(n - 1),
                      t[i] \in S, t[j] \in S
               PROVE  i = j
    BY <1>1 DEF Once
  <2>1. q[i + 1] \in S /\ q[j + 1] \in S /\ i + 1 \in 1..n /\ j + 1 \in 1..n
    BY <1>1, <1>2
  <2>2. i + 1 = j + 1
    BY <2>1 DEF Once, n
  <2> QED
    BY <1>2, <2>2
<1>7. ASSUME Once(q, S), Head(q) \in S, Found(t, S) PROVE FALSE
  <2>1. PICK i \in 1..(n - 1) : t[i] \in S
    BY <1>1, <1>7 DEF Found
  <2>2. q[i + 1] \in S /\ q[1] \in S /\ i + 1 \in 1..n /\ 1 \in 1..n
    BY <1>1, <1>2, <1>7, <2>1
  <2>3. i + 1 = 1
    BY <1>7, <2>2 DEF Once, n
  <2> QED
    BY <1>2, <2>3
<1> QED
  BY <1>3, <1>4, <1>5, <1>6, <1>7 DEF t

\* ... and two queues in one.
LEMMA FoundConcat ==
    ASSUME NEW T, NEW p \in Seq(T), NEW q \in Seq(T), NEW S
    PROVE  Found(p \o q, S) <=> Found(p, S) \/ Found(q, S)
<1> DEFINE m == Len(p)
           n == Len(q)
           w == p \o q
<1>1. /\ m \in Nat /\ n \in Nat /\ Len(w) = m + n
      /\ \A i \in 1..m : w[i] = p[i]
      /\ \A i \in 1..n : w[m + i] = q[i]
  BY Concatenated
<1> HIDE DEF w, m, n
<1>2. /\ \A i \in 1..(m + n) : i \in 1..m \/ (i - m \in 1..n /\ m + (i - m) = i)
      /\ \A i \in 1..m : i \in 1..(m + n)
      /\ \A i \in 1..n : m + i \in 1..(m + n)
  BY <1>1
<1>3. Found(p, S) => Found(w, S)
  BY <1>1, <1>2 DEF Found, m
<1>4. Found(q, S) => Found(w, S)
  BY <1>1, <1>2 DEF Found, n
<1>5. Found(w, S) => Found(p, S) \/ Found(q, S)
  <2> SUFFICES ASSUME NEW i \in 1..(m + n), w[i] \in S
               PROVE  Found(p, S) \/ Found(q, S)
    BY <1>1 DEF Found
  <2>1. CASE i \in 1..m
    BY <1>1, <2>1 DEF Found, m
  <2>2. CASE i - m \in 1..n /\ m + (i - m) = i
    <3>1. q[i - m] \in S
      BY <1>1, <2>2
    <3> QED
      BY <2>2, <3>1 DEF Found, n
  <2> QED
    BY <1>2, <2>1, <2>2
<1> QED
  BY <1>3, <1>4, <1>5 DEF w

\* What one part of a queue does not hold, no part of it does.
LEMMA FoundIn ==
    ASSUME NEW q, NEW S, NEW T, S \subseteq T, ~Found(q, T)
    PROVE  ~Found(q, S)
  BY DEF Found

\* Given holds of a queue that grows and shrinks.
LEMMA GivenKept ==
    ASSUME NEW T, NEW q \in Seq(T), NEW r, NEW a
    PROVE  /\ ~Found(q, AnswersTo(r)) => Given(q, r, a)
           /\ \A s \in T : Given(q, r, a) /\ (s \in AnswersTo(r) => s.kind = a)
                              => Given(Append(q, s), r, a)
           /\ q # <<>> /\ Given(q, r, a) => Given(Tail(q), r, a)
           /\ q # <<>> /\ Given(q, r, a) /\ Head(q) \in AnswersTo(r)
                 => Head(q).kind = a
<1> DEFINE A == AnswersTo(r)
           n == Len(q)
<1> HIDE DEF A
<1>1. ~Found(q, A) => \A i \in 1..n : q[i] \in A => q[i].kind = a
  BY DEF Found
<1>2. ASSUME NEW s \in T, \A i \in 1..n : q[i] \in A => q[i].kind = a,
             s \in A => s.kind = a, NEW i \in 1..Len(Append(q, s)),
             Append(q, s)[i] \in A
      PROVE  Append(q, s)[i].kind = a
  <2> DEFINE b == Append(q, s)
  <2>1. /\ n \in Nat /\ Len(b) = n + 1 /\ b[n + 1] = s
        /\ \A j \in 1..n : b[j] = q[j]
    BY Appended
  <2> HIDE DEF b, n
  <2>2. i \in 1..n \/ i = n + 1
    BY <1>2, <2>1 DEF b
  <2> QED
    BY <1>2, <2>1, <2>2 DEF b
<1>3. ASSUME q # <<>>, \A i \in 1..n : q[i] \in A => q[i].kind = a
      PROVE  /\ \A i \in 1..Len(Tail(q)) : Tail(q)[i] \in A => Tail(q)[i].kind = a
             /\ Head(q) \in A => Head(q).kind = a
  <2> DEFINE t == Tail(q)
  <2>1. /\ n \in Nat \ {0} /\ Len(t) = n - 1 /\ Head(q) = q[1]
        /\ \A i \in 1..(n - 1) : t[i] = q[i + 1]
    BY <1>3, Tailed
  <2> HIDE DEF t, n
  <2>2. 1 \in 1..n /\ \A i \in 1..(n - 1) : i + 1 \in 1..n
    BY <2>1
  <2>3. \A i \in 1..Len(t) : t[i] \in A => t[i].kind = a
    BY <1>3, <2>1, <2>2
  <2>4. Head(q) \in A => Head(q).kind = a
    BY <1>3, <2>1, <2>2
  <2> QED
    BY <2>3, <2>4 DEF t
<1> HIDE DEF n
<1>4. \A b : Given(b, r, a) <=> \A i \in 1..Len(b) : b[i] \in A => b[i].kind = a
  BY DEF Given, A
<1> QED
  BY <1>1, <1>2, <1>3, <1>4 DEF A, n

\* Requests and answers are carried, the end of the login is not: its id is no
\* id of a request.
LEMMA CarriedParts ==
    /\ \A i : RequestOf(i) \subseteq Carried
    /\ \A r \in Requests : AnswersTo(r) \subseteq Carried
    /\ LoggedIn \notin Carried
<1>1. {"BIND_REQUESTED", "SESSION_REQUESTED"} \cap Requests = {}
  BY XmppSessionAssumption
<1>2. LoggedIn \notin Carried
  BY <1>1 DEF Carried, LoggedIn, Stanza
<1> QED
  BY <1>2 DEF RequestOf, AnswersTo, Carried

\* The end of the login stays ahead of what the tasks wait for, and the
\* stanzas that are read before it are not for them.
LEMMA BehindKept ==
    ASSUME NEW T, NEW q \in Seq(T)
    PROVE  /\ Behind(q) => \A s \in T : Behind(Append(q, s))
           /\ LoggedIn \in T /\ ~Found(q, Carried) => Behind(Append(q, LoggedIn))
           /\ Behind(q) => /\ q # <<>> /\ Head(q) \notin Carried
                           /\ Head(q) # LoggedIn => Behind(Tail(q))
<1> DEFINE n == Len(q)
<1>1. ASSUME Behind(q), NEW s \in T PROVE Behind(Append(q, s))
  <2> DEFINE a == Append(q, s)
  <2>1. n \in Nat /\ Len(a) = n + 1 /\ \A i \in 1..n : a[i] = q[i]
    BY Appended
  <2> HIDE DEF a
  <2>2. PICK i \in 1..n : /\ q[i] = LoggedIn
                          /\ \A m \in 1..(i - 1) : q[m] \notin Carried
    BY <1>1 DEF Behind
  <2> HIDE DEF n
  <2>3. i \in 1..(n + 1) /\ \A m \in 1..(i - 1) : m \in 1..n
    BY <2>1
  <2>4. a[i] = LoggedIn /\ \A m \in 1..(i - 1) : a[m] \notin Carried
    BY <2>1, <2>2, <2>3
  <2> QED
    BY <2>1, <2>3, <2>4 DEF Behind, a
<1>2. ASSUME LoggedIn \in T, ~Found(q, Carried) PROVE Behind(Append(q, LoggedIn))
  <2> DEFINE a == Append(q, LoggedIn)
  <2>1. /\ n \in Nat /\ Len(a) = n + 1 /\ a[n + 1] = LoggedIn
        /\ \A i \in 1..n : a[i] = q[i]
    BY <1>2, Appended
  <2> HIDE DEF a
  <2>2. \A i \in 1..n : q[i] \notin Carried
    BY <1>2 DEF Found
  <2> HIDE DEF n
  <2>3. n + 1 \in 1..(n + 1) /\ (n + 1) - 1 = n
    BY <2>1
  <2>4. \A m \in 1..((n + 1) - 1) : a[m] \notin Carried
    BY <2>1, <2>2, <2>3
  <2> QED
    BY <2>1, <2>3, <2>4 DEF Behind, a
<1>3. ASSUME Behind(q)
      PROVE  /\ q # <<>> /\ Head(q) \notin Carried
             /\ Head(q) # LoggedIn => Behind(Tail(q))
  <2>1. PICK i \in 1..n : /\ q[i] = LoggedIn
                          /\ \A m \in 1..(i - 1) : q[m] \notin Carried
    BY <1>3 DEF Behind
  <2>2. q # <<>>
    BY <2>1
  <2> DEFINE t == Tail(q)
  <2>3. /\ n \in Nat \ {0} /\ Len(t) = n - 1 /\ Head(q) = q[1]
        /\ \A j \in 1..(n - 1) : t[j] = q[j + 1]
    BY <2>2, Tailed
  <2> HIDE DEF t, n
  <2>4. i = 1 \/ (1 \in 1..(i - 1) /\ i - 1 \in 1..(n - 1) /\ (i - 1) + 1 = i)
    BY <2>3
  <2>5. Head(q) \notin Carried
    BY <2>1, <2>3, <2>4, CarriedParts
  <2>6. ASSUME Head(q) # LoggedIn PROVE Behind(t)
    <3>1. i # 1
      BY <2>1, <2>3, <2>6
    <3>2. t[i - 1] = LoggedIn /\ i - 1 \in 1..(n - 1)
      BY <2>1, <2>3, <2>4, <3>1
    <3>3. \A m \in 1..((i - 1) - 1) : m \in 1..(n - 1) /\ m + 1 \in 1..(i - 1)
      BY <2>3
    <3>4. \A m \in 1..((i - 1) - 1) : t[m] \notin Carried
      BY <2>1, <2>3, <3>3
    <3> QED
      BY <2>3, <3>2, <3>4 DEF Behind
  <2> QED
    BY <2>2, <2>5, <2>6 DEF t
<1> QED
  BY <1>1, <1>2, <1>3

\* To the task t nothing has happened but that it was woken.
Same(p, q, t) ==
    /\ q.of[t].state = p.of[t].state /\ q.of[t].done = p.of[t].done
    /\ q.of[t].inbox = p.of[t].inbox
    /\ t \in p.handlers => t \in q.handlers

\* Only what a task has counts: a pool that has it too keeps the facts about it.
LEMMA QuestionSame ==
    ASSUME NEW r, NEW pend, NEW dn, NEW srv, NEW p, NEW q, NEW heard, NEW told2,
           Question(r, pend, dn, srv, p, heard), Same(p, q, r), told2[r] = heard[r]
    PROVE  Question(r, pend, dn, srv, q, told2)
  BY DEF Question, Stage, Same

\* The same for a delivery, ...
LEMMA DeliveredSame ==
    ASSUME NEW i, NEW dn, NEW srv, NEW p, NEW q, NEW acc,
           Delivered(i, dn, srv, p, acc), Same(p, q, "manager"),
           q.of[i].state = "NONE" <=> p.of[i].state = "NONE"
    PROVE  Delivered(i, dn, srv, q, acc)
  BY DEF Delivered, Place, Same

\* ... and for all of them.
LEMMA CarriesSame ==
    ASSUME NEW pend, NEW dn, NEW srv, NEW p, NEW q, NEW acc, NEW heard,
           Carries(pend, dn, srv, p, acc, heard), \A t \in Children : Same(p, q, t)
    PROVE  Carries(pend, dn, srv, q, acc, heard)
<1>1. /\ "manager" \in Children /\ Requests \subseteq Children
      /\ Incoming \subseteq Children
  BY Clients
<1>2. ~q.of["manager"].done
  BY <1>1 DEF Carries, Same
<1>3. ASSUME NEW r \in Requests PROVE Question(r, pend, dn, srv, q, heard)
  BY <1>1, QuestionSame DEF Carries
<1>4. ASSUME NEW i \in Incoming PROVE Delivered(i, dn, srv, q, acc)
  <2>1. Same(p, q, "manager") /\ Same(p, q, i) /\ Delivered(i, dn, srv, p, acc)
    BY <1>1 DEF Carries
  <2>2. q.of[i].state = "NONE" <=> p.of[i].state = "NONE"
    BY <2>1 DEF Same
  <2> QED
    BY <2>1, <2>2, DeliveredSame
<1> QED
  BY <1>2, <1>3, <1>4 DEF Carries

\* Tasks that do not exist stay as they are.
LEMMA NoTasksSame ==
    ASSUME NEW p, NEW q, NoTasks(p), q.handlers \subseteq p.handlers,
           \A t \in Children : Same(p, q, t)
    PROVE  NoTasks(q)
  BY DEF NoTasks, Same

\* A stanza that no task waits for comes down ...
LEMMA CarriesMore ==
    ASSUME NEW pend, NEW dn \in Seq(Read), NEW srv, NEW p, NEW acc, NEW heard,
           Carries(pend, dn, srv, p, acc, heard), NEW s \in Read, s \notin Carried
    PROVE  Carries(pend, Append(dn, s), srv, p, acc, heard)
<1> DEFINE a == Append(dn, s)
<1>1. ASSUME NEW r \in Requests PROVE Question(r, pend, a, srv, p, heard)
  <2>1. Question(r, pend, dn, srv, p, heard)
    BY DEF Carries
  <2>2. s \notin AnswersTo(r)
    BY CarriedParts
  <2>3. /\ Found(a, AnswersTo(r)) <=> Found(dn, AnswersTo(r))
        /\ Once(dn, AnswersTo(r)) => Once(a, AnswersTo(r))
    BY <2>2, FoundAppend
  <2>4. Given(dn, r, srv.answer[r]) => Given(a, r, srv.answer[r])
    BY <2>2, GivenKept
  <2> HIDE DEF a
  <2> QED
    BY <2>1, <2>3, <2>4 DEF Question, Stage
<1>2. ASSUME NEW i \in Incoming PROVE Delivered(i, a, srv, p, acc)
  <2>1. Delivered(i, dn, srv, p, acc)
    BY DEF Carries
  <2>2. s \notin RequestOf(i)
    BY CarriedParts
  <2>3. /\ Found(a, RequestOf(i)) <=> Found(dn, RequestOf(i))
        /\ Once(dn, RequestOf(i)) => Once(a, RequestOf(i))
    BY <2>2, FoundAppend
  <2> HIDE DEF a
  <2> QED
    BY <2>1, <2>3 DEF Delivered, Place
<1> HIDE DEF a
<1> QED
  BY <1>1, <1>2 DEF Carries, a

\* ... and is read.
LEMMA CarriesLess ==
    ASSUME NEW pend, NEW dn \in Seq(Read), NEW srv, NEW p, NEW acc, NEW heard,
           Carries(pend, dn, srv, p, acc, heard), dn # <<>>, Head(dn) \notin Carried
    PROVE  Carries(pend, Tail(dn), srv, p, acc, heard)
<1> DEFINE a == Tail(dn)
           s == Head(dn)
<1>1. ASSUME NEW r \in Requests PROVE Question(r, pend, a, srv, p, heard)
  <2>1. Question(r, pend, dn, srv, p, heard)
    BY DEF Carries
  <2>2. s \notin AnswersTo(r)
    BY CarriedParts
  <2>3. /\ Found(a, AnswersTo(r)) <=> Found(dn, AnswersTo(r))
        /\ Once(dn, AnswersTo(r)) => Once(a, AnswersTo(r))
    BY <2>2, FoundTail
  <2>4. Given(dn, r, srv.answer[r]) => Given(a, r, srv.answer[r])
    BY GivenKept
  <2> HIDE DEF a
  <2> QED
    BY <2>1, <2>3, <2>4 DEF Question, Stage
<1>2. ASSUME NEW i \in Incoming PROVE Delivered(i, a, srv, p, acc)
  <2>1. Delivered(i, dn, srv, p, acc)
    BY DEF Carries
  <2>2. s \notin RequestOf(i)
    BY CarriedParts
  <2>3. /\ Found(a, RequestOf(i)) <=> Found(dn, RequestOf(i))
        /\ Once(dn, RequestOf(i)) => Once(a, RequestOf(i))
    BY <2>2, FoundTail
  <2> HIDE DEF a
  <2> QED
    BY <2>1, <2>3 DEF Delivered, Place
<1> HIDE DEF a
<1> QED
  BY <1>1, <1>2 DEF Carries, a

\* A stanza is sent that is no request; who sends it is a task that exists, or
\* is known to nobody.
LEMMA CarriesSent ==
    ASSUME NEW pend \in Seq(Stanzas), NEW dn, NEW srv, NEW p, NEW acc, NEW more,
           NEW heard, Carries(pend, dn, srv, p, acc, heard),
           NEW s \in Stanzas, s.kind # "set", acc \subseteq more,
           \A i \in Incoming : i \in more => i \in acc \/ p.of[i].state # "NONE"
    PROVE  Carries(Append(pend, s), dn, srv, p, more, heard)
<1> DEFINE a == Append(pend, s)
<1>1. ASSUME NEW r \in Requests PROVE Question(r, a, dn, srv, p, heard)
  <2>1. Question(r, pend, dn, srv, p, heard)
    BY DEF Carries
  <2>2. s \notin RequestOf(r)
    BY DEF RequestOf
  <2>3. /\ Found(a, RequestOf(r)) <=> Found(pend, RequestOf(r))
        /\ Once(pend, RequestOf(r)) => Once(a, RequestOf(r))
    BY <2>2, FoundAppend
  <2> HIDE DEF a
  <2> QED
    BY <2>1, <2>3 DEF Question, Stage
<1>2. ASSUME NEW i \in Incoming PROVE Delivered(i, dn, srv, p, more)
  <2>1. Delivered(i, dn, srv, p, acc)
    BY DEF Carries
  <2>2. i \in acc => i \in more
    OBVIOUS
  <2>3. i \in more => i \in acc \/ p.of[i].state # "NONE"
    OBVIOUS
  <2> QED
    BY <2>1, <2>2, <2>3 DEF Delivered, Place
<1> HIDE DEF a
<1> QED
  BY <1>1, <1>2 DEF Carries, a

\* At first nothing is under way.
LEMMA InitKept == Init => KeptInv
<1> SUFFICES ASSUME Init PROVE KeptInv
  OBVIOUS
<1>1. /\ eng = NewEngine /\ input = NoInput /\ up = <<>> /\ down = <<>>
      /\ pending = <<>> /\ accepted = {} /\ pool.handlers = {}
      /\ told = [r \in Requests |-> "none"]
      /\ \A t \in Children : pool.of[t] = NoTask
      /\ server = [secure |-> FALSE, known |-> FALSE, bound |-> FALSE,
                   over |-> FALSE, asked |-> {}, sent |-> {},
                   answer |-> [r \in Requests |-> "none"]]
  BY Clients DEF Init
<1>2. server \in Servers
  BY <1>1 DEF Servers
<1>3. /\ NoTask.state = "NONE" /\ NoTask.inbox = <<>> /\ NoTask.done = FALSE
  BY DEF NoTask, NewTask
<1>4. /\ eng.state = "START" /\ eng.login = "INIT" /\ eng.queued = <<>>
      /\ input.output = <<>> /\ input.reset = FALSE /\ server.bound = FALSE
      /\ server.asked = {} /\ server.sent = {}
      /\ server.answer = [r \in Requests |-> "none"]
  BY <1>1 DEF NewEngine, NoInput
<1>5. LoginFits(eng, input, up, down, server)
  BY <1>1, <1>4, FoundNone DEF LoginFits
<1>6. NoTasks(pool)
  BY <1>1, <1>3 DEF NoTasks
<1>7. ASSUME NEW r \in Requests PROVE Question(r, pending, down, server, pool, told)
  <2>1. pool.of[r] = NoTask /\ server.answer[r] = "none" /\ r \notin server.asked
    BY <1>1, <1>4, Clients
  <2>2. ~Found(pending, RequestOf(r)) /\ ~Found(down, AnswersTo(r))
        /\ Once(pending, RequestOf(r)) /\ Once(down, AnswersTo(r))
    BY <1>1, FoundNone
  <2>3. Given(down, r, server.answer[r])
    BY <2>2 DEF Given, Found
  <2> QED
    BY <1>3, <2>1, <2>2, <2>3 DEF Question, Stage
<1>8. ASSUME NEW i \in Incoming PROVE Delivered(i, down, server, pool, accepted)
  <2>1. pool.of[i] = NoTask /\ pool.of["manager"].inbox = <<>>
    BY <1>1, <1>3, Clients
  <2>2. ~Found(down, RequestOf(i)) /\ Once(down, RequestOf(i))
        /\ ~Found(pool.of["manager"].inbox, RequestOf(i))
        /\ Once(pool.of["manager"].inbox, RequestOf(i))
    BY <1>1, <2>1, FoundNone
  <2> QED
    BY <1>1, <1>3, <1>4, <2>1, <2>2 DEF Delivered, Place
<1>9. ~pool.of["manager"].done
  BY <1>1, <1>3, Clients
<1> QED
  BY <1>2, <1>5, <1>6, <1>7, <1>8, <1>9 DEF KeptInv, Carries

\* A step of the tasks at which nothing happens to any of them but the client.
LEMMA TasksKept ==
    ASSUME KeptInv,
           UNCHANGED <<eng, input, up, down, lost, server, accepted, pending, told>>,
           Going => \A t \in Children : Same(pool, pool', t),
           pool'.handlers \subseteq pool.handlers
    PROVE  KeptInv'
<1> SUFFICES ASSUME Going'
             PROVE  /\ LoginFits(eng, input, up, down, server)
                    /\ Before(eng, input) => NoTasks(pool')
                    /\ Carries(pending, down, server, pool', accepted, told)
  BY DEF KeptInv
<1>1. /\ Going /\ LoginFits(eng, input, up, down, server)
      /\ Before(eng, input) => NoTasks(pool)
      /\ Carries(pending, down, server, pool, accepted, told)
  BY DEF KeptInv, Going
<1>2. Before(eng, input) => NoTasks(pool')
  BY <1>1, NoTasksSame
<1>3. Carries(pending, down, server, pool', accepted, told)
  BY <1>1, CarriesSame
<1> QED
  BY <1>1, <1>2, <1>3

\* A step of a child task, which runs only after the login.
LEMMA ChildKept ==
    ASSUME KeptInv, UNCHANGED <<eng, input, up, down, lost, server>>,
           NEW t \in Children, pool.of[t].state # "NONE",
           Going /\ ~Before(eng, input) /\ Carries(pending, down, server, pool,
                                                   accepted, told)
             => Carries(pending', down, server, pool', accepted', told')
    PROVE  KeptInv'
<1> SUFFICES ASSUME Going'
             PROVE  /\ LoginFits(eng, input, up, down, server)
                    /\ Before(eng, input) => NoTasks(pool')
                    /\ Carries(pending', down, server, pool', accepted', told')
  BY DEF KeptInv
<1>1. /\ Going /\ LoginFits(eng, input, up, down, server)
      /\ Before(eng, input) => NoTasks(pool)
      /\ Carries(pending, down, server, pool, accepted, told)
  BY DEF KeptInv, Going
<1>2. ~Before(eng, input)
  BY <1>1 DEF NoTasks
<1> QED
  BY <1>1, <1>2

\* The task t comes to another state and nothing else happens.
LEMMA SteppedSame ==
    ASSUME NEW p \in Pools, NEW t \in Task,
           NEW state \in (States \cup {"BLOCKED"}) \ {"DONE", "ERROR"}
    PROVE  /\ \A u \in Task : u # t \/ state = "BLOCKED"
                 => Same(p, Stepped(p, t, state), u)
           /\ Stepped(p, t, state).handlers = p.handlers
<1> DEFINE q == Stepped(p, t, state)
<1>1. /\ q.handlers = p.handlers
      /\ q.of[t].state = IF state = "BLOCKED" THEN p.of[t].state ELSE state
      /\ q.of[t].done = p.of[t].done /\ q.of[t].inbox = p.of[t].inbox
      /\ \A u \in Task : u # t => q.of[u] = p.of[u]
  BY SteppedOn
<1> HIDE DEF q
<1> QED
  BY <1>1 DEF Same, q

\* The end of a task leaves the others as they are and its queue empty.
LEMMA EndedSame ==
    ASSUME NEW p \in Pools, NEW t \in Children, NEW state \in {"DONE", "ERROR"}
    PROVE  /\ \A u \in Task : u # t => Same(p, Stepped(p, t, state), u)
           /\ Stepped(p, t, state).of[t].state = state
           /\ Stepped(p, t, state).of[t].inbox = <<>>
<1> DEFINE q == Stepped(p, t, state)
           d == [p EXCEPT !.did = TRUE]
           f == [p.of EXCEPT ![t] = [p.of[t] EXCEPT !.state = state, !.done = TRUE,
                                                    !.blocked = TRUE, !.inbox = <<>>]]
<1>1. t \in Task /\ t # "client" /\ DOMAIN p.of = Task /\ p.of[t] \in TaskRecord(t)
  BY PoolFields, Clients
<1>2. /\ \A u \in Task : u # t => q.of[u] = p.of[u]
      /\ q.of[t].state = state
  <2>1. \A u \in Task : u # t => q.of[u] = p.of[u]
    BY <1>1, SteppedOthers
  <2>2. q.of[t].state = state
    BY <1>1, SteppedEnd
  <2> QED
    BY <2>1, <2>2
<1>3. q.handlers = p.handlers \ {t} /\ q.of[t].inbox = <<>>
  BY <1>1 DEF Stepped, Stop, Pools, TaskRecord
<1> HIDE DEF q
<1>4. \A u \in Task : u # t => Same(p, q, u)
  BY <1>2, <1>3 DEF Same
<1> QED
  BY <1>2, <1>3, <1>4 DEF q

\* A client that cannot connect ends before it has any children.
LEMMA EndedAlone ==
    ASSUME NEW p \in Pools, NoTasks(p), NEW state \in {"DONE", "ERROR"}
    PROVE  /\ \A u \in Children : Same(p, Stepped(p, "client", state), u)
           /\ Stepped(p, "client", state).handlers \subseteq p.handlers
<1> DEFINE q == Stepped(p, "client", state)
<1>1. "client" \in Task /\ DOMAIN p.of = Task /\ "client" \notin Children
      /\ Children \subseteq Task
  BY PoolFields, Clients
<1>2. q.handlers \subseteq p.handlers
  BY <1>1, SteppedEnd
<1>3. \A u \in Children : p.of[u].state = "NONE"
  BY DEF NoTasks
<1>4. \A u \in Children : q.of[u] = p.of[u]
  BY ZenonT(60), <1>1, <1>3 DEF Stepped, Stop, AbortAllChildren, Pools
<1>5. p.handlers = {}
  BY DEF NoTasks
<1> HIDE DEF q
<1> QED
  BY <1>2, <1>4, <1>5 DEF Same, q

\* What the invariants say of the tasks and of what is under way.
LEMMA KeptFacts ==
    ASSUME XmppInv, ServedInv, KeptInv
    PROVE  /\ eng \in Engines /\ input \in Inputs /\ sock \in Socks /\ pool \in Pools
           /\ up \in Seq(Stanzas) /\ down \in Seq(Read) /\ pending \in Seq(Stanzas)
           /\ \A t \in Task : pool.of[t].inbox \in Seq(Takes(t))
           /\ \A t \in pool.handlers : t \in Children /\ ~pool.of[t].done
           /\ \A t \in Task : Has(pool.queue, t) => pool.of[t].state \notin Gone
           /\ pool.of["client"].done => eng.state \in {"START", "CLOSED"}
           /\ told \in [Requests -> {"none", "result", "error"}]
           /\ server \in Servers
<1>1. /\ eng \in Engines /\ input \in Inputs /\ sock \in Socks /\ pool \in Pools
      /\ up \in Seq(Stanzas) /\ down \in Seq(Read)
      /\ told \in [Requests -> {"none", "result", "error"}]
      /\ server \in Servers
  BY DEF XmppInv, Typed, KeptInv
<1>2. pending \in Seq(Stanzas)
  BY DEF XmppInv, Typed
<1>3. \A t \in Task : pool.of[t].inbox \in Seq(Takes(t))
  BY <1>1, TaskFields
<1>4. \A t \in pool.handlers : t \in Children /\ ~pool.of[t].done
  BY <1>1, PoolFields DEF ServedInv, Pooled, Alive, Ended
<1>5. \A t \in Task : Has(pool.queue, t) => pool.of[t].state \notin Gone
  BY DEF ServedInv, Pooled, Queued, Alive
<1>6. pool.of["client"].done => eng.state \in {"START", "CLOSED"}
  BY Clients DEF ServedInv, Linked, Ended
<1> QED
  BY <1>1, <1>2, <1>3, <1>4, <1>5, <1>6

\* Who steps is in the runner's list and not done.
LEMMA SteppingKept ==
    ASSUME XmppInv, ServedInv, KeptInv, NEW t \in Task, Stepping(t)
    PROVE  /\ pool.of[t].state \notin Gone /\ ~pool.of[t].done
           /\ UNCHANGED <<input, down, lost, server>>
<1>1. Has(pool.queue, t) /\ ~pool.of[t].blocked /\ pool \in Pools
      /\ UNCHANGED <<input, down, lost, server>>
  BY DEF Stepping, Has, XmppInv, Typed, Pools
<1>2. pool.of[t].state \notin Gone
  BY <1>1, KeptFacts
<1>3. ~pool.of[t].done
  BY <1>1, <1>2 DEF ServedInv, Pooled, Alive, Ended, Blocked
<1> QED
  BY <1>1, <1>2, <1>3

\* A task leaves its initial state.
LEMMA InitStepKept ==
    ASSUME XmppInv, ServedInv, KeptInv, NEW t \in Task, StepInit(t)
    PROVE  KeptInv'
<1> DEFINE q == Stepped(pool, t, "START")
<1>1. /\ pool' = q /\ pool.of[t].state = "INIT" /\ pool \in Pools
      /\ UNCHANGED <<eng, up, accepted, pending, told>>
  BY DEF StepInit, XmppInv, Typed
<1>2. UNCHANGED <<input, down, lost, server>>
  BY DEF StepInit, Stepping
<1>3. "START" \in (States \cup {"BLOCKED"}) \ {"DONE", "ERROR"}
  BY DEF States
<1>4. /\ \A u \in Task : u # t => Same(pool, q, u)
      /\ q.handlers = pool.handlers
  BY <1>1, <1>3, SteppedSame
<1>5. /\ q.of[t].state = "START" /\ q.of[t].done = pool.of[t].done
      /\ q.of[t].inbox = pool.of[t].inbox
  BY <1>1, <1>3, SteppedOn
<1> HIDE DEF q
<1>6. CASE t \notin Children
  BY <1>1, <1>2, <1>4, <1>6, Clients, TasksKept
<1>7. CASE t \in Children
  <2> SUFFICES ASSUME Carries(pending, down, server, pool, accepted, told)
               PROVE  Carries(pending, down, server, q, accepted, told)
    <3>1. pool.of[t].state # "NONE"
      BY <1>1
    <3> QED
      BY <1>1, <1>2, <1>7, <3>1, ChildKept
  <2>1. ~q.of["manager"].done
    <3>1. q.of["manager"].done = pool.of["manager"].done
      BY <1>4, <1>5, Clients DEF Same
    <3> QED
      BY <3>1 DEF Carries
  <2>2. ASSUME NEW r \in Requests PROVE Question(r, pending, down, server, q, told)
    <3>1. Question(r, pending, down, server, pool, told) /\ r \in Task
      BY Clients DEF Carries
    <3>2. CASE r # t
      BY <1>4, <3>1, <3>2, QuestionSame
    <3>3. CASE r = t
      BY <1>1, <1>4, <1>5, <3>1, <3>3 DEF Question, Stage
    <3> QED
      BY <3>2, <3>3
  <2>3. ASSUME NEW i \in Incoming PROVE Delivered(i, down, server, q, accepted)
    <3>1. Delivered(i, down, server, pool, accepted) /\ i \in Task /\ "manager" \in Task
      BY Clients DEF Carries
    <3>2. q.of[i].state = "NONE" <=> pool.of[i].state = "NONE"
      BY <1>1, <1>4, <1>5, <3>1 DEF Same
    <3>3. q.of["manager"].inbox = pool.of["manager"].inbox
      BY <1>4, <1>5, <3>1 DEF Same
    <3> QED
      BY <3>1, <3>2, <3>3 DEF Delivered, Place
  <2> QED
    BY <2>1, <2>2, <2>3 DEF Carries
<1> QED
  BY <1>6, <1>7

\* The client connects, waits, or ends when the engine is closed.
LEMMA ClientStepsKept ==
    ASSUME XmppInv, ServedInv, KeptInv, StepConnect \/ StepClient
    PROVE  KeptInv'
<1> DEFINE States1 == (States \cup {"BLOCKED"}) \ {"DONE", "ERROR"}
<1>1. /\ pool \in Pools /\ "client" \in Task /\ "client" \notin Children
      /\ Children \subseteq Task
      /\ UNCHANGED <<eng, input, up, down, lost, server, accepted, pending, told>>
  <2>1. UNCHANGED <<eng, input, up, down, lost, server, accepted, pending, told>>
    BY DEF StepConnect, StepClient, Stepping
  <2> QED
    BY <2>1, KeptFacts, Clients
<1>2. ASSUME NEW state \in States1, pool' = Stepped(pool, "client", state)
      PROVE  KeptInv'
  <2>1. /\ \A u \in Children : Same(pool, pool', u)
        /\ pool'.handlers = pool.handlers
    BY <1>1, <1>2, SteppedSame
  <2> QED
    BY <1>1, <2>1, TasksKept
<1>3. "START_XMPP_LOGIN" \in States1 /\ "RESPONSE" \in States1 /\ "BLOCKED" \in States1
  BY DEF States
<1>4. CASE StepClient
  <2>1. CASE eng.state = "CLOSED"
    BY <1>1, <2>1 DEF KeptInv, Going
  <2>2. CASE eng.state # "CLOSED"
    <3>1. pool' = Stepped(pool, "client", "BLOCKED")
      BY <1>4, <2>2 DEF StepClient
    <3> HIDE DEF States1
    <3> QED
      BY <1>2, <1>3, <3>1
  <2> QED
    BY <2>1, <2>2
<1>5. CASE StepConnect
  <2>1. CASE pool' = Stepped(pool, "client", "ERROR")
    <3>1. pool.of["client"].state \in {"START", "START_XMPP_LOGIN"}
      BY <1>5 DEF StepConnect
    <3>2. eng.state \in {"START", "CLOSED"}
      BY <3>1 DEF ServedInv, Linked, ClientState
    <3>3. CASE eng.state = "CLOSED"
      BY <1>1, <3>3 DEF KeptInv, Going
    <3>4. CASE ~Going
      BY <1>1, <3>4 DEF KeptInv, Going
    <3>5. CASE eng.state = "START" /\ Going
      <4>1. NoTasks(pool)
        BY <3>5 DEF KeptInv, Before
      <4>2. /\ \A u \in Children : Same(pool, pool', u)
            /\ pool'.handlers \subseteq pool.handlers
        BY <1>1, <2>1, <4>1, EndedAlone
      <4> QED
        BY <1>1, <4>2, TasksKept
    <3> QED
      BY <3>2, <3>3, <3>4, <3>5
  <2>2. CASE pool' # Stepped(pool, "client", "ERROR")
    <3>1. \/ pool' = Stepped(pool, "client", "START_XMPP_LOGIN")
          \/ pool' = Stepped(pool, "client", "RESPONSE")
      BY <1>5, <2>2 DEF StepConnect
    <3> HIDE DEF States1
    <3> QED
      BY <1>2, <1>3, <3>1
  <2> QED
    BY <2>1, <2>2
<1> QED
  BY <1>4, <1>5

\* A new task has its handler and leaves the others as they are.
LEMMA LaunchSame ==
    ASSUME NEW p \in Pools, NEW e, e.state # "CLOSED", NEW t \in Children
    PROVE  /\ Launch(p, e, t) \in Pools
           /\ Launch(p, e, t).of[t] = NewTask /\ t \in Launch(p, e, t).handlers
           /\ \A u \in Task : u # t => Same(p, Launch(p, e, t), u)
<1> DEFINE q == Launch(p, e, t)
<1>1. q \in Pools /\ \A u \in Task : u # t => q.of[u] = p.of[u]
  BY ZenonT(60), LaunchKeeps
<1>2. q.of[t] = NewTask
  BY Launched
<1>3. q.handlers = p.handlers \cup {t}
  BY DEF Launch, StartTask, Pools
<1> HIDE DEF q
<1>4. \A u \in Task : u # t => Same(p, q, u)
  BY <1>1, <1>3 DEF Same
<1> QED
  BY <1>1, <1>2, <1>3, <1>4 DEF q

\* A task for a request starts ...
LEMMA LaunchRequest ==
    ASSUME NEW p \in Pools, NEW e, e.state # "CLOSED", NEW t \in Requests,
           p.of[t].state = "NONE", NEW pend, NEW dn, NEW srv, NEW acc, NEW heard,
           Carries(pend, dn, srv, p, acc, heard)
    PROVE  Carries(pend, dn, srv, Launch(p, e, t), acc, heard)
<1> DEFINE q == Launch(p, e, t)
<1>1. /\ t \in Children /\ t # "manager" /\ t \in Task /\ "manager" \in Task
      /\ Requests \subseteq Task /\ Incoming \subseteq Task /\ t \notin Incoming
  BY Clients, XmppSessionAssumption
<1>2. /\ q.of[t] = NewTask /\ t \in q.handlers
      /\ \A u \in Task : u # t => Same(p, q, u)
  BY <1>1, LaunchSame
<1> HIDE DEF q
<1>3. ~q.of["manager"].done
  BY <1>1, <1>2 DEF Same, Carries
<1>4. ASSUME NEW r \in Requests PROVE Question(r, pend, dn, srv, q, heard)
  <2>1. Question(r, pend, dn, srv, p, heard)
    BY DEF Carries
  <2>2. CASE r # t
    BY <1>1, <1>2, <2>1, <2>2, QuestionSame
  <2>3. CASE r = t
    <3> DEFINE asks == Found(pend, RequestOf(r))
               answered == Found(dn, AnswersTo(r))
    <3>1. Stage(asks, r \in srv.asked, answered, srv.answer[r], p.of[r],
                r \in p.handlers, heard[r])
      BY <2>1 DEF Question
    <3> HIDE DEF asks, answered
    <3>2. /\ q.of[r].state = "INIT" /\ q.of[r].inbox = <<>> /\ r \in q.handlers
      BY <1>2, <2>3 DEF NewTask
    <3>3. Stage(asks, r \in srv.asked, answered, srv.answer[r], q.of[r],
                r \in q.handlers, heard[r])
      BY <2>3, <3>1, <3>2 DEF Stage
    <3> QED
      BY <2>1, <3>3 DEF Question, asks, answered
  <2> QED
    BY <2>2, <2>3
<1>5. ASSUME NEW i \in Incoming PROVE Delivered(i, dn, srv, q, acc)
  <2>1. Delivered(i, dn, srv, p, acc) /\ i # t
    BY <1>1 DEF Carries
  <2>2. Same(p, q, "manager") /\ Same(p, q, i)
    BY <1>1, <1>2, <2>1
  <2> QED
    BY <2>1, <2>2, DeliveredSame DEF Same
<1> QED
  BY <1>3, <1>4, <1>5 DEF Carries, q

\* The session manager's task has taken what came first from its queue.
Taken(p) == [p EXCEPT !.of["manager"].inbox = Tail(@)]

\* ... and one for the request the session manager's task takes from its queue.
LEMMA TakeRequest ==
    ASSUME NEW p \in Pools, NEW e, e.state # "CLOSED",
           p.of["manager"].inbox # <<>>, p.of["manager"].state = "START",
           NEW pend, NEW dn, NEW srv, NEW acc, NEW heard,
           Carries(pend, dn, srv, p, acc, heard),
           NEW i, i = Head(p.of["manager"].inbox).id
    PROVE  /\ Launch(Taken(p), e, i) \in Pools
           /\ Launch(Taken(p), e, i).of["manager"].state = "START"
           /\ Carries(pend, dn, srv, Launch(Taken(p), e, i), acc, heard)
           /\ \A r \in Requests : Launch(Taken(p), e, i).of[r].state = p.of[r].state
<1> DEFINE q == Launch(Taken(p), e, i)
           b == p.of["manager"].inbox
           m == Taken(p)
           s == Head(b)
<1>1. /\ "manager" \in Task /\ Requests \subseteq Task /\ Incoming \subseteq Task
      /\ Incoming \subseteq Children /\ Requests \cap Incoming = {}
      /\ "manager" \notin Incoming /\ "manager" \notin Requests
  BY Clients, XmppSessionAssumption
<1>2. m \in Pools /\ s \in Takes("manager")
  BY <1>1, TakeKeeps DEF Taken
<1>3. s.kind = "set" /\ i \in Incoming /\ s \in RequestOf(i)
  BY <1>1, <1>2, Clients DEF Takes, RequestOf
<1>4. /\ m.of["manager"].inbox = Tail(b) /\ m.of["manager"].state = "START"
      /\ m.of["manager"].done = p.of["manager"].done /\ m.handlers = p.handlers
      /\ \A u \in Task : u # "manager" => m.of[u] = p.of[u]
  <2>1. DOMAIN p.of = Task /\ p.of["manager"] \in TaskRecord("manager")
    BY <1>1, PoolFields
  <2> QED
    BY <1>1, <2>1 DEF Taken, Pools, TaskRecord
<1>5. b \in Seq(Stanzas) /\ b # <<>>
  <2>1. b \in Seq(Takes("manager"))
    BY <1>1, TaskFields
  <2>2. Takes("manager") \subseteq Stanzas
    BY DEF Takes
  <2> QED
    BY <2>1, <2>2
<1> HIDE DEF m
<1>6. /\ q \in Pools /\ q.of[i] = NewTask
      /\ \A u \in Task : u # i => Same(m, q, u)
  BY ZenonT(60), <1>1, <1>2, <1>3, LaunchSame DEF m
<1> HIDE DEF q
<1>7. /\ q.of["manager"].inbox = Tail(b) /\ q.of["manager"].state = "START"
      /\ q.of["manager"].done = p.of["manager"].done
      /\ \A u \in Task : u # i /\ u # "manager" => Same(p, q, u)
  BY ZenonT(60), <1>1, <1>3, <1>4, <1>6 DEF Same
<1> HIDE DEF b, s
<1>8. ~q.of["manager"].done
  BY <1>7 DEF Carries
<1>9. ASSUME NEW r \in Requests
      PROVE  Question(r, pend, dn, srv, q, heard) /\ q.of[r].state = p.of[r].state
  <2>1. Question(r, pend, dn, srv, p, heard) /\ Same(p, q, r)
    BY <1>1, <1>3, <1>7 DEF Carries
  <2> QED
    BY <2>1, QuestionSame DEF Same
<1>10. ASSUME NEW j \in Incoming PROVE Delivered(j, dn, srv, q, acc)
  <2>1. Delivered(j, dn, srv, p, acc)
    BY DEF Carries
  <2> DEFINE read == Found(dn, RequestOf(j))
  <2>2. Place(j \in srv.sent, read, Found(b, RequestOf(j)), p.of[j].state # "NONE",
              j \in acc) /\ Once(b, RequestOf(j)) /\ Once(dn, RequestOf(j))
    BY <2>1 DEF Delivered, b
  <2>3. /\ Found(b, RequestOf(j)) <=> s \in RequestOf(j) \/ Found(Tail(b), RequestOf(j))
        /\ Once(b, RequestOf(j)) => Once(Tail(b), RequestOf(j))
        /\ Once(b, RequestOf(j)) /\ s \in RequestOf(j) => ~Found(Tail(b), RequestOf(j))
    BY <1>5, FoundTail DEF s
  <2> HIDE DEF read
  <2>4. CASE j # i
    <3>1. s \notin RequestOf(j)
      BY <1>3, <2>4 DEF RequestOf
    <3>2. q.of[j].state = p.of[j].state
      BY <1>1, <1>7, <2>4 DEF Same
    <3>3. Place(j \in srv.sent, read, Found(Tail(b), RequestOf(j)),
                q.of[j].state # "NONE", j \in acc)
      BY <2>2, <2>3, <3>1, <3>2 DEF Place
    <3> QED
      BY <1>7, <2>2, <2>3, <3>3 DEF Delivered, read
  <2>5. CASE j = i
    <3>1. q.of[j].state # "NONE"
      <4>1. NewTask.state = "INIT"
        BY DEF NewTask
      <4> QED
        BY <1>6, <2>5, <4>1
    <3>2. Place(j \in srv.sent, read, Found(Tail(b), RequestOf(j)),
                q.of[j].state # "NONE", j \in acc)
      BY <1>3, <2>2, <2>3, <2>5, <3>1 DEF Place
    <3> QED
      BY <1>7, <2>2, <2>3, <3>2 DEF Delivered, read
  <2> QED
    BY <2>4, <2>5
<1>11. Carries(pend, dn, srv, q, acc, heard)
  BY <1>8, <1>9, <1>10 DEF Carries
<1> QED
  BY <1>6, <1>7, <1>9, <1>11 DEF q

\* The session manager's task goes on.
LEMMA ManagerSame ==
    ASSUME NEW p \in Pools, p.of["manager"].state = "START",
           NEW pend, NEW dn, NEW srv, NEW acc, NEW heard,
           Carries(pend, dn, srv, p, acc, heard)
    PROVE  Carries(pend, dn, srv, Stepped(p, "manager", "START"), acc, heard)
<1> DEFINE q == Stepped(p, "manager", "START")
<1>1. "manager" \in Task /\ Children \subseteq Task
      /\ "START" \in (States \cup {"BLOCKED"}) \ {"DONE", "ERROR"}
  BY Clients DEF States
<1>2. \A u \in Task : u # "manager" => Same(p, q, u)
  BY <1>1, SteppedSame
<1>3. /\ q.of["manager"].state = "START" /\ q.handlers = p.handlers
      /\ q.of["manager"].done = p.of["manager"].done
      /\ q.of["manager"].inbox = p.of["manager"].inbox
  BY <1>1, SteppedOn
<1> HIDE DEF q
<1>4. \A u \in Children : Same(p, q, u)
  BY <1>1, <1>2, <1>3 DEF Same
<1> QED
  BY <1>4, CarriesSame DEF q

\* The session manager's task takes a request, or blocks.
LEMMA ManagerKept ==
    ASSUME XmppInv, ServedInv, KeptInv, StepManager
    PROVE  KeptInv'
<1>1. /\ Stepping("manager") /\ pool.of["manager"].state = "START"
      /\ UNCHANGED <<eng, up, accepted, pending, told>>
      /\ UNCHANGED <<input, down, lost, server>>
      /\ "manager" \in Children /\ "manager" \in Task /\ pool \in Pools
      /\ Children \subseteq Task
  BY Clients, KeptFacts DEF StepManager, Stepping
<1> DEFINE inbox == pool.of["manager"].inbox
           p == Launch([pool EXCEPT !.of["manager"].inbox = Tail(@)], eng,
                       Head(inbox).id)
<1>2. CASE inbox = <<>>
  <2>1. pool' = Stepped(pool, "manager", "BLOCKED")
    BY <1>2 DEF StepManager
  <2>2. "BLOCKED" \in (States \cup {"BLOCKED"}) \ {"DONE", "ERROR"}
    OBVIOUS
  <2>3. /\ \A u \in Task : Same(pool, pool', u)
        /\ pool'.handlers = pool.handlers
    BY <1>1, <2>1, <2>2, SteppedSame
  <2> QED
    BY <1>1, <2>3, TasksKept
<1>3. CASE inbox # <<>>
  <2> SUFFICES ASSUME Going, Carries(pending, down, server, pool, accepted, told)
               PROVE  Carries(pending, down, server, pool', accepted, told)
    <3>1. pool.of["manager"].state # "NONE"
      BY <1>1
    <3> QED
      BY <1>1, <3>1, ChildKept
  <2>1. /\ p \in Pools /\ p.of["manager"].state = "START"
        /\ Carries(pending, down, server, p, accepted, told)
        /\ \A r \in Requests : p.of[r].state = pool.of[r].state
    <3>1. eng.state # "CLOSED" /\ pool.of["manager"].inbox # <<>>
      BY <1>3 DEF Going
    <3>2. PICK i : i = Head(pool.of["manager"].inbox).id
      OBVIOUS
    <3>3. p = Launch(Taken(pool), eng, i)
      BY SMTT(60), <3>2 DEF Taken
    <3> HIDE DEF p, inbox
    <3>4. pool \in Pools /\ pool.of["manager"].state = "START"
      BY <1>1
    <3>5. /\ Launch(Taken(pool), eng, i) \in Pools
          /\ Launch(Taken(pool), eng, i).of["manager"].state = "START"
          /\ Carries(pending, down, server, Launch(Taken(pool), eng, i), accepted, told)
          /\ \A r \in Requests : Launch(Taken(pool), eng, i).of[r].state = pool.of[r].state
      BY ONLY SMTT(60), Carries(pending, down, server, pool, accepted, told),
              <3>1, <3>2, <3>4, TakeRequest
    <3> QED
      BY <3>3, <3>5
  <2>2. \/ pool' = Stepped(p, "manager", "START")
        \/ \E r \in Requests : /\ pool.of[r].state = "NONE"
                               /\ pool' = Stepped(Launch(p, eng, r), "manager", "START")
    BY <1>3 DEF StepManager
  <2> HIDE DEF p
  <2>3. CASE pool' = Stepped(p, "manager", "START")
    BY <2>1, <2>3, ManagerSame
  <2>4. ASSUME NEW r \in Requests, pool.of[r].state = "NONE",
               pool' = Stepped(Launch(p, eng, r), "manager", "START")
        PROVE  Carries(pending, down, server, pool', accepted, told)
    <3> DEFINE l == Launch(p, eng, r)
    <3>1. Carries(pending, down, server, l, accepted, told)
      BY <2>1, <2>4, LaunchRequest DEF Going
    <3>2. r \in Children /\ r # "manager"
      BY Clients, XmppSessionAssumption
    <3>3. l \in Pools /\ Same(p, l, "manager")
      BY <1>1, <2>1, <3>2, LaunchSame DEF Going
    <3>4. l.of["manager"].state = "START"
      BY <2>1, <3>3 DEF Same
    <3> HIDE DEF l
    <3>5. Carries(pending, down, server, Stepped(l, "manager", "START"), accepted, told)
      BY <3>1, <3>3, <3>4, ManagerSame
    <3> QED
      BY <2>4, <3>5 DEF l
  <2> QED
    BY <2>2, <2>3, <2>4
<1> QED
  BY <1>2, <1>3

\* What is written that is no request of the login.
LEMMA LoginWrites ==
    ASSUME NEW e, NEW in, NEW u \in Seq(Stanzas), NEW out \in Seq(Stanzas), NEW dn,
           NEW srv, LoginFits(e, in, u, dn, srv),
           ~Found(out, SessionRequests), ~Found(out, Odd)
    PROVE  LoginFits(e, in, u \o out, dn, srv)
<1>1. /\ Found(u \o out, SessionRequests) <=> Found(u, SessionRequests)
      /\ Found(u \o out, Odd) <=> Found(u, Odd)
  BY FoundConcat
<1> QED
  BY <1>1 DEF LoginFits

\* What is in a queue of one.
LEMMA FoundOne ==
    ASSUME NEW s \in Stanzas, NEW S
    PROVE  /\ Found(<<s>>, S) <=> s \in S
           /\ <<s>> \in Seq(Stanzas)
  BY DEF Found

\* Nothing is written.
LEMMA NoneAdded ==
    ASSUME NEW q \in Seq(Stanzas)
    PROVE  q \o <<>> = q
  OBVIOUS

\* SendStanza, whether the stanza is written or held back.
LEMMA SendKept ==
    ASSUME XmppInv, KeptInv, NEW s \in Stanzas,
           s.kind \notin {"BIND_REQUESTED", "SESSION_REQUESTED"},
           NEW p \in Pools, SendStanza(s, p), UNCHANGED <<input, down, lost, server>>,
           Going /\ Before(eng, input) => NoTasks(p),
           Going /\ Carries(pending, down, server, pool, accepted, told) =>
               Carries(Append(pending, s), down, server, p, accepted \cup {s.id}, told')
    PROVE  KeptInv'
<1>1. /\ eng \in Engines /\ up \in Seq(Stanzas) /\ eng.queued \in Seq(Stanzas)
      /\ server \in Servers
  BY DEF XmppInv, Typed, Engines, KeptInv
<1>2. s \notin SessionRequests /\ s \notin Odd
  BY DEF SessionRequests, Odd
<1>3. CASE eng.state = "CLOSED"
  BY <1>1, <1>3 DEF SendStanza, KeptInv, Going
<1>4. CASE eng.state # "CLOSED" /\ lost
  BY <1>1, <1>4 DEF KeptInv, Going
<1>5. CASE eng.state # "CLOSED" /\ ~lost
  <2>1. /\ Going /\ LoginFits(eng, input, up, down, server)
        /\ Carries(Append(pending, s), down, server, p, accepted \cup {s.id}, told')
    BY <1>5 DEF Going, KeptInv
  <2>2. accepted' = accepted \cup {s.id} /\ pending' = Append(pending, s)
    BY <1>5 DEF SendStanza
  <2> DEFINE held == [eng EXCEPT !.queued = Append(@, s)]
  <2>3. /\ held.state = eng.state /\ held.login = eng.login
        /\ held.queued = Append(eng.queued, s)
    BY <1>1 DEF Engines
  <2>4. /\ LoginFits(eng', input, up', down, server)
        /\ pool' = p /\ eng'.state = eng.state
    <3>1. CASE eng.login # "none"
      <4>1. Leave(held, eng.state, <<>>, sock, p)
        BY <1>5, <3>1 DEF SendStanza
      <4> HIDE DEF held
      <4>2. eng' = held /\ up' = up /\ pool' = p
        BY <1>1, <1>5, <2>3, <4>1, NoneAdded DEF Leave
      <4>3. ~Found(eng.queued, Odd) => ~Found(held.queued, Odd)
        BY <1>1, <1>2, <2>3, FoundAppend
      <4>4. LoginFits(held, input, up, down, server)
        BY <2>1, <2>3, <4>3 DEF LoginFits
      <4> QED
        BY <2>3, <4>2, <4>4
    <3>2. CASE eng.login = "none"
      <4>1. Leave(eng, eng.state, <<s>>, sock, p)
        BY <1>5, <3>2 DEF SendStanza
      <4>2. eng' = eng /\ up' = up \o <<s>> /\ pool' = p
        BY <1>5, <4>1 DEF Leave
      <4>3. /\ ~Found(<<s>>, SessionRequests) /\ ~Found(<<s>>, Odd)
            /\ <<s>> \in Seq(Stanzas)
        BY <1>2, FoundOne
      <4>4. LoginFits(eng, input, up \o <<s>>, down, server)
        BY <1>1, <2>1, <4>3, LoginWrites
      <4> QED
        BY <4>2, <4>4
    <3> QED
      BY <3>1, <3>2
  <2>5. Before(eng', input) => NoTasks(p)
    BY <2>1, <2>4 DEF Before
  <2> QED
    BY <1>1, <2>1, <2>2, <2>4, <2>5 DEF KeptInv
<1> QED
  BY <1>3, <1>4, <1>5

\* A request is sent: it is to be answered.
LEMMA AskCarries ==
    ASSUME NEW p \in Pools, NEW t \in Requests, p.of[t].state = "START",
           NEW pend \in Seq(Stanzas), NEW dn, NEW srv, NEW acc, NEW heard,
           Carries(pend, dn, srv, p, acc, heard)
    PROVE  Carries(Append(pend, Stanza("set", t)), dn, srv,
                   Stepped(p, t, "RESPONSE"), acc \cup {t}, heard)
<1> DEFINE q == Stepped(p, t, "RESPONSE")
           s == Stanza("set", t)
           a == Append(pend, s)
<1>1. /\ t \in Task /\ "manager" \in Task /\ t # "manager" /\ Requests \subseteq Task
      /\ Incoming \subseteq Task /\ t \notin Incoming
      /\ "RESPONSE" \in (States \cup {"BLOCKED"}) \ {"DONE", "ERROR"}
  BY Clients, XmppSessionAssumption DEF States
<1>2. s \in Stanzas /\ s \in RequestOf(t) /\ \A r : r # t => s \notin RequestOf(r)
  BY <1>1, Clients, SentStanzas DEF RequestOf, Stanza
<1>3. \A u \in Task : u # t => Same(p, q, u)
  BY <1>1, SteppedSame
<1>4. /\ q.of[t].state = "RESPONSE" /\ q.of[t].inbox = p.of[t].inbox
      /\ q.of[t].done = p.of[t].done /\ q.handlers = p.handlers
  BY <1>1, SteppedOn
<1> HIDE DEF q, s
<1>5. ~q.of["manager"].done
  BY <1>1, <1>3 DEF Same, Carries
<1>6. ASSUME NEW r \in Requests PROVE Question(r, a, dn, srv, q, heard)
  <2>1. Question(r, pend, dn, srv, p, heard)
    BY DEF Carries
  <2>2. /\ Found(a, RequestOf(r)) <=> Found(pend, RequestOf(r)) \/ s \in RequestOf(r)
        /\ Once(pend, RequestOf(r)) /\ (s \in RequestOf(r) => ~Found(pend, RequestOf(r)))
             => Once(a, RequestOf(r))
    BY <1>2, FoundAppend
  <2> HIDE DEF a
  <2>3. CASE r # t
    <3>1. Question(r, a, dn, srv, p, heard)
      <4>1. /\ Found(a, RequestOf(r)) <=> Found(pend, RequestOf(r))
            /\ Once(pend, RequestOf(r)) => Once(a, RequestOf(r))
        BY <1>2, <2>2, <2>3
      <4> QED
        BY <2>1, <4>1 DEF Question, Stage
    <3> QED
      BY <1>1, <1>3, <2>3, <3>1, QuestionSame
  <2>4. CASE r = t
    <3> DEFINE asks == Found(pend, RequestOf(r))
               answered == Found(dn, AnswersTo(r))
    <3>1. Stage(asks, r \in srv.asked, answered, srv.answer[r], p.of[r],
                r \in p.handlers, heard[r])
      BY <2>1 DEF Question
    <3>2. Once(pend, RequestOf(r)) /\ Once(dn, AnswersTo(r)) /\ Given(dn, r, srv.answer[r])
      BY <2>1 DEF Question
    <3> HIDE DEF asks, answered
    <3>3. ~asks /\ r \notin srv.asked /\ ~answered /\ srv.answer[r] = "none"
          /\ r \in p.handlers /\ p.of[r].inbox = <<>>
      BY <2>4, <3>1 DEF Stage
    <3>4. Stage(TRUE, r \in srv.asked, answered, srv.answer[r], q.of[r],
                r \in q.handlers, heard[r])
      BY <1>4, <2>4, <3>3 DEF Stage
    <3>5. Found(a, RequestOf(r)) = TRUE /\ Once(a, RequestOf(r))
      <4>1. Found(a, RequestOf(r)) /\ Once(a, RequestOf(r))
        BY <1>2, <2>2, <2>4, <3>2, <3>3 DEF asks
      <4> QED
        BY <4>1 DEF Found
    <3> QED
      BY <3>2, <3>4, <3>5 DEF Question, answered
  <2> QED
    BY <2>3, <2>4
<1>7. ASSUME NEW i \in Incoming PROVE Delivered(i, dn, srv, q, acc \cup {t})
  <2>1. Delivered(i, dn, srv, p, acc) /\ i # t
    BY <1>1 DEF Carries
  <2>2. Delivered(i, dn, srv, p, acc \cup {t})
    <3>1. i \in acc <=> i \in acc \cup {t}
      BY <2>1
    <3> QED
      BY <2>1, <3>1 DEF Delivered, Place
  <2>3. Same(p, q, "manager") /\ Same(p, q, i)
    BY <1>1, <1>3, <2>1
  <2> QED
    BY <2>2, <2>3, DeliveredSame DEF Same
<1> QED
  BY <1>5, <1>6, <1>7 DEF Carries, q, s

\* A task that answers a request comes to its end.
LEMMA AnswerCarries ==
    ASSUME NEW p \in Pools, NEW t \in Incoming, p.of[t].state # "NONE",
           NEW pend, NEW dn, NEW srv, NEW acc, NEW heard,
           Carries(pend, dn, srv, p, acc, heard)
    PROVE  Carries(pend, dn, srv, Stepped(p, t, "DONE"), acc, heard)
<1> DEFINE q == Stepped(p, t, "DONE")
<1>1. /\ t \in Children /\ "manager" \in Task /\ t # "manager"
      /\ Requests \subseteq Task /\ Incoming \subseteq Task /\ t \notin Requests
  BY Clients, XmppSessionAssumption
<1>2. /\ \A u \in Task : u # t => Same(p, q, u)
      /\ q.of[t].state = "DONE"
  BY <1>1, EndedSame
<1> HIDE DEF q
<1>3. ~q.of["manager"].done
  BY <1>1, <1>2 DEF Same, Carries
<1>4. ASSUME NEW r \in Requests PROVE Question(r, pend, dn, srv, q, heard)
  <2>1. Question(r, pend, dn, srv, p, heard) /\ Same(p, q, r)
    BY <1>1, <1>2 DEF Carries
  <2> QED
    BY <2>1, QuestionSame
<1>5. ASSUME NEW i \in Incoming PROVE Delivered(i, dn, srv, q, acc)
  <2>1. Delivered(i, dn, srv, p, acc) /\ Same(p, q, "manager")
    BY <1>1, <1>2 DEF Carries
  <2>2. q.of[i].state = "NONE" <=> p.of[i].state = "NONE"
    BY <1>1, <1>2 DEF Same
  <2> QED
    BY <2>1, <2>2, DeliveredSame
<1> QED
  BY <1>3, <1>4, <1>5 DEF Carries, q

\* A task sends its stanza.
LEMMA SendStepKept ==
    ASSUME XmppInv, ServedInv, KeptInv, NEW t \in SendTasks, StepSend(t)
    PROVE  KeptInv'
<1>1. /\ pool.of[t].state = "START" /\ told' = told /\ t \in Children /\ t \in Task
      /\ pool \in Pools /\ pending \in Seq(Stanzas) /\ Stepping(t)
      /\ UNCHANGED <<input, down, lost, server>>
  BY KeptFacts, Clients DEF StepSend, Stepping
<1>2. Going => ~Before(eng, input)
  BY <1>1 DEF KeptInv, NoTasks
<1> DEFINE p(state) == Stepped(pool, t, state)
<1>3. p("RESPONSE") \in Pools /\ p("DONE") \in Pools
  BY <1>1, StepTyped DEF States
<1>4. CASE t \in Requests
  <2> DEFINE s == Stanza("set", t)
  <2>1. s \in Stanzas /\ s.kind = "set" /\ s.id = t
    BY <1>1, SentStanzas DEF Stanza
  <2>2. SendStanza(s, p("RESPONSE"))
    BY <1>4 DEF StepSend
  <2>3. Carries(pending, down, server, pool, accepted, told) =>
            Carries(Append(pending, s), down, server, p("RESPONSE"),
                    accepted \cup {s.id}, told')
    BY <1>1, <1>4, <2>1, AskCarries
  <2> HIDE DEF s, p
  <2> QED
    BY <1>1, <1>2, <1>3, <2>1, <2>2, <2>3, SendKept
<1>5. CASE t \notin Requests
  <2> DEFINE s == Stanza("result", t)
  <2>1. s \in Stanzas /\ s.kind = "result" /\ s.id = t /\ t \in Incoming
    BY <1>1, <1>5, SentStanzas DEF Stanza, SendTasks
  <2>2. SendStanza(s, p("DONE"))
    BY <1>5 DEF StepSend
  <2>3. ASSUME Carries(pending, down, server, pool, accepted, told)
        PROVE  Carries(Append(pending, s), down, server, p("DONE"),
                       accepted \cup {s.id}, told')
    <3>1. Carries(pending, down, server, p("DONE"), accepted, told)
      BY <1>1, <2>1, <2>3, AnswerCarries
    <3>2. p("DONE").of[t].state = "DONE"
      BY <1>1, EndedSame
    <3> HIDE DEF s, p
    <3>3. \A i \in Incoming : i \in accepted \cup {s.id} =>
                                  i \in accepted \/ p("DONE").of[i].state # "NONE"
      BY <2>1, <3>2
    <3> QED
      BY <1>1, <2>1, <3>1, <3>3, CarriesSent
  <2> HIDE DEF s, p
  <2> QED
    BY <1>1, <1>2, <1>3, <2>1, <2>2, <2>3, SendKept
<1> QED
  BY <1>4, <1>5

\* A task tells the answer to its request.
LEMMA AwaitKept ==
    ASSUME XmppInv, ServedInv, KeptInv, NEW t \in Requests, StepAwait(t)
    PROVE  KeptInv'
<1> DEFINE inbox == pool.of[t].inbox
           heard == IF eng.state = "OPEN" /\ inbox # <<>>
                    THEN [told EXCEPT ![t] = Head(inbox).kind] ELSE told
           next == IF eng.state = "OPEN" /\ inbox = <<>> THEN "BLOCKED" ELSE "DONE"
           q == Stepped(pool, t, next)
<1>1. /\ Stepping(t) /\ pool.of[t].state = "RESPONSE"
      /\ told' = heard /\ pool' = q
      /\ UNCHANGED <<eng, up, accepted, pending>>
  BY DEF StepAwait
<1>2. /\ UNCHANGED <<input, down, lost, server>>
      /\ t \in Children /\ t \in Task /\ t \in SendTasks /\ pool \in Pools
      /\ "manager" \in Task /\ t # "manager"
      /\ Requests \subseteq Task /\ Incoming \subseteq Task /\ t \notin Incoming
      /\ told \in [Requests -> {"none", "result", "error"}]
  BY <1>1, KeptFacts, Clients, XmppSessionAssumption DEF Stepping
<1>3. CASE eng.state = "OPEN" /\ inbox = <<>>
  <2>1. next = "BLOCKED" /\ heard = told
    BY <1>3
  <2>2. \A u \in Task : Same(pool, q, u)
    BY <1>2, <2>1, SteppedSame
  <2>3. q.handlers = pool.handlers
    BY <1>2, <2>1, SteppedSame
  <2> HIDE DEF q, next, heard, inbox
  <2> QED
    BY <1>1, <1>2, <2>1, <2>2, <2>3, Clients, TasksKept
<1>4. CASE eng.state = "OPEN" /\ inbox # <<>>
  <2> DEFINE answer == Head(inbox).kind
  <2>1. next = "DONE" /\ heard = [told EXCEPT ![t] = answer]
    BY <1>4
  <2>2. /\ \A u \in Task : u # t => Same(pool, q, u)
        /\ q.of[t].state = "DONE" /\ q.of[t].inbox = <<>>
    BY <1>2, <2>1, EndedSame
  <2>3. /\ heard[t] = answer
        /\ \A r \in Requests : r # t => heard[r] = told[r]
    <3> HIDE DEF answer, heard
    <3> QED
      BY <1>2, <2>1
  <2> HIDE DEF q, next, heard
  <2> SUFFICES ASSUME Carries(pending, down, server, pool, accepted, told)
               PROVE  Carries(pending, down, server, q, accepted, heard)
    <3>1. pool.of[t].state # "NONE"
      BY <1>1
    <3> HIDE DEF inbox
    <3> QED
      BY <1>1, <1>2, <3>1, ChildKept
  <2>4. ~q.of["manager"].done
    BY <1>2, <2>2 DEF Same, Carries
  <2>5. ASSUME NEW r \in Requests PROVE Question(r, pending, down, server, q, heard)
    <3>1. Question(r, pending, down, server, pool, told)
      BY DEF Carries
    <3>2. CASE r # t
      BY <1>2, <2>2, <2>3, <3>1, <3>2, QuestionSame
    <3>3. CASE r = t
      <4> DEFINE asks == Found(pending, RequestOf(r))
                 answered == Found(down, AnswersTo(r))
      <4>1. Stage(asks, r \in server.asked, answered, server.answer[r], pool.of[r],
                  r \in pool.handlers, told[r])
        BY <3>1 DEF Question
      <4> HIDE DEF asks, answered
      <4>2. ~asks /\ r \notin server.asked /\ ~answered
            /\ server.answer[r] # "none" /\ server.answer[r] = answer
        BY <1>4, <3>3, <4>1 DEF Stage
      <4>3. Stage(asks, r \in server.asked, answered, server.answer[r], q.of[r],
                  r \in q.handlers, heard[r])
        BY <2>2, <2>3, <3>3, <4>2 DEF Stage
      <4> QED
        BY <3>1, <4>3 DEF Question, asks, answered
    <3> QED
      BY <3>2, <3>3
  <2>6. ASSUME NEW i \in Incoming PROVE Delivered(i, down, server, q, accepted)
    <3>1. Delivered(i, down, server, pool, accepted) /\ i # t
      BY <1>2 DEF Carries
    <3>2. Same(pool, q, "manager") /\ Same(pool, q, i)
      BY <1>2, <2>2, <3>1
    <3> QED
      BY <3>1, <3>2, DeliveredSame DEF Same
  <2> QED
    BY <2>4, <2>5, <2>6 DEF Carries
<1>5. CASE eng.state # "OPEN"
  <2>1. pool.of[t].state # "NONE" /\ Before(eng, input)
    BY <1>1, <1>5 DEF Before
  <2> HIDE DEF q, heard, next, inbox
  <2> QED
    BY <1>1, <1>2, <2>1, ChildKept
<1> QED
  BY <1>3, <1>4, <1>5

\* Steps that only count: no task is touched.
LEMMA NextTaskKept ==
    ASSUME XmppInv, ServedInv, KeptInv, NextTask
    PROVE  KeptInv'
<1>1. /\ UNCHANGED <<eng, input, up, down, lost, server, accepted, pending, told>>
      /\ pool'.of = pool.of /\ pool'.handlers = pool.handlers
  BY KeptFacts DEF NextTask, Pools
<1> QED
  BY <1>1, TasksKept DEF Same

\* The tasks that are done are deleted.
LEMMA DeleteKept ==
    ASSUME XmppInv, ServedInv, KeptInv, DeleteDone
    PROVE  KeptInv'
<1> DEFINE Out(t) == Has(pool.queue, t) /\ pool.of[t].done
           q == pool'
<1>1. /\ UNCHANGED <<eng, input, up, down, lost, server, accepted, pending, told>>
      /\ pool'.handlers = pool.handlers
      /\ pool'.of = [t \in Task |-> IF t \in Range(pool.queue) /\ pool.of[t].done
                       THEN [NoTask EXCEPT !.state = "DELETED", !.done = TRUE]
                       ELSE pool.of[t]]
  BY KeptFacts DEF DeleteDone, Pools
<1>2. \A t \in Task : t \in Range(pool.queue) <=> Has(pool.queue, t)
  <2>1. pool.queue \in Seq(Task)
    BY KeptFacts, PoolFields
  <2> QED
    BY <2>1 DEF Has, Range
<1>3. \A t \in Task : q.of[t] = IF Out(t)
                        THEN [NoTask EXCEPT !.state = "DELETED", !.done = TRUE]
                        ELSE pool.of[t]
  BY <1>1, <1>2
<1>4. /\ [NoTask EXCEPT !.state = "DELETED", !.done = TRUE].state = "DELETED"
      /\ [NoTask EXCEPT !.state = "DELETED", !.done = TRUE].inbox = <<>>
  BY DEF NoTask, NewTask
<1>5. \A t \in Task : /\ Out(t) => /\ q.of[t].state = "DELETED" /\ q.of[t].inbox = <<>>
                                   /\ pool.of[t].state # "NONE"
                      /\ ~Out(t) => Same(pool, q, t)
  <2>1. \A t \in Task : Out(t) => pool.of[t].state # "NONE"
    BY KeptFacts DEF Gone
  <2> QED
    BY <1>1, <1>3, <1>4, <2>1 DEF Same
<1> SUFFICES ASSUME Going
             PROVE  /\ NoTasks(pool) => NoTasks(q)
                    /\ Carries(pending, down, server, pool, accepted, told) =>
                          Carries(pending, down, server, q, accepted, told)
  BY <1>1 DEF KeptInv, Going
<1> HIDE DEF q
<1>6. /\ Children \subseteq Task /\ "manager" \in Task /\ Requests \subseteq Task
      /\ Incoming \subseteq Task /\ Requests \subseteq Children
  BY Clients
<1>7. ASSUME NoTasks(pool) PROVE NoTasks(q)
  <2>1. \A t \in Children : ~Out(t)
    BY <1>5, <1>6, <1>7 DEF NoTasks
  <2>2. \A t \in Children : Same(pool, q, t)
    BY <1>5, <1>6, <2>1
  <2> QED
    BY <1>1, <1>7, <2>2, NoTasksSame DEF q
<1>8. ASSUME Carries(pending, down, server, pool, accepted, told)
      PROVE  Carries(pending, down, server, q, accepted, told)
  <2>1. ~Out("manager") /\ Same(pool, q, "manager") /\ ~q.of["manager"].done
    BY <1>5, <1>6, <1>8 DEF Carries, Same
  <2>2. ASSUME NEW r \in Requests PROVE Question(r, pending, down, server, q, told)
    <3>1. Question(r, pending, down, server, pool, told)
      BY <1>8 DEF Carries
    <3>2. CASE ~Out(r)
      BY <1>5, <1>6, <3>1, <3>2, QuestionSame
    <3>3. CASE Out(r)
      <4> DEFINE asks == Found(pending, RequestOf(r))
                 answered == Found(down, AnswersTo(r))
      <4>1. Stage(asks, r \in server.asked, answered, server.answer[r], pool.of[r],
                  r \in pool.handlers, told[r])
        BY <3>1 DEF Question
      <4> HIDE DEF asks, answered
      <4>2. r \notin pool.handlers /\ pool.of[r].done
        BY <3>3, KeptFacts
      <4>3. q.of[r].state = "DELETED" /\ q.of[r].inbox = <<>>
        BY <1>5, <1>6, <3>3
      <4>4. Stage(asks, r \in server.asked, answered, server.answer[r], q.of[r],
                  r \in q.handlers, told[r])
        BY <4>1, <4>2, <4>3 DEF Stage
      <4> QED
        BY <3>1, <4>4 DEF Question, asks, answered
    <3> QED
      BY <3>2, <3>3
  <2>3. ASSUME NEW i \in Incoming PROVE Delivered(i, down, server, q, accepted)
    <3>1. Delivered(i, down, server, pool, accepted)
      BY <1>8 DEF Carries
    <3>2. q.of[i].state = "NONE" <=> pool.of[i].state = "NONE"
      BY <1>5, <1>6 DEF Same
    <3> QED
      BY <2>1, <3>1, <3>2, DeliveredSame
  <2> QED
    BY <2>1, <2>2, <2>3 DEF Carries
<1> QED
  BY <1>7, <1>8

\* The steps of the tasks keep the invariant, ...
LEMMA StepsKept ==
    ASSUME XmppInv, ServedInv, KeptInv, Steps
    PROVE  KeptInv'
<1>1. CASE \E t \in Task : StepInit(t)
  BY <1>1, InitStepKept
<1>2. CASE StepConnect \/ StepClient
  BY <1>2, ClientStepsKept
<1>3. CASE StepManager
  BY <1>3, ManagerKept
<1>4. CASE \E t \in SendTasks : StepSend(t)
  BY <1>4, SendStepKept
<1>5. CASE \E t \in Requests : StepAwait(t)
  BY <1>5, AwaitKept
<1>6. CASE NextTask
  BY <1>6, NextTaskKept
<1>7. CASE DeleteDone
  BY <1>7, DeleteKept
<1> QED
  BY <1>1, <1>2, <1>3, <1>4, <1>5, <1>6, <1>7 DEF Steps

\* ... and so do the calls of the pump and the session manager.
LEMMA PumpKept ==
    ASSUME XmppInv, ServedInv, KeptInv,
           \/ DoLogin \/ DoDisconnect \/ RunTasks
           \/ \E x \in Raw : PumpSend(x)
           \/ \E r \in Requests : SendRequest(r)
    PROVE  KeptInv'
<1>1. CASE DoLogin \/ RunTasks
  <2>1. /\ UNCHANGED <<eng, input, up, down, lost, server, accepted, pending, told>>
        /\ pool'.of = pool.of /\ pool'.handlers = pool.handlers
    BY <1>1, KeptFacts DEF DoLogin, RunTasks, StartTask, Pools
  <2> QED
    BY <2>1, TasksKept DEF Same
<1>2. CASE DoDisconnect
  <2>1. CASE ~pool.of["client"].done /\ sock # "none" /\ eng.state # "CLOSED"
    <3>1. eng'.state = "CLOSED" /\ server' = server
      BY <1>2, <2>1, KeptFacts DEF DoDisconnect, Disconnect, Leave, Engines
    <3> QED
      BY <3>1 DEF KeptInv, Going
  <2>2. CASE ~(~pool.of["client"].done /\ sock # "none" /\ eng.state # "CLOSED")
    <3>1. /\ UNCHANGED <<eng, input, up, down, lost, server, accepted, pending, told>>
          /\ pool' = pool
      BY <1>2, <2>2 DEF DoDisconnect
    <3> QED
      BY <3>1, TasksKept DEF Same
  <2> QED
    BY <2>1, <2>2
<1>3. ASSUME NEW x \in Raw, PumpSend(x) PROVE KeptInv'
  <2> DEFINE s == Stanza("raw", x)
  <2>1. s \in Stanzas /\ s.kind = "raw" /\ s.id = x /\ x \notin Incoming
    BY SentStanzas, XmppSessionAssumption DEF Stanza
  <2>2. SendStanza(s, pool) /\ UNCHANGED <<input, down, lost, server, told>>
    BY <1>3 DEF PumpSend
  <2>3. pool \in Pools /\ pending \in Seq(Stanzas)
    BY KeptFacts
  <2>4. Going /\ Before(eng, input) => NoTasks(pool)
    BY DEF KeptInv
  <2> HIDE DEF s
  <2>5. Carries(pending, down, server, pool, accepted, told) =>
            Carries(Append(pending, s), down, server, pool, accepted \cup {s.id}, told')
    <3>1. /\ accepted \subseteq accepted \cup {s.id} /\ s.kind # "set"
          /\ \A i \in Incoming : i \in accepted \cup {s.id} =>
                 i \in accepted \/ pool.of[i].state # "NONE"
      BY <2>1
    <3> QED
      BY <2>1, <2>2, <2>3, <3>1, CarriesSent
  <2> QED
    BY <2>1, <2>2, <2>3, <2>4, <2>5, SendKept
<1>4. ASSUME NEW r \in Requests, SendRequest(r) PROVE KeptInv'
  <2>1. /\ pool.of["manager"].state # "NONE" /\ pool.of[r].state = "NONE"
        /\ pool' = Launch(pool, eng, r)
        /\ UNCHANGED <<eng, input, up, down, lost, server, accepted, pending, told>>
        /\ "manager" \in Children /\ pool \in Pools
    BY <1>4, Clients, KeptFacts DEF SendRequest, Exists
  <2>2. Going /\ Carries(pending, down, server, pool, accepted, told) =>
            Carries(pending, down, server, pool', accepted, told)
    BY <2>1, LaunchRequest DEF Going
  <2> QED
    BY <2>1, <2>2, ChildKept
<1> QED
  BY <1>1, <1>2, <1>3, <1>4

\* Waking a task changes nothing that counts here.
LEMMA WakeSame ==
    ASSUME NEW p \in Pools, NEW t \in Task
    PROVE  /\ \A u \in Children : Same(p, Wake(p, t), u)
           /\ Wake(p, t).handlers = p.handlers
<1>1. /\ Wake(p, t).handlers = p.handlers
      /\ \A u \in Task : /\ Wake(p, t).of[u].state = p.of[u].state
                         /\ Wake(p, t).of[u].done = p.of[u].done
                         /\ Wake(p, t).of[u].inbox = p.of[u].inbox
  BY WakeKeeps
<1> QED
  BY <1>1, Clients DEF Same

\* What is neither an order of the login nor Odd.
LEMMA OwnWords ==
    \A kind \in {"start", "TLS_REQUESTED", "SASL_RUNNING", "abort",
                 "BIND_REQUESTED", "SESSION_REQUESTED", "end"} :
        /\ Plain(kind) \notin Odd /\ Plain(kind) \in Stanzas
        /\ kind # "SESSION_REQUESTED" => Plain(kind) \notin SessionRequests
  BY OwnStanzas DEF Odd, SessionRequests, Plain, Stanza

\* The events of the socket keep the invariant.
LEMMA SocketsKept ==
    ASSUME XmppInv, ServedInv, KeptInv, Sockets
    PROVE  KeptInv'
<1>1. /\ pool \in Pools /\ eng \in Engines /\ "client" \in Task /\ up \in Seq(Stanzas)
      /\ input.entry = "none" => input = NoInput
  BY KeptFacts, Clients DEF XmppInv, InputFits
<1>2. CASE Connected
  <2>1. CASE eng.state = "START"
    <3> DEFINE e == [eng EXCEPT !.state = "OPENING", !.login = "STREAMSTART_SENT"]
    <3>1. /\ e.state = "OPENING" /\ e.login = "STREAMSTART_SENT"
          /\ e.queued = eng.queued
      BY <1>1 DEF Engines
    <3>2. /\ Leave(e, "START", <<Plain("start")>>, "OPEN", pool) /\ ~lost
          /\ UNCHANGED <<input, down, lost, server, accepted, pending, told>>
      BY <1>2, <2>1 DEF Connected
    <3> HIDE DEF e
    <3>3. /\ eng' = e /\ up' = up \o <<Plain("start")>>
          /\ pool' = Wake(pool, "client")
      BY <3>1, <3>2 DEF Leave, OnStateChange
    <3>4. /\ \A u \in Children : Same(pool, pool', u)
          /\ pool'.handlers = pool.handlers
      BY <1>1, <3>3, WakeSame
    <3>5. /\ LoginFits(eng, input, up, down, server) /\ NoTasks(pool)
          /\ Carries(pending, down, server, pool, accepted, told)
          /\ server \in Servers
      BY <2>1, <3>2 DEF KeptInv, Going, Before
    <3>6. NoTasks(pool')
      BY <3>4, <3>5, NoTasksSame
    <3>7. Carries(pending, down, server, pool', accepted, told)
      BY <3>4, <3>5, CarriesSame
    <3>8. LoginFits(e, input, up, down, server)
      BY <2>1, <3>1, <3>5 DEF LoginFits
    <3>9. /\ <<Plain("start")>> \in Seq(Stanzas)
          /\ ~Found(<<Plain("start")>>, SessionRequests)
          /\ ~Found(<<Plain("start")>>, Odd)
      BY OwnWords, FoundOne
    <3>10. LoginFits(e, input, up \o <<Plain("start")>>, down, server)
      BY <1>1, <3>8, <3>9, LoginWrites
    <3> QED
      BY <3>2, <3>3, <3>5, <3>6, <3>7, <3>10 DEF KeptInv
  <2>2. CASE eng.state # "START"
    BY <1>2, <2>2, TasksKept DEF Connected, Same
  <2> QED
    BY <2>1, <2>2
<1>3. CASE TlsConnected
  BY <1>3, TasksKept DEF TlsConnected, Same
<1>4. CASE ReadClosed
  BY <1>4 DEF ReadClosed, KeptInv, Going
<1>5. ASSUME NEW n \in 1..Len(down), HandleInput(n)
      PROVE  KeptInv'
  <2> DEFINE i == [NoInput EXCEPT !.left = n, !.entry = eng.state]
  <2>1. /\ input = NoInput /\ input.entry = "none" /\ input' = i
        /\ UNCHANGED <<eng, up, down, lost, server, pool, accepted, pending, told>>
    BY <1>1, <1>5 DEF HandleInput, NotRunning
  <2>2. /\ i.output = <<>> /\ i.reset = FALSE /\ i.entry = eng.state
        /\ input.output = <<>> /\ input.reset = FALSE
    BY <2>1 DEF NoInput
  <2> HIDE DEF i
  <2>3. LoginFits(eng, input, up, down, server) => LoginFits(eng, i, up, down, server)
    BY <2>2 DEF LoginFits
  <2>4. Before(eng, i) <=> Before(eng, input)
    BY <2>1, <2>2 DEF Before
  <2> QED
    BY <2>1, <2>3, <2>4 DEF KeptInv, Going
<1> QED
  BY <1>2, <1>3, <1>4, <1>5 DEF Sockets

----------------------------------------------------------------------------
(* The server *)

\* A word for no task comes down.
LEMMA LoginHears ==
    ASSUME NEW e, NEW in, NEW u, NEW dn \in Seq(Read), NEW srv,
           LoginFits(e, in, u, dn, srv), NEW s \in Read, s \notin Carried
    PROVE  LoginFits(e, in, u, Append(dn, s), srv)
<1>1. /\ ~Found(dn, Carried) => ~Found(Append(dn, s), Carried)
      /\ Behind(dn) => Behind(Append(dn, s))
  BY FoundAppend, BehindKept
<1> QED
  BY <1>1 DEF LoginFits

\* The server takes what came first.
LEMMA LoginTaken ==
    ASSUME NEW e, NEW in, NEW u \in Seq(Stanzas), u # <<>>, NEW dn, NEW srv,
           LoginFits(e, in, u, dn, srv)
    PROVE  LoginFits(e, in, Tail(u), dn, srv)
<1>1. /\ Found(Tail(u), SessionRequests) => Found(u, SessionRequests)
      /\ Found(Tail(u), Odd) => Found(u, Odd)
  BY FoundTail
<1> QED
  BY <1>1 DEF LoginFits

\* The end of the login comes down.
LEMMA LoginHeard ==
    ASSUME NEW e, NEW in, NEW u, NEW dn \in Seq(Read), NEW srv, NEW srv2,
           LoginFits(e, in, u, dn, srv), e.login \in {"SESSION_REQUESTED", "none"},
           srv2.bound = TRUE, LoggedIn \in Read
    PROVE  LoginFits(e, in, u, Append(dn, LoggedIn), srv2)
<1>1. ASSUME e.login = "SESSION_REQUESTED" PROVE Behind(Append(dn, LoggedIn))
  <2>1. CASE srv.bound
    BY <1>1, <2>1, BehindKept DEF LoginFits
  <2>2. CASE ~srv.bound
    BY <2>2, BehindKept DEF LoginFits
  <2> QED
    BY <2>1, <2>2
<1> QED
  BY <1>1 DEF LoginFits

\* What else the server knows.
LEMMA CarriesKnown ==
    ASSUME NEW pend, NEW dn, NEW srv, NEW srv2, NEW p, NEW acc, NEW heard,
           Carries(pend, dn, srv, p, acc, heard), srv2.asked = srv.asked,
           srv2.sent = srv.sent, srv2.answer = srv.answer
    PROVE  Carries(pend, dn, srv2, p, acc, heard)
  BY DEF Carries, Question, Delivered

\* A stanza arrives that is no request ...
LEMMA CarriesArrived ==
    ASSUME NEW pend \in Seq(Stanzas), pend # <<>>, Head(pend).kind # "set",
           NEW dn, NEW srv, NEW p, NEW acc, NEW heard,
           Carries(pend, dn, srv, p, acc, heard)
    PROVE  Carries(Tail(pend), dn, srv, p, acc, heard)
<1> DEFINE a == Tail(pend)
<1>1. ASSUME NEW r \in Requests PROVE Question(r, a, dn, srv, p, heard)
  <2>1. Question(r, pend, dn, srv, p, heard)
    BY DEF Carries
  <2>2. Head(pend) \notin RequestOf(r)
    BY DEF RequestOf
  <2>3. /\ Found(a, RequestOf(r)) <=> Found(pend, RequestOf(r))
        /\ Once(pend, RequestOf(r)) => Once(a, RequestOf(r))
    BY <2>2, FoundTail
  <2> HIDE DEF a
  <2> QED
    BY <2>1, <2>3 DEF Question, Stage
<1> QED
  BY <1>1 DEF Carries

\* ... or one that is.
LEMMA CarriesAsked ==
    ASSUME NEW pend \in Seq(Stanzas), pend # <<>>, Head(pend).kind = "set",
           NEW dn, NEW srv, NEW srv2, NEW p, NEW acc, NEW heard,
           srv2.asked = srv.asked \cup {Head(pend).id},
           srv2.sent = srv.sent, srv2.answer = srv.answer,
           Carries(pend, dn, srv, p, acc, heard)
    PROVE  Carries(Tail(pend), dn, srv2, p, acc, heard)
<1> DEFINE a == Tail(pend)
           s == Head(pend)
<1>1. s \in Stanzas /\ \A r : s \in RequestOf(r) <=> r = s.id
  <2>1. s \in Stanzas
    OBVIOUS
  <2> QED
    BY <2>1 DEF RequestOf
<1>2. ASSUME NEW r \in Requests PROVE Question(r, a, dn, srv2, p, heard)
  <2>1. Question(r, pend, dn, srv, p, heard)
    BY DEF Carries
  <2>2. /\ Found(pend, RequestOf(r)) <=> s \in RequestOf(r) \/ Found(a, RequestOf(r))
        /\ Once(pend, RequestOf(r)) => Once(a, RequestOf(r))
        /\ Once(pend, RequestOf(r)) /\ s \in RequestOf(r) => ~Found(a, RequestOf(r))
    BY FoundTail
  <2> HIDE DEF a, s
  <2>3. r \in srv2.asked <=> r \in srv.asked \/ r = s.id
    BY DEF s
  <2> DEFINE asks == Found(pend, RequestOf(r))
             more == Found(a, RequestOf(r))
             answered == Found(dn, AnswersTo(r))
             k == p.of[r]
  <2>4. /\ Stage(asks, r \in srv.asked, answered, srv.answer[r], k,
                 r \in p.handlers, heard[r])
        /\ Once(pend, RequestOf(r)) /\ Once(dn, AnswersTo(r))
        /\ Given(dn, r, srv2.answer[r])
    BY <2>1 DEF Question
  <2>5. /\ asks <=> r = s.id \/ more
        /\ r = s.id => ~more
    BY <1>1, <2>2, <2>4
  <2> HIDE DEF asks, more, answered, k
  <2>6. Stage(more, r \in srv2.asked, answered, srv2.answer[r], k,
              r \in p.handlers, heard[r])
    BY <2>3, <2>4, <2>5 DEF Stage
  <2> QED
    BY <2>2, <2>4, <2>6 DEF Question, asks, more, answered, k
<1>3. ASSUME NEW i \in Incoming PROVE Delivered(i, dn, srv2, p, acc)
  BY DEF Carries, Delivered
<1> QED
  BY <1>2, <1>3 DEF Carries

\* The stanza that arrives is the one sent first.
LEMMA ArrivesFirst ==
    ASSUME NEW w \in Seq(Stanzas), w # <<>>, Head(w) \notin Own,
           NEW pend \in Seq(Stanzas), NEW e, Follows(pend, w, e)
    PROVE  pend # <<>> /\ Head(pend) = Head(w)
<1> DEFINE s == Head(w)
           t == Tail(w)
<1>1. s \in Stanzas /\ t \in Seq(Stanzas) /\ w = <<s>> \o t /\ <<s>> \in Seq(Stanzas)
  OBVIOUS
<1> HIDE DEF s, t
<1>2. Handed(w) = <<s>> \o Handed(t)
  BY <1>1, HandedConcat, HandedOne DEF s
<1>3. Handed(t) \in Seq(Stanzas)
  BY <1>1, HandedSeq
<1>4. PICK rest \in Seq(Stanzas) : pend = Handed(w) \o rest
  BY DEF Follows
<1> DEFINE h == Handed(t)
<1>5. pend = (<<s>> \o h) \o rest /\ h \in Seq(Stanzas)
  BY <1>2, <1>3, <1>4
<1> HIDE DEF h
<1>6. pend # <<>> /\ Head(pend) = s
  BY <1>1, <1>5
<1> QED
  BY <1>6 DEF s

\* The words that are for no task.
Words == Read \ Carried

\* What belongs to the login alone is for no task.
LEMMA PlainWords ==
    /\ \A kind \in StanzaKinds \ {"set", "result", "error"} : Plain(kind) \in Words
    /\ \A kind \in {"result", "error"}, id \in {"BIND_REQUESTED", "SESSION_REQUESTED"} :
           Stanza(kind, id) \in Words
    /\ \A has \in SUBSET {"tls", "mechanisms", "bind", "session"} : Features(has) \in Words
<1>1. \A kind \in StanzaKinds \ {"set", "result", "error"} : Plain(kind) \in Words
  BY PlainRead DEF Words, Carried, Plain, Stanza, Replies
<1>2. \A kind \in {"result", "error"}, id \in {"BIND_REQUESTED", "SESSION_REQUESTED"} :
          Stanza(kind, id) \in Words
  BY XmppSessionAssumption DEF Words, Carried, Stanza, Replies, Read, Stanzas,
     StanzaKinds, StanzaIds
<1>3. \A has \in SUBSET {"tls", "mechanisms", "bind", "session"} : Features(has) \in Words
  BY DEF Words, Carried, Features, Read, Offered, Replies
<1> QED
  BY <1>1, <1>2, <1>3

\* What the server says: nothing, a word, or two.
Says(dn2) == \/ dn2 = down
             \/ \E a \in Words : dn2 = Append(down, a)
             \/ \E a, b \in Words : dn2 = Append(Append(down, a), b)

SameServer(srv) == /\ srv.bound = server.bound /\ srv.asked = server.asked
                   /\ srv.sent = server.sent /\ srv.answer = server.answer

\* What a reply does.
LEMMA ReplyDoes ==
    ASSUME XmppInv, KeptInv, Reply, ~Found(up, Odd)
    PROVE  /\ up # <<>> /\ up' = Tail(up) /\ NotRunning
           /\ pending' = IF Head(up) \in Own THEN pending ELSE Tail(pending)
           /\ UNCHANGED <<eng, input, sock, lost, pool, accepted, told>>
           /\ server' \in Servers
           /\ \/ Head(up).kind # "set" /\ Says(down') /\ SameServer(server')
              \/ /\ Head(up) \in SessionRequests /\ down' = Append(down, LoggedIn)
                 /\ server' = [server EXCEPT !.bound = TRUE]
              \/ /\ Head(up).kind = "set" /\ down' = down
                 /\ server' = [server EXCEPT !.asked = @ \cup {Head(up).id}]
<1> DEFINE s == Head(up)
<1>1. /\ up \in Seq(Stanzas) /\ up # <<>> /\ down \in Seq(Read) /\ server \in Servers
      /\ s \in Stanzas /\ s.id \in StanzaIds
  <2>1. /\ up \in Seq(Stanzas) /\ up # <<>> /\ down \in Seq(Read) /\ server \in Servers
    BY DEF XmppInv, Typed, KeptInv, Reply
  <2>2. s \in Stanzas
    BY <2>1
  <2> HIDE DEF s
  <2> QED
    BY <2>1, <2>2 DEF Stanzas
<1>2. s \notin Odd
  BY <1>1 DEF Found
<1>3. \A a, b : down \o <<a>> = Append(down, a)
                /\ (a \in Read /\ b \in Read => down \o <<a, b>> = Append(Append(down, a), b))
  BY <1>1
<1>4. /\ up' = Tail(up) /\ NotRunning
      /\ pending' = IF s \in Own THEN pending ELSE Tail(pending)
      /\ UNCHANGED <<eng, input, sock, lost, pool, accepted, told>>
  BY DEF Reply
<1> HIDE DEF s
<1>5. CASE s.kind = "start"
  <2>1. PICK has \in Offers(server) : /\ down' = down \o <<Plain("stream"), Features(has)>>
                                      /\ server' = server
    BY <1>5 DEF Reply, s
  <2>2. has \in SUBSET {"tls", "mechanisms", "bind", "session"}
    BY <2>1 DEF Offers
  <2>3. Plain("stream") \in Words /\ Features(has) \in Words
    BY <2>2, PlainWords DEF StanzaKinds
  <2>4. Says(down')
    BY <1>3, <2>1, <2>3 DEF Says, Words
  <2> QED
    BY <1>1, <1>4, <1>5, <2>1, <2>4 DEF SameServer, s
<1>6. CASE s.kind \in {"TLS_REQUESTED", "SASL_RUNNING", "abort", "end"}
  <2>1. /\ \/ \E kind \in StanzaKinds \ {"set", "result", "error"} :
                  down' = down \o <<Plain(kind)>>
           \/ down' = down \o <<Plain("failure"), Plain("streamEnd")>>
        /\ \/ server' = server
           \/ server' = [server EXCEPT !.secure = TRUE]
           \/ server' = [server EXCEPT !.known = TRUE]
           \/ server' = [server EXCEPT !.over = TRUE]
    <3>1. {"proceed", "failure", "streamEnd", "success", "challenge"}
             \subseteq StanzaKinds \ {"set", "result", "error"}
      BY DEF StanzaKinds
    <3>2. CASE s.kind = "TLS_REQUESTED"
      BY <3>1, <3>2 DEF Reply, s
    <3>3. CASE s.kind = "SASL_RUNNING"
      BY <3>1, <3>3 DEF Reply, s
    <3>4. CASE s.kind = "abort"
      BY <3>1, <3>4 DEF Reply, s
    <3>5. CASE s.kind = "end"
      BY <3>1, <3>5 DEF Reply, s
    <3> QED
      BY <1>6, <3>2, <3>3, <3>4, <3>5
  <2>2. Says(down')
    <3>1. /\ \A kind \in StanzaKinds \ {"set", "result", "error"} : Plain(kind) \in Words
          /\ Plain("failure") \in Words /\ Plain("streamEnd") \in Words
      BY PlainWords DEF StanzaKinds
    <3>2. Words \subseteq Read
      BY DEF Words
    <3>3. CASE \E kind \in StanzaKinds \ {"set", "result", "error"} :
                 down' = down \o <<Plain(kind)>>
      <4>1. PICK kind \in StanzaKinds \ {"set", "result", "error"} :
                down' = down \o <<Plain(kind)>>
        BY <3>3
      <4>2. down' = Append(down, Plain(kind)) /\ Plain(kind) \in Words
        BY <1>3, <3>1, <4>1
      <4> QED
        BY <4>2 DEF Says
    <3>4. CASE down' = down \o <<Plain("failure"), Plain("streamEnd")>>
      <4>1. down' = Append(Append(down, Plain("failure")), Plain("streamEnd"))
        BY <1>3, <3>1, <3>2, <3>4
      <4> QED
        BY <3>1, <4>1 DEF Says
    <3> QED
      BY <2>1, <3>3, <3>4
  <2>3. SameServer(server') /\ server' \in Servers
    BY ZenonT(60), <1>1, <2>1 DEF SameServer, Servers
  <2> QED
    BY <1>1, <1>4, <1>6, <2>2, <2>3 DEF s
<1>7. CASE s.kind = "BIND_REQUESTED"
  <2>1. PICK kind \in {"result", "error"} : /\ down' = down \o <<Stanza(kind, s.id)>>
                                            /\ server' = server
    BY <1>7 DEF Reply, s
  <2>2. s.id = "BIND_REQUESTED"
    BY <1>1, <1>2, <1>7 DEF Odd
  <2>3. Stanza(kind, s.id) \in Words
    BY <2>2, PlainWords
  <2>4. Says(down')
    BY <1>3, <2>1, <2>3 DEF Says
  <2> QED
    BY <1>1, <1>4, <1>7, <2>1, <2>4 DEF SameServer, s
<1>8. CASE s.kind = "SESSION_REQUESTED"
  <2>1. \/ /\ down' = down \o <<Stanza("result", s.id)>>
           /\ server' = [server EXCEPT !.bound = TRUE]
        \/ down' = down \o <<Stanza("error", s.id)>> /\ server' = server
    BY <1>8 DEF Reply, s
  <2>2. s.id = "SESSION_REQUESTED" /\ s \in SessionRequests
    BY <1>1, <1>2, <1>8 DEF Odd, SessionRequests
  <2>3. CASE /\ down' = down \o <<Stanza("result", s.id)>>
             /\ server' = [server EXCEPT !.bound = TRUE]
    <3>1. down' = Append(down, LoggedIn)
      BY <1>3, <2>2, <2>3 DEF LoggedIn
    <3>2. server' \in Servers
      BY <1>1, <2>3 DEF Servers
    <3> QED
      BY <1>1, <1>4, <2>2, <2>3, <3>1, <3>2 DEF s
  <2>4. CASE down' = down \o <<Stanza("error", s.id)>> /\ server' = server
    <3>1. Stanza("error", s.id) \in Words
      BY <2>2, PlainWords
    <3>2. Says(down')
      BY <1>3, <2>4, <3>1 DEF Says
    <3> QED
      BY <1>1, <1>4, <1>8, <2>4, <3>2 DEF SameServer, s
  <2> QED
    BY <2>1, <2>3, <2>4
<1>9. CASE s.kind = "set"
  <2>1. server' = [server EXCEPT !.asked = @ \cup {s.id}] /\ down' = down
    BY <1>9 DEF Reply, s
  <2>2. server' \in Servers
    BY <1>1, <2>1 DEF Servers
  <2> QED
    BY <1>1, <1>4, <1>9, <2>1, <2>2 DEF s
<1>10. CASE s.kind \notin {"start", "TLS_REQUESTED", "SASL_RUNNING", "abort", "end",
                           "BIND_REQUESTED", "SESSION_REQUESTED", "set"}
  <2>1. down' = down /\ server' = server
    BY <1>10 DEF Reply, s
  <2> QED
    BY <1>1, <1>4, <1>10, <2>1 DEF SameServer, Says, s
<1> QED
  BY <1>5, <1>6, <1>7, <1>8, <1>9, <1>10

\* Words change nothing.
LEMMA WordsKept ==
    ASSUME NEW e, NEW in, NEW u, NEW srv, NEW pend, NEW p, NEW acc, NEW heard,
           NEW dn2, Says(dn2), down \in Seq(Read),
           LoginFits(e, in, u, down, srv), Carries(pend, down, srv, p, acc, heard)
    PROVE  LoginFits(e, in, u, dn2, srv) /\ Carries(pend, dn2, srv, p, acc, heard)
<1>1. ASSUME NEW dn \in Seq(Read), NEW a \in Words,
             LoginFits(e, in, u, dn, srv), Carries(pend, dn, srv, p, acc, heard)
      PROVE  /\ LoginFits(e, in, u, Append(dn, a), srv)
             /\ Carries(pend, Append(dn, a), srv, p, acc, heard)
             /\ Append(dn, a) \in Seq(Read)
  <2>1. a \in Read /\ a \notin Carried
    BY DEF Words
  <2>2. LoginFits(e, in, u, Append(dn, a), srv)
    BY <1>1, <2>1, LoginHears
  <2>3. Carries(pend, Append(dn, a), srv, p, acc, heard)
    BY <1>1, <2>1, CarriesMore
  <2> QED
    BY <2>1, <2>2, <2>3
<1>2. CASE dn2 = down
  BY <1>2
<1>3. ASSUME NEW a \in Words, dn2 = Append(down, a)
      PROVE  LoginFits(e, in, u, dn2, srv) /\ Carries(pend, dn2, srv, p, acc, heard)
  BY <1>1, <1>3
<1>4. ASSUME NEW a \in Words, NEW b \in Words, dn2 = Append(Append(down, a), b)
      PROVE  LoginFits(e, in, u, dn2, srv) /\ Carries(pend, dn2, srv, p, acc, heard)
  <2> DEFINE dn == Append(down, a)
  <2>1. /\ LoginFits(e, in, u, dn, srv) /\ Carries(pend, dn, srv, p, acc, heard)
        /\ dn \in Seq(Read)
    BY <1>1
  <2>2. dn2 = Append(dn, b)
    BY <1>4
  <2> HIDE DEF dn
  <2> QED
    BY <1>1, <2>1, <2>2
<1> QED
  BY <1>2, <1>3, <1>4 DEF Says

\* The server replies.
LEMMA ReplyKept ==
    ASSUME XmppInv, ServedInv, KeptInv, Reply
    PROVE  KeptInv'
<1>1. /\ down \in Seq(Read) /\ up \in Seq(Stanzas) /\ pending \in Seq(Stanzas)
      /\ server \in Servers
  BY KeptFacts
<1>2. ASSUME ~Going PROVE KeptInv'
  <2>1. CASE lost
    BY <2>1 DEF XmppInv, Ordered, Reply
  <2>2. CASE eng.state = "CLOSED"
    <3>1. eng' = eng
      BY DEF Reply
    <3>2. server' \in Servers
      <4>1. CASE Head(up).kind \in {"start", "abort", "BIND_REQUESTED"}
        BY <1>1, <4>1 DEF Reply
      <4>2. CASE Head(up).kind \in {"TLS_REQUESTED", "SASL_RUNNING", "SESSION_REQUESTED",
                                    "end", "set"}
        <5>1. Head(up).id \in StanzaIds
          <6>1. Head(up) \in Stanzas
            BY <1>1 DEF Reply
          <6> QED
            BY <6>1 DEF Stanzas
        <5>2. \/ server' = server
              \/ server' = [server EXCEPT !.secure = TRUE]
              \/ server' = [server EXCEPT !.known = TRUE]
              \/ server' = [server EXCEPT !.bound = TRUE]
              \/ server' = [server EXCEPT !.over = TRUE]
              \/ server' = [server EXCEPT !.asked = @ \cup {Head(up).id}]
          BY <4>2 DEF Reply
        <5>3. ASSUME NEW a \in StanzaIds
              PROVE  [server EXCEPT !.asked = @ \cup {a}] \in Servers
          BY <1>1 DEF Servers
        <5>4. /\ [server EXCEPT !.secure = TRUE] \in Servers
              /\ [server EXCEPT !.known = TRUE] \in Servers
              /\ [server EXCEPT !.bound = TRUE] \in Servers
              /\ [server EXCEPT !.over = TRUE] \in Servers
          BY <1>1 DEF Servers
        <5> QED
          BY <1>1, <5>1, <5>2, <5>3, <5>4
      <4>3. CASE Head(up).kind \notin {"start", "abort", "BIND_REQUESTED", "TLS_REQUESTED",
                                       "SASL_RUNNING", "SESSION_REQUESTED", "end", "set"}
        BY <1>1, <4>3 DEF Reply
      <4> QED
        BY <4>1, <4>2, <4>3
    <3> QED
      BY <2>2, <3>1, <3>2 DEF KeptInv, Going
  <2> QED
    BY <1>2, <2>1, <2>2 DEF Going
<1>3. ASSUME Going PROVE KeptInv'
  <2>1. /\ LoginFits(eng, input, up, down, server)
        /\ Before(eng, input) => NoTasks(pool)
        /\ Carries(pending, down, server, pool, accepted, told)
    BY <1>3 DEF KeptInv
  <2>2. ~Found(up, Odd)
    BY <2>1 DEF LoginFits
  <2>3. /\ up # <<>> /\ up' = Tail(up) /\ NotRunning
        /\ pending' = IF Head(up) \in Own THEN pending ELSE Tail(pending)
        /\ UNCHANGED <<eng, input, sock, lost, pool, accepted, told>>
        /\ server' \in Servers
    BY <2>2, ReplyDoes
  <2>4. Head(up) \notin Own => pending # <<>> /\ Head(pending) = Head(up)
    <3>1. Follows(pending, up, eng)
      BY <1>3, <2>3, Idle DEF Going
    <3> QED
      BY <1>1, <2>3, <3>1, ArrivesFirst
  <2>5. LoginFits(eng, input, up', down, server)
    BY <1>1, <2>1, <2>3, LoginTaken
  <2>6. Head(up).kind # "set" => Carries(pending', down, server, pool, accepted, told)
    <3>1. CASE Head(up) \in Own
      BY <2>1, <2>3, <3>1
    <3>2. CASE Head(up) \notin Own
      BY <1>1, <2>1, <2>3, <2>4, <3>2, CarriesArrived
    <3> QED
      BY <3>1, <3>2
  <2>7. \/ Head(up).kind # "set" /\ Says(down') /\ SameServer(server')
        \/ /\ Head(up) \in SessionRequests /\ down' = Append(down, LoggedIn)
           /\ server' = [server EXCEPT !.bound = TRUE]
        \/ /\ Head(up).kind = "set" /\ down' = down
           /\ server' = [server EXCEPT !.asked = @ \cup {Head(up).id}]
    BY <2>2, ReplyDoes
  <2> SUFFICES /\ LoginFits(eng, input, up', down', server')
               /\ Carries(pending', down', server', pool, accepted, told)
    BY <2>1, <2>3 DEF KeptInv
  <2>8. CASE Head(up).kind # "set" /\ Says(down') /\ SameServer(server')
    <3>1. /\ LoginFits(eng, input, up', down', server)
          /\ Carries(pending', down', server, pool, accepted, told)
      BY <1>1, <2>5, <2>6, <2>8, WordsKept
    <3>2. LoginFits(eng, input, up', down', server')
      BY <2>8, <3>1 DEF LoginFits, SameServer
    <3>3. Carries(pending', down', server', pool, accepted, told)
      BY <2>8, <3>1, CarriesKnown DEF SameServer
    <3> QED
      BY <3>2, <3>3
  <2>9. CASE /\ Head(up) \in SessionRequests /\ down' = Append(down, LoggedIn)
             /\ server' = [server EXCEPT !.bound = TRUE]
    <3>1. Head(up).kind = "SESSION_REQUESTED" /\ Found(up, SessionRequests)
      <4>1. Head(up) = up[1] /\ 1 \in 1..Len(up)
        BY <1>1, <2>3
      <4> QED
        BY <2>9, <4>1 DEF SessionRequests, Found
    <3>2. eng.login \in {"SESSION_REQUESTED", "none"}
      BY <2>1, <3>1 DEF LoginFits
    <3>3. /\ server'.bound = TRUE /\ server'.asked = server.asked
          /\ server'.sent = server.sent /\ server'.answer = server.answer
      BY <1>1, <2>9 DEF Servers
    <3>4. LoggedIn \in Read /\ LoggedIn \notin Carried
      BY PlainWords DEF LoggedIn, Words
    <3>5. LoginFits(eng, input, up', down', server')
      BY <1>1, <2>5, <2>9, <3>2, <3>3, <3>4, LoginHeard
    <3>6. Carries(pending', down', server, pool, accepted, told)
      BY <1>1, <2>6, <2>9, <3>1, <3>4, CarriesMore
    <3> QED
      BY <3>3, <3>5, <3>6, CarriesKnown
  <2>10. CASE /\ Head(up).kind = "set" /\ down' = down
              /\ server' = [server EXCEPT !.asked = @ \cup {Head(up).id}]
    <3>1. Head(up) \notin Own
      BY <2>10 DEF Own, Plain, Stanza
    <3>2. /\ server'.asked = server.asked \cup {Head(pending).id}
          /\ server'.sent = server.sent /\ server'.answer = server.answer
          /\ server'.bound = server.bound
      BY <1>1, <2>4, <2>10, <3>1 DEF Servers
    <3>3. Carries(pending', down', server', pool, accepted, told)
      BY <1>1, <2>1, <2>3, <2>4, <2>10, <3>1, <3>2, CarriesAsked
    <3>4. LoginFits(eng, input, up', down', server')
      BY <2>5, <2>10, <3>2 DEF LoginFits
    <3> QED
      BY <3>3, <3>4
  <2> QED
    BY <2>7, <2>8, <2>9, <2>10
<1> QED
  BY <1>2, <1>3

\* What the server sends of itself.
LEMMA SendsKept ==
    ASSUME XmppInv, ServedInv, KeptInv, NEW s \in Read, NEW srv \in Servers,
           ServerSends(s, srv), srv.bound = server.bound,
           Carries(pending, down, server, pool, accepted, told) =>
               Carries(pending, Append(down, s), srv, pool, accepted, told)
    PROVE  KeptInv'
<1>1. /\ server.bound /\ down' = Append(down, s) /\ server' = srv /\ down \in Seq(Read)
      /\ UNCHANGED <<eng, input, up, lost, pool, accepted, pending, told>>
  BY KeptFacts DEF ServerSends
<1>2. ASSUME LoginFits(eng, input, up, down, server)
      PROVE  LoginFits(eng, input, up, down', srv)
  <2>1. Behind(down) => Behind(down')
    BY <1>1, BehindKept
  <2> QED
    BY <1>1, <1>2, <2>1 DEF LoginFits
<1> QED
  BY <1>1, <1>2 DEF KeptInv, Going

\* The answer to a request that was with the server comes down.
LEMMA AnswerKept ==
    ASSUME XmppInv, ServedInv, KeptInv, NEW r \in Requests, Answer(r)
    PROVE  KeptInv'
<1>1. PICK kind \in Replies :
        ServerSends(Stanza(kind, r), [server EXCEPT !.asked = @ \ {r},
                                          !.answer = [@ EXCEPT ![r] = kind]])
  BY DEF Answer, Replies
<1> DEFINE s == Stanza(kind, r)
           srv == [server EXCEPT !.asked = @ \ {r}, !.answer = [@ EXCEPT ![r] = kind]]
           a == Append(down, s)
<1>2. /\ r \in server.asked /\ server \in Servers /\ down \in Seq(Read)
      /\ r \in SendTasks
  BY KeptFacts, Clients DEF Answer
<1>3. s \in Stanzas /\ s.kind = kind /\ s.id = r /\ s \in Read
  <2>1. kind \in {"raw", "set", "result", "error"} /\ r \in Raw \cup SendTasks
    BY <1>2 DEF Replies
  <2>2. s \in Stanzas /\ s.kind = kind /\ s.id = r
    BY <2>1, SentStanzas DEF Stanza
  <2> HIDE DEF s
  <2> QED
    BY <2>2 DEF Read, Replies
<1>4. s \in AnswersTo(r)
      /\ \A q : (q # r => s \notin AnswersTo(q)) /\ s \notin RequestOf(q)
  <2> HIDE DEF s
  <2> QED
    BY <1>3 DEF AnswersTo, RequestOf, Replies
<1>5. /\ srv \in Servers /\ srv.bound = server.bound /\ srv.sent = server.sent
      /\ srv.asked = server.asked \ {r}
      /\ srv.answer[r] = kind /\ \A q \in Requests : q # r => srv.answer[q] = server.answer[q]
  <2>1. server.answer \in [Requests -> {"none", "result", "error"}]
        /\ kind \in {"none", "result", "error"}
    BY <1>2 DEF Servers, Replies
  <2> DEFINE f == [server.answer EXCEPT ![r] = kind]
  <2>2. /\ f \in [Requests -> {"none", "result", "error"}] /\ f[r] = kind
        /\ \A q \in Requests : q # r => f[q] = server.answer[q]
    BY <2>1
  <2>3. srv = [server EXCEPT !.asked = @ \ {r}, !.answer = f]
    BY DEF srv
  <2> HIDE DEF f, srv
  <2> QED
    BY <1>2, <2>2, <2>3 DEF Servers
<1> HIDE DEF s, srv
<1>6. ASSUME Carries(pending, down, server, pool, accepted, told)
      PROVE  Carries(pending, a, srv, pool, accepted, told)
  <2>1. ASSUME NEW q \in Requests PROVE Question(q, pending, a, srv, pool, told)
    <3>1. Question(q, pending, down, server, pool, told)
      BY <1>6 DEF Carries
    <3>2. /\ Found(a, AnswersTo(q)) <=> Found(down, AnswersTo(q)) \/ s \in AnswersTo(q)
          /\ Once(down, AnswersTo(q)) /\ (s \in AnswersTo(q) => ~Found(down, AnswersTo(q)))
               => Once(a, AnswersTo(q))
      BY <1>2, <1>3, FoundAppend
    <3>3. /\ ~Found(down, AnswersTo(q)) => Given(down, q, srv.answer[q])
          /\ Given(down, q, srv.answer[q]) /\ (s \in AnswersTo(q) => s.kind = srv.answer[q])
               => Given(a, q, srv.answer[q])
      BY <1>2, <1>3, GivenKept
    <3> HIDE DEF a
    <3> DEFINE asks == Found(pending, RequestOf(q))
               answered == Found(down, AnswersTo(q))
               more == Found(a, AnswersTo(q))
    <3>4. /\ Stage(asks, q \in server.asked, answered, server.answer[q], pool.of[q],
                   q \in pool.handlers, told[q])
          /\ Once(pending, RequestOf(q)) /\ Once(down, AnswersTo(q))
          /\ Given(down, q, server.answer[q])
      BY <3>1 DEF Question
    <3>5. CASE q # r
      <4>1. (more <=> answered) /\ Once(a, AnswersTo(q)) /\ Given(a, q, srv.answer[q])
            /\ srv.answer[q] = server.answer[q]
            /\ (q \in srv.asked <=> q \in server.asked)
        BY <1>4, <1>5, <3>2, <3>3, <3>4, <3>5
      <4> HIDE DEF asks, answered, more
      <4>2. Stage(asks, q \in srv.asked, more, srv.answer[q], pool.of[q],
                  q \in pool.handlers, told[q])
        BY <3>4, <4>1 DEF Stage
      <4> QED
        BY <3>4, <4>1, <4>2 DEF Question, asks, more
    <3>6. CASE q = r
      <4>1. ~answered
        <5> HIDE DEF asks, answered, more
        <5> QED
          BY <1>2, <3>4, <3>6 DEF Stage
      <4>2. more /\ Once(a, AnswersTo(q)) /\ Given(a, q, srv.answer[q])
            /\ srv.answer[q] = kind /\ q \notin srv.asked
        BY <1>3, <1>4, <1>5, <3>2, <3>3, <3>4, <3>6, <4>1
      <4>3. kind # "none"
        BY DEF Replies
      <4> HIDE DEF asks, answered, more
      <4>4. Stage(asks, q \in srv.asked, more, srv.answer[q], pool.of[q],
                  q \in pool.handlers, told[q])
        BY <1>2, <3>4, <3>6, <4>1, <4>2, <4>3 DEF Stage
      <4> QED
        BY <3>4, <4>2, <4>4 DEF Question, asks, more
    <3> QED
      BY <3>5, <3>6
  <2>2. ASSUME NEW i \in Incoming PROVE Delivered(i, a, srv, pool, accepted)
    <3>1. Delivered(i, down, server, pool, accepted)
      BY <1>6 DEF Carries
    <3>2. /\ Found(a, RequestOf(i)) <=> Found(down, RequestOf(i))
          /\ Once(down, RequestOf(i)) => Once(a, RequestOf(i))
      BY <1>2, <1>3, <1>4, FoundAppend
    <3> HIDE DEF a
    <3> QED
      BY <1>5, <3>1, <3>2 DEF Delivered, Place
  <2> QED
    BY <1>6, <2>1, <2>2 DEF Carries
<1> QED
  BY <1>1, <1>3, <1>5, <1>6, SendsKept DEF s, srv

\* A peer's request comes down.
LEMMA RequestKept ==
    ASSUME XmppInv, ServedInv, KeptInv, NEW i \in Incoming, PeerRequest(i)
    PROVE  KeptInv'
<1> DEFINE s == Stanza("set", i)
           srv == [server EXCEPT !.sent = @ \cup {i}]
           a == Append(down, s)
<1>1. /\ i \notin server.sent /\ server \in Servers /\ down \in Seq(Read)
      /\ i \in SendTasks /\ ServerSends(s, srv)
  BY KeptFacts, Clients DEF PeerRequest
<1>2. s \in Stanzas /\ s.kind = "set" /\ s.id = i /\ s \in Read
  <2>1. s \in Stanzas /\ s.kind = "set" /\ s.id = i
    BY <1>1, SentStanzas DEF Stanza
  <2> HIDE DEF s
  <2> QED
    BY <2>1 DEF Read
<1>3. s \in RequestOf(i)
      /\ \A q : (q # i => s \notin RequestOf(q)) /\ s \notin AnswersTo(q)
  <2> HIDE DEF s
  <2> QED
    BY <1>2 DEF AnswersTo, RequestOf, Replies
<1>4. /\ srv \in Servers /\ srv.bound = server.bound /\ srv.asked = server.asked
      /\ srv.sent = server.sent \cup {i} /\ srv.answer = server.answer
  BY <1>1 DEF Servers
<1> HIDE DEF s, srv
<1>5. ASSUME Carries(pending, down, server, pool, accepted, told)
      PROVE  Carries(pending, a, srv, pool, accepted, told)
  <2>1. ASSUME NEW q \in Requests PROVE Question(q, pending, a, srv, pool, told)
    <3>1. Question(q, pending, down, server, pool, told)
      BY <1>5 DEF Carries
    <3>2. /\ Found(a, AnswersTo(q)) <=> Found(down, AnswersTo(q))
          /\ Once(down, AnswersTo(q)) => Once(a, AnswersTo(q))
      BY <1>1, <1>2, <1>3, FoundAppend
    <3>3. Given(down, q, srv.answer[q]) => Given(a, q, srv.answer[q])
      BY <1>1, <1>2, <1>3, GivenKept
    <3> HIDE DEF a
    <3> QED
      BY <1>4, <3>1, <3>2, <3>3 DEF Question, Stage
  <2>2. ASSUME NEW j \in Incoming PROVE Delivered(j, a, srv, pool, accepted)
    <3>1. Delivered(j, down, server, pool, accepted)
      BY <1>5 DEF Carries
    <3>2. /\ Found(a, RequestOf(j)) <=> Found(down, RequestOf(j)) \/ s \in RequestOf(j)
          /\ Once(down, RequestOf(j)) /\ (s \in RequestOf(j) => ~Found(down, RequestOf(j)))
               => Once(a, RequestOf(j))
      BY <1>1, <1>2, FoundAppend
    <3> HIDE DEF a
    <3>3. CASE j # i
      <4>1. /\ Found(a, RequestOf(j)) <=> Found(down, RequestOf(j))
            /\ Once(down, RequestOf(j)) => Once(a, RequestOf(j))
            /\ j \in srv.sent <=> j \in server.sent
        BY <1>3, <1>4, <3>2, <3>3
      <4> QED
        BY <3>1, <4>1 DEF Delivered, Place
    <3>4. CASE j = i
      <4> DEFINE read == Found(down, RequestOf(j))
                 queued == Found(pool.of["manager"].inbox, RequestOf(j))
      <4>1. /\ Place(j \in server.sent, read, queued, pool.of[j].state # "NONE",
                     j \in accepted)
            /\ Once(down, RequestOf(j)) /\ Once(pool.of["manager"].inbox, RequestOf(j))
        BY <3>1 DEF Delivered
      <4>2. ~read /\ ~queued /\ pool.of[j].state = "NONE" /\ j \notin accepted
        <5> HIDE DEF read, queued
        <5> QED
          BY <1>1, <3>4, <4>1 DEF Place
      <4>3. Found(a, RequestOf(j)) /\ Once(a, RequestOf(j)) /\ j \in srv.sent
        BY <1>3, <1>4, <3>2, <3>4, <4>1, <4>2
      <4> HIDE DEF queued
      <4>4. Place(j \in srv.sent, Found(a, RequestOf(j)), queued,
                  pool.of[j].state # "NONE", j \in accepted)
        BY <4>2, <4>3 DEF Place
      <4> QED
        BY <4>1, <4>3, <4>4 DEF Delivered, queued
    <3> QED
      BY <3>3, <3>4
  <2> QED
    BY <1>5, <2>1, <2>2 DEF Carries
<1> QED
  BY <1>1, <1>2, <1>4, <1>5, SendsKept

\* The network and the server keep the invariant.
LEMMA ServerKept ==
    ASSUME XmppInv, ServedInv, KeptInv,
           \/ Reply \/ ServerEnds \/ Lose
           \/ \E r \in Requests : Answer(r)
           \/ \E i \in Incoming : PeerRequest(i)
    PROVE  KeptInv'
<1>1. CASE Reply
  BY <1>1, ReplyKept
<1>2. CASE ServerEnds
  <2> DEFINE srv == [server EXCEPT !.over = TRUE]
  <2>1. PICK kind \in {"streamEnd", "streamError"} : ServerSends(Plain(kind), srv)
    BY <1>2 DEF ServerEnds
  <2>2. Plain(kind) \in Read /\ Plain(kind) \notin Carried
    BY PlainWords DEF StanzaKinds, Words
  <2>3. server \in Servers /\ down \in Seq(Read)
    BY KeptFacts
  <2>4. /\ srv \in Servers /\ srv.bound = server.bound /\ srv.asked = server.asked
        /\ srv.sent = server.sent /\ srv.answer = server.answer
    BY <2>3 DEF Servers
  <2> HIDE DEF srv
  <2>5. ASSUME Carries(pending, down, server, pool, accepted, told)
        PROVE  Carries(pending, Append(down, Plain(kind)), srv, pool, accepted, told)
    <3>1. Carries(pending, Append(down, Plain(kind)), server, pool, accepted, told)
      BY <2>2, <2>3, <2>5, CarriesMore
    <3> QED
      BY <2>4, <3>1, CarriesKnown
  <2> QED
    BY <2>1, <2>2, <2>4, <2>5, SendsKept
<1>3. CASE Lose
  BY <1>3 DEF Lose, KeptInv, Going
<1>4. CASE \E r \in Requests : Answer(r)
  BY <1>4, AnswerKept
<1>5. CASE \E i \in Incoming : PeerRequest(i)
  BY <1>5, RequestKept
<1> QED
  BY <1>1, <1>2, <1>3, <1>4, <1>5

----------------------------------------------------------------------------
(* The parser *)

\* What the login may do with a stanza: fail, go on, stay, or end.
Moves(e, output, reset) ==
    \/ e.state = "CLOSED"
    \/ /\ eng.login \notin {"none", "SESSION_REQUESTED"} /\ e.login # "none"
       /\ e.state = eng.state /\ e.queued = eng.queued
       /\ \/ output = <<>>
          \/ \E kind \in {"start", "TLS_REQUESTED", "SASL_RUNNING", "abort",
                          "BIND_REQUESTED", "SESSION_REQUESTED"} :
                output = <<Plain(kind)>> /\ (kind = "SESSION_REQUESTED" => e.login = kind)
       /\ reset => e.login = "STREAMSTART_SENT"
    \/ /\ eng.login = "SESSION_REQUESTED" /\ Head(down) # LoggedIn
       /\ e = eng /\ output = <<>> /\ ~reset
    \/ /\ eng.login = "SESSION_REQUESTED" /\ e.login = "none" /\ e.queued = <<>>
       /\ e.state = IF eng.state = "OPENING" THEN "OPEN" ELSE eng.state
       /\ output = eng.queued /\ ~reset

\* It does one of these.
SomeMove == \E e \in Engines, output \in Seq(Stanzas), reset \in BOOLEAN :
                Parse(e, output, reset) /\ Moves(e, output, reset)

\* It goes on in a state of its own.
LEMMA MovesOn ==
    ASSUME NEW f \in Engines, f.state = eng.state, f.queued = eng.queued,
           f.login # "none", eng.login \notin {"none", "SESSION_REQUESTED"}
    PROVE  /\ Parse(f, <<>>, FALSE) => SomeMove
           /\ \A kind \in {"start", "TLS_REQUESTED", "SASL_RUNNING", "abort",
                           "BIND_REQUESTED", "SESSION_REQUESTED"},
                 reset \in BOOLEAN :
                 /\ kind = "SESSION_REQUESTED" => f.login = kind
                 /\ reset => f.login = "STREAMSTART_SENT"
                 /\ Parse(f, <<Plain(kind)>>, reset)
                 => SomeMove
<1>1. Moves(f, <<>>, FALSE)
  BY DEF Moves
<1>2. <<>> \in Seq(Stanzas)
  OBVIOUS
<1>3. ASSUME NEW kind \in {"start", "TLS_REQUESTED", "SASL_RUNNING", "abort",
                           "BIND_REQUESTED", "SESSION_REQUESTED"},
             NEW reset \in BOOLEAN, kind = "SESSION_REQUESTED" => f.login = kind,
             reset => f.login = "STREAMSTART_SENT", Parse(f, <<Plain(kind)>>, reset)
      PROVE  SomeMove
  <2>1. Moves(f, <<Plain(kind)>>, reset)
    BY <1>3 DEF Moves
  <2>2. Plain(kind) \in Stanzas
    BY OwnWords
  <2>3. <<Plain(kind)>> \in Seq(Stanzas)
    BY <2>2, FoundOne
  <2> QED
    BY <1>3, <2>1, <2>3 DEF SomeMove
<1>4. ASSUME Parse(f, <<>>, FALSE) PROVE SomeMove
  BY <1>1, <1>2, <1>4 DEF SomeMove
<1> QED
  BY <1>3, <1>4

\* It fails, or waits for its last answer, or has it.
LEMMA MovesOut ==
    ASSUME eng \in Engines
    PROVE  /\ Parse(Fail(eng), <<>>, FALSE) => SomeMove
           /\ eng.login = "SESSION_REQUESTED" /\ Head(down) # LoggedIn
              /\ Parse(eng, <<>>, FALSE) => SomeMove
           /\ eng.login = "SESSION_REQUESTED" /\ Bound(eng) => SomeMove
<1>1. ASSUME Parse(Fail(eng), <<>>, FALSE) PROVE SomeMove
  <2>1. Fail(eng) \in Engines /\ <<>> \in Seq(Stanzas)
    BY FailReads
  <2>2. Fail(eng).state = "CLOSED"
    BY DEF Fail, Engines
  <2>3. Moves(Fail(eng), <<>>, FALSE)
    BY <2>2 DEF Moves
  <2> QED
    BY <1>1, <2>1, <2>3 DEF SomeMove
<1>2. ASSUME eng.login = "SESSION_REQUESTED", Head(down) # LoggedIn,
             Parse(eng, <<>>, FALSE)
      PROVE  SomeMove
  <2>1. Moves(eng, <<>>, FALSE)
    BY <1>2 DEF Moves
  <2>2. <<>> \in Seq(Stanzas)
    OBVIOUS
  <2> QED
    BY <1>2, <2>1, <2>2 DEF SomeMove
<1>3. ASSUME eng.login = "SESSION_REQUESTED", Bound(eng) PROVE SomeMove
  <2> DEFINE e == [eng EXCEPT !.login = "none", !.queued = <<>>,
                       !.state = IF @ = "OPENING" THEN "OPEN" ELSE @]
  <2>1. <<>> \in Seq(Stanzas)
    OBVIOUS
  <2>2. e \in Engines /\ eng.queued \in Seq(Stanzas)
    BY <2>1 DEF Engines, EngineStates, Logins
  <2>3. Moves(e, eng.queued, FALSE)
    BY <1>3 DEF Engines, Moves
  <2>4. Parse(e, eng.queued, FALSE)
    BY <1>3 DEF Bound
  <2> HIDE DEF e
  <2> QED
    BY <2>2, <2>3, <2>4 DEF SomeMove
<1> QED
  BY <1>1, <1>2, <1>3

\* It sends its next word and waits.
LEMMA MovesNext ==
    ASSUME eng \in Engines, eng.login \notin {"none", "SESSION_REQUESTED"},
           NEW login \in {"TLS_REQUESTED", "SASL_RUNNING", "BIND_REQUESTED",
                          "SESSION_REQUESTED"},
           Parse([eng EXCEPT !.login = login], <<Plain(login)>>, FALSE)
    PROVE  SomeMove
<1> DEFINE f == [eng EXCEPT !.login = login]
<1>1. /\ f \in Engines /\ f.state = eng.state /\ f.queued = eng.queued
      /\ f.login = login /\ Parse(f, <<Plain(login)>>, FALSE)
  BY DEF Engines, Logins
<1> HIDE DEF f
<1> QED
  BY <1>1, MovesOn

\* The login does nothing but what Moves says.
LEMMA LoginMoves ==
    ASSUME eng \in Engines, ParseLogin
    PROVE  SomeMove
<1>1. PICK s : s = Head(down)
  OBVIOUS
<1>2. CASE Advance(s)
  <2>1. CASE /\ eng.login = "STREAMSTART_SENT"
             /\ IF s.kind = "stream"
                THEN Parse([eng EXCEPT !.login = "STARTED_XMPP"], <<>>, FALSE)
                ELSE Parse(Fail(eng), <<>>, FALSE)
    <3> DEFINE f == [eng EXCEPT !.login = "STARTED_XMPP"]
    <3>1. /\ f \in Engines /\ f.state = eng.state /\ f.queued = eng.queued
          /\ f.login # "none"
      BY DEF Engines, Logins
    <3>2. Parse(f, <<>>, FALSE) \/ Parse(Fail(eng), <<>>, FALSE)
      BY <2>1
    <3> HIDE DEF f
    <3>3. CASE Parse(f, <<>>, FALSE)
      BY <2>1, <3>1, <3>3, MovesOn
    <3> QED
      BY <3>2, <3>3, MovesOut
  <2>2. CASE /\ eng.login = "STARTED_XMPP"
             /\ IF s.kind = "features" THEN Negotiate(s.has)
                ELSE Parse(Fail(eng), <<>>, FALSE)
    <3>1. \/ \E login \in {"TLS_REQUESTED", "SASL_RUNNING", "BIND_REQUESTED"} :
                Parse([eng EXCEPT !.login = login], <<Plain(login)>>, FALSE)
          \/ Parse(Fail(eng), <<>>, FALSE)
      BY <2>2 DEF Negotiate
    <3>2. eng.login \notin {"none", "SESSION_REQUESTED"}
      BY <2>2
    <3>3. ASSUME NEW login \in {"TLS_REQUESTED", "SASL_RUNNING", "BIND_REQUESTED"},
                 Parse([eng EXCEPT !.login = login], <<Plain(login)>>, FALSE)
          PROVE  SomeMove
      BY <3>2, <3>3, MovesNext
    <3> QED
      BY <3>1, <3>3, MovesOut
  <2>3. CASE /\ eng.login = "TLS_REQUESTED"
             /\ IF s.kind = "proceed"
                THEN Parse([[eng EXCEPT !.encrypted = TRUE, !.tls = FALSE]
                                  EXCEPT !.login = "STREAMSTART_SENT"],
                              <<Plain("start")>>, TRUE)
                ELSE Parse(Fail(eng), <<>>, FALSE)
    <3> DEFINE f == [[eng EXCEPT !.encrypted = TRUE, !.tls = FALSE]
                         EXCEPT !.login = "STREAMSTART_SENT"]
    <3>1. /\ f \in Engines /\ f.state = eng.state
          /\ f.queued = eng.queued /\ f.login = "STREAMSTART_SENT"
      BY DEF Engines, Logins
    <3>2. Parse(f, <<Plain("start")>>, TRUE) \/ Parse(Fail(eng), <<>>, FALSE)
      BY <2>3
    <3> HIDE DEF f
    <3>3. CASE Parse(f, <<Plain("start")>>, TRUE)
      BY <2>3, <3>1, <3>3, MovesOn
    <3> QED
      BY <3>2, <3>3, MovesOut
  <2>4. CASE /\ eng.login = "SASL_RUNNING"
             /\ CASE s.kind = "challenge" -> Parse(eng, <<Plain("abort")>>, FALSE)
                  [] s.kind = "success" ->
                        Parse([[eng EXCEPT !.auth = FALSE]
                                   EXCEPT !.login = "STREAMSTART_SENT"],
                              <<Plain("start")>>, TRUE)
                  [] OTHER -> Parse(Fail(eng), <<>>, FALSE)
    <3> DEFINE f == [[eng EXCEPT !.auth = FALSE] EXCEPT !.login = "STREAMSTART_SENT"]
    <3>1. /\ f \in Engines /\ f.state = eng.state
          /\ f.queued = eng.queued /\ f.login = "STREAMSTART_SENT"
      BY DEF Engines, Logins
    <3>2. \/ Parse(eng, <<Plain("abort")>>, FALSE)
          \/ Parse(f, <<Plain("start")>>, TRUE) \/ Parse(Fail(eng), <<>>, FALSE)
      BY <2>4
    <3> HIDE DEF f
    <3>3. CASE Parse(eng, <<Plain("abort")>>, FALSE)
      BY <2>4, <3>3, MovesOn
    <3>4. CASE Parse(f, <<Plain("start")>>, TRUE)
      BY <2>4, <3>1, <3>4, MovesOn
    <3> QED
      BY <3>2, <3>3, <3>4, MovesOut
  <2>5. CASE /\ eng.login = "BIND_REQUESTED"
             /\ \/ Parse([eng EXCEPT !.login = "SESSION_REQUESTED"],
                         <<Plain("SESSION_REQUESTED")>>, FALSE)
                \/ Parse(Fail(eng), <<>>, FALSE)
                \/ Parse(eng, <<>>, FALSE)
    <3>1. eng.login \notin {"none", "SESSION_REQUESTED"}
      BY <2>5
    <3>2. CASE Parse([eng EXCEPT !.login = "SESSION_REQUESTED"],
                     <<Plain("SESSION_REQUESTED")>>, FALSE)
      BY <3>1, <3>2, MovesNext
    <3>3. CASE Parse(eng, <<>>, FALSE)
      BY <2>5, <3>1, <3>3, MovesOn
    <3> QED
      BY <2>5, <3>2, <3>3, MovesOut
  <2>6. CASE /\ eng.login = "SESSION_REQUESTED"
             /\ ~(s.kind = "result" /\ s.id = "SESSION_REQUESTED")
             /\ Parse(Fail(eng), <<>>, FALSE) \/ Parse(eng, <<>>, FALSE)
    <3>1. Head(down) # LoggedIn
      BY <1>1, <2>6 DEF LoggedIn, Stanza
    <3> QED
      BY <2>6, <3>1, MovesOut
  <2> QED
    BY <1>2, <2>1, <2>2, <2>3, <2>4, <2>5, <2>6 DEF Advance
<1>3. CASE ~Advance(s)
  <2>1. eng.login = "SESSION_REQUESTED" /\ Bound(eng)
    BY <1>1, <1>3 DEF ParseLogin
  <2> QED
    BY <2>1, MovesOut
<1> QED
  BY <1>2, <1>3

\* A stanza is read.
LEMMA LoginLess ==
    ASSUME NEW e, NEW in, NEW u, NEW dn \in Seq(Read), dn # <<>>, NEW srv,
           LoginFits(e, in, u, dn, srv),
           e.login = "SESSION_REQUESTED" => Head(dn) # LoggedIn
    PROVE  LoginFits(e, in, u, Tail(dn), srv)
<1>1. ~Found(dn, Carried) => ~Found(Tail(dn), Carried)
  BY FoundTail
<1>2. Behind(dn) /\ Head(dn) # LoggedIn => Behind(Tail(dn))
  BY BehindKept
<1> QED
  BY <1>1, <1>2 DEF LoginFits

\* What the parser leaves alone, and when it runs.
LEMMA ParseFacts ==
    ASSUME XmppInv, ServedInv, KeptInv, Parsing,
           NEW e, NEW output, NEW reset, Parse(e, output, reset)
    PROVE  /\ eng' = e /\ down' = Tail(down) /\ down # <<>> /\ down \in Seq(Read)
           /\ input'.entry = input.entry /\ input'.output = input.output \o output
           /\ input'.reset = (input.reset \/ reset)
           /\ UNCHANGED <<up, lost, server, told>>
           /\ input.output \in Seq(Stanzas) /\ input.entry # "none"
           /\ \/ eng.error
              \/ eng.state \in {"OPENING", "OPEN"}
           /\ eng.error => eng.state = "CLOSED"
           /\ Head(down) \in Read
<1>1. /\ input \in Inputs /\ down \in Seq(Read) /\ input.left > 0
      /\ input.left <= Len(down)
      /\ input.entry # "none"
      /\ eng.error \/ eng.state \in {"OPENING", "OPEN"}
      /\ eng.error => eng.state = "CLOSED"
  BY DEF XmppInv, Typed, InputFits, Parsing
<1>2. down # <<>> /\ Head(down) \in Read
  BY <1>1 DEF Inputs
<1>3. /\ input'.entry = input.entry /\ input'.output = input.output \o output
      /\ input'.reset = (input.reset \/ reset)
      /\ input.output \in Seq(Stanzas)
  BY <1>1 DEF Parse, Inputs
<1> QED
  BY <1>1, <1>2, <1>3 DEF Parse

\* While the login runs, what is read is for no task.
LEMMA LoginReadsOwn ==
    ASSUME NEW e, NEW in, NEW u, NEW dn \in Seq(Read), dn # <<>>, NEW srv,
           LoginFits(e, in, u, dn, srv), e.login # "none"
    PROVE  Head(dn) \notin Carried
<1>1. CASE srv.bound
  <2>1. Behind(dn)
    BY <1>1 DEF LoginFits
  <2> QED
    BY <2>1, BehindKept
<1>2. CASE ~srv.bound
  <2>1. ~Found(dn, Carried)
    BY <1>2 DEF LoginFits
  <2> QED
    BY <2>1, FoundTail
<1> QED
  BY <1>1, <1>2

\* The parser takes a stanza of the login.
LEMMA LoginKept ==
    ASSUME XmppInv, ServedInv, KeptInv, Parsing, eng.login # "none",
           NEW e \in Engines, NEW output \in Seq(Stanzas), NEW reset \in BOOLEAN,
           Parse(e, output, reset), UNCHANGED <<pool, accepted, pending>>,
           e.state # "CLOSED" => eng.state # "CLOSED",
           Going /\ LoginFits(eng, input, up, down, server) /\ e.state # "CLOSED" =>
               /\ LoginFits(e, input', up, Tail(down), server)
               /\ e.state # eng.state => Before(eng, input)
    PROVE  KeptInv'
<1>1. /\ eng' = e /\ down' = Tail(down) /\ down # <<>> /\ down \in Seq(Read)
      /\ input'.entry = input.entry /\ UNCHANGED <<up, lost, server, told>>
      /\ server \in Servers
  BY ParseFacts, KeptFacts
<1>2. CASE Going /\ e.state # "CLOSED"
  <2>1. /\ LoginFits(eng, input, up, down, server)
        /\ Before(eng, input) => NoTasks(pool)
        /\ Carries(pending, down, server, pool, accepted, told)
    BY <1>2 DEF KeptInv
  <2>2. Head(down) \notin Carried
    BY <1>1, <2>1, LoginReadsOwn
  <2>3. Carries(pending, Tail(down), server, pool, accepted, told)
    BY <1>1, <2>1, <2>2, CarriesLess
  <2>4. Before(e, input') => NoTasks(pool)
    BY <1>1, <1>2, <2>1 DEF Before
  <2> QED
    BY <1>1, <1>2, <2>1, <2>3, <2>4 DEF KeptInv
<1>3. CASE ~(Going /\ e.state # "CLOSED")
  BY <1>1, <1>3 DEF KeptInv, Going
<1> QED
  BY <1>2, <1>3

\* The engine is closed.
LEMMA ClosedKept ==
    ASSUME KeptInv, server' = server, lost' = lost, eng'.state = "CLOSED"
    PROVE  KeptInv'
  BY DEF KeptInv, Going

\* What the login does fits what the server knows of it.
LEMMA LoginStep ==
    ASSUME NEW e, NEW output, NEW reset, Moves(e, output, reset), e.state # "CLOSED",
           eng.state \in {"OPENING", "OPEN"}, eng.login # "none",
           NEW in, NEW in2, in.output \in Seq(Stanzas), output \in Seq(Stanzas),
           in2.output = in.output \o output, in2.reset = (in.reset \/ reset),
           ~in.reset, NEW u, NEW dn \in Seq(Read), dn # <<>>, Head(dn) = Head(down),
           NEW srv, LoginFits(eng, in, u, dn, srv)
    PROVE  /\ LoginFits(e, in2, u, Tail(dn), srv)
           /\ e.state # eng.state => eng.state = "OPENING"
           /\ eng.state # "CLOSED"
<1>1. /\ eng.state = "OPENING"
      /\ srv.bound \/ Found(u, SessionRequests) \/ Found(in.output, SessionRequests) =>
             eng.login \in {"SESSION_REQUESTED", "none"}
      /\ ~Found(u, Odd) /\ ~Found(in.output, Odd) /\ ~Found(eng.queued, Odd)
      /\ ~srv.bound => ~Found(dn, Carried)
      /\ srv.bound /\ eng.login = "SESSION_REQUESTED" => Behind(dn)
  BY DEF LoginFits
<1>2. ~srv.bound => ~Found(Tail(dn), Carried)
  BY <1>1, FoundTail
<1>3. \A S : Found(in2.output, S) <=> Found(in.output, S) \/ Found(output, S)
  BY FoundConcat
<1>4. CASE /\ eng.login \notin {"none", "SESSION_REQUESTED"} /\ e.login # "none"
           /\ e.state = eng.state /\ e.queued = eng.queued
           /\ \/ output = <<>>
              \/ \E kind \in {"start", "TLS_REQUESTED", "SASL_RUNNING", "abort",
                              "BIND_REQUESTED", "SESSION_REQUESTED"} :
                    output = <<Plain(kind)>> /\ (kind = "SESSION_REQUESTED" => e.login = kind)
           /\ reset => e.login = "STREAMSTART_SENT"
  <2>1. /\ ~Found(output, Odd)
        /\ Found(output, SessionRequests) => e.login = "SESSION_REQUESTED"
    <3>1. CASE output = <<>>
      BY <3>1, FoundNone
    <3>2. ASSUME NEW kind \in {"start", "TLS_REQUESTED", "SASL_RUNNING", "abort",
                               "BIND_REQUESTED", "SESSION_REQUESTED"},
                 output = <<Plain(kind)>>, kind = "SESSION_REQUESTED" => e.login = kind
          PROVE  /\ ~Found(output, Odd)
                 /\ Found(output, SessionRequests) => e.login = "SESSION_REQUESTED"
      <4>1. /\ Plain(kind) \notin Odd /\ Plain(kind) \in Stanzas
            /\ kind # "SESSION_REQUESTED" => Plain(kind) \notin SessionRequests
        BY OwnWords
      <4> QED
        BY <3>2, <4>1, FoundOne
    <3> QED
      BY <1>4, <3>1, <3>2
  <2>2. ~srv.bound /\ ~Found(u, SessionRequests) /\ ~Found(in.output, SessionRequests)
    BY <1>1, <1>4
  <2> QED
    BY <1>1, <1>2, <1>3, <1>4, <2>1, <2>2 DEF LoginFits
<1>5. CASE /\ eng.login = "SESSION_REQUESTED" /\ Head(down) # LoggedIn
           /\ e = eng /\ output = <<>> /\ ~reset
  <2>1. ~Found(output, Odd) /\ ~Found(output, SessionRequests)
    BY <1>5, FoundNone
  <2>2. srv.bound => Behind(Tail(dn))
    BY <1>1, <1>5, BehindKept
  <2> QED
    BY <1>1, <1>2, <1>3, <1>5, <2>1, <2>2 DEF LoginFits
<1>6. CASE /\ eng.login = "SESSION_REQUESTED" /\ e.login = "none" /\ e.queued = <<>>
           /\ e.state = IF eng.state = "OPENING" THEN "OPEN" ELSE eng.state
           /\ output = eng.queued /\ ~reset
  <2>1. ~Found(output, Odd) /\ ~Found(e.queued, Odd)
    BY <1>1, <1>6, FoundNone
  <2> QED
    BY <1>1, <1>2, <1>3, <1>6, <2>1 DEF LoginFits
<1> QED
  BY <1>4, <1>5, <1>6 DEF Moves

\* The login reads a stanza.
LEMMA ParseLoginKept ==
    ASSUME XmppInv, ServedInv, KeptInv, ParseLogin
    PROVE  KeptInv'
<1>1. /\ eng \in Engines /\ Parsing /\ eng.login # "none" /\ ~eng.error /\ ~input.reset
      /\ UNCHANGED <<pool, accepted, pending>>
  BY KeptFacts DEF ParseLogin
<1>2. PICK e \in Engines, output \in Seq(Stanzas), reset \in BOOLEAN :
          Parse(e, output, reset) /\ Moves(e, output, reset)
  BY <1>1, LoginMoves DEF SomeMove
<1>3. /\ eng' = e /\ down # <<>> /\ down \in Seq(Read)
      /\ input'.output = input.output \o output /\ input'.reset = (input.reset \/ reset)
      /\ input.output \in Seq(Stanzas) /\ eng.state \in {"OPENING", "OPEN"}
      /\ UNCHANGED <<lost, server>>
  BY <1>1, <1>2, ParseFacts
<1>4. CASE e.state = "CLOSED"
  BY <1>3, <1>4, ClosedKept
<1>5. CASE e.state # "CLOSED"
  <2>1. ASSUME Going, LoginFits(eng, input, up, down, server)
        PROVE  /\ LoginFits(e, input', up, Tail(down), server)
               /\ e.state # eng.state => Before(eng, input)
    <3>1. /\ LoginFits(e, input', up, Tail(down), server)
          /\ e.state # eng.state => eng.state = "OPENING"
      BY <1>1, <1>2, <1>3, <1>5, <2>1, LoginStep
    <3> QED
      BY <3>1 DEF Before
  <2> QED
    BY <1>1, <1>2, <1>3, <1>5, <2>1, LoginKept
<1> QED
  BY <1>4, <1>5

\* What comes after an error, or before the parser was reset, is not read: the
\* first after the end, the second while the login runs.
LEMMA ParseIgnoredKept ==
    ASSUME XmppInv, ServedInv, KeptInv, ParseIgnored
    PROVE  KeptInv'
<1>1. /\ eng \in Engines /\ Parsing /\ Parse(eng, <<>>, FALSE)
      /\ eng.error \/ input.reset
      /\ UNCHANGED <<pool, accepted, pending>>
  BY KeptFacts DEF ParseIgnored
<1>2. /\ eng' = eng /\ down # <<>> /\ down \in Seq(Read)
      /\ input'.output = input.output \o <<>> /\ input'.reset = (input.reset \/ FALSE)
      /\ input.output \in Seq(Stanzas)
      /\ eng.error => eng.state = "CLOSED"
      /\ UNCHANGED <<lost, server>>
  BY <1>1, ParseFacts
<1>3. input'.output = input.output /\ (input'.reset <=> input.reset)
  BY <1>2, NoneAdded
<1>4. CASE ~Going
  BY <1>2, <1>4 DEF KeptInv, Going
<1>5. CASE Going
  <2>1. LoginFits(eng, input, up, down, server) /\ input.reset
    BY <1>1, <1>2, <1>5 DEF KeptInv, Going
  <2>2. eng.login = "STREAMSTART_SENT"
    BY <2>1 DEF LoginFits
  <2>3. LoginFits(eng, input', up, down, server)
    BY <1>3, <2>1, <2>2 DEF LoginFits
  <2>4. LoginFits(eng, input', up, Tail(down), server)
    BY <1>2, <2>2, <2>3, LoginLess
  <2>5. <<>> \in Seq(Stanzas) /\ FALSE \in BOOLEAN
    OBVIOUS
  <2> QED
    BY <1>1, <2>2, <2>4, <2>5, LoginKept
<1> QED
  BY <1>4, <1>5

\* The stream ends.
LEMMA ParseEndKept ==
    ASSUME XmppInv, ServedInv, KeptInv, ParseEnd
    PROVE  KeptInv'
<1>1. eng \in Engines
  BY KeptFacts
<1>2. /\ eng' = [eng EXCEPT !.state = "CLOSED", !.error = TRUE]
      /\ UNCHANGED <<lost, server>>
  BY DEF ParseEnd, Parse
<1>3. eng'.state = "CLOSED"
  BY <1>1, <1>2 DEF Engines
<1> QED
  BY <1>2, <1>3, ClosedKept

\* What reading one stanza does to a question it does not answer, ...
LEMMA QuestionLess ==
    ASSUME NEW r, NEW pend, NEW dn \in Seq(Read), dn # <<>>, NEW srv, NEW p, NEW heard,
           Question(r, pend, dn, srv, p, heard), Head(dn) \notin AnswersTo(r)
    PROVE  Question(r, pend, Tail(dn), srv, p, heard)
<1> DEFINE a == Tail(dn)
<1>1. /\ Found(a, AnswersTo(r)) <=> Found(dn, AnswersTo(r))
      /\ Once(dn, AnswersTo(r)) => Once(a, AnswersTo(r))
  BY FoundTail
<1>2. Given(dn, r, srv.answer[r]) => Given(a, r, srv.answer[r])
  BY GivenKept
<1> HIDE DEF a
<1>3. Question(r, pend, a, srv, p, heard)
  BY <1>1, <1>2 DEF Question, Stage
<1> QED
  BY <1>3 DEF a

\* ... and what it does to a delivery it is not.
LEMMA DeliveredLess ==
    ASSUME NEW i, NEW dn \in Seq(Read), dn # <<>>, NEW srv, NEW p, NEW acc,
           Delivered(i, dn, srv, p, acc), Head(dn) \notin RequestOf(i)
    PROVE  Delivered(i, Tail(dn), srv, p, acc)
<1> DEFINE a == Tail(dn)
<1>1. /\ Found(a, RequestOf(i)) <=> Found(dn, RequestOf(i))
      /\ Once(dn, RequestOf(i)) => Once(a, RequestOf(i))
  BY FoundTail
<1> HIDE DEF a
<1>2. Delivered(i, a, srv, p, acc)
  BY <1>1 DEF Delivered, Place
<1> QED
  BY <1>2 DEF a

\* A stanza in the queue of a task changes nothing for the others.
LEMMA QueuedSame ==
    ASSUME NEW p \in Pools, NEW t \in Task, NEW s \in Takes(t),
           NEW q, q = [p EXCEPT !.of[t].inbox = Append(@, s)]
    PROVE  /\ q \in Pools /\ q.handlers = p.handlers
           /\ q.of[t].inbox = Append(p.of[t].inbox, s)
           /\ q.of[t].state = p.of[t].state /\ q.of[t].done = p.of[t].done
           /\ \A u \in Task : u # t => Same(p, q, u)
           /\ p.of[t].inbox \in Seq(Stanzas)
<1>1. DOMAIN p.of = Task /\ p.of[t] \in TaskRecord(t)
  BY PoolFields
<1>2. q \in Pools
  BY QueueKeeps
<1>3. /\ q.handlers = p.handlers
      /\ q.of[t].inbox = Append(p.of[t].inbox, s)
      /\ q.of[t].state = p.of[t].state /\ q.of[t].done = p.of[t].done
      /\ \A u \in Task : u # t => q.of[u] = p.of[u]
  BY <1>1 DEF Pools, TaskRecord
<1>4. Takes(t) \subseteq Stanzas /\ p.of[t].inbox \in Seq(Takes(t))
  BY TaskFields DEF Takes
<1>5. p.of[t].inbox \in Seq(Stanzas)
  BY <1>4
<1> QED
  BY <1>2, <1>3, <1>5 DEF Same

\* The session manager's task takes a peer's request.
LEMMA ReadRequest ==
    ASSUME NEW p \in Pools, NEW dn \in Seq(Read), dn # <<>>,
           Head(dn) \in Takes("manager"),
           NEW pend, NEW srv, NEW acc, NEW heard,
           Carries(pend, dn, srv, p, acc, heard),
           NEW q, q = [p EXCEPT !.of["manager"].inbox = Append(@, Head(dn))]
    PROVE  Carries(pend, Tail(dn), srv, q, acc, heard)
<1> DEFINE s == Head(dn)
           b == p.of["manager"].inbox
           a == Tail(dn)
<1>1. /\ "manager" \in Task /\ Requests \subseteq Task /\ Incoming \subseteq Task
      /\ "manager" \notin Incoming /\ "manager" \notin Requests
      /\ "manager" \notin SendTasks
  BY Clients
<1>2. s \in Stanzas /\ s.kind = "set" /\ s.id \in Incoming
  BY <1>1 DEF Takes
<1>3. /\ q.of["manager"].inbox = Append(b, s) /\ b \in Seq(Stanzas)
      /\ q.of["manager"].done = p.of["manager"].done
      /\ \A u \in Task : u # "manager" => Same(p, q, u)
  BY <1>1, QueuedSame
<1>4. ~q.of["manager"].done
  BY <1>3 DEF Carries
<1>5. ASSUME NEW r \in Requests PROVE Question(r, pend, a, srv, q, heard)
  <2>1. Question(r, pend, dn, srv, p, heard) /\ s \notin AnswersTo(r)
    BY <1>2 DEF Carries, AnswersTo, Replies
  <2>2. Question(r, pend, a, srv, p, heard)
    BY <2>1, QuestionLess
  <2> HIDE DEF a
  <2>3. Same(p, q, r)
    BY <1>1, <1>3
  <2> QED
    BY <2>2, <2>3, QuestionSame
<1>6. ASSUME NEW i \in Incoming PROVE Delivered(i, a, srv, q, acc)
  <2>1. Delivered(i, dn, srv, p, acc) /\ q.of[i].state = p.of[i].state
    BY <1>1, <1>3 DEF Carries, Same
  <2> DEFINE queued == Found(b, RequestOf(i))
             c == Append(b, s)
  <2>2. Place(i \in srv.sent, Found(dn, RequestOf(i)), queued, q.of[i].state # "NONE",
              i \in acc) /\ Once(b, RequestOf(i)) /\ Once(dn, RequestOf(i))
    BY <2>1 DEF Delivered
  <2>3. /\ Found(dn, RequestOf(i)) <=> s \in RequestOf(i) \/ Found(a, RequestOf(i))
        /\ Once(dn, RequestOf(i)) => Once(a, RequestOf(i))
        /\ Once(dn, RequestOf(i)) /\ s \in RequestOf(i) => ~Found(a, RequestOf(i))
    BY FoundTail
  <2>4. /\ Found(c, RequestOf(i)) <=> Found(b, RequestOf(i)) \/ s \in RequestOf(i)
        /\ Once(b, RequestOf(i)) /\ (s \in RequestOf(i) => ~Found(b, RequestOf(i)))
             => Once(c, RequestOf(i))
    BY <1>2, <1>3, FoundAppend
  <2>5. q.of["manager"].inbox = c
    BY <1>3
  <2> HIDE DEF a, b, c, s
  <2>6. /\ Place(i \in srv.sent, Found(a, RequestOf(i)), Found(c, RequestOf(i)),
                 q.of[i].state # "NONE", i \in acc)
        /\ Once(c, RequestOf(i)) /\ Once(a, RequestOf(i))
    BY <2>2, <2>3, <2>4 DEF Place
  <2> QED
    BY <2>5, <2>6 DEF Delivered
<1> HIDE DEF a
<1>7. Carries(pend, a, srv, q, acc, heard)
  BY <1>4, <1>5, <1>6 DEF Carries
<1> QED
  BY <1>7 DEF a

\* A task takes the answer to its request.
LEMMA ReadAnswer ==
    ASSUME NEW p \in Pools, NEW dn \in Seq(Read), dn # <<>>,
           NEW t \in SendTasks, Head(dn) \in Takes(t), ~p.of[t].done,
           NEW pend, NEW srv, NEW acc, NEW heard,
           Carries(pend, dn, srv, p, acc, heard),
           NEW q, q = [p EXCEPT !.of[t].inbox = Append(@, Head(dn))]
    PROVE  Carries(pend, Tail(dn), srv, q, acc, heard)
<1> DEFINE s == Head(dn)
           a == Tail(dn)
<1>1. /\ t \in Task /\ "manager" \in Task /\ Requests \subseteq Task
      /\ Incoming \subseteq Task /\ t # "manager"
  BY Clients DEF Task
<1>2. s \in Stanzas /\ s.kind \in Replies /\ s.id = t
  BY <1>1 DEF Takes, Replies
<1>3. /\ q.of[t].inbox = Append(p.of[t].inbox, s) /\ p.of[t].inbox \in Seq(Stanzas)
      /\ q.of[t].done = p.of[t].done /\ q.of[t].state = p.of[t].state
      /\ q.handlers = p.handlers
      /\ \A u \in Task : u # t => Same(p, q, u)
  BY SMTT(60), <1>1, QueuedSame
<1>4. ~q.of["manager"].done
  BY <1>1, <1>3 DEF Carries, Same
<1>5. ASSUME NEW r \in Requests PROVE Question(r, pend, a, srv, q, heard)
  <2>1. Question(r, pend, dn, srv, p, heard)
    BY DEF Carries
  <2>2. CASE r # t
    <3>1. s \notin AnswersTo(r)
      BY <1>2, <2>2 DEF AnswersTo
    <3>2. Question(r, pend, a, srv, p, heard)
      BY <2>1, <3>1, QuestionLess
    <3> HIDE DEF a
    <3>3. Same(p, q, r)
      BY <1>1, <1>3, <2>2
    <3> QED
      BY <3>2, <3>3, QuestionSame
  <2>3. CASE r = t
    <3> DEFINE asks == Found(pend, RequestOf(r))
    <3>1. /\ Once(pend, RequestOf(r)) /\ Once(dn, AnswersTo(r))
          /\ Given(dn, r, srv.answer[r])
          /\ Stage(asks, r \in srv.asked, Found(dn, AnswersTo(r)), srv.answer[r], p.of[r],
                   r \in p.handlers, heard[r])
      BY <2>1 DEF Question
    <3>2. s \in AnswersTo(r)
      BY <1>2, <2>3 DEF AnswersTo
    <3>3. /\ Found(dn, AnswersTo(r)) /\ Once(a, AnswersTo(r)) /\ ~Found(a, AnswersTo(r))
          /\ Given(a, r, srv.answer[r]) /\ s.kind = srv.answer[r]
      BY <3>1, <3>2, FoundTail, GivenKept
    <3> HIDE DEF asks, a, s
    <3>4. /\ ~asks /\ r \notin srv.asked /\ srv.answer[r] # "none"
          /\ p.of[r].state = "RESPONSE" /\ r \in p.handlers /\ p.of[r].inbox = <<>>
      BY <3>1, <3>3 DEF Stage
    <3>5. q.of[r].inbox # <<>> /\ Head(q.of[r].inbox) = s
      <4>1. q.of[r].inbox = Append(<<>>, s)
        BY <1>3, <2>3, <3>4
      <4>2. Append(<<>>, s) # <<>> /\ Head(Append(<<>>, s)) = s
        BY <1>2
      <4> QED
        BY <4>1, <4>2
    <3>6. ~q.of[r].done /\ q.of[r].state = "RESPONSE"
      BY <1>3, <2>3, <3>4
    <3>7. Stage(asks, r \in srv.asked, Found(a, AnswersTo(r)), srv.answer[r], q.of[r],
                r \in q.handlers, heard[r])
      BY <3>3, <3>4, <3>5, <3>6 DEF Stage
    <3> QED
      BY <3>1, <3>3, <3>7 DEF Question, asks
  <2> QED
    BY <2>2, <2>3
<1>6. ASSUME NEW i \in Incoming PROVE Delivered(i, a, srv, q, acc)
  <2>1. Delivered(i, dn, srv, p, acc) /\ s \notin RequestOf(i)
    BY <1>2 DEF Carries, RequestOf, Replies
  <2>2. Delivered(i, a, srv, p, acc)
    BY <2>1, DeliveredLess
  <2> HIDE DEF a
  <2>3. Same(p, q, "manager") /\ q.of[i].state = p.of[i].state
    BY <1>1, <1>3 DEF Same
  <2> QED
    BY <2>2, <2>3, DeliveredSame
<1> HIDE DEF a
<1>7. Carries(pend, a, srv, q, acc, heard)
  BY <1>4, <1>5, <1>6 DEF Carries
<1> QED
  BY <1>7 DEF a

\* The engine refuses a peer's request.
LEMMA RefuseCarries ==
    ASSUME NEW p \in Pools, NEW dn \in Seq(Read), dn # <<>>, NEW i \in Incoming,
           Head(dn) \in RequestOf(i), NEW s \in Stanzas, s.kind # "set",
           NEW pend \in Seq(Stanzas), NEW srv, NEW acc, NEW heard,
           Carries(pend, dn, srv, p, acc, heard)
    PROVE  Carries(Append(pend, s), Tail(dn), srv, p, acc \cup {i}, heard)
<1> DEFINE a == Tail(dn)
           b == Append(pend, s)
<1>1. ASSUME NEW r \in Requests PROVE Question(r, b, a, srv, p, heard)
  <2>1. Question(r, pend, dn, srv, p, heard) /\ Head(dn) \notin AnswersTo(r)
    BY DEF Carries, RequestOf, AnswersTo, Replies
  <2>2. Question(r, pend, a, srv, p, heard)
    BY <2>1, QuestionLess
  <2>3. s \notin RequestOf(r)
    BY DEF RequestOf
  <2>4. /\ Found(b, RequestOf(r)) <=> Found(pend, RequestOf(r))
        /\ Once(pend, RequestOf(r)) => Once(b, RequestOf(r))
    BY <2>3, FoundAppend
  <2> HIDE DEF a, b
  <2> QED
    BY <2>2, <2>4 DEF Question, Stage
<1>2. ASSUME NEW j \in Incoming PROVE Delivered(j, a, srv, p, acc \cup {i})
  <2>1. Delivered(j, dn, srv, p, acc)
    BY DEF Carries
  <2>2. CASE j # i
    <3>1. Head(dn) \notin RequestOf(j)
      BY <2>2 DEF RequestOf
    <3>2. Delivered(j, a, srv, p, acc)
      BY <2>1, <3>1, DeliveredLess
    <3> HIDE DEF a
    <3>3. j \in acc <=> j \in acc \cup {i}
      BY <2>2
    <3> QED
      BY <3>2, <3>3 DEF Delivered, Place
  <2>3. CASE j = i
    <3>1. /\ Found(dn, RequestOf(j)) /\ (Once(dn, RequestOf(j)) => Once(a, RequestOf(j)))
          /\ Once(dn, RequestOf(j)) => ~Found(a, RequestOf(j))
      BY <2>3, FoundTail
    <3> HIDE DEF a
    <3> QED
      BY <2>1, <2>3, <3>1 DEF Delivered, Place
  <2> QED
    BY <2>2, <2>3
<1> HIDE DEF a, b
<1>3. Carries(b, a, srv, p, acc \cup {i}, heard)
  BY <1>1, <1>2 DEF Carries
<1> QED
  BY <1>3 DEF a, b

\* A stanza that is read once the login is over.
LEMMA TaskReads ==
    ASSUME NEW e, NEW in, NEW in2, NEW u, NEW dn \in Seq(Read), dn # <<>>, NEW srv,
           LoginFits(e, in, u, dn, srv), e.login = "none",
           in.output \in Seq(Stanzas), NEW out \in Seq(Stanzas),
           ~Found(out, SessionRequests), ~Found(out, Odd),
           in2.output = in.output \o out, in2.reset => in.reset
    PROVE  LoginFits(e, in2, u, Tail(dn), srv)
<1>1. ~Found(dn, Carried) => ~Found(Tail(dn), Carried)
  BY FoundTail
<1>2. \A S : Found(in2.output, S) <=> Found(in.output, S) \/ Found(out, S)
  BY FoundConcat
<1> QED
  BY <1>1, <1>2 DEF LoginFits

\* A stanza is read once the login is over.
LEMMA ParseStanzaKept ==
    ASSUME XmppInv, ServedInv, KeptInv, ParseStanza
    PROVE  KeptInv'
<1>1. /\ pool \in Pools /\ down \in Seq(Read) /\ pending \in Seq(Stanzas)
      /\ \A t \in pool.handlers : t \in Children /\ ~pool.of[t].done
      /\ server \in Servers
  BY KeptFacts
<1>2. /\ Parsing /\ eng.login = "none" /\ ~eng.error /\ ~input.reset
  BY DEF ParseStanza
<1>3. PICK out :
        /\ Parse(eng, out, FALSE)
        /\ \/ /\ out = <<>> /\ UNCHANGED <<accepted, pending>>
              /\ \/ \E t \in HandlerOf(Head(down)) :
                       pool' = QueueStanza(pool, t, Head(down))
                 \/ /\ HandlerOf(Head(down)) = {} /\ UNCHANGED pool
                    /\ ~(Head(down).kind = "set" /\ eng.state # "CLOSED")
           \/ /\ out = <<Stanza("error", Head(down).id)>> /\ Head(down).kind = "set"
              /\ accepted' = accepted \cup {Head(down).id}
              /\ pending' = Append(pending, Stanza("error", Head(down).id))
              /\ UNCHANGED pool
  BY DEF ParseStanza
<1> DEFINE s == Head(down)
<1>4. /\ eng' = eng /\ down' = Tail(down) /\ down # <<>> /\ s \in Read
      /\ input'.entry = input.entry /\ input'.output = input.output \o out
      /\ input'.reset = (input.reset \/ FALSE) /\ input.output \in Seq(Stanzas)
      /\ UNCHANGED <<up, lost, server, told>>
  BY <1>2, <1>3, ParseFacts
<1>5. CASE ~Going
  BY <1>1, <1>4, <1>5 DEF KeptInv, Going
<1>6. CASE Going
  <2>1. /\ LoginFits(eng, input, up, down, server)
        /\ Before(eng, input) => NoTasks(pool)
        /\ Carries(pending, down, server, pool, accepted, told)
    BY <1>6 DEF KeptInv
  <2>2. s.kind \in {"set", "result", "error"} => s \in Stanzas
    BY <1>4 DEF Read, Offered
  <2>3. ASSUME out \in Seq(Stanzas), ~Found(out, SessionRequests), ~Found(out, Odd),
               Before(eng, input) => NoTasks(pool'),
               Carries(pending', Tail(down), server, pool', accepted', told)
        PROVE  KeptInv'
    <3>1. LoginFits(eng, input', up, Tail(down), server)
      BY <1>1, <1>2, <1>4, <2>1, <2>3, TaskReads
    <3>2. Before(eng, input') => NoTasks(pool')
      BY <1>4, <2>3 DEF Before
    <3> QED
      BY <1>1, <1>4, <2>3, <3>1, <3>2 DEF KeptInv
  <2>4. <<>> \in Seq(Stanzas) /\ ~Found(<<>>, SessionRequests) /\ ~Found(<<>>, Odd)
    BY FoundNone
  <2>5. CASE /\ out = <<>> /\ UNCHANGED <<accepted, pending>>
             /\ \E t \in HandlerOf(s) : pool' = QueueStanza(pool, t, s)
    <3>1. PICK t \in HandlerOf(s) : pool' = QueueStanza(pool, t, s)
      BY <2>5
    <3>2. /\ t \in pool.handlers /\ t \in Task /\ ~pool.of[t].done
          /\ s.kind \in {"set", "result", "error"}
          /\ t = "manager" \/ t \in SendTasks
      BY <1>1 DEF HandlerOf, Task
    <3>3. s \in Takes(t)
      BY <1>4, <2>2, <3>2 DEF HandlerOf, Takes, Read, Offered
    <3> DEFINE q == [pool EXCEPT !.of[t].inbox = Append(@, s)]
    <3>4. pool' = Wake(q, t)
      BY <3>1 DEF QueueStanza
    <3>5. q \in Pools
      BY <1>1, <3>2, <3>3, QueuedSame
    <3>6. Carries(pending, Tail(down), server, q, accepted, told)
      <4>1. CASE t = "manager"
        BY <1>1, <1>4, <2>1, <3>3, <4>1, ReadRequest
      <4>2. CASE t \in SendTasks
        BY <1>1, <1>4, <2>1, <3>2, <3>3, <4>2, ReadAnswer
      <4> QED
        BY <3>2, <4>1, <4>2
    <3> HIDE DEF q
    <3>7. \A u \in Children : Same(q, pool', u)
      BY <3>2, <3>4, <3>5, WakeSame
    <3>8. Carries(pending, Tail(down), server, pool', accepted, told)
      BY <3>6, <3>7, CarriesSame
    <3>9. ~Before(eng, input)
      BY <2>1, <3>2 DEF NoTasks
    <3> QED
      BY <2>3, <2>4, <2>5, <3>8, <3>9
  <2>6. CASE /\ out = <<>> /\ UNCHANGED <<accepted, pending>>
             /\ HandlerOf(s) = {} /\ UNCHANGED pool /\ s.kind # "set"
    <3>1. s \notin Carried
      <4>1. SUFFICES ASSUME s \in Carried PROVE FALSE
        OBVIOUS
      <4>2. s.kind \in Replies /\ s.id \in Requests /\ s \in AnswersTo(s.id)
        BY <2>6, <4>1 DEF Carried, AnswersTo
      <4>3. Question(s.id, pending, down, server, pool, told)
        BY <2>1, <4>2 DEF Carries
      <4>4. Found(down, AnswersTo(s.id))
        BY <1>1, <1>4, <4>2, FoundTail
      <4>5. s.id \in pool.handlers
        BY <4>3, <4>4 DEF Question, Stage
      <4>6. s.id \in HandlerOf(s)
        BY <4>2, <4>5 DEF HandlerOf, Replies, SendTasks
      <4> QED
        BY <2>6, <4>6
    <3>2. Carries(pending, Tail(down), server, pool, accepted, told)
      BY <1>1, <1>4, <2>1, <3>1, CarriesLess
    <3> QED
      BY <2>1, <2>3, <2>4, <2>6, <3>2
  <2>7. CASE /\ out = <<Stanza("error", s.id)>> /\ s.kind = "set"
             /\ accepted' = accepted \cup {s.id}
             /\ pending' = Append(pending, Stanza("error", s.id))
             /\ UNCHANGED pool
    <3>1. s.id \in Incoming /\ s \in RequestOf(s.id)
      BY <1>4, <2>2, <2>7 DEF Read, Offered, RequestOf
    <3> DEFINE x == Stanza("error", s.id)
    <3>2. x \in Stanzas /\ x.kind = "error"
      BY <3>1, SentStanzas DEF SendTasks, Stanza
    <3>3. x \notin SessionRequests /\ x \notin Odd /\ x.kind # "set"
      BY <3>2 DEF SessionRequests, Odd
    <3> HIDE DEF x
    <3>4. Carries(Append(pending, x), Tail(down), server, pool, accepted \cup {s.id}, told)
      BY <1>1, <1>4, <2>1, <3>1, <3>2, <3>3, RefuseCarries
    <3>5. out = <<x>> /\ pending' = Append(pending, x)
      BY <2>7 DEF x
    <3>6. out \in Seq(Stanzas) /\ ~Found(out, SessionRequests) /\ ~Found(out, Odd)
      BY <3>2, <3>3, <3>5, FoundOne
    <3> QED
      BY <2>1, <2>3, <2>7, <3>4, <3>5, <3>6
  <2> QED
    BY <1>3, <1>6, <2>5, <2>6, <2>7 DEF Going
<1> QED
  BY <1>5, <1>6

\* The session manager's task starts, with nothing in its queue.
LEMMA ManagerStarts ==
    ASSUME NEW p, NoTasks(p), NEW q, q.of["manager"] = NewTask,
           \A u \in Task : u # "manager" => Same(p, q, u),
           NEW pend, NEW dn, NEW srv, NEW acc, NEW heard,
           Carries(pend, dn, srv, p, acc, heard)
    PROVE  Carries(pend, dn, srv, q, acc, heard)
<1>1. /\ "manager" \in Children /\ Requests \subseteq Task /\ Incoming \subseteq Task
      /\ "manager" \notin Incoming /\ "manager" \notin Requests
  BY Clients
<1>2. p.of["manager"].inbox = <<>> /\ q.of["manager"].inbox = <<>>
      /\ ~q.of["manager"].done
  BY <1>1 DEF NoTasks, NewTask
<1>3. ASSUME NEW r \in Requests PROVE Question(r, pend, dn, srv, q, heard)
  <2>1. Question(r, pend, dn, srv, p, heard) /\ Same(p, q, r)
    BY <1>1 DEF Carries
  <2> QED
    BY <2>1, QuestionSame
<1>4. ASSUME NEW i \in Incoming PROVE Delivered(i, dn, srv, q, acc)
  <2>1. Delivered(i, dn, srv, p, acc) /\ q.of[i].state = p.of[i].state
    BY <1>1 DEF Carries, Same
  <2> QED
    BY <1>2, <2>1 DEF Delivered, Place
<1> QED
  BY <1>2, <1>3, <1>4 DEF Carries

\* HandleInput comes to its end.
LEMMA InputDoneKept ==
    ASSUME XmppInv, ServedInv, KeptInv, HandleInputDone
    PROVE  KeptInv'
<1>1. /\ pool \in Pools /\ input \in Inputs /\ eng \in Engines /\ up \in Seq(Stanzas)
      /\ server \in Servers /\ "client" \in Task /\ "manager" \in Children
      /\ input.output \in Seq(Stanzas) /\ input.entry \in {"OPENING", "OPEN"}
  BY KeptFacts, Clients DEF HandleInputDone, Inputs
<1>2. /\ Leave(eng, input.entry, input.output, sock, pool) /\ input' = NoInput
      /\ UNCHANGED <<down, lost, server, accepted, pending, told>>
  BY DEF HandleInputDone
<1>3. eng' = eng
  BY <1>2 DEF Leave
<1>4. CASE ~Going
  BY <1>1, <1>2, <1>3, <1>4 DEF KeptInv, Going
<1>5. CASE Going
  <2>1. /\ LoginFits(eng, input, up, down, server)
        /\ Before(eng, input) => NoTasks(pool)
        /\ Carries(pending, down, server, pool, accepted, told)
        /\ ~lost /\ eng.state # "CLOSED"
    BY <1>5 DEF KeptInv, Going
  <2>2. up' = up \o input.output
    BY <1>2, <2>1 DEF Leave
  <2>3. LoginFits(eng, NoInput, up', down, server)
    <3>1. \A S : Found(up', S) <=> Found(up, S) \/ Found(input.output, S)
      BY <1>1, <2>2, FoundConcat
    <3>2. NoInput.output = <<>> /\ NoInput.reset = FALSE
      BY DEF NoInput
    <3>3. \A S : ~Found(NoInput.output, S)
      BY <3>2, FoundNone
    <3> QED
      BY <2>1, <3>1, <3>2, <3>3 DEF LoginFits
  <2>4. NoInput.entry # "OPENING"
    BY DEF NoInput
  <2>5. CASE eng.state = input.entry
    <3>1. pool' = pool
      BY <1>2, <2>5 DEF Leave
    <3>2. Before(eng, NoInput) => NoTasks(pool')
      BY <2>1, <2>4, <3>1 DEF Before
    <3> QED
      BY <1>1, <1>2, <1>3, <2>1, <2>3, <3>1, <3>2 DEF KeptInv
  <2>6. CASE eng.state # input.entry /\ eng.state # "OPEN"
    <3>1. pool' = Wake(pool, "client")
      BY <1>2, <2>1, <2>6 DEF Leave, OnStateChange
    <3>2. /\ \A u \in Children : Same(pool, pool', u)
          /\ pool'.handlers = pool.handlers
      BY <1>1, <3>1, WakeSame
    <3>3. Carries(pending, down, server, pool', accepted, told)
      BY <2>1, <3>2, CarriesSame
    <3>4. NoTasks(pool')
      BY <2>1, <2>6, <3>2, NoTasksSame DEF Before
    <3> QED
      BY <1>1, <1>2, <1>3, <2>3, <3>3, <3>4 DEF KeptInv
  <2>7. CASE eng.state # input.entry /\ eng.state = "OPEN"
    <3> DEFINE q == Launch(pool, eng, "manager")
    <3>1. pool' = Wake(q, "client")
      BY <1>2, <2>1, <2>7 DEF Leave, OnStateChange
    <3>2. NoTasks(pool)
      BY <1>1, <2>1, <2>7 DEF Before
    <3>3. /\ q \in Pools /\ q.of["manager"] = NewTask
          /\ \A u \in Task : u # "manager" => Same(pool, q, u)
      BY <1>1, <2>1, LaunchSame
    <3> HIDE DEF q
    <3>4. Carries(pending, down, server, q, accepted, told)
      BY <1>1, <2>1, <3>2, <3>3, ManagerStarts
    <3>5. \A u \in Children : Same(q, pool', u)
      BY <1>1, <3>1, <3>3, WakeSame
    <3>6. Carries(pending, down, server, pool', accepted, told)
      BY <3>4, <3>5, CarriesSame
    <3>7. ~Before(eng, NoInput)
      BY <2>4, <2>7 DEF Before
    <3> QED
      BY <1>1, <1>2, <1>3, <2>3, <3>6, <3>7 DEF KeptInv
  <2> QED
    BY <2>5, <2>6, <2>7
<1> QED
  BY <1>4, <1>5

\* The parser keeps the invariant.
LEMMA ParserKept ==
    ASSUME XmppInv, ServedInv, KeptInv, Parser
    PROVE  KeptInv'
  BY ParseIgnoredKept, ParseEndKept, ParseLoginKept, ParseStanzaKept,
     InputDoneKept DEF Parser

\* Every step keeps the invariant.
LEMMA StepKept ==
    XmppInv /\ ServedInv /\ KeptInv /\ [Next]_vars => KeptInv'
<1> SUFFICES ASSUME XmppInv, ServedInv, KeptInv, [Next]_vars PROVE KeptInv'
  OBVIOUS
<1>1. CASE UNCHANGED vars
  BY <1>1 DEF vars, KeptInv, Going
<1>2. CASE Next
  BY <1>2, PumpKept, StepsKept, ParserKept, SocketsKept, ServerKept DEF Next
<1> QED
  BY <1>1, <1>2

\* What the tasks wait for is where the invariant says, so none of it is lost.
LEMMA KeptMeans ==
    ASSUME XmppInv, ServedInv, KeptInv
    PROVE  NothingIsDropped
<1> DEFINE Unread == {down[n].id : n \in 1..Len(down)}
           Waiting(t) == {pool.of[t].inbox[n].id : n \in 1..Len(pool.of[t].inbox)}
<1>1. SUFFICES ASSUME ~lost, eng.state = "OPEN"
      PROVE  /\ \A r \in Requests :
                server.answer[r] = "none" \/ r \in Unread
                \/ r \in Waiting(r) \/ told[r] = server.answer[r]
             /\ \A i \in server.sent \ Unread :
                Cardinality({s \in {"manager", "task", "refused"} :
                    \/ s = "manager" /\ i \in Waiting("manager")
                    \/ s = "task" /\ pool.of[i].state # "NONE"
                    \/ /\ s = "refused" /\ pool.of[i].state = "NONE"
                       /\ i \in accepted}) = 1
  BY DEF NothingIsDropped
<1>2. /\ Carries(pending, down, server, pool, accepted, told)
      /\ server.sent \subseteq Incoming
      /\ \A t \in Task : pool.of[t].inbox \in Seq(Takes(t))
      /\ Requests \subseteq Task /\ "manager" \in Task /\ Requests \subseteq SendTasks
      /\ "manager" \notin SendTasks
  BY <1>1, KeptFacts, Clients DEF KeptInv, Going, Servers
<1>3. ASSUME NEW r \in Requests
      PROVE  server.answer[r] = "none" \/ r \in Unread
             \/ r \in Waiting(r) \/ told[r] = server.answer[r]
  <2>1. Question(r, pending, down, server, pool, told)
    BY <1>2 DEF Carries
  <2>2. CASE Found(down, AnswersTo(r))
    BY <2>2 DEF Found, AnswersTo
  <2>3. CASE ~Found(down, AnswersTo(r)) /\ pool.of[r].inbox # <<>>
    <3>1. 1 \in 1..Len(pool.of[r].inbox) /\ pool.of[r].inbox[1] \in Takes(r)
      BY <1>2, <2>3
    <3>2. pool.of[r].inbox[1].id = r
      BY <1>2, <3>1 DEF Takes
    <3> QED
      BY <3>1, <3>2
  <2>4. CASE ~Found(down, AnswersTo(r)) /\ pool.of[r].inbox = <<>>
    BY <2>1, <2>4 DEF Question, Stage
  <2> QED
    BY <2>2, <2>3, <2>4
<1>4. ASSUME NEW i \in server.sent \ Unread
      PROVE  Cardinality({s \in {"manager", "task", "refused"} :
                    \/ s = "manager" /\ i \in Waiting("manager")
                    \/ s = "task" /\ pool.of[i].state # "NONE"
                    \/ /\ s = "refused" /\ pool.of[i].state = "NONE"
                       /\ i \in accepted}) = 1
  <2> DEFINE queued == Found(pool.of["manager"].inbox, RequestOf(i))
             started == pool.of[i].state # "NONE"
             W == i \in Waiting("manager")
  <2>1. Place(i \in server.sent, Found(down, RequestOf(i)), queued, started, i \in accepted)
    BY <1>2, <1>4 DEF Carries, Delivered
  <2>2. ~Found(down, RequestOf(i))
    BY <1>4 DEF Found, RequestOf
  <2>3. W <=> queued
    <3>1. ASSUME NEW n \in 1..Len(pool.of["manager"].inbox)
          PROVE  /\ pool.of["manager"].inbox[n] \in Stanzas
                 /\ pool.of["manager"].inbox[n].kind = "set"
      <4>1. pool.of["manager"].inbox[n] \in Takes("manager")
        BY <1>2
      <4> QED
        BY <1>2, <4>1 DEF Takes
    <3> QED
      BY <3>1 DEF Found, RequestOf
  <2> HIDE DEF queued, started, W
  <2>4. /\ queued \/ started \/ i \in accepted
        /\ queued => ~started /\ i \notin accepted
    BY <1>4, <2>1, <2>2 DEF Place
  <2> DEFINE S == {s \in {"manager", "task", "refused"} :
                      \/ s = "manager" /\ W
                      \/ s = "task" /\ started
                      \/ s = "refused" /\ ~started /\ i \in accepted}
  <2>5. S = {IF queued THEN "manager" ELSE IF started THEN "task" ELSE "refused"}
    BY <2>3, <2>4
  <2>6. Cardinality(S) = 1
    BY <2>5, FS_Singleton
  <2> QED
    BY <2>6 DEF S, W, started
<1> QED
  BY <1>3, <1>4

\* While the session is open, what was read for a task is told, waits for its
\* task, has its task, or was refused.
THEOREM NothingIsLost == Spec => []NothingIsDropped
<1>1. Init => XmppInv /\ ServedInv /\ KeptInv
  BY InitHolds, InitServes, InitKept
<1>2. XmppInv /\ ServedInv /\ KeptInv /\ [Next]_vars
         => XmppInv' /\ ServedInv' /\ KeptInv'
  BY StepKeepsOrder, StepServesTasks, StepKept
<1>3. XmppInv /\ ServedInv /\ KeptInv => NothingIsDropped
  BY KeptMeans
<1> QED
  BY <1>1, <1>2, <1>3, PTL DEF Spec

=============================================================================
