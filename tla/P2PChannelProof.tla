-------------------------- MODULE P2PChannelProof --------------------------
(***************************************************************************)
(* Proofs about P2PChannel: for any finite set of connections, on any      *)
(* networks and with any preferences.                                      *)
(***************************************************************************)
EXTENDS P2PChannel, QueueTheorems, FiniteSetTheorems

----------------------------------------------------------------------------
(* Messages *)

Msg == {Sort} \cup {Delete(c) : c \in Connection}

LEMMA Messages ==
    /\ Sort \in Msg /\ \A c \in Connection : Delete(c) \in Msg /\ Delete(c) # Sort
    /\ \A c, d \in Connection : Delete(c) = Delete(d) => c = d
  BY DEF Msg, Sort, Delete

\* SetToSeq lists a finite set.
LEMMA SetToSeqHas ==
    ASSUME NEW S, IsFiniteSet(S)
    PROVE  /\ SetToSeq(S) \in Seq(S)
           /\ \A m : Has(SetToSeq(S), m) <=> m \in S
<1> DEFINE n == Cardinality(S)
           I(f) == f \in [1..n -> S] /\ IsInjective(f)
<1>1. n \in Nat /\ ExistsBijection(1..n, S)
  BY FS_CardinalityType
<1>2. \E f \in [1..n -> S] : IsInjective(f)
  BY <1>1 DEF ExistsBijection, Bijection, Injection
<1>3. SetToSeq(S) = CHOOSE f \in [1..n -> S] : IsInjective(f)
  BY DEF SetToSeq
<1> DEFINE s == SetToSeq(S)
<1>4. s \in [1..n -> S] /\ IsInjective(s)
  BY <1>2, <1>3
<1> HIDE DEF s
<1>5. s \in Injection(1..n, S)
  BY <1>4 DEF Injection
<1>6. IsFiniteSet(1..n) /\ Cardinality(1..n) = n
  BY <1>1, FS_Interval
<1>7. s \in Surjection(1..n, S)
  BY <1>5, <1>6, FS_Injection
<1>8. \A m \in S : \E i \in 1..n : s[i] = m
  BY <1>7 DEF Surjection
<1>9. s \in Seq(S) /\ DOMAIN s = 1..n
  BY <1>1, <1>4
<1> QED
  BY <1>4, <1>8, <1>9 DEF Has, s

----------------------------------------------------------------------------
(* Connections *)

Link == [read : BOOLEAN, write : {WRITABLE, CONNECT, TIMEOUT}, pruned : BOOLEAN,
         pinged : 0..Failures, requested : BOOLEAN, rtt : Nat]

Links(conns) ==
    DOMAIN conns \subseteq Connection /\ conns \in [DOMAIN conns -> Link]

\* Connections change, but not which there are, and none is pruned.
SameLinks(old, new) ==
    /\ Links(new) /\ DOMAIN new = DOMAIN old
    /\ \A c \in DOMAIN old : new[c].pruned = old[c].pruned

LEMMA LinksAreFinite ==
    ASSUME NEW conns, Links(conns), NEW D \in SUBSET DOMAIN conns
    PROVE  /\ IsFiniteSet(D)
           /\ Cardinality(DOMAIN conns) \in Nat
<1>1. IsFiniteSet(Connection) /\ D \in SUBSET Connection
      /\ DOMAIN conns \in SUBSET Connection
  BY P2PChannelAssumption DEF Links
<1>2. IsFiniteSet(D) /\ IsFiniteSet(DOMAIN conns)
  BY <1>1, FS_Subset
<1> QED
  BY <1>2, FS_CardinalityType

LEMMA UpdatedLinks ==
    ASSUME NEW conns, Links(conns), NEW fresh, NEW new \in Updated(conns, fresh)
    PROVE  SameLinks(conns, new)
<1> DEFINE D == DOMAIN conns
<1>1. PICK R, U, T : new = Aged(conns, R, U, T)
  BY DEF Updated
<1>2. ASSUME NEW c \in D
      PROVE  new[c] \in Link /\ new[c].pruned = conns[c].pruned
  <2>1. conns[c] \in Link
    BY DEF Links
  <2>2. conns[c].write \in {WRITABLE, CONNECT, TIMEOUT}
    BY <2>1 DEF Link
  <2> DEFINE heard == conns[c].read /\ c \notin R
             state == IF c \in T THEN TIMEOUT
                  ELSE IF c \in U THEN CONNECT ELSE conns[c].write
  <2>3. new[c] = [conns[c] EXCEPT !.read = heard, !.write = state]
    BY <1>1 DEF Aged
  <2>4. heard \in BOOLEAN
    OBVIOUS
  <2>5. state \in {WRITABLE, CONNECT, TIMEOUT}
    BY <2>2
  <2> HIDE DEF heard, state
  <2> DEFINE l == [conns[c] EXCEPT !.read = heard, !.write = state]
  <2>6. l \in Link /\ l.pruned = conns[c].pruned
    BY <2>1, <2>4, <2>5 DEF Link
  <2> HIDE DEF l
  <2>7. new[c] = l
    BY <2>3 DEF l
  <2> QED
    BY <2>6, <2>7
<1>3. DOMAIN new = D
  BY <1>1 DEF Aged
<1>4. new \in [D -> Link]
  BY <1>1, <1>2 DEF Aged
<1> QED
  BY <1>2, <1>3, <1>4 DEF SameLinks, Links

LEMMA PrunedLinks ==
    ASSUME NEW conns, Links(conns), NEW P
    PROVE  /\ Links(Prune(conns, P)) /\ DOMAIN Prune(conns, P) = DOMAIN conns
           /\ \A c \in DOMAIN conns :
                 /\ c \notin P => Prune(conns, P)[c] = conns[c]
                 /\ \/ Prune(conns, P)[c] = conns[c]
                    \/ Prune(conns, P)[c].write = TIMEOUT
<1> DEFINE D == DOMAIN conns
           Out(k) == [k EXCEPT !.pruned = TRUE, !.requested = FALSE, !.write = TIMEOUT]
           new == Prune(conns, P)
<1>1. new = [c \in D |-> IF c \in P /\ ~conns[c].pruned THEN Out(conns[c])
                         ELSE conns[c]]
  BY DEF Prune
<1>2. ASSUME NEW k \in Link PROVE Out(k) \in Link /\ Out(k).write = TIMEOUT
  BY DEF Link
<1> HIDE DEF Out, new
<1>3. ASSUME NEW c \in D
      PROVE  /\ new[c] \in Link
             /\ c \notin P => new[c] = conns[c]
             /\ new[c] = conns[c] \/ new[c].write = TIMEOUT
  <2>1. conns[c] \in Link
    BY DEF Links
  <2> QED
    BY <1>1, <1>2, <2>1
<1>4. new \in [D -> Link] /\ DOMAIN new = D
  BY <1>1, <1>3
<1>5. Links(new)
  BY <1>4 DEF Links
<1> QED
  BY <1>3, <1>4, <1>5 DEF new

----------------------------------------------------------------------------
(* What is posted when connections change *)

LEMMA PostedHas ==
    ASSUME NEW old, NEW new, Links(old), NEW dirty \in BOOLEAN
    PROVE  /\ Posted(old, new, dirty) \in Seq(Msg)
           /\ Has(Posted(old, new, dirty), Sort) <=> Changes(old, new) /\ ~dirty
           /\ \A c \in Connection : Has(Posted(old, new, dirty), Delete(c)) <=>
                 c \in DOMAIN old /\ Differs(old[c], new[c]) /\ Dead(new[c])
<1> DEFINE changed == {c \in DOMAIN old : Differs(old[c], new[c])}
           dead == {c \in changed : Dead(new[c])}
           deletes == {Delete(c) : c \in dead}
           p == IF changed # {} /\ ~dirty THEN <<Sort>> ELSE <<>>
           q == SetToSeq(deletes)
<1>1. Posted(old, new, dirty) = p \o q
  BY DEF Posted
<1>2. dead \in SUBSET DOMAIN old /\ dead \subseteq Connection
  BY DEF Links
<1>3. IsFiniteSet(dead)
  BY <1>2, LinksAreFinite
<1>4. [c \in dead |-> Delete(c)] \in Surjection(dead, deletes)
  BY DEF Surjection
<1>5. IsFiniteSet(deletes)
  BY <1>3, <1>4, FS_Surjection
<1>6. q \in Seq(deletes) /\ \A m : Has(q, m) <=> m \in deletes
  BY <1>5, SetToSeqHas
<1>7. deletes \subseteq Msg /\ Sort \notin deletes
  BY <1>2, Messages
<1>8. ASSUME NEW c \in Connection PROVE Delete(c) \in deletes <=> c \in dead
  BY <1>2, Messages
<1>9. q \in Seq(Msg)
  BY <1>6, <1>7
<1>10. /\ p \in Seq(Msg)
       /\ Has(p, Sort) <=> Changes(old, new) /\ ~dirty
       /\ \A c \in Connection : ~Has(p, Delete(c))
  <2>1. changed # {} <=> Changes(old, new)
    BY DEF Changes
  <2>2. /\ <<Sort>> \in Seq(Msg) /\ <<>> \in Seq(Msg)
        /\ \A m : ~Has(<<>>, m)
        /\ \A m : Has(<<Sort>>, m) <=> m = Sort
    BY Messages DEF Has
  <2> QED
    BY <2>1, <2>2, Messages
<1> HIDE DEF p, q, deletes
<1>11. p \o q \in Seq(Msg)
  BY <1>9, <1>10
<1>12. \A m : Has(p \o q, m) <=> Has(p, m) \/ Has(q, m)
  BY <1>9, <1>10, HasConcat
<1> QED
  BY <1>1, <1>6, <1>7, <1>8, <1>10, <1>11, <1>12

----------------------------------------------------------------------------
(* Sorting *)

\* The first connection is as writable as any.
LEMMA SortedFirst ==
    ASSUME NEW conns, Links(conns), NEW s \in Sorted(conns)
    PROVE  /\ s = <<>> => DOMAIN conns = {}
           /\ s # <<>> => /\ s[1] \in DOMAIN conns
                          /\ \A c \in DOMAIN conns :
                                conns[s[1]].write <= conns[c].write
<1> DEFINE D == DOMAIN conns
           n == Cardinality(D)
<1>1. n \in Nat /\ IsFiniteSet(D)
  BY LinksAreFinite
<1>2. s \in [1..n -> D]
  BY DEF Sorted
<1>3. \A i, j \in 1..n : i < j => s[i] # s[j] /\ ~Before(conns, s[j], s[i])
  BY <1>2 DEF Sorted
<1>4. s \in Injection(1..n, D)
  BY <1>1, <1>2, <1>3 DEF Injection, IsInjective
<1>5. IsFiniteSet(1..n) /\ Cardinality(1..n) = n
  BY <1>1, FS_Interval
<1>6. s \in Surjection(1..n, D)
  BY <1>1, <1>4, <1>5, FS_Injection
<1>7. \A c \in D : \E i \in 1..n : s[i] = c
  BY <1>6 DEF Surjection
<1>8. s \in Seq(D) /\ Len(s) = n
  BY <1>1, <1>2
<1>9. CASE n = 0
  <2>1. D = {}
    BY <1>7, <1>9
  <2>2. s = <<>>
    BY <1>8, <1>9
  <2> QED
    BY <2>1, <2>2
<1>10. CASE n > 0
  <2>1. s # <<>> /\ 1 \in 1..n /\ s[1] \in D
    BY <1>1, <1>2, <1>8, <1>10
  <2>2. ASSUME NEW c \in D PROVE conns[s[1]].write <= conns[c].write
    <3>1. PICK i \in 1..n : s[i] = c
      BY <1>7
    <3>2. conns[c] \in Link /\ conns[s[1]] \in Link
      BY <2>1 DEF Links
    <3>3. conns[c].write \in {0, 1, 2} /\ conns[s[1]].write \in {0, 1, 2}
      BY <3>2 DEF Link, WRITABLE, CONNECT, TIMEOUT
    <3>4. CASE i = 1
      BY <3>1, <3>3, <3>4
    <3>5. CASE i # 1
      <4>1. 1 < i
        BY <1>1, <3>5
      <4>2. ~Before(conns, c, s[1])
        BY <1>3, <2>1, <3>1, <4>1
      <4> QED
        BY <3>3, <4>2 DEF Before, Better
    <3> QED
      BY <3>4, <3>5
  <2> QED
    BY <2>1, <2>2
<1> QED
  BY <1>1, <1>9, <1>10

\* So is the connection that is used.
LEMMA UsedIsBest ==
    ASSUME NEW conns, Links(conns), NEW s \in Sorted(conns),
           best \in DOMAIN conns \cup {NoConnection}, NEW b,
           LET top == IF s = <<>> THEN NoConnection ELSE s[1]
           IN  b = IF ShouldSwitch(conns, best, top) THEN top ELSE best
    PROVE  /\ b \in DOMAIN conns \cup {NoConnection}
           /\ \A c \in DOMAIN conns :
                 b \in DOMAIN conns /\ conns[b].write <= conns[c].write
<1> DEFINE top == IF s = <<>> THEN NoConnection ELSE s[1]
<1>1. /\ b = IF ShouldSwitch(conns, best, top) THEN top ELSE best
      /\ NoConnection \notin DOMAIN conns
  BY P2PChannelAssumption DEF Links
<1>2. /\ top \in DOMAIN conns \cup {NoConnection}
      /\ \A c \in DOMAIN conns :
            top \in DOMAIN conns /\ conns[top].write <= conns[c].write
  BY SortedFirst
<1> HIDE DEF top
<1>3. ASSUME NEW c \in DOMAIN conns
      PROVE  b \in DOMAIN conns /\ conns[b].write <= conns[c].write
  <2>1. top \in DOMAIN conns /\ top # NoConnection
        /\ conns[top].write <= conns[c].write
    BY <1>1, <1>2
  <2>2. CASE b = top
    BY <2>1, <2>2
  <2>3. CASE b # top
    <3>1. b = best /\ ~ShouldSwitch(conns, best, top)
      BY <1>1, <2>3
    <3>2. best # NoConnection /\ ~Better(conns, top, best)
      BY <2>1, <2>3, <3>1 DEF ShouldSwitch
    <3>3. b \in DOMAIN conns
      BY <3>1, <3>2
    <3>4. conns[b] \in Link /\ conns[top] \in Link /\ conns[c] \in Link
      BY <2>1, <3>3 DEF Links
    <3>5. /\ conns[b].write \in {0, 1, 2} /\ conns[top].write \in {0, 1, 2}
          /\ conns[c].write \in {0, 1, 2}
      BY <3>4 DEF Link, WRITABLE, CONNECT, TIMEOUT
    <3>6. ~(conns[top].write < conns[b].write)
      BY <3>1, <3>2 DEF Better
    <3> QED
      BY <2>1, <3>3, <3>5, <3>6
  <2> QED
    BY <2>2, <2>3
<1> QED
  BY <1>1, <1>2, <1>3

\* ... and is not pruned.
LEMMA UsedIsKept ==
    ASSUME NEW conns, NEW s, NEW b, b # NoConnection
    PROVE  b \notin Superfluous(conns, s, b)
  BY DEF Superfluous, BestOnNetwork

----------------------------------------------------------------------------
(* What SortConnections leaves *)

\* The channel is writable exactly when its best connection is, and when any is.
Chosen ==
    /\ writable <=> Is(conn, best, WRITABLE)
    /\ (\E c \in DOMAIN conn : Is(conn, c, WRITABLE)) => writable

\* Deletes are queued for the connections that are dead.
Deletes(conns, q) ==
    /\ \A c \in DOMAIN conns : Dead(conns[c]) => Has(q, Delete(c))
    /\ \A c \in Connection : Has(q, Delete(c)) => c \in DOMAIN conns

Flags == {writable, readable, wasWritable, wasTimedOut, waiting} \subseteq BOOLEAN

\* The step of SortConnections that finds the connections new and sorts them to s.
Leaves(conns, q, dirty, new, s) ==
    LET top == IF s = <<>> THEN NoConnection ELSE s[1]
        b == IF ShouldSwitch(new, best, top) THEN top ELSE best
        pruned == Prune(new, Superfluous(new, s, b))
    IN  /\ conn' = pruned
        /\ best' = b
        /\ queue' = q \o Posted(conns, new, dirty) \o Posted(new, pruned, FALSE)
        /\ sortDirty' = Changes(new, pruned)
        /\ IF \E c \in DOMAIN pruned : Is(pruned, c, WRITABLE)
           THEN HandleWritable
           ELSE IF \E c \in DOMAIN pruned : Is(pruned, c, CONNECT)
           THEN HandleNotWritable
           ELSE HandleAllTimedOut
        /\ readable' = Readable(pruned)

LEMMA SortLeaves ==
    ASSUME NEW conns, NEW q \in Seq(Msg), NEW dirty \in BOOLEAN, NEW fresh,
           Links(conns), Deletes(conns, q), Flags,
           best \in DOMAIN conns \cup {NoConnection},
           SortConnections(conns, q, dirty, fresh)
    PROVE  /\ Links(conn') /\ DOMAIN conn' = DOMAIN conns
           /\ best' \in DOMAIN conns \cup {NoConnection}
           /\ queue' \in Seq(Msg) /\ sortDirty' \in BOOLEAN /\ Flags'
           /\ Deletes(conn', queue')
           /\ sortDirty' => Has(queue', Sort)
           /\ Chosen'
           /\ best' \in DOMAIN conns /\ conn'[best'].pruned => conns[best'].pruned
<1>1. PICK new \in Updated(conns, fresh) : \E s \in Sorted(new) :
         Leaves(conns, q, dirty, new, s)
  BY ZenonT(60) DEF SortConnections, Leaves
<1>2. PICK s \in Sorted(new) : Leaves(conns, q, dirty, new, s)
  BY <1>1
<1> DEFINE top == IF s = <<>> THEN NoConnection ELSE s[1]
           b == IF ShouldSwitch(new, best, top) THEN top ELSE best
           pruned == Prune(new, Superfluous(new, s, b))
           p1 == Posted(conns, new, dirty)
           p2 == Posted(new, pruned, FALSE)
<1>3. /\ conn' = pruned /\ best' = b /\ queue' = q \o p1 \o p2
      /\ sortDirty' = Changes(new, pruned) /\ readable' = Readable(pruned)
      /\ IF \E c \in DOMAIN pruned : Is(pruned, c, WRITABLE)
         THEN HandleWritable
         ELSE IF \E c \in DOMAIN pruned : Is(pruned, c, CONNECT)
         THEN HandleNotWritable
         ELSE HandleAllTimedOut
  BY <1>2 DEF Leaves
<1>4. /\ Links(new) /\ DOMAIN new = DOMAIN conns
      /\ \A c \in DOMAIN conns : new[c].pruned = conns[c].pruned
  BY UpdatedLinks DEF SameLinks
<1>5. /\ b \in DOMAIN new \cup {NoConnection}
      /\ \A c \in DOMAIN new : b \in DOMAIN new /\ new[b].write <= new[c].write
  BY <1>4, UsedIsBest
<1>6. b # NoConnection => b \notin Superfluous(new, s, b)
  BY UsedIsKept
<1> HIDE DEF b
<1>7. /\ Links(pruned) /\ DOMAIN pruned = DOMAIN new
      /\ \A c \in DOMAIN new : pruned[c] = new[c] \/ pruned[c].write = TIMEOUT
      /\ b \in DOMAIN new => pruned[b] = new[b]
  <2>1. NoConnection \notin DOMAIN new
    BY <1>4, P2PChannelAssumption DEF Links
  <2> QED
    BY <1>4, <1>6, <2>1, PrunedLinks
<1>8. /\ p1 \in Seq(Msg)
      /\ \A c \in Connection : Has(p1, Delete(c)) <=>
            c \in DOMAIN conns /\ Differs(conns[c], new[c]) /\ Dead(new[c])
  BY PostedHas
<1>9. /\ p2 \in Seq(Msg)
      /\ Has(p2, Sort) <=> Changes(new, pruned)
      /\ \A c \in Connection : Has(p2, Delete(c)) <=>
            c \in DOMAIN new /\ Differs(new[c], pruned[c]) /\ Dead(pruned[c])
  BY <1>4, PostedHas
<1> HIDE DEF pruned, p1, p2
<1>10. /\ queue' \in Seq(Msg)
      /\ \A m : Has(queue', m) <=> Has(q, m) \/ Has(p1, m) \/ Has(p2, m)
  <2>1. q \o p1 \in Seq(Msg) /\ queue' = (q \o p1) \o p2
    BY <1>3, <1>8
  <2>2. queue' \in Seq(Msg)
    BY <1>9, <2>1
  <2>3. \A m : Has(q \o p1, m) <=> Has(q, m) \/ Has(p1, m)
    BY <1>8, HasConcat
  <2>4. \A m : Has(queue', m) <=> Has(q \o p1, m) \/ Has(p2, m)
    BY <1>9, <2>1, HasConcat
  <2> QED
    BY <2>2, <2>3, <2>4
<1>11. sortDirty' \in BOOLEAN /\ (sortDirty' => Has(queue', Sort))
  BY <1>3, <1>9, <1>10 DEF Changes
<1>12. Deletes(pruned, queue')
  <2>1. ASSUME NEW c \in DOMAIN pruned, Dead(pruned[c]) PROVE Has(queue', Delete(c))
    <3>1. c \in DOMAIN conns /\ c \in DOMAIN new /\ c \in Connection
      BY <1>4, <1>7, <2>1 DEF Links
    <3>2. CASE Differs(new[c], pruned[c])
      BY <1>9, <1>10, <2>1, <3>1, <3>2
    <3>3. CASE ~Differs(new[c], pruned[c])
      <4>1. Dead(new[c])
        BY <2>1, <3>3 DEF Differs, Dead
      <4>2. CASE Differs(conns[c], new[c])
        BY <1>8, <1>10, <3>1, <4>1, <4>2
      <4>3. CASE ~Differs(conns[c], new[c])
        <5>1. Dead(conns[c])
          BY <4>1, <4>3 DEF Differs, Dead
        <5> QED
          BY <1>10, <3>1, <5>1 DEF Deletes
      <4> QED
        BY <4>2, <4>3
    <3> QED
      BY <3>2, <3>3
  <2>2. ASSUME NEW c \in Connection, Has(queue', Delete(c)) PROVE c \in DOMAIN pruned
    BY <1>4, <1>7, <1>8, <1>9, <1>10, <2>2 DEF Deletes
  <2> QED
    BY <2>1, <2>2 DEF Deletes
<1>13. writable' <=> \E c \in DOMAIN pruned : Is(pruned, c, WRITABLE)
  BY <1>3 DEF HandleWritable, HandleNotWritable, HandleAllTimedOut
<1>14. ASSUME NEW c \in DOMAIN pruned, Is(pruned, c, WRITABLE)
       PROVE  Is(pruned, b, WRITABLE)
  <2>1. pruned[c] = new[c] /\ c \in DOMAIN new /\ new[c].write = 0
    BY <1>7, <1>14 DEF Is, WRITABLE, TIMEOUT
  <2>2. b \in DOMAIN new /\ new[b].write <= 0
    BY <1>5, <2>1
  <2>3. new[b] \in Link
    BY <1>4, <2>2 DEF Links
  <2>4. new[b].write \in {0, 1, 2}
    BY <2>3 DEF Link, WRITABLE, CONNECT, TIMEOUT
  <2>5. new[b].write = 0
    BY <2>2, <2>4
  <2> QED
    BY <1>7, <2>2, <2>5 DEF Is, WRITABLE
<1>15. Chosen'
  <2>1. Is(pruned, b, WRITABLE) => b \in DOMAIN pruned
    BY DEF Is
  <2>2. writable' <=> Is(pruned, b, WRITABLE)
    BY <1>13, <1>14, <2>1
  <2> QED
    BY <1>3, <1>13, <2>2 DEF Chosen
<1>16. Flags'
  <2>1. {writable', wasWritable', wasTimedOut', waiting'} \subseteq BOOLEAN
    BY <1>3 DEF HandleWritable, HandleNotWritable, HandleAllTimedOut, Flags
  <2>2. readable' \in BOOLEAN
    BY <1>3 DEF Readable
  <2> QED
    BY <2>1, <2>2 DEF Flags
<1>17. best' \in DOMAIN conns /\ conn'[best'].pruned => conns[best'].pruned
  BY <1>3, <1>4, <1>7
<1> QED
  BY <1>3, <1>4, <1>5, <1>7, <1>10, <1>11, <1>12, <1>15, <1>16, <1>17

----------------------------------------------------------------------------
(* The invariants of the connections and the queue *)

SortInv ==
    /\ Links(conn) /\ best \in DOMAIN conn \cup {NoConnection}
    /\ queue \in Seq(Msg) /\ sortDirty \in BOOLEAN /\ Flags
    /\ Deletes(conn, queue)
    /\ Has(queue, Sort) \/ (~sortDirty /\ Chosen)

\* UpdateChannelStateAssertion, of one step
Asserted ==
    /\ writable' # writable => (writable' <=> Is(conn', best', WRITABLE))
    /\ best' \in DOMAIN conn /\ conn'[best'].pruned => conn[best'].pruned

\* A step of SortConnections that begins with the connections there are and new ones
LEMMA SortStep ==
    ASSUME SortInv, NEW conns, NEW q \in Seq(Msg), NEW dirty \in BOOLEAN, NEW fresh,
           Links(conns), Deletes(conns, q), DOMAIN conn \subseteq DOMAIN conns,
           \A c \in DOMAIN conn : conns[c].pruned = conn[c].pruned,
           SortConnections(conns, q, dirty, fresh)
    PROVE  SortInv' /\ Asserted
<1>1. best \in DOMAIN conns \cup {NoConnection} /\ Flags
  BY DEF SortInv
<1>2. /\ Links(conn') /\ DOMAIN conn' = DOMAIN conns
      /\ best' \in DOMAIN conns \cup {NoConnection}
      /\ queue' \in Seq(Msg) /\ sortDirty' \in BOOLEAN /\ Flags'
      /\ Deletes(conn', queue')
      /\ sortDirty' => Has(queue', Sort)
      /\ Chosen'
      /\ best' \in DOMAIN conns /\ conn'[best'].pruned => conns[best'].pruned
  BY <1>1, SortLeaves
<1>3. SortInv'
  BY <1>2 DEF SortInv
<1>4. Asserted
  BY <1>2 DEF Asserted, Chosen
<1> QED
  BY <1>3, <1>4

LEMMA BecomeStep ==
    ASSUME SortInv, NEW new, SameLinks(conn, new), Become(new)
    PROVE  SortInv' /\ Asserted
<1> DEFINE p == Posted(conn, new, sortDirty)
<1>1. /\ p \in Seq(Msg)
      /\ Has(p, Sort) <=> Changes(conn, new) /\ ~sortDirty
      /\ \A c \in Connection : Has(p, Delete(c)) <=>
            c \in DOMAIN conn /\ Differs(conn[c], new[c]) /\ Dead(new[c])
  BY PostedHas DEF SortInv
<1>2. /\ conn' = new /\ queue' = queue \o p
      /\ sortDirty' = (sortDirty \/ Changes(conn, new))
      /\ best' = best /\ writable' = writable /\ readable' = readable
      /\ wasWritable' = wasWritable /\ wasTimedOut' = wasTimedOut
      /\ waiting' = waiting
  BY DEF Become, allocVars
<1> HIDE DEF p
<1>3. /\ queue' \in Seq(Msg)
      /\ \A m : Has(queue', m) <=> Has(queue, m) \/ Has(p, m)
  <2>1. queue \in Seq(Msg)
    BY DEF SortInv
  <2>2. queue \o p \in Seq(Msg)
    BY <1>1, <2>1
  <2>3. \A m : Has(queue \o p, m) <=> Has(queue, m) \/ Has(p, m)
    BY <1>1, <2>1, HasConcat
  <2> QED
    BY <1>2, <2>2, <2>3
<1>4. Deletes(new, queue')
  <2>1. ASSUME NEW c \in DOMAIN new, Dead(new[c]) PROVE Has(queue', Delete(c))
    <3>1. c \in DOMAIN conn /\ c \in Connection
      BY DEF SameLinks, Links
    <3>2. CASE Differs(conn[c], new[c])
      BY <1>1, <1>3, <2>1, <3>1, <3>2
    <3>3. CASE ~Differs(conn[c], new[c])
      <4>1. Dead(conn[c])
        BY <2>1, <3>3 DEF Differs, Dead
      <4> QED
        BY <1>3, <3>1, <4>1 DEF SortInv, Deletes
    <3> QED
      BY <3>2, <3>3
  <2>2. ASSUME NEW c \in Connection, Has(queue', Delete(c)) PROVE c \in DOMAIN new
    BY <1>1, <1>3, <2>2 DEF SortInv, Deletes, SameLinks
  <2> QED
    BY <2>1, <2>2 DEF Deletes
<1>5. Has(queue', Sort) \/ (~sortDirty' /\ Chosen')
  <2>1. CASE Has(queue, Sort)
    BY <1>3, <2>1
  <2>2. CASE ~sortDirty /\ Chosen /\ Changes(conn, new)
    BY <1>1, <1>3, <2>2
  <2>3. CASE ~sortDirty /\ Chosen /\ ~Changes(conn, new)
    <3>1. DOMAIN new = DOMAIN conn
          /\ \A c \in DOMAIN conn : new[c].write = conn[c].write
      BY <2>3 DEF SameLinks, Changes, Differs
    <3>2. \A c : Is(new, c, WRITABLE) <=> Is(conn, c, WRITABLE)
      BY <3>1 DEF Is
    <3>3. Chosen'
      BY <1>2, <2>3, <3>1, <3>2 DEF Chosen
    <3> QED
      BY <1>2, <2>3, <3>3
  <2> QED
    BY <2>1, <2>2, <2>3 DEF SortInv
<1>6. sortDirty' \in BOOLEAN
  BY <1>2 DEF SortInv, Changes
<1>7. SortInv'
  BY <1>2, <1>3, <1>4, <1>5, <1>6 DEF SortInv, SameLinks, Flags
<1>8. Asserted
  BY <1>2 DEF Asserted, SameLinks
<1> QED
  BY <1>7, <1>8

\* A connection changes, but is not pruned.
LEMMA ConnectionSet ==
    ASSUME NEW conns, Links(conns), NEW c \in DOMAIN conns, NEW k \in Link,
           k.pruned = conns[c].pruned
    PROVE  SameLinks(conns, [conns EXCEPT ![c] = k])
  BY DEF SameLinks, Links

\* Pings and packets change connections like this.
LEMMA LinkChanges ==
    ASSUME NEW k \in Link
    PROVE  /\ Ping(k) \in Link /\ Ping(k).pruned = k.pruned
           /\ StartUpAgain(k) \in Link /\ StartUpAgain(k).pruned = k.pruned
           /\ [k EXCEPT !.read = TRUE] \in Link
           /\ [k EXCEPT !.read = TRUE].pruned = k.pruned
<1>1. k.pinged \in 0..Failures /\ Failures \in Nat
  BY P2PChannelAssumption DEF Link
<1>2. (IF k.pinged < Failures THEN k.pinged + 1 ELSE k.pinged) \in 0..Failures
  BY <1>1
<1>3. Ping(k) \in Link /\ Ping(k).pruned = k.pruned
  BY <1>2 DEF Ping, Link
<1>4. StartUpAgain(k) \in Link /\ StartUpAgain(k).pruned = k.pruned
  BY DEF StartUpAgain, Link
<1>5. /\ [k EXCEPT !.read = TRUE] \in Link
      /\ [k EXCEPT !.read = TRUE].pruned = k.pruned
  BY DEF Link
<1> QED
  BY <1>3, <1>4, <1>5

LEMMA LinkAnswered ==
    ASSUME NEW k \in Link, NEW more \in BOOLEAN, NEW rtt \in Rtts
    PROVE  /\ Answered(k, more, rtt) \in Link
           /\ Answered(k, more, rtt).pruned = k.pruned
<1> DEFINE r == (3 * k.rtt + rtt) \div 4
<1>1. k.rtt \in Nat /\ rtt \in Nat /\ 0 \in 0..Failures
  BY P2PChannelAssumption DEF Link
<1>2. r \in Nat
  BY <1>1
<1>3. Answered(k, more, rtt) =
         [k EXCEPT !.write = WRITABLE, !.pinged = 0, !.requested = more, !.rtt = r]
  BY DEF Answered
<1> HIDE DEF r
<1>4. /\ Answered(k, more, rtt) \in Link
      /\ Answered(k, more, rtt).pruned = k.pruned
  BY <1>1, <1>2, <1>3 DEF Link
<1> QED
  BY <1>4

LEMMA LinkRefused ==
    ASSUME NEW k \in Link, NEW more \in BOOLEAN, NEW retry \in BOOLEAN
    PROVE  Refused(k, more, retry) \in Link /\ Refused(k, more, retry).pruned = k.pruned
  BY DEF Refused, Link

LEMMA PingStep ==
    ASSUME SortInv, OnPing
    PROVE  SortInv' /\ Asserted
<1>1. PICK new \in Updated(conn, {}) :
         \/ Become(new)
         \/ \E c \in DOMAIN new : Become([new EXCEPT ![c] = Ping(@)])
  BY DEF OnPing
<1>2. SameLinks(conn, new)
  BY UpdatedLinks DEF SortInv
<1>3. CASE Become(new)
  BY <1>2, <1>3, BecomeStep
<1>4. ASSUME NEW c \in DOMAIN new, Become([new EXCEPT ![c] = Ping(@)])
      PROVE  SortInv' /\ Asserted
  <2> DEFINE k == Ping(new[c])
             next == [new EXCEPT ![c] = k]
  <2>1. k \in Link /\ k.pruned = new[c].pruned
    BY <1>2, LinkChanges DEF SameLinks, Links
  <2> HIDE DEF k
  <2>2. SameLinks(new, next)
    BY <1>2, <2>1, ConnectionSet DEF SameLinks
  <2>3. Become(next)
    BY <1>4 DEF k
  <2> HIDE DEF next
  <2>4. SameLinks(conn, next)
    BY <1>2, <2>2 DEF SameLinks
  <2> QED
    BY <2>3, <2>4, BecomeStep
<1> QED
  BY <1>1, <1>3, <1>4

LEMMA PacketStep ==
    ASSUME SortInv, NEW c \in Connection,
           \/ OnBindingRequest(c) \/ OnData(c)
           \/ OnBindingResponse(c) \/ OnBindingError(c)
    PROVE  SortInv' /\ Asserted
<1>1. c \in DOMAIN conn /\ conn[c] \in Link
  BY DEF OnBindingRequest, OnData, OnBindingResponse, OnBindingError, SortInv, Links
<1>2. ASSUME NEW k \in Link, k.pruned = conn[c].pruned,
             Become([conn EXCEPT ![c] = k])
      PROVE  SortInv' /\ Asserted
  <2>1. SameLinks(conn, [conn EXCEPT ![c] = k])
    BY <1>1, <1>2, ConnectionSet DEF SortInv
  <2> QED
    BY <1>2, <2>1, BecomeStep
<1>3. CASE OnBindingRequest(c)
  <2> DEFINE j == [conn[c] EXCEPT !.read = TRUE]
             k == StartUpAgain(j)
  <2>1. j \in Link /\ j.pruned = conn[c].pruned
    BY <1>1, LinkChanges
  <2> HIDE DEF j
  <2>2. k \in Link /\ k.pruned = conn[c].pruned
    BY <2>1, LinkChanges
  <2> HIDE DEF k
  <2>3. Become([conn EXCEPT ![c] = k])
    BY <1>3 DEF OnBindingRequest, j, k
  <2> QED
    BY <1>2, <2>2, <2>3
<1>4. CASE OnData(c)
  <2> DEFINE k == StartUpAgain(conn[c])
  <2>1. k \in Link /\ k.pruned = conn[c].pruned
    BY <1>1, LinkChanges
  <2> HIDE DEF k
  <2>2. Become([conn EXCEPT ![c] = k])
    BY <1>4 DEF OnData, k
  <2> QED
    BY <1>2, <2>1, <2>2
<1>5. CASE OnBindingResponse(c)
  <2>1. PICK more \in BOOLEAN, rtt \in Rtts :
           Become([conn EXCEPT ![c] = Answered(@, more, rtt)])
    BY <1>5 DEF OnBindingResponse
  <2> DEFINE k == Answered(conn[c], more, rtt)
  <2>2. k \in Link /\ k.pruned = conn[c].pruned
    BY <1>1, LinkAnswered
  <2>3. Become([conn EXCEPT ![c] = k])
    BY <2>1
  <2> HIDE DEF k
  <2> QED
    BY <1>2, <2>2, <2>3
<1>6. CASE OnBindingError(c)
  <2>1. PICK more \in BOOLEAN, retry \in BOOLEAN :
           Become([conn EXCEPT ![c] = Refused(@, more, retry)])
    BY <1>6 DEF OnBindingError
  <2> DEFINE k == Refused(conn[c], more, retry)
  <2>2. k \in Link /\ k.pruned = conn[c].pruned
    BY <1>1, LinkRefused
  <2>3. Become([conn EXCEPT ![c] = k])
    BY <2>1
  <2> HIDE DEF k
  <2> QED
    BY <1>2, <2>2, <2>3
<1> QED
  BY <1>3, <1>4, <1>5, <1>6

LEMMA CreateStep ==
    ASSUME SortInv, NEW C \in SUBSET Connection, NEW pinged \in SUBSET C,
           CreateConnections(C, pinged)
    PROVE  SortInv' /\ Asserted
<1> DEFINE conns == [c \in DOMAIN conn \cup C |->
                        IF c \in DOMAIN conn THEN conn[c]
                        ELSE [NewConnection EXCEPT !.read = c \in pinged]]
           q == IF pinged # {} /\ ~sortDirty THEN Append(queue, Sort) ELSE queue
           dirty == sortDirty \/ pinged # {}
<1>1. SortConnections(conns, q, dirty, pinged)
  BY DEF CreateConnections
<1>2. queue \in Seq(Msg) /\ Sort \in Msg /\ sortDirty \in BOOLEAN
  BY Messages DEF SortInv
<1>3. q \in Seq(Msg) /\ dirty \in BOOLEAN
  BY <1>2
<1>4. \A c \in Connection : Has(q, Delete(c)) <=> Has(queue, Delete(c))
  BY <1>2, HasAppend, Messages
<1>5. ASSUME NEW r \in BOOLEAN
      PROVE  LET k == [NewConnection EXCEPT !.read = r]
             IN  k \in Link /\ ~Dead(k)
  <2>1. 0 \in 0..Failures /\ 0 \in Nat
    BY P2PChannelAssumption
  <2> DEFINE k == [NewConnection EXCEPT !.read = r]
  <2>2. NewConnection \in Link /\ NewConnection.write = CONNECT
    BY <2>1 DEF NewConnection, Link
  <2>3. k \in Link /\ k.write = CONNECT
    BY <2>2 DEF Link
  <2> HIDE DEF k
  <2>4. ~Dead(k)
    BY <2>3 DEF Dead, CONNECT, TIMEOUT
  <2> QED
    BY <2>3, <2>4 DEF k
<1>6. ASSUME NEW c \in DOMAIN conns, c \notin DOMAIN conn
      PROVE  conns[c] \in Link /\ ~Dead(conns[c])
  <2> DEFINE r == c \in pinged
  <2>1. r \in BOOLEAN
    OBVIOUS
  <2>2. conns[c] = [NewConnection EXCEPT !.read = r]
    BY <1>6
  <2> HIDE DEF conns, r
  <2> QED
    BY <1>5, <2>1, <2>2
<1>7. /\ DOMAIN conns = DOMAIN conn \cup C
      /\ \A c \in DOMAIN conn : conns[c] = conn[c]
  OBVIOUS
<1>8. conns \in [DOMAIN conns -> Link]
  <2>1. \A c \in DOMAIN conns : conns[c] \in Link
    BY <1>6, <1>7 DEF SortInv, Links
  <2>2. conns = [c \in DOMAIN conns |-> conns[c]]
    OBVIOUS
  <2> HIDE DEF conns
  <2> QED
    BY <2>1, <2>2
<1> HIDE DEF conns, q, dirty
<1>9. Links(conns)
  BY <1>7, <1>8 DEF SortInv, Links
<1>10. Deletes(conns, q)
  <2>1. ASSUME NEW c \in DOMAIN conns, Dead(conns[c]) PROVE Has(q, Delete(c))
    <3>1. c \in DOMAIN conn /\ Dead(conn[c]) /\ c \in Connection
      BY <1>6, <1>7, <1>9, <2>1 DEF Links
    <3> QED
      BY <1>4, <3>1 DEF SortInv, Deletes
  <2>2. ASSUME NEW c \in Connection, Has(q, Delete(c)) PROVE c \in DOMAIN conns
    BY <1>4, <1>7, <2>2 DEF SortInv, Deletes
  <2> QED
    BY <2>1, <2>2 DEF Deletes
<1> QED
  BY <1>1, <1>3, <1>7, <1>9, <1>10, SortStep

LEMMA OnSortStep ==
    ASSUME SortInv, OnSort
    PROVE  SortInv' /\ Asserted
<1>1. /\ queue \in Seq(Msg) /\ queue # <<>> /\ Head(queue) = Sort
      /\ SortConnections(conn, Tail(queue), sortDirty, {})
      /\ Links(conn) /\ sortDirty \in BOOLEAN
  BY DEF SortInv, OnSort
<1>2. Tail(queue) \in Seq(Msg)
  BY <1>1
<1>3. \A c \in Connection : Has(Tail(queue), Delete(c)) <=> Has(queue, Delete(c))
  BY <1>1, HasTail, Messages
<1>4. Deletes(conn, Tail(queue))
  BY <1>1, <1>3 DEF SortInv, Deletes, Links
<1> QED
  BY <1>1, <1>2, <1>4, SortStep

LEMMA OnDeleteStep ==
    ASSUME SortInv, NEW c \in Connection, OnDelete(c)
    PROVE  SortInv' /\ Asserted
<1> DEFINE q == Without(queue, {Delete(c)})
<1>1. /\ queue \in Seq(Msg) /\ Sort \in Msg /\ Links(conn) /\ Deletes(conn, queue)
      /\ sortDirty \in BOOLEAN /\ Flags
  BY Messages DEF SortInv
<1>2. /\ q \in Seq(Msg)
      /\ \A m : Has(q, m) <=> Has(queue, m) /\ m # Delete(c)
  BY <1>1, WithoutHas
<1>3. /\ conn' = [d \in DOMAIN conn \ {c} |-> conn[d]]
      /\ IF best = c
         THEN /\ best' = NoConnection
              /\ queue' = IF sortDirty THEN q ELSE Append(q, Sort)
              /\ sortDirty' = TRUE
         ELSE queue' = q /\ best' = best /\ sortDirty' = sortDirty
      /\ writable' = writable /\ readable' = readable /\ waiting' = waiting
      /\ wasWritable' = wasWritable /\ wasTimedOut' = wasTimedOut
  BY DEF OnDelete, allocVars
<1> HIDE DEF q
<1>4. /\ queue' \in Seq(Msg)
      /\ \A m : m # Sort => (Has(queue', m) <=> Has(q, m))
      /\ Has(q, Sort) => Has(queue', Sort)
      /\ best = c /\ ~sortDirty => Has(queue', Sort)
  <2>1. /\ Append(q, Sort) \in Seq(Msg)
        /\ \A m : Has(Append(q, Sort), m) <=> Has(q, m) \/ Sort = m
    BY <1>1, <1>2, HasAppend
  <2> QED
    BY <1>2, <1>3, <2>1
<1>5. /\ DOMAIN conn' = DOMAIN conn \ {c}
      /\ \A d \in DOMAIN conn' : conn'[d] = conn[d]
      /\ Links(conn')
  BY <1>1, <1>3 DEF Links
<1>6. Deletes(conn', queue')
  <2>1. ASSUME NEW d \in DOMAIN conn', Dead(conn'[d]) PROVE Has(queue', Delete(d))
    <3>1. d \in DOMAIN conn /\ Dead(conn[d]) /\ d # c /\ d \in Connection
      BY <1>5, <2>1 DEF Links
    <3>2. Has(queue, Delete(d)) /\ Delete(d) # Delete(c) /\ Delete(d) # Sort
      BY <1>1, <3>1, Messages DEF Deletes
    <3> QED
      BY <1>2, <1>4, <3>2
  <2>2. ASSUME NEW d \in Connection, Has(queue', Delete(d)) PROVE d \in DOMAIN conn'
    <3>1. Has(queue, Delete(d)) /\ Delete(d) # Delete(c)
      BY <1>2, <1>4, <2>2, Messages
    <3>2. d \in DOMAIN conn /\ d # c
      BY <1>1, <3>1 DEF Deletes
    <3> QED
      BY <1>5, <3>2
  <2> QED
    BY <2>1, <2>2 DEF Deletes
<1>7. Has(queue', Sort) \/ (~sortDirty' /\ Chosen')
  <2>1. CASE Has(queue, Sort)
    BY <1>2, <1>4, <2>1, Messages
  <2>2. CASE ~sortDirty /\ Chosen /\ best = c
    BY <1>4, <2>2
  <2>3. CASE ~sortDirty /\ Chosen /\ best # c
    <3>1. best' = best /\ ~sortDirty'
      BY <1>3, <2>3
    <3>2. Is(conn', best, WRITABLE) <=> Is(conn, best, WRITABLE)
      BY <1>5, <2>3 DEF Is
    <3>3. \A d \in DOMAIN conn' : Is(conn', d, WRITABLE) =>
              d \in DOMAIN conn /\ Is(conn, d, WRITABLE)
      BY <1>5 DEF Is
    <3> QED
      BY <1>3, <2>3, <3>1, <3>2, <3>3 DEF Chosen
  <2> QED
    BY <2>1, <2>2, <2>3 DEF SortInv
<1>8. best' \in DOMAIN conn' \cup {NoConnection}
  BY <1>3, <1>5 DEF SortInv
<1>9. SortInv'
  BY <1>1, <1>3, <1>4, <1>5, <1>6, <1>7, <1>8 DEF SortInv, Flags
<1>10. Asserted
  <2>1. best' \in DOMAIN conn => best' \in DOMAIN conn'
    BY <1>1, <1>3, <1>5, P2PChannelAssumption DEF Links
  <2> QED
    BY <1>3, <1>5, <2>1 DEF Asserted
<1> QED
  BY <1>9, <1>10

----------------------------------------------------------------------------
(* Allocation *)

RestOK ==
    /\ {connectRequested, allocated, pinging} \subseteq BOOLEAN
    /\ polled \in 0..MaxPackets /\ allocations \in 0..MaxAllocations

\* A writable channel knows that it was, and that not all connections timed out:
\* when it is no longer writable it waits for the next allocation.
AllocInv == KeepsAllocating /\ (writable => wasWritable /\ ~wasTimedOut)

P2PInv == SortInv /\ RestOK /\ AllocInv

LEMMA TypeParts == P2PInv => TypeOK
  BY DEF P2PInv, SortInv, RestOK, Flags, TypeOK, Links, Link, Msg

LEMMA SortConnectionsAllocates ==
    ASSUME AllocInv, RestOK, NEW conns, NEW q, NEW dirty, NEW fresh,
           SortConnections(conns, q, dirty, fresh), connectRequested' = connectRequested
    PROVE  /\ AllocInv' /\ allocations' \in 0..MaxAllocations
           /\ allocated' = allocated
<1>1. HandleWritable \/ HandleNotWritable \/ HandleAllTimedOut
  BY DEF SortConnections
<1>2. allocated' = allocated
  BY DEF SortConnections
<1>3. 0 \in 0..MaxAllocations /\ 0 \in Nat /\ allocations \in Nat
  BY P2PChannelAssumption DEF RestOK
<1>4. CASE HandleWritable
  BY <1>2, <1>3, <1>4 DEF HandleWritable, AllocInv, KeepsAllocating, RestOK
<1>5. CASE HandleNotWritable
  BY <1>2, <1>3, <1>5 DEF HandleNotWritable, AllocInv, KeepsAllocating, RestOK
<1>6. CASE HandleAllTimedOut
  BY <1>2, <1>3, <1>6 DEF HandleAllTimedOut, AllocInv, KeepsAllocating, RestOK
<1> QED
  BY <1>1, <1>4, <1>5, <1>6

LEMMA RestStep ==
    ASSUME RestOK, AllocInv, Next
    PROVE  RestOK' /\ AllocInv'
<1>1. /\ 0 \in 0..MaxPackets /\ 0 \in 0..MaxAllocations
      /\ \A n \in 0..MaxPackets : n < MaxPackets => n + 1 \in 0..MaxPackets
      /\ \A n \in 0..MaxAllocations : n < MaxAllocations => n + 1 \in 0..MaxAllocations
      /\ \A n \in 0..MaxAllocations : n > 0 => n - 1 \in 0..MaxAllocations
      /\ \A n \in 0..MaxAllocations : n + 1 > 0
  BY P2PChannelAssumption
<1>2. CASE Connect \/ Reset \/ OnSignalingReady \/ OnAllocate
  <2> USE DEF RestOK, AllocInv, KeepsAllocating, sortVars
  <2>1. CASE Connect
    BY <1>1, <2>1 DEF Connect
  <2>2. CASE Reset
    BY <1>1, <2>2 DEF Reset
  <2>3. CASE OnSignalingReady
    <3>1. allocations' \in 0..MaxAllocations /\ allocations' > 0
      BY <1>1, <2>3 DEF OnSignalingReady
    <3> QED
      BY <1>1, <2>3, <3>1 DEF OnSignalingReady
  <2>4. CASE OnAllocate
    <3>1. allocations' \in 0..MaxAllocations
      BY <1>1, <2>4 DEF OnAllocate
    <3> QED
      BY <1>1, <2>4, <3>1 DEF OnAllocate
  <2> QED
    BY <1>2, <2>1, <2>2, <2>3, <2>4
<1>3. ASSUME NEW C \in SUBSET Connection, NEW pinged \in SUBSET C,
             CreateConnections(C, pinged)
      PROVE  RestOK' /\ AllocInv'
  <2>1. \E conns, q, dirty : SortConnections(conns, q, dirty, pinged)
    BY <1>3 DEF CreateConnections
  <2>2. connectRequested' = connectRequested /\ pinging' = pinging
    BY <1>3 DEF CreateConnections
  <2>3. AllocInv' /\ allocations' \in 0..MaxAllocations /\ allocated' = allocated
    BY <2>1, <2>2, SortConnectionsAllocates
  <2>4. polled' \in 0..MaxPackets
    BY <1>1, <1>3 DEF CreateConnections, Poll, RestOK
  <2> QED
    BY <2>2, <2>3, <2>4 DEF RestOK
<1>4. CASE OnSort
  <2>1. SortConnections(conn, Tail(queue), sortDirty, {})
        /\ connectRequested' = connectRequested /\ pinging' = pinging /\ polled' = 0
    BY <1>4 DEF OnSort
  <2>2. AllocInv' /\ allocations' \in 0..MaxAllocations /\ allocated' = allocated
    BY <2>1, SortConnectionsAllocates
  <2> QED
    BY <1>1, <2>1, <2>2 DEF RestOK
\* The others leave all this alone.
<1>5. ASSUME /\ polled' \in 0..MaxPackets
             /\ UNCHANGED <<writable, readable, wasWritable, wasTimedOut, allocVars,
                            connectRequested, pinging>>
      PROVE  RestOK' /\ AllocInv'
  BY <1>5 DEF RestOK, AllocInv, KeepsAllocating, allocVars
<1>6. CASE OnPing
  BY <1>1, <1>5, <1>6 DEF OnPing, Become
<1>7. ASSUME NEW c \in Connection, OnDelete(c) \/ RequestTimesOut(c)
      PROVE  RestOK' /\ AllocInv'
  BY <1>1, <1>5, <1>7 DEF OnDelete, RequestTimesOut
<1>8. ASSUME NEW c \in Connection,
             \/ OnBindingRequest(c) \/ OnData(c)
             \/ OnBindingResponse(c) \/ OnBindingError(c)
      PROVE  RestOK' /\ AllocInv'
  <2>1. Poll /\ \E new : Become(new)
    BY <1>8 DEF OnBindingRequest, OnData, OnBindingResponse, OnBindingError
  <2>2. polled' \in 0..MaxPackets
    BY <1>1, <2>1 DEF Poll, RestOK
  <2> QED
    BY <1>5, <2>1, <2>2 DEF Become
<1> QED
  BY <1>2, <1>3, <1>4, <1>6, <1>7, <1>8 DEF Next

----------------------------------------------------------------------------
LEMMA SortInitially == Init => P2PInv
<1> SUFFICES ASSUME Init PROVE P2PInv
  OBVIOUS
<1>1. DOMAIN conn = {} /\ conn \in [DOMAIN conn -> Link]
  BY DEF Init
<1>2. queue \in Seq(Msg) /\ \A m : ~Has(queue, m)
  BY DEF Init, Has
<1>3. Links(conn) /\ Deletes(conn, queue)
  BY <1>1, <1>2 DEF Links, Deletes
<1>4. ~sortDirty /\ Chosen /\ Flags /\ best = NoConnection /\ sortDirty \in BOOLEAN
  BY <1>1 DEF Init, Chosen, Is, Flags
<1>5. SortInv
  BY <1>2, <1>3, <1>4 DEF SortInv
<1>6. RestOK /\ AllocInv
  <2>1. 0 \in 0..MaxPackets /\ 0 \in 0..MaxAllocations
    BY P2PChannelAssumption
  <2> QED
    BY <2>1 DEF Init, RestOK, AllocInv, KeepsAllocating
<1> QED
  BY <1>5, <1>6 DEF P2PInv

LEMMA ConnectionsStep ==
    ASSUME SortInv, Next
    PROVE  SortInv' /\ Asserted
<1>1. ASSUME UNCHANGED sortVars, waiting' \in BOOLEAN PROVE SortInv' /\ Asserted
  BY <1>1 DEF sortVars, SortInv, Flags, Deletes, Chosen, Asserted, Links
<1>2. CASE Connect \/ OnSignalingReady \/ OnAllocate
  BY <1>1, <1>2 DEF Connect, OnSignalingReady, OnAllocate
<1>3. CASE Reset
  <2>1. /\ DOMAIN conn' = {} /\ conn' \in [DOMAIN conn' -> Link]
        /\ best' = NoConnection /\ queue' = <<>> /\ sortDirty' = FALSE
        /\ ~writable' /\ {writable', readable', wasWritable', wasTimedOut', waiting'}
                             \subseteq BOOLEAN
    BY <1>3 DEF Reset
  <2>2. queue' \in Seq(Msg) /\ \A m : ~Has(queue', m)
    BY <2>1 DEF Has
  <2>3. Links(conn') /\ Deletes(conn', queue')
    BY <2>1, <2>2 DEF Links, Deletes
  <2>4. Chosen'
    BY <2>1 DEF Chosen, Is
  <2>5. SortInv'
    BY <2>1, <2>2, <2>3, <2>4 DEF SortInv, Flags
  <2>6. Asserted
    <3>1. NoConnection \notin DOMAIN conn
      BY P2PChannelAssumption DEF SortInv, Links
    <3> QED
      BY <2>1, <3>1 DEF Asserted, Is
  <2> QED
    BY <2>5, <2>6
<1>4. ASSUME NEW c \in Connection, RequestTimesOut(c) PROVE SortInv' /\ Asserted
  <2> DEFINE k == [conn[c] EXCEPT !.requested = FALSE]
  <2>1. c \in DOMAIN conn /\ conn[c] \in Link /\ conn' = [conn EXCEPT ![c] = k]
    BY <1>4 DEF RequestTimesOut, SortInv, Links
  <2>2. /\ k \in Link /\ k.pruned = conn[c].pruned /\ k.write = conn[c].write
        /\ Dead(k) <=> Dead(conn[c])
    BY <2>1 DEF Link, Dead
  <2> HIDE DEF k
  <2>3. SameLinks(conn, conn')
    BY <2>1, <2>2, ConnectionSet DEF SortInv
  <2>4. \A d \in DOMAIN conn : conn'[d].write = conn[d].write
                               /\ (Dead(conn'[d]) <=> Dead(conn[d]))
    BY <2>1, <2>2 DEF SortInv, Links
  <2>5. /\ best' = best /\ sortDirty' = sortDirty /\ writable' = writable
        /\ readable' = readable /\ wasWritable' = wasWritable
        /\ wasTimedOut' = wasTimedOut /\ queue' = queue /\ waiting' = waiting
    BY <1>4 DEF RequestTimesOut, allocVars
  <2>6. \A d : Is(conn', d, WRITABLE) <=> Is(conn, d, WRITABLE)
    BY <2>3, <2>4 DEF Is, SameLinks
  <2>7. Chosen => Chosen'
    BY <2>3, <2>5, <2>6 DEF Chosen, SameLinks
  <2>8. Deletes(conn', queue')
    BY <2>3, <2>4, <2>5 DEF Deletes, SameLinks, SortInv
  <2>9. SortInv'
    BY <2>3, <2>5, <2>7, <2>8 DEF SortInv, SameLinks, Flags
  <2> QED
    BY <2>3, <2>5, <2>9 DEF Asserted, SameLinks
<1> QED
  BY <1>2, <1>3, <1>4, CreateStep, OnSortStep, PingStep, OnDeleteStep, PacketStep
     DEF Next

LEMMA P2PStep ==
    ASSUME P2PInv, [Next]_vars
    PROVE  P2PInv' /\ (Asserted \/ UNCHANGED vars)
<1>1. CASE Next
  BY <1>1, ConnectionsStep, RestStep DEF P2PInv
<1>2. CASE UNCHANGED vars
  <2>1. UNCHANGED sortVars /\ UNCHANGED allocVars /\ UNCHANGED connectRequested
        /\ UNCHANGED pinging /\ UNCHANGED polled
    BY <1>2 DEF vars
  <2>2. SortInv'
    BY <2>1 DEF P2PInv, sortVars, allocVars, SortInv, Flags, Deletes, Chosen, Links
  <2>3. RestOK' /\ AllocInv'
    BY <2>1 DEF P2PInv, sortVars, allocVars, RestOK, AllocInv, KeepsAllocating
  <2> QED
    BY <1>2, <2>2, <2>3 DEF P2PInv
<1> QED
  BY <1>1, <1>2

LEMMA P2PInvariant == Spec => []P2PInv
<1>1. Init => P2PInv
  BY SortInitially
<1>2. P2PInv /\ [Next]_vars => P2PInv'
  BY P2PStep
<1> QED
  BY <1>1, <1>2, PTL DEF Spec

\* The connections, the queue of the channel and its flags keep their types; the
\* best connection, if there is one, always exists.
THEOREM P2PTypeOK == Spec => []TypeOK
  BY TypeParts, P2PInvariant, PTL

\* Whatever the connections go through, each that can no longer be read nor written
\* will be deleted, and none is deleted twice.
THEOREM DeadConnectionsGo == Spec => []DeadAreDeleted
<1>1. P2PInv => DeadAreDeleted
  BY DEF P2PInv, SortInv, Deletes, DeadAreDeleted, Queued
<1> QED
  BY <1>1, P2PInvariant, PTL

\* When no sort is queued the channel is writable exactly when its best connection
\* is, and when any is.
THEOREM SortingIsEnough == Spec => []WritableMeansBest
<1>1. P2PInv => WritableMeansBest
  BY DEF P2PInv, SortInv, Chosen, WritableMeansBest, Queued
<1> QED
  BY <1>1, P2PInvariant, PTL

\* A channel that shall connect and is not writable will allocate ports again.
THEOREM AllocationGoesOn == Spec => []KeepsAllocating
<1>1. P2PInv => KeepsAllocating
  BY DEF P2PInv, AllocInv
<1> QED
  BY <1>1, P2PInvariant, PTL

\* The assertion of UpdateChannelState holds whenever the channel's state changes,
\* and no sort prunes the connection that it leaves in use.
THEOREM UpdateChannelStateHolds == Spec => UpdateChannelStateAssertion
<1>1. P2PInv /\ [Next]_vars =>
         [/\ writable' # writable => (writable' <=> Is(conn', best', WRITABLE))
          /\ best' \in DOMAIN conn /\ conn'[best'].pruned => conn[best'].pruned]_vars
  BY P2PStep DEF Asserted
<1> QED
  BY <1>1, P2PInvariant, PTL DEF Spec, UpdateChannelStateAssertion
=============================================================================
