--------------------------- MODULE QueueTheorems ---------------------------
(***************************************************************************)
(* What the operations on a queue do to the messages it holds.             *)
(***************************************************************************)
EXTENDS Queues, WellFoundedInduction, TLAPS

----------------------------------------------------------------------------
(* The places of a queue *)

LEMMA Appended ==
    ASSUME NEW S, NEW q \in Seq(S), NEW e \in S
    PROVE  /\ Append(q, e) \in Seq(S) /\ Len(Append(q, e)) = Len(q) + 1
           /\ \A i \in 1..Len(q) : Append(q, e)[i] = q[i]
           /\ Append(q, e)[Len(q) + 1] = e
  OBVIOUS

LEMMA Concatenated ==
    ASSUME NEW S, NEW p \in Seq(S), NEW q \in Seq(S)
    PROVE  /\ p \o q \in Seq(S) /\ Len(p \o q) = Len(p) + Len(q)
           /\ \A i \in 1..Len(p) : (p \o q)[i] = p[i]
           /\ \A i \in 1..Len(q) : (p \o q)[Len(p) + i] = q[i]
  OBVIOUS

LEMMA ConcatAssociates ==
    ASSUME NEW S, NEW p \in Seq(S), NEW q \in Seq(S), NEW r \in Seq(S)
    PROVE  (p \o q) \o r = p \o (q \o r)
  OBVIOUS

LEMMA Prepended ==
    ASSUME NEW S, NEW q \in Seq(S), NEW e \in S
    PROVE  /\ <<e>> \o q \in Seq(S) /\ Len(<<e>> \o q) = Len(q) + 1
           /\ (<<e>> \o q)[1] = e
           /\ \A i \in 1..Len(q) : (<<e>> \o q)[i + 1] = q[i]
<1>1. <<e>> \in Seq(S) /\ Len(<<e>>) = 1 /\ <<e>>[1] = e
  OBVIOUS
<1>2. Len(q) \in Nat
  OBVIOUS
<1>3. ASSUME NEW p \in Seq(S), Len(p) = 1
      PROVE  /\ p \o q \in Seq(S) /\ Len(p \o q) = Len(q) + 1
             /\ (p \o q)[1] = p[1]
             /\ \A i \in 1..Len(q) : (p \o q)[i + 1] = q[i]
  <2>1. p \o q \in Seq(S) /\ Len(p \o q) = Len(q) + 1
    <3>1. p \o q \in Seq(S) /\ Len(p \o q) = Len(p) + Len(q)
      BY Concatenated
    <3> QED
      BY <1>2, <1>3, <3>1
  <2>2. (p \o q)[1] = p[1]
    BY <1>3, Concatenated
  <2>3. ASSUME NEW i \in 1..Len(q) PROVE (p \o q)[i + 1] = q[i]
    <3>1. (p \o q)[Len(p) + i] = q[i]
      BY Concatenated
    <3>2. Len(p) + i = i + 1
      BY <1>2, <1>3
    <3> QED
      BY <3>1, <3>2
  <2> QED
    BY <2>1, <2>2, <2>3
<1> QED
  BY <1>1, <1>3

LEMMA Tailed ==
    ASSUME NEW S, NEW q \in Seq(S), q # <<>>
    PROVE  /\ Tail(q) \in Seq(S) /\ Len(Tail(q)) = Len(q) - 1
           /\ \A i \in 1..(Len(q) - 1) : Tail(q)[i] = q[i + 1]
           /\ Head(q) = q[1] /\ q[1] \in S /\ Len(q) \in Nat \ {0}
  OBVIOUS

----------------------------------------------------------------------------
(* What a queue holds *)

\* What a post adds to a queue.
LEMMA HasAppend ==
    ASSUME NEW S, NEW q \in Seq(S), NEW e \in S, NEW m
    PROVE  Has(Append(q, e), m) <=> Has(q, m) \/ e = m
<1>1. /\ Len(Append(q, e)) = Len(q) + 1
      /\ \A i \in 1..Len(q) : Append(q, e)[i] = q[i]
      /\ Append(q, e)[Len(q) + 1] = e
  OBVIOUS
<1>2. DOMAIN Append(q, e) = 1..(Len(q) + 1) /\ DOMAIN q = 1..Len(q)
  OBVIOUS
<1> QED
  BY <1>1, <1>2 DEF Has

\* What several posts add.
LEMMA HasConcat ==
    ASSUME NEW S, NEW q \in Seq(S), NEW r \in Seq(S), NEW m
    PROVE  Has(q \o r, m) <=> Has(q, m) \/ Has(r, m)
<1>1. /\ DOMAIN (q \o r) = 1..(Len(q) + Len(r))
      /\ DOMAIN q = 1..Len(q) /\ DOMAIN r = 1..Len(r)
      /\ Len(q) \in Nat /\ Len(r) \in Nat
  OBVIOUS
<1>2. /\ \A i \in 1..Len(q) : (q \o r)[i] = q[i]
      /\ \A i \in 1..Len(r) : (q \o r)[Len(q) + i] = r[i]
  OBVIOUS
<1>3. ASSUME Has(q \o r, m) PROVE Has(q, m) \/ Has(r, m)
  <2>1. PICK i \in 1..(Len(q) + Len(r)) : (q \o r)[i] = m
    BY <1>1, <1>3 DEF Has
  <2>2. CASE i \in 1..Len(q)
    BY <2>1, <2>2, <1>1, <1>2 DEF Has
  <2>3. CASE i \notin 1..Len(q)
    <3>1. i - Len(q) \in 1..Len(r) /\ i = Len(q) + (i - Len(q))
      BY <2>3, <1>1
    <3>2. r[i - Len(q)] = m
      BY <3>1, <2>1, <1>2
    <3> QED
      BY <3>1, <3>2, <1>1 DEF Has
  <2> QED
    BY <2>2, <2>3
<1>4. ASSUME Has(q, m) PROVE Has(q \o r, m)
  BY <1>1, <1>2, <1>4 DEF Has
<1>5. ASSUME Has(r, m) PROVE Has(q \o r, m)
  <2>1. PICK i \in 1..Len(r) : r[i] = m
    BY <1>1, <1>5 DEF Has
  <2>2. Len(q) + i \in 1..(Len(q) + Len(r))
    BY <1>1
  <2> QED
    BY <2>1, <2>2, <1>1, <1>2 DEF Has
<1> QED
  BY <1>3, <1>4, <1>5

\* What is left when the head is taken.
LEMMA HasTail ==
    ASSUME NEW S, NEW q \in Seq(S), q # <<>>, NEW m
    PROVE  Has(q, m) <=> Head(q) = m \/ Has(Tail(q), m)
<1>1. /\ Len(q) \in Nat \ {0} /\ DOMAIN q = 1..Len(q)
      /\ DOMAIN Tail(q) = 1..(Len(q) - 1)
      /\ \A i \in 1..(Len(q) - 1) : Tail(q)[i] = q[i + 1]
      /\ Head(q) = q[1]
  OBVIOUS
<1>2. ASSUME Has(q, m), Head(q) # m PROVE Has(Tail(q), m)
  <2>1. PICK i \in 1..Len(q) : q[i] = m
    BY <1>1, <1>2 DEF Has
  <2>2. i # 1
    BY <1>1, <1>2, <2>1
  <2>3. i - 1 \in 1..(Len(q) - 1) /\ Tail(q)[i - 1] = m
    BY <1>1, <2>1, <2>2
  <2> QED
    BY <1>1, <2>3 DEF Has
<1>3. ASSUME Has(Tail(q), m) PROVE Has(q, m)
  <2>1. PICK i \in 1..(Len(q) - 1) : Tail(q)[i] = m
    BY <1>1, <1>3 DEF Has
  <2>2. i + 1 \in 1..Len(q) /\ q[i + 1] = m
    BY <1>1, <2>1
  <2> QED
    BY <1>1, <2>2 DEF Has
<1>4. ASSUME Head(q) = m PROVE Has(q, m)
  BY <1>1, <1>4 DEF Has
<1> QED
  BY <1>2, <1>3, <1>4
----------------------------------------------------------------------------
(* Induction up to a number *)

LEMMA Induct ==
    ASSUME NEW n \in Nat, NEW I, 0 \in I,
           \A i \in Nat : i < n /\ i \in I => i + 1 \in I
    PROVE  0..n \subseteq I
<1> DEFINE T == (0..n) \ I
<1> SUFFICES ASSUME T # {} PROVE FALSE
  OBVIOUS
<1>1. T \subseteq Nat
  OBVIOUS
<1>2. PICK x \in T : \A y \in T : ~(<<y, x>> \in OpToRel(<, Nat))
  <2> HIDE DEF T
  <2> QED
    BY <1>1, WFMin, NatLessThanWellFounded
<1>3. \A y \in T : ~(y < x)
  BY <1>1, <1>2 DEF OpToRel
<1>4. x # 0 /\ x \in 1..n
  OBVIOUS
<1>5. x - 1 \notin T /\ x - 1 \in Nat /\ x - 1 < n
  BY <1>3, <1>4
<1>6. x - 1 \in I
  BY <1>4, <1>5
<1> QED
  BY <1>4, <1>5, <1>6

----------------------------------------------------------------------------
(* Erasing messages *)

\* What is left of the first i messages of q, for each i.
IsKept(f, q, S, n) ==
    /\ f[0] = <<>>
    /\ \A i \in 1..n : f[i] = IF q[i] \in S THEN f[i - 1]
                                           ELSE Append(f[i - 1], q[i])

\* The recursive definition has a solution.
LEMMA KeptExists ==
    ASSUME NEW T, NEW q \in Seq(T), NEW S
    PROVE  \E f \in [0..Len(q) -> Seq(T)] : IsKept(f, q, S, Len(q))
<1> DEFINE I == {n \in 0..Len(q) :
                    \E f \in [0..n -> Seq(T)] : IsKept(f, q, S, n)}
<1>1. Len(q) \in Nat /\ \A i \in 1..Len(q) : q[i] \in T
  OBVIOUS
<1>2. 0 \in I
  <2> DEFINE f == [i \in 0..0 |-> <<>>]
  <2>1. f \in [0..0 -> Seq(T)] /\ f[0] = <<>>
    OBVIOUS
  <2>2. IsKept(f, q, S, 0)
    BY <2>1 DEF IsKept
  <2> QED
    BY SMTT(40), <1>1, <2>1, <2>2
<1>3. ASSUME NEW n \in Nat, n < Len(q), n \in I PROVE n + 1 \in I
  <2>1. PICK g \in [0..n -> Seq(T)] : IsKept(g, q, S, n)
    BY <1>3
  <2> DEFINE f == [i \in 0..(n + 1) |->
                      IF i <= n THEN g[i]
                      ELSE IF q[n + 1] \in S THEN g[n] ELSE Append(g[n], q[n + 1])]
  <2>2. n + 1 \in 1..Len(q) /\ g[n] \in Seq(T) /\ q[n + 1] \in T
    BY <1>1, <1>3, <2>1
  <2>3. f \in [0..(n + 1) -> Seq(T)]
    <3> SUFFICES ASSUME NEW i \in 0..(n + 1) PROVE f[i] \in Seq(T)
      OBVIOUS
    <3>1. CASE i <= n
      BY <3>1, <2>1
    <3>2. CASE ~(i <= n)
      BY <3>2, <2>2
    <3> QED
      BY <3>1, <3>2
  <2>4. \A i \in 0..n : f[i] = g[i]
    OBVIOUS
  <2>5. f[n + 1] = IF q[n + 1] \in S THEN f[n] ELSE Append(f[n], q[n + 1])
    BY <2>4
  <2> HIDE DEF f
  <2>6. IsKept(f, q, S, n + 1)
    <3>1. f[0] = <<>>
      BY <2>1, <2>4 DEF IsKept
    <3>2. ASSUME NEW i \in 1..(n + 1)
          PROVE  f[i] = IF q[i] \in S THEN f[i - 1] ELSE Append(f[i - 1], q[i])
      <4>1. CASE i = n + 1
        BY <4>1, <2>5
      <4>2. CASE i # n + 1
        <5>1. i \in 1..n /\ i \in 0..n /\ i - 1 \in 0..n
          BY <4>2
        <5> QED
          BY <5>1, <2>1, <2>4 DEF IsKept
      <4> QED
        BY <4>1, <4>2
    <3> QED
      BY <3>1, <3>2 DEF IsKept
  <2> QED
    BY <2>2, <2>3, <2>6
<1> HIDE DEF I
<1>4. 0..Len(q) \subseteq I
  BY <1>1, <1>2, <1>3, Induct
<1>5. Len(q) \in I
  BY <1>1, <1>4
<1> QED
  BY <1>5 DEF I

\* ... and Without is its last value.
LEMMA WithoutKept ==
    ASSUME NEW T, NEW q \in Seq(T), NEW S
    PROVE  \E f \in [0..Len(q) -> Seq(T)] :
               IsKept(f, q, S, Len(q)) /\ Without(q, S) = f[Len(q)]
<1> DEFINE n == Len(q)
           Def(f) == [i \in 0..n |-> IF i = 0 THEN <<>>
                                     ELSE IF q[i] \in S THEN f[i - 1]
                                     ELSE Append(f[i - 1], q[i])]
           kept == CHOOSE f : f = Def(f)
<1>1. n \in Nat
  OBVIOUS
<1>2. Without(q, S) = kept[n]
  BY DEF Without
<1>3. PICK g \in [0..n -> Seq(T)] : IsKept(g, q, S, n)
  BY KeptExists
<1>4. g = Def(g)
  <2>1. \A i \in 0..n : g[i] = Def(g)[i]
    <3> SUFFICES ASSUME NEW i \in 0..n PROVE g[i] = Def(g)[i]
      OBVIOUS
    <3>1. CASE i = 0
      BY <3>1, <1>1, <1>3 DEF IsKept
    <3>2. CASE i # 0
      <4>1. i \in 1..n
        BY <3>2, <1>1
      <4>2. g[i] = IF q[i] \in S THEN g[i - 1] ELSE Append(g[i - 1], q[i])
        BY <1>3, <4>1 DEF IsKept
      <4> QED
        BY <3>2, <4>2
    <3> QED
      BY <3>1, <3>2
  <2>2. g = [i \in 0..n |-> g[i]] /\ Def(g) = [i \in 0..n |-> Def(g)[i]]
    BY <1>3
  <2> HIDE DEF Def
  <2> QED
    BY <2>1, <2>2
<1>5. kept = Def(kept)
  <2> HIDE DEF Def
  <2> QED
    BY <1>4
<1>6. ASSUME NEW f, f = Def(f) PROVE IsKept(f, q, S, n) /\ f = g
  <2>1. IsKept(f, q, S, n)
    <3>1. \A i \in 0..n : f[i] = Def(f)[i]
      <4> HIDE DEF Def
      <4> QED
        BY <1>6
    <3>2. f[0] = <<>>
      BY <1>1, <3>1
    <3>3. ASSUME NEW i \in 1..n
          PROVE  f[i] = IF q[i] \in S THEN f[i - 1] ELSE Append(f[i - 1], q[i])
      <4>1. i \in 0..n /\ i # 0
        BY <1>1
      <4>2. f[i] = Def(f)[i]
        BY <3>1, <4>1
      <4> QED
        BY <4>1, <4>2
    <3> QED
      BY <3>2, <3>3 DEF IsKept
  <2> DEFINE I == {i \in 0..n : f[i] = g[i]}
  <2>2. 0 \in I
    BY <1>1, <1>3, <2>1 DEF IsKept
  <2>3. \A i \in Nat : i < n /\ i \in I => i + 1 \in I
    <3> SUFFICES ASSUME NEW i \in Nat, i < n, i \in I PROVE i + 1 \in I
      OBVIOUS
    <3>1. i + 1 \in 1..n /\ (i + 1) - 1 = i /\ f[i] = g[i]
      BY <1>1
    <3>2. f[i + 1] = g[i + 1]
      BY <1>3, <2>1, <3>1 DEF IsKept
    <3> QED
      BY <3>1, <3>2
  <2> HIDE DEF I
  <2>4. 0..n \subseteq I
    BY <1>1, <2>2, <2>3, Induct
  <2>5. \A i \in 0..n : f[i] = g[i]
    BY <2>4 DEF I
  <2>6. f = [i \in 0..n |-> f[i]] /\ g = [i \in 0..n |-> g[i]]
    BY <1>3, <1>6
  <2> QED
    BY <2>1, <2>5, <2>6
<1> HIDE DEF kept, Def
<1> QED
  BY <1>2, <1>3, <1>5, <1>6

\* What is left is a queue of the messages outside S, in their order: each
\* stands at a place of its own in q.
LEMMA WithoutPlaces ==
    ASSUME NEW T, NEW q \in Seq(T), NEW S
    PROVE  /\ Without(q, S) \in Seq(T)
           /\ \E h \in [1..Len(Without(q, S)) -> 1..Len(q)] :
                 /\ \A a, b \in 1..Len(Without(q, S)) : h[a] = h[b] => a = b
                 /\ \A a \in 1..Len(Without(q, S)) :
                       Without(q, S)[a] = q[h[a]] /\ q[h[a]] \notin S
<1> DEFINE n == Len(q)
<1>1. n \in Nat /\ \A i \in 1..n : q[i] \in T
  OBVIOUS
<1>2. PICK f \in [0..n -> Seq(T)] :
        IsKept(f, q, S, n) /\ Without(q, S) = f[n]
  BY WithoutKept
<1> DEFINE Places(w, i, h) ==
      /\ h \in [1..Len(w) -> 1..i]
      /\ \A a, b \in 1..Len(w) : h[a] = h[b] => a = b
      /\ \A a \in 1..Len(w) : w[a] = q[h[a]] /\ q[h[a]] \notin S
           I == {i \in 0..n : \E h : Places(f[i], i, h)}
<1>3. 0 \in I
  <2>1. f[0] = <<>>
    BY <1>2 DEF IsKept
  <2>2. Len(f[0]) = 0 /\ 1..0 = {}
    BY <2>1
  <2>3. Places(f[0], 0, [a \in 1..0 |-> a])
    BY <2>2
  <2> HIDE DEF Places
  <2> QED
    BY <1>1, <2>3
<1>4. ASSUME NEW i \in Nat, i < n, i \in I PROVE i + 1 \in I
  <2>1. PICK h : Places(f[i], i, h)
    BY <1>4
  <2>2. i + 1 \in 1..n /\ i \in 0..n /\ i + 1 \in 0..n
    BY <1>1, <1>4
  <2>3. f[i] \in Seq(T) /\ f[i + 1] \in Seq(T) /\ q[i + 1] \in T
    BY <1>1, <1>2, <2>2
  <2>4. f[i + 1] = IF q[i + 1] \in S THEN f[i] ELSE Append(f[i], q[i + 1])
    <3>1. (i + 1) - 1 = i
      OBVIOUS
    <3> QED
      BY <1>2, <2>2, <3>1 DEF IsKept
  <2>5. CASE q[i + 1] \in S
    <3>1. f[i + 1] = f[i]
      BY <2>4, <2>5
    <3>2. Places(f[i], i + 1, h)
      BY <2>1
    <3> HIDE DEF Places
    <3> QED
      BY <2>2, <3>1, <3>2
  <2>6. CASE q[i + 1] \notin S
    <3> DEFINE w == f[i + 1]
               g == [a \in 1..Len(w) |-> IF a <= Len(f[i]) THEN h[a] ELSE i + 1]
    <3>1. w = Append(f[i], q[i + 1])
      BY <2>4, <2>6
    <3>2. /\ Len(f[i]) \in Nat /\ Len(w) = Len(f[i]) + 1
          /\ \A a \in 1..Len(f[i]) : w[a] = f[i][a]
          /\ w[Len(w)] = q[i + 1]
      <4> HIDE DEF w
      <4> QED
        BY <2>3, <3>1
    <3> HIDE DEF w
    <3>3. \A a \in 1..Len(f[i]) : g[a] = h[a] /\ h[a] \in 1..i
      <4>1. \A a \in 1..Len(f[i]) : a \in 1..Len(w) /\ a <= Len(f[i])
        BY <3>2
      <4>2. \A a \in 1..Len(f[i]) : g[a] = h[a]
        BY <4>1
      <4>3. h \in [1..Len(f[i]) -> 1..i]
        BY <2>1
      <4> QED
        BY <4>2, <4>3
    <3>4. g[Len(w)] = i + 1
      BY <3>2
    <3>5. \A a \in 1..Len(w) : a \in 1..Len(f[i]) \/ a = Len(w)
      BY <3>2
    <3>6. g \in [1..Len(w) -> 1..(i + 1)]
      <4>1. \A a \in 1..Len(w) : g[a] \in 1..(i + 1)
        <5> HIDE DEF g
        <5> QED
          BY <3>3, <3>4, <3>5
      <4> QED
        BY <4>1
    <3> HIDE DEF g
    <3>7. ASSUME NEW a \in 1..Len(w), NEW b \in 1..Len(w), g[a] = g[b]
          PROVE  a = b
      <4>1. CASE a = Len(w)
        BY <3>3, <3>4, <3>5, <3>7, <4>1
      <4>2. CASE b = Len(w)
        BY <3>3, <3>4, <3>5, <3>7, <4>2
      <4>3. CASE a # Len(w) /\ b # Len(w)
        BY <2>1, <3>3, <3>5, <3>7, <4>3
      <4> QED
        BY <4>1, <4>2, <4>3
    <3>8. ASSUME NEW a \in 1..Len(w)
          PROVE  w[a] = q[g[a]] /\ q[g[a]] \notin S
      <4>1. CASE a = Len(w)
        BY <2>6, <3>2, <3>4, <4>1
      <4>2. CASE a \in 1..Len(f[i])
        BY <2>1, <3>2, <3>3, <4>2
      <4> QED
        BY <3>5, <4>1, <4>2
    <3>9. Places(w, i + 1, g)
      BY <3>6, <3>7, <3>8
    <3> HIDE DEF Places
    <3> QED
      BY <2>2, <3>9 DEF w
  <2> QED
    BY <2>5, <2>6
<1> HIDE DEF I
<1>5. 0..n \subseteq I
  BY <1>1, <1>3, <1>4, Induct
<1>6. n \in I
  BY <1>1, <1>5
<1>7. PICK h : Places(f[n], n, h)
  BY <1>6 DEF I
<1>8. f[n] \in Seq(T)
  BY <1>1, <1>2
<1> QED
  BY <1>2, <1>7, <1>8

\* Only messages of S are erased.
LEMMA WithoutHas ==
    ASSUME NEW T, NEW q \in Seq(T), NEW S
    PROVE  /\ Without(q, S) \in Seq(T)
           /\ \A m : Has(Without(q, S), m) <=> Has(q, m) /\ m \notin S
<1> DEFINE n == Len(q)
<1>1. n \in Nat /\ DOMAIN q = 1..n /\ \A i \in 1..n : q[i] \in T
  OBVIOUS
<1>2. PICK f \in [0..n -> Seq(T)] :
        IsKept(f, q, S, n) /\ Without(q, S) = f[n]
  BY WithoutKept
<1> DEFINE I == {i \in 0..n :
                    \A j \in 1..i : q[j] \notin S => Has(f[i], q[j])}
<1>3. 0 \in I
  BY <1>1
<1>4. ASSUME NEW i \in Nat, i < n, i \in I PROVE i + 1 \in I
  <2>1. i + 1 \in 1..n /\ i \in 0..n /\ i + 1 \in 0..n /\ (i + 1) - 1 = i
    BY <1>1, <1>4
  <2>2. f[i] \in Seq(T) /\ f[i + 1] \in Seq(T) /\ q[i + 1] \in T
    BY <1>1, <1>2, <2>1
  <2>3. f[i + 1] = IF q[i + 1] \in S THEN f[i] ELSE Append(f[i], q[i + 1])
    BY <1>2, <2>1 DEF IsKept
  <2> DEFINE w == Append(f[i], q[i + 1])
  <2>4. /\ Len(f[i]) \in Nat /\ DOMAIN f[i] = 1..Len(f[i])
        /\ DOMAIN w = 1..(Len(f[i]) + 1)
        /\ \A a \in 1..Len(f[i]) : w[a] = f[i][a]
        /\ w[Len(f[i]) + 1] = q[i + 1]
    BY <2>2
  <2> HIDE DEF w
  <2>5. \A m : Has(f[i], m) => Has(w, m)
    BY <2>4 DEF Has
  <2>6. Has(w, q[i + 1])
    BY SMTT(40), <2>4 DEF Has
  <2>7. ASSUME NEW j \in 1..(i + 1), q[j] \notin S PROVE Has(f[i + 1], q[j])
    <3>1. CASE j = i + 1
      BY <2>3, <2>6, <2>7, <3>1 DEF w
    <3>2. CASE j # i + 1
      <4>1. j \in 1..i
        BY <3>2
      <4>2. Has(f[i], q[j])
        BY <1>4, <2>7, <4>1
      <4> QED
        BY <2>3, <2>5, <4>2 DEF w
    <3> QED
      BY <3>1, <3>2
  <2> QED
    BY <2>1, <2>7
<1> HIDE DEF I
<1>5. 0..n \subseteq I
  BY <1>1, <1>3, <1>4, Induct
<1>6. n \in I
  BY <1>1, <1>5
<1>7. \A j \in 1..n : q[j] \notin S => Has(Without(q, S), q[j])
  BY <1>2, <1>6 DEF I
<1>8. ASSUME NEW m, Has(Without(q, S), m) PROVE Has(q, m) /\ m \notin S
  <2> DEFINE w == Without(q, S)
  <2>1. PICK h \in [1..Len(w) -> 1..n] :
          \A a \in 1..Len(w) : w[a] = q[h[a]] /\ q[h[a]] \notin S
    BY WithoutPlaces
  <2>2. w \in Seq(T)
    BY WithoutPlaces
  <2>3. PICK a \in 1..Len(w) : w[a] = m
    BY <1>8, <2>2 DEF Has
  <2> HIDE DEF w
  <2> QED
    BY <1>1, <2>1, <2>3 DEF Has
<1>9. ASSUME NEW m, Has(q, m), m \notin S PROVE Has(Without(q, S), m)
  BY <1>1, <1>7, <1>9 DEF Has
<1>10. Without(q, S) \in Seq(T)
  BY WithoutPlaces
<1> QED
  BY <1>8, <1>9, <1>10

\* What is left of two sequences one after the other.
LEMMA WithoutConcat ==
    ASSUME NEW T, NEW p \in Seq(T), NEW q \in Seq(T), NEW S
    PROVE  Without(p \o q, S) = Without(p, S) \o Without(q, S)
<1> DEFINE n == Len(p)
           m == Len(q)
           pq == p \o q
<1>1. /\ n \in Nat /\ m \in Nat /\ pq \in Seq(T) /\ Len(pq) = n + m
      /\ \A i \in 1..n : pq[i] = p[i] /\ p[i] \in T
      /\ \A j \in 1..m : pq[n + j] = q[j] /\ q[j] \in T
  OBVIOUS
<1> HIDE DEF n, m, pq
<1>2. PICK f \in [0..(n + m) -> Seq(T)] :
        IsKept(f, pq, S, n + m) /\ Without(pq, S) = f[n + m]
  <2>1. \E f \in [0..Len(pq) -> Seq(T)] :
          IsKept(f, pq, S, Len(pq)) /\ Without(pq, S) = f[Len(pq)]
    <3>1. pq \in Seq(T)
      BY <1>1
    <3> QED
      BY <3>1, WithoutKept
  <2>2. Len(pq) = n + m
    BY <1>1
  <2> QED
    BY <2>1, <2>2
<1>3. PICK g \in [0..n -> Seq(T)] : IsKept(g, p, S, n) /\ Without(p, S) = g[n]
  BY WithoutKept DEF n
<1>4. PICK h \in [0..m -> Seq(T)] : IsKept(h, q, S, m) /\ Without(q, S) = h[m]
  BY WithoutKept DEF m
<1> DEFINE I == {i \in 0..n : f[i] = g[i]}
           J == {j \in 0..m : f[n + j] = g[n] \o h[j]}
<1>5. 0..n \subseteq I
  <2>1. 0 \in I
    BY <1>1, <1>2, <1>3 DEF IsKept
  <2>2. ASSUME NEW i \in Nat, i < n, i \in I PROVE i + 1 \in I
    <3>1. i + 1 \in 1..n /\ i + 1 \in 1..(n + m) /\ i + 1 \in 0..n /\ (i + 1) - 1 = i
      BY <1>1, <2>2
    <3>2. f[i + 1] = IF pq[i + 1] \in S THEN f[i] ELSE Append(f[i], pq[i + 1])
      BY <1>2, <3>1 DEF IsKept
    <3>3. g[i + 1] = IF p[i + 1] \in S THEN g[i] ELSE Append(g[i], p[i + 1])
      BY <1>3, <3>1 DEF IsKept
    <3>4. pq[i + 1] = p[i + 1] /\ f[i] = g[i]
      BY <1>1, <2>2, <3>1
    <3> QED
      BY <3>1, <3>2, <3>3, <3>4
  <2> HIDE DEF I
  <2> QED
    BY <1>1, <2>1, <2>2, Induct
<1>6. f[n] = g[n]
  BY <1>1, <1>5
<1>7. 0..m \subseteq J
  <2>1. g[n] \in Seq(T) /\ \A j \in 0..m : h[j] \in Seq(T)
    <3>1. n \in 0..n
      BY <1>1
    <3> QED
      BY <1>3, <1>4, <3>1
  <2>2. 0 \in J
    <3>1. h[0] = <<>> /\ n + 0 = n /\ 0 \in 0..m
      BY <1>1, <1>4 DEF IsKept
    <3>2. g[n] \o <<>> = g[n]
      BY <2>1
    <3> QED
      BY <1>6, <3>1, <3>2
  <2>3. ASSUME NEW j \in Nat, j < m, j \in J PROVE j + 1 \in J
    <3>1. /\ j + 1 \in 1..m /\ n + (j + 1) \in 1..(n + m) /\ j + 1 \in 0..m
          /\ (j + 1) - 1 = j /\ n + (j + 1) - 1 = n + j /\ j \in 0..m
      BY <1>1, <2>3
    <3>2. f[n + (j + 1)] = IF pq[n + (j + 1)] \in S THEN f[n + j]
                           ELSE Append(f[n + j], pq[n + (j + 1)])
      <4> DEFINE k == n + (j + 1)
      <4>1. k \in 1..(n + m) /\ k - 1 = n + j
        BY <1>1, <3>1
      <4> HIDE DEF k
      <4>2. f[k] = IF pq[k] \in S THEN f[k - 1] ELSE Append(f[k - 1], pq[k])
        BY <1>2, <4>1 DEF IsKept
      <4>3. f[k] = IF pq[k] \in S THEN f[n + j] ELSE Append(f[n + j], pq[k])
        BY <4>1, <4>2
      <4> QED
        BY <4>3 DEF k
    <3>3. h[j + 1] = IF q[j + 1] \in S THEN h[j] ELSE Append(h[j], q[j + 1])
      BY <1>4, <3>1 DEF IsKept
    <3>4. pq[n + (j + 1)] = q[j + 1] /\ q[j + 1] \in T /\ f[n + j] = g[n] \o h[j]
      BY <1>1, <2>3, <3>1
    <3>5. Append(g[n] \o h[j], q[j + 1]) = g[n] \o Append(h[j], q[j + 1])
      <4> DEFINE a == g[n]
                 b == h[j]
                 e == q[j + 1]
                 r == <<e>>
      <4>1. a \in Seq(T) /\ b \in Seq(T) /\ e \in T
        BY <2>1, <3>1, <3>4
      <4> HIDE DEF a, b, e
      <4>2. r \in Seq(T) /\ a \o b \in Seq(T)
        BY <4>1
      <4>3. Append(a \o b, e) = (a \o b) \o r /\ Append(b, e) = b \o r
        BY SMTT(40), <4>1, <4>2
      <4> HIDE DEF r
      <4>4. (a \o b) \o r = a \o (b \o r)
        BY <4>1, <4>2
      <4>5. Append(a \o b, e) = a \o Append(b, e)
        BY <4>3, <4>4
      <4> QED
        BY <4>5 DEF a, b, e
    <3> QED
      BY <3>1, <3>2, <3>3, <3>4, <3>5
  <2> HIDE DEF J
  <2> QED
    BY <1>1, <2>2, <2>3, Induct
<1>8. f[n + m] = g[n] \o h[m]
  <2>1. m \in J
    BY SMTT(40), <1>1, <1>7
  <2> QED
    BY <2>1
<1> QED
  BY <1>2, <1>3, <1>4, <1>8 DEF pq

\* What is left of one message.
LEMMA WithoutOne ==
    ASSUME NEW e, NEW S
    PROVE  /\ Without(<<>>, S) = <<>>
           /\ Without(<<e>>, S) = IF e \in S THEN <<>> ELSE <<e>>
<1>1. <<>> \in Seq({e}) /\ <<e>> \in Seq({e})
  OBVIOUS
<1>2. Without(<<>>, S) = <<>>
  <2>1. PICK f \in [0..Len(<<>>) -> Seq({e})] :
          IsKept(f, <<>>, S, Len(<<>>)) /\ Without(<<>>, S) = f[Len(<<>>)]
    BY <1>1, WithoutKept
  <2> QED
    BY <2>1 DEF IsKept
<1>3. PICK f \in [0..Len(<<e>>) -> Seq({e})] :
        IsKept(f, <<e>>, S, Len(<<e>>)) /\ Without(<<e>>, S) = f[Len(<<e>>)]
  BY ZenonT(80), <1>1, WithoutKept
<1>4. Len(<<e>>) = 1 /\ <<e>>[1] = e /\ 1 \in 1..1 /\ 1 - 1 = 0
  OBVIOUS
<1>5. f[0] = <<>>
  BY <1>3 DEF IsKept
<1>6. f[1] = IF e \in S THEN f[0] ELSE Append(f[0], e)
  BY <1>3, <1>4 DEF IsKept
<1>7. Append(<<>>, e) = <<e>>
  OBVIOUS
<1> QED
  BY <1>2, <1>3, <1>4, <1>5, <1>6, <1>7

\* What is left behind the first message.
LEMMA WithoutTail ==
    ASSUME NEW T, NEW q \in Seq(T), q # <<>>, NEW S
    PROVE  /\ Head(q) \in S => Without(q, S) = Without(Tail(q), S)
           /\ Head(q) \notin S =>
                 /\ Without(q, S) # <<>>
                 /\ Without(Tail(q), S) = Tail(Without(q, S))
                 /\ Head(Without(q, S)) = Head(q)
<1>1. /\ q = <<Head(q)>> \o Tail(q) /\ Tail(q) \in Seq(T) /\ Head(q) \in T
      /\ <<Head(q)>> \in Seq(T)
  BY Tailed
<1>2. Without(q, S) = Without(<<Head(q)>>, S) \o Without(Tail(q), S)
  <2> DEFINE h == <<Head(q)>>
             t == Tail(q)
  <2>1. h \in Seq(T) /\ t \in Seq(T) /\ q = h \o t
    BY <1>1
  <2> HIDE DEF h, t
  <2>2. Without(h \o t, S) = Without(h, S) \o Without(t, S)
    BY <2>1, WithoutConcat
  <2> QED
    BY <2>1, <2>2 DEF h, t
<1>3. Without(Tail(q), S) \in Seq(T)
  BY <1>1, WithoutHas
<1>4. \A w \in Seq(T) : /\ <<>> \o w = w
                        /\ <<Head(q)>> \o w # <<>>
                        /\ Tail(<<Head(q)>> \o w) = w
                        /\ Head(<<Head(q)>> \o w) = Head(q)
  BY <1>1
<1>5. Without(<<Head(q)>>, S) = IF Head(q) \in S THEN <<>> ELSE <<Head(q)>>
  BY WithoutOne
<1> DEFINE w == Without(Tail(q), S)
<1>6. CASE Head(q) \in S
  BY <1>2, <1>3, <1>4, <1>5, <1>6
<1>7. CASE Head(q) \notin S
  <2>1. Without(q, S) = <<Head(q)>> \o w
    BY <1>2, <1>5, <1>7
  <2>2. w \in Seq(T)
    BY <1>3
  <2> HIDE DEF w
  <2>3. /\ Without(q, S) # <<>> /\ Tail(Without(q, S)) = w
        /\ Head(Without(q, S)) = Head(q)
    BY <1>4, <2>1, <2>2
  <2> QED
    BY <1>7, <2>3 DEF w
<1> QED
  BY <1>6, <1>7

\* Erasing more makes no difference to what was erased before.
LEMMA WithoutTwice ==
    ASSUME NEW T, NEW q \in Seq(T), NEW S, NEW R, S \subseteq R
    PROVE  Without(Without(q, S), R) = Without(q, R)
<1> DEFINE Same(p) == Without(Without(p, S), R) = Without(p, R)
           I == {n \in Nat : \A p \in Seq(T) : Len(p) = n => Same(p)}
<1>1. 0 \in I
  <2> SUFFICES ASSUME NEW p \in Seq(T), Len(p) = 0 PROVE Same(p)
    OBVIOUS
  <2>1. p = <<>>
    OBVIOUS
  <2> QED
    BY <2>1, WithoutOne
<1>2. ASSUME NEW i \in Nat, i \in I PROVE i + 1 \in I
  <2> SUFFICES ASSUME NEW p \in Seq(T), Len(p) = i + 1 PROVE Same(p)
    OBVIOUS
  <2> DEFINE f == SubSeq(p, 1, i)
             e == p[i + 1]
             one == <<e>>
  <2>1. f \in Seq(T) /\ Len(f) = i /\ e \in T /\ one \in Seq(T) /\ p = f \o one
    OBVIOUS
  <2>2. Same(f)
    BY <1>2, <2>1
  <2>3. Same(one)
    BY WithoutOne
  <2> HIDE DEF f, e, one
  <2>4. /\ Without(p, S) = Without(f, S) \o Without(one, S)
        /\ Without(p, R) = Without(f, R) \o Without(one, R)
    <3>1. Without(f \o one, S) = Without(f, S) \o Without(one, S)
      BY <2>1, WithoutConcat
    <3>2. Without(f \o one, R) = Without(f, R) \o Without(one, R)
      BY <2>1, WithoutConcat
    <3> QED
      BY <2>1, <3>1, <3>2
  <2>5. Without(f, S) \in Seq(T) /\ Without(one, S) \in Seq(T)
    BY <2>1, WithoutHas
  <2>6. Without(Without(p, S), R)
        = Without(Without(f, S), R) \o Without(Without(one, S), R)
    <3>1. Without(Without(f, S) \o Without(one, S), R)
          = Without(Without(f, S), R) \o Without(Without(one, S), R)
      BY SMTT(40), <2>5, WithoutConcat
    <3> QED
      BY <2>4, <3>1
  <2> QED
    BY <2>2, <2>3, <2>4, <2>6
<1> HIDE DEF I
<1>3. Len(q) \in Nat /\ Len(q) \in 0..Len(q)
  OBVIOUS
<1>4. Len(q) \in I
  BY <1>1, <1>2, <1>3, Induct
<1> QED
  BY <1>4 DEF I
=============================================================================
