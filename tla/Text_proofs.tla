----------------------------- MODULE Text_proofs -----------------------------
(***************************************************************************)
(* Proofs about Text, for any words and texts of any number of parts: what *)
(* was put in comes out.                                                   *)
(*                                                                         *)
(* The argument: where parts that are put together stand in a text is      *)
(* known (FlattenPlaces); what find returns from such a place follows, and *)
(* each function of Utils and Logger that goes on behind what it found has *)
(* there what the parts from there on were meant to become (IsRest,        *)
(* IsBehind).  A recursive function is chosen, so that one that satisfies  *)
(* its equation is shown to exist first (Onward, Forward).                 *)
(***************************************************************************)
EXTENDS Text, Inbound_proofs

-----------------------------------------------------------------------------
(***************************************************************************)
(* What find and split return.                                             *)
(***************************************************************************)
\* What find returns.
LEMMA FindAt ==
  ASSUME NEW S, NEW s \in Seq(S), NEW c, NEW i \in Nat \ {0}, NEW j \in i..Len(s), s[j] = c,
         \A k \in i..(j - 1) : s[k] # c
  PROVE  Find(s, c, i) = j
<1> DEFINE I == {k \in i..Len(s) : s[k] = c}
<1>1. Len(s) \in Nat /\ j \in Nat /\ i <= j /\ j <= Len(s)
  OBVIOUS
<1>2. I \in SUBSET Nat /\ j \in I
  BY <1>1
<1>3. ASSUME NEW k \in I PROVE j <= k
  <2>1. k \in Nat /\ i <= k /\ ~(k \in i..(j - 1))
    BY <1>1
  <2> QED BY <1>1, <2>1
<1>4. Find(s, c, i) = IF I # {} THEN Min(I) ELSE 0
  BY Zenon DEF Find, SelectInSubSeq
<1> HIDE DEF I
<1>5. Min(I) = j
  BY <1>2, <1>3, MinIs
<1> QED BY <1>2, <1>4, <1>5

\* Where there is none, find returns 0.
LEMMA FindNone ==
  ASSUME NEW s, NEW c, NEW i, \A k \in i..Len(s) : s[k] # c
  PROVE  Find(s, c, i) = 0
<1> DEFINE I == {k \in i..Len(s) : s[k] = c}
<1>1. I = {}
  OBVIOUS
<1>2. Find(s, c, i) = IF I # {} THEN Min(I) ELSE 0
  BY Zenon DEF Find, SelectInSubSeq
<1> HIDE DEF I
<1> QED BY <1>1, <1>2

\* What find returns is the first place, or 0.
LEMMA FindIn ==
  ASSUME NEW S, NEW s \in Seq(S), NEW c, NEW i \in Nat \ {0}
  PROVE  \/ Find(s, c, i) = 0
         \/ /\ Find(s, c, i) \in i..Len(s) /\ s[Find(s, c, i)] = c
            /\ \A k \in i..(Find(s, c, i) - 1) : s[k] # c
<1> DEFINE I == {k \in i..Len(s) : s[k] = c}
<1>1. Len(s) \in Nat
  OBVIOUS
<1>2. CASE I = {}
  BY <1>2, FindNone
<1>3. CASE I # {}
  <2>1. I \in SUBSET Nat
    BY <1>1
  <2>2. PICK j \in I : \A k \in I : j <= k
    <3> HIDE DEF I
    <3> QED BY <1>3, <2>1, LeastNumber
  <2>3. j \in i..Len(s) /\ s[j] = c
    OBVIOUS
  <2>4. ASSUME NEW k \in i..(j - 1) PROVE s[k] # c
    <3>1. k \in i..Len(s) /\ ~(j <= k)
      BY <1>1, <2>3
    <3> QED BY <2>2, <3>1
  <2>5. Find(s, c, i) = j
    BY <2>3, <2>4, FindAt
  <2> QED BY <2>3, <2>4, <2>5
<1> QED BY <1>2, <1>3

\* Where a part of a text ends.
LEMMA EndIs ==
  ASSUME NEW S, NEW s \in Seq(S), NEW c, NEW i \in 1..Len(s)
  PROVE  EndOfPart(s, c, i) \in i..(Len(s) + 1)
<1>1. i \in Nat \ {0} /\ Len(s) \in Nat
  OBVIOUS
<1>2. Find(s, c, i) = 0 \/ Find(s, c, i) \in i..Len(s)
  BY <1>1, FindIn, Zenon
<1> QED BY <1>1, <1>2 DEF EndOfPart

\* A part ends where the first separator is, or the text.
LEMMA EndAt ==
  ASSUME NEW S, NEW s \in Seq(S), NEW c, NEW i \in Nat \ {0}, NEW j \in i..(Len(s) + 1),
         j = Len(s) + 1 \/ s[j] = c, \A k \in i..(j - 1) : s[k] # c
  PROVE  EndOfPart(s, c, i) = j
<1>1. Len(s) \in Nat
  OBVIOUS
<1>2. CASE j = Len(s) + 1
  <2>1. j - 1 = Len(s)
    BY <1>1, <1>2
  <2>2. Find(s, c, i) = 0
    BY <2>1, FindNone, Zenon
  <2> QED BY <1>2, <2>2 DEF EndOfPart
<1>3. CASE j # Len(s) + 1
  <2>1. j \in i..Len(s) /\ s[j] = c /\ j # 0
    BY <1>1, <1>3
  <2>2. Find(s, c, i) = j
    BY <2>1, FindAt, Zenon
  <2> QED BY <2>1, <2>2 DEF EndOfPart
<1> QED BY <1>2, <1>3

\* What split computes, from each place on.
SplitsFrom(S, s, c, f) ==
    /\ f \in [1..(Len(s) + 2) -> Seq(Seq(S))]
    /\ \A i \in 1..(Len(s) + 2) :
          f[i] = IF i > Len(s) THEN <<>>
                 ELSE <<SubSeq(s, i, EndOfPart(s, c, i) - 1)>> \o
                      (IF EndOfPart(s, c, i) = Len(s) THEN <<<<>>>> ELSE f[EndOfPart(s, c, i) + 1])

\* Split is a function that has at each place the parts from there on.
LEMMA SplitFcn ==
  ASSUME NEW S, NEW s \in Seq(S), NEW c
  PROVE  \E f : SplitsFrom(S, s, c, f) /\ Split(s, c) = f[1]
<1> DEFINE n == Len(s) + 2
           D == 1..n
           V == Seq(Seq(S))
           u(i) == <<SubSeq(s, i, EndOfPart(s, c, i) - 1)>>
           last == <<<<>>>>
           e == [i \in D |-> IF i <= Len(s) THEN EndOfPart(s, c, i) ELSE 0]
           next == [i \in D |-> IF i > Len(s) \/ e[i] = Len(s) THEN 0 ELSE e[i] + 1]
           base == [i \in D |-> IF i > Len(s) THEN <<>> ELSE u(i) \o last]
           h == [x \in D \X V |-> IF x[1] > Len(s) THEN <<>> ELSE u(x[1]) \o x[2]]
           Is(f) == f = [i \in D |->
                           IF i > Len(s) THEN <<>>
                           ELSE u(i) \o (IF EndOfPart(s, c, i) = Len(s) THEN last
                                         ELSE f[EndOfPart(s, c, i) + 1])]
<1>1. Len(s) \in Nat /\ n \in Nat
  OBVIOUS
<1>2. \A i \in 1..Len(s) : EndOfPart(s, c, i) \in i..(Len(s) + 1)
  BY EndIs
<1>3. \A i \in 1..Len(s) : u(i) \in V
  <2> SUFFICES ASSUME NEW i \in 1..Len(s) PROVE u(i) \in V
    OBVIOUS
  <2>1. EndOfPart(s, c, i) \in i..(Len(s) + 1)
    BY <1>2
  <2> DEFINE j == EndOfPart(s, c, i) - 1
  <2>2. j \in Int /\ i \in Int /\ \A k \in i..j : s[k] \in S
    BY <1>1, <2>1
  <2> HIDE DEF j
  <2>3. SubSeq(s, i, j) \in Seq(S)
    BY <2>2, SubSeqProperties
  <2>4. <<SubSeq(s, i, j)>> \in Seq(Seq(S))
    BY <2>3
  <2> QED BY <2>4 DEF j
<1>4. last \in V /\ <<>> \in V /\ \A x, y \in V : x \o y \in V
  OBVIOUS
<1> HIDE DEF V, u, last
<1>5. next \in [D -> Nat] /\ base \in [D -> V] /\ h \in [D \X V -> V]
  <2>1. next \in [D -> Nat]
    BY <1>1, <1>2
  <2>2. base \in [D -> V]
    BY <1>1, <1>3, <1>4
  <2>3. h \in [D \X V -> V]
    BY <1>1, <1>3, <1>4
  <2> QED BY <2>1, <2>2, <2>3
<1>6. PICK f \in [D -> V] : IsOnward(f, n, next, base, h)
  <2>1. n \in Nat /\ next \in [1..n -> Nat] /\ base \in [1..n -> V] /\ h \in [(1..n) \X V -> V]
    BY <1>1, <1>5
  <2>2. D = 1..n
    OBVIOUS
  <2> HIDE DEF n, next, base, h, D
  <2> QED BY <2>1, <2>2, Onward, Zenon
<1>7. ASSUME NEW i \in D
      PROVE  f[i] = IF i > Len(s) THEN <<>>
                    ELSE u(i) \o (IF EndOfPart(s, c, i) = Len(s) THEN last
                                  ELSE f[EndOfPart(s, c, i) + 1])
  <2>1. f[i] = IF i < next[i] /\ next[i] <= n THEN h[<<i, f[next[i]]>>] ELSE base[i]
    <3> HIDE DEF next, base, h
    <3> QED BY <1>6 DEF IsOnward
  <2>2. CASE i > Len(s)
    <3>1. next[i] = 0 /\ base[i] = <<>> /\ ~(i < next[i])
      BY <2>2
    <3> HIDE DEF next, base, h
    <3> QED BY <2>1, <2>2, <3>1
  <2>3. CASE i <= Len(s)
    <3> DEFINE j == EndOfPart(s, c, i)
    <3>1. j \in i..(Len(s) + 1) /\ e[i] = j /\ ~(i > Len(s))
      BY <1>1, <1>2, <2>3
    <3>2. CASE j = Len(s)
      <4>1. next[i] = 0 /\ base[i] = u(i) \o last /\ ~(i < next[i])
        BY <3>1, <3>2
      <4> HIDE DEF next, base, h
      <4> QED BY <2>1, <3>1, <3>2, <4>1
    <3>3. CASE j # Len(s)
      <4>1. next[i] = j + 1 /\ i < j + 1 /\ j + 1 <= n /\ j + 1 \in D
        BY <1>1, <3>1, <3>3
      <4>2. h[<<i, f[j + 1]>>] = u(i) \o f[j + 1]
        <5>1. <<i, f[j + 1]>> \in D \X V
          BY <1>6, <4>1
        <5> QED BY <3>1, <5>1
      <4> HIDE DEF next, base, h
      <4> QED BY <2>1, <3>1, <3>3, <4>1, <4>2
    <3> QED BY <3>2, <3>3
  <2> QED BY <1>1, <2>2, <2>3
<1>8. Is(f)
  <2>1. f = [i \in D |-> f[i]]
    BY <1>6
  <2> HIDE DEF D
  <2> QED BY <1>7, <2>1
<1>9. Is(CHOOSE g : Is(g))
  <2> HIDE DEF Is
  <2> QED BY <1>8
<1> DEFINE g == CHOOSE g : Is(g)
<1>10. Split(s, c) = g[1]
  BY DEF Split, u, last
<1>11. \A i \in D : g[i] = IF i > Len(s) THEN <<>>
                           ELSE u(i) \o (IF EndOfPart(s, c, i) = Len(s) THEN last
                                         ELSE g[EndOfPart(s, c, i) + 1])
  <2>1. g = [i \in D |-> IF i > Len(s) THEN <<>>
                         ELSE u(i) \o (IF EndOfPart(s, c, i) = Len(s) THEN last
                                       ELSE g[EndOfPart(s, c, i) + 1])]
    BY <1>9
  <2> HIDE DEF D, g
  <2> QED BY <2>1
<1> HIDE DEF g
<1>12. f[1] = g[1]
  <2> DEFINE T == {i \in D : f[i] = g[i]}
  <2>1. ASSUME NEW i \in 1..n, \A k \in (i + 1)..n : k \in T PROVE i \in T
    <3> DEFINE j == EndOfPart(s, c, i)
    <3>1. CASE i > Len(s)
      BY <1>7, <1>11, <3>1
    <3>2. CASE i <= Len(s)
      <4>1. j + 1 \in (i + 1)..n
        BY <1>1, <1>2, <3>2
      <4>2. f[j + 1] = g[j + 1]
        BY <2>1, <4>1
      <4> QED BY <1>7, <1>11, <3>2, <4>2
    <3> QED BY <1>1, <3>1, <3>2
  <2> HIDE DEF T
  <2>2. \A i \in 1..n : i \in T
    BY <1>1, <2>1, Backward
  <2>3. 1 \in 1..n
    BY <1>1
  <2> QED BY <2>2, <2>3 DEF T
<1>13. SplitsFrom(S, s, c, f)
  BY <1>6, <1>7 DEF SplitsFrom, V, u, last
<1> QED BY <1>10, <1>12, <1>13

\* Parts from the i-th on.
IsRest(S, n, parts, i, x) ==
    /\ x \in Seq(S) /\ Len(x) = n - i + 1
    /\ \A k \in 1..(n - i + 1) : x[k] = parts[i + k - 1]

\* Behind the last part there are none.
LEMMA RestEmpty ==
  ASSUME NEW S, NEW n \in Nat, NEW parts
  PROVE  IsRest(S, n, parts, n + 1, <<>>)
BY DEF IsRest

\* A part and those behind it are the rest from that part on.
LEMMA RestMore ==
  ASSUME NEW S, NEW n \in Nat, NEW parts \in [1..n -> S], NEW i \in 1..n, NEW x,
         IsRest(S, n, parts, i + 1, x)
  PROVE  IsRest(S, n, parts, i, <<parts[i]>> \o x)
<1> DEFINE u == <<parts[i]>>
           y == u \o x
<1>1. u \in Seq(S) /\ Len(u) = 1 /\ u[1] = parts[i]
  OBVIOUS
<1>2. x \in Seq(S) /\ Len(x) = n - i /\ \A k \in 1..(n - i) : x[k] = parts[i + k]
  <2>1. n - (i + 1) + 1 = n - i /\ \A k \in 1..(n - i) : (i + 1) + k - 1 = i + k
    OBVIOUS
  <2> QED BY <2>1 DEF IsRest
<1>3. IsConcat(S, u, x, y)
  BY <1>1, <1>2, ConcatPlaces
<1> HIDE DEF u, y
<1>4. y \in Seq(S) /\ Len(y) = n - i + 1 /\ y[1] = parts[i] /\ \A k \in 1..(n - i) : y[1 + k] = parts[i + k]
  <2>1. 1 \in 1..Len(u)
    BY <1>1
  <2>2. Len(y) = 1 + (n - i) /\ y[1] = u[1] /\ \A k \in 1..(n - i) : y[1 + k] = x[k]
    BY <1>1, <1>2, <1>3, <2>1 DEF IsConcat
  <2>3. y \in Seq(S)
    BY <1>3 DEF IsConcat
  <2>4. Len(y) = n - i + 1
    BY <2>2
  <2>5. \A k \in 1..(n - i) : y[1 + k] = parts[i + k]
    BY <1>2, <2>2
  <2>6. y[1] = parts[i]
    BY <1>1, <2>2
  <2> QED BY <2>3, <2>4, <2>5, <2>6
<1>5. ASSUME NEW k \in 1..(n - i + 1) PROVE y[k] = parts[i + k - 1]
  <2>1. CASE k = 1
    <3>1. i + k - 1 = i
      BY <2>1
    <3> QED BY <1>4, <2>1, <3>1
  <2>2. CASE k # 1
    <3>1. k - 1 \in 1..(n - i) /\ 1 + (k - 1) = k /\ i + (k - 1) = i + k - 1
      BY <2>2
    <3> QED BY <1>4, <3>1
  <2> QED BY <2>1, <2>2
<1>6. IsRest(S, n, parts, i, y)
  BY <1>4, <1>5 DEF IsRest
<1> QED BY <1>6 DEF u, y

\* The rest from the first part on is all of them.
LEMMA RestAll ==
  ASSUME NEW S, NEW n \in Nat, NEW parts \in [1..n -> S], NEW x, IsRest(S, n, parts, 1, x)
  PROVE  x = parts
<1>1. parts \in Seq(S) /\ Len(parts) = n
  OBVIOUS
<1>2. n - 1 + 1 = n /\ \A k \in 1..n : 1 + k - 1 = k
  OBVIOUS
<1>3. x \in Seq(S) /\ Len(x) = n /\ \A k \in 1..n : x[k] = parts[k]
  BY <1>2 DEF IsRest
<1> QED BY <1>1, <1>3, SeqEqual

\* Parts with a c before each, laid out in a text.
Separated(S, n, parts, c, t, off) ==
    /\ t \in Seq(S) /\ off \in [1..(n + 1) -> Nat] /\ off[1] = 0 /\ Len(t) = off[n + 1]
    /\ \A i \in 1..n : /\ off[i + 1] = off[i] + 1 + Len(parts[i]) /\ t[off[i] + 1] = c
                       /\ \A k \in 1..Len(parts[i]) : t[off[i] + 1 + k] = parts[i][k]
    /\ \A i \in 1..(n + 1) : \A j \in i..(n + 1) : off[i] <= off[j]

\* Parts that are joined, without the first separator, stand where they are meant to.
LEMMA SeparatedParts ==
  ASSUME NEW S, NEW n \in Nat, NEW parts \in [1..n -> Seq(S)], NEW c \in S
  PROVE  \E off : Separated(S, n, parts, c, FlattenSeq([i \in 1..n |-> <<c>> \o parts[i]]), off)
<1> DEFINE q == [i \in 1..n |-> <<c>> \o parts[i]]
           t == FlattenSeq(q)
<1>0. \A i \in 1..n : parts[i] \in Seq(S)
  OBVIOUS
<1>1. \A i \in 1..n : /\ q[i] \in Seq(S) /\ Len(q[i]) = Len(parts[i]) + 1 /\ Len(parts[i]) \in Nat
                      /\ q[i][1] = c /\ \A k \in 1..Len(parts[i]) : q[i][k + 1] = parts[i][k]
  BY <1>0, BehindC
<1>2. q \in [1..n -> Seq(S)]
  BY <1>1
<1> HIDE DEF q
<1>3. PICK off : LaidOut(S, n, q, t, off)
  BY <1>2, FlattenPlaces
<1> HIDE DEF t
<1>4. ASSUME NEW i \in 1..n
      PROVE  /\ off[i + 1] = off[i] + 1 + Len(parts[i]) /\ t[off[i] + 1] = c
             /\ \A k \in 1..Len(parts[i]) : t[off[i] + 1 + k] = parts[i][k]
  <2> DEFINE l == Len(parts[i])
             a == off[i]
  <2>1. off[i + 1] = a + Len(q[i]) /\ \A k \in 1..Len(q[i]) : t[a + k] = q[i][k]
    BY <1>3 DEF LaidOut
  <2>2. a \in Nat
    BY <1>3 DEF LaidOut
  <2>3. l \in Nat /\ Len(q[i]) = l + 1 /\ q[i][1] = c /\ \A k \in 1..l : q[i][k + 1] = parts[i][k]
    BY <1>1
  <2> HIDE DEF l, a
  <2>4. off[i + 1] = a + 1 + l /\ t[a + 1] = c
    <3>1. 1 \in 1..Len(q[i])
      BY <2>3
    <3> QED BY <2>1, <2>2, <2>3, <3>1
  <2>5. ASSUME NEW k \in 1..l PROVE t[a + 1 + k] = parts[i][k]
    <3>1. k + 1 \in 1..Len(q[i]) /\ a + (k + 1) = a + 1 + k
      BY <2>2, <2>3
    <3> QED BY <2>1, <2>3, <3>1
  <2> QED BY <2>4, <2>5 DEF l, a
<1>5. \A i \in 1..(n + 1) : \A j \in i..(n + 1) : off[i] <= off[j]
  BY <1>2, <1>3, PlacesGrow
<1>6. t \in Seq(S) /\ off \in [1..(n + 1) -> Nat] /\ off[1] = 0 /\ Len(t) = off[n + 1]
  BY <1>3, Zenon DEF LaidOut
<1>7. Separated(S, n, parts, c, t, off)
  BY <1>4, <1>5, <1>6, Zenon DEF Separated
<1> QED BY <1>7 DEF t, q

\* split gives the parts back that stand between separators; an empty text has none.
SplitsBack(n, parts, c) == Split(Tail(FlattenSeq([i \in 1..n |-> <<c>> \o parts[i]])), c) = parts

\* Where parts stand so, split finds them.
LEMMA SplitParted ==
  ASSUME NEW S, NEW n \in Nat \ {0}, NEW parts \in [1..n -> Seq(S)], NEW c \in S,
         n # 1 \/ parts[1] # <<>>, \A i \in 1..n : \A k \in 1..Len(parts[i]) : parts[i][k] # c
  PROVE  SplitsBack(n, parts, c)
<1> DEFINE b == FlattenSeq([i \in 1..n |-> <<c>> \o parts[i]])
           t == Tail(b)
           L == Len(t)
<1>1. PICK off : Separated(S, n, parts, c, b, off)
  BY SeparatedParts
<1> HIDE DEF b
<1>2. \A i \in 1..n : parts[i] \in Seq(S) /\ Len(parts[i]) \in Nat
  OBVIOUS
<1>3. /\ b \in Seq(S) /\ off \in [1..(n + 1) -> Nat] /\ off[1] = 0 /\ Len(b) = off[n + 1]
      /\ \A i \in 1..n : /\ off[i + 1] = off[i] + 1 + Len(parts[i]) /\ b[off[i] + 1] = c
                         /\ \A k \in 1..Len(parts[i]) : b[off[i] + 1 + k] = parts[i][k]
      /\ \A i \in 1..(n + 1) : \A j \in i..(n + 1) : off[i] <= off[j]
  BY <1>1, Zenon DEF Separated
<1>4. \A i \in 1..n : i + 1 \in 1..(n + 1) /\ i \in 1..(n + 1) /\ off[i] \in Nat /\ off[i + 1] \in Nat
  BY <1>3
<1>5. 1 \in 1..n /\ n \in 1..n /\ n + 1 \in 1..(n + 1) /\ off[n + 1] \in Nat /\ off[n + 1] > 0
  <2>1. 1 \in 1..n /\ n \in 1..n /\ n + 1 \in 1..(n + 1) /\ n + 1 \in 2..(n + 1) /\ 2 \in 1..(n + 1)
    OBVIOUS
  <2>2. off[n + 1] \in Nat /\ off[2] = 1 + Len(parts[1])
    BY <1>3, <2>1
  <2>3. off[2] <= off[n + 1]
    BY <1>3, <2>1, Zenon
  <2> QED BY <1>2, <2>1, <2>2, <2>3
<1>6. t \in Seq(S) /\ L = off[n + 1] - 1 /\ L \in Nat /\ \A k \in 1..L : t[k] = b[k + 1]
  <2>1. b # <<>> /\ Len(b) \in Nat
    BY <1>3, <1>5
  <2>2. t \in Seq(S) /\ Len(t) = Len(b) - 1 /\ \A k \in 1..Len(t) : t[k] = b[k + 1]
    BY <1>3, <2>1, HeadTailProperties
  <2> QED BY <1>3, <1>5, <2>2
<1> HIDE DEF t, L
<1>7. ASSUME NEW i \in 1..n
      PROVE  /\ off[i] + 1 \in Nat \ {0} /\ off[i + 1] \in (off[i] + 1)..(L + 1)
             /\ off[i + 1] = off[i] + 1 + Len(parts[i])
             /\ \A k \in 1..Len(parts[i]) : off[i] + k \in 1..L /\ t[off[i] + k] = parts[i][k]
             /\ i < n => off[i + 1] \in 1..L /\ t[off[i + 1]] = c
  <2> DEFINE a == off[i]
             d == off[i + 1]
             l == Len(parts[i])
             e == off[n + 1]
  <2>1. a \in Nat /\ d \in Nat /\ l \in Nat /\ e \in Nat /\ d = a + 1 + l /\ L = e - 1
    BY <1>2, <1>3, <1>4, <1>5, <1>6
  <2>2. d <= e
    <3>1. n + 1 \in (i + 1)..(n + 1)
      OBVIOUS
    <3> QED BY <1>3, <1>4, <3>1, Zenon
  <2>3. \A k \in 1..l : b[a + 1 + k] = parts[i][k]
    BY <1>3
  <2>6. i < n => d < e
    <3> SUFFICES ASSUME i < n PROVE d < e
      OBVIOUS
    <3>1. i + 1 \in 1..n /\ (i + 1) + 1 \in 1..(n + 1) /\ n + 1 \in ((i + 1) + 1)..(n + 1)
      OBVIOUS
    <3>2. off[(i + 1) + 1] = d + 1 + Len(parts[i + 1]) /\ Len(parts[i + 1]) \in Nat
      BY <1>2, <1>3, <3>1
    <3>3. off[(i + 1) + 1] <= e
      BY <1>3, <3>1, Zenon
    <3> HIDE DEF d, e
    <3> QED BY <2>1, <3>2, <3>3
  <2>7. i < n => b[d + 1] = c
    <3> SUFFICES ASSUME i < n PROVE b[d + 1] = c
      OBVIOUS
    <3>1. i + 1 \in 1..n
      OBVIOUS
    <3> QED BY <1>3, <3>1
  <2> HIDE DEF a, d, l, e
  <2>4. a + 1 \in Nat \ {0} /\ d \in (a + 1)..(L + 1)
    BY <2>1, <2>2
  <2>5. \A k \in 1..l : a + k \in 1..L /\ t[a + k] = parts[i][k]
    <3> SUFFICES ASSUME NEW k \in 1..l PROVE a + k \in 1..L /\ t[a + k] = parts[i][k]
      OBVIOUS
    <3>1. a + k \in 1..L /\ (a + k) + 1 = a + 1 + k
      BY <2>1, <2>2
    <3> QED BY <1>6, <2>3, <3>1
  <2>8. i < n => d \in 1..L /\ t[d] = c
    <3> SUFFICES ASSUME i < n PROVE d \in 1..L /\ t[d] = c
      OBVIOUS
    <3>1. d \in 1..L
      BY <2>1, <2>6
    <3> QED BY <1>6, <2>7, <3>1
  <2> QED BY <2>1, <2>4, <2>5, <2>8 DEF a, d, l
<1>a. t \in Seq(S)
  BY <1>6
<1>8. PICK f : SplitsFrom(S, t, c, f) /\ Split(t, c) = f[1]
  BY <1>a, SplitFcn
<1> DEFINE Rests(i) == off[i] + 1 <= L => IsRest(Seq(S), n, parts, i, f[off[i] + 1])
           T == {i \in 1..n : Rests(i)}
<1>9. ASSUME NEW i \in 1..n, \A k \in (i + 1)..n : k \in T PROVE i \in T
  <2> SUFFICES ASSUME off[i] + 1 <= L PROVE IsRest(Seq(S), n, parts, i, f[off[i] + 1])
    OBVIOUS
  <2> DEFINE a == off[i]
             d == off[i + 1]
             p == parts[i]
  <2>1. /\ a + 1 \in Nat \ {0} /\ d \in (a + 1)..(L + 1) /\ d = a + 1 + Len(p)
        /\ \A k \in 1..Len(p) : a + k \in 1..L /\ t[a + k] = p[k]
        /\ i < n => d \in 1..L /\ t[d] = c
    BY <1>7
  <2>2. a \in Nat /\ d \in Nat /\ p \in Seq(S) /\ Len(p) \in Nat /\ L \in Nat /\ a + 1 <= L
    BY <1>2, <1>4, <1>6
  <2>3. \A k \in 1..Len(p) : p[k] # c
    OBVIOUS
  <2>4. i = n => d = L + 1
    BY <1>5, <1>6
  <2>0. t \in Seq(S) /\ L = Len(t)
    BY <1>6 DEF L
  <2>5. f[a + 1] = IF a + 1 > L THEN <<>>
                   ELSE <<SubSeq(t, a + 1, EndOfPart(t, c, a + 1) - 1)>> \o
                        (IF EndOfPart(t, c, a + 1) = L THEN <<<<>>>> ELSE f[EndOfPart(t, c, a + 1) + 1])
    <3>1. a + 1 \in 1..(L + 2)
      BY <2>2
    <3> HIDE DEF a
    <3> QED BY <1>8, <3>1 DEF SplitsFrom, L
  <2> HIDE DEF a, d, p
  <2>6. EndOfPart(t, c, a + 1) = d
    <3>1. d = L + 1 \/ t[d] = c
      BY <2>1, <2>4
    <3>2. \A k \in (a + 1)..(d - 1) : t[k] # c
      <4> SUFFICES ASSUME NEW k \in (a + 1)..(d - 1) PROVE t[k] # c
        OBVIOUS
      <4>1. k - a \in 1..Len(p) /\ a + (k - a) = k
        BY <2>1, <2>2
      <4> QED BY <2>1, <2>3, <4>1
    <3>3. a + 1 \in Nat \ {0} /\ d \in (a + 1)..(Len(t) + 1) /\ (d = Len(t) + 1 \/ t[d] = c)
      BY <2>0, <2>1, <3>1
    <3>4. t \in Seq(S)
      BY <2>0
    <3> HIDE <2>1, <2>2
    <3> QED BY <3>2, <3>3, <3>4, EndAt
  <2>7. SubSeq(t, a + 1, d - 1) = p
    <3>1. d - 1 = a + Len(p) /\ a + Len(p) <= L
      BY <2>1, <2>2
    <3>2. SubSeq(t, a + 1, a + Len(p)) = p
      BY <2>0, <2>1, <2>2, <3>1, SubSeqIs
    <3> QED BY <3>1, <3>2
  <2> DEFINE rest == IF d = L THEN <<<<>>>> ELSE f[d + 1]
  <2>8. f[a + 1] = <<p>> \o rest
    <3>1. ~ (a + 1 > L)
      BY <2>2
    <3> QED BY <2>5, <2>6, <2>7, <3>1, Zenon
  <2>9. IsRest(Seq(S), n, parts, i + 1, rest)
    <3>1. CASE i = n
      <4>1. d = L + 1 /\ d # L /\ d + 1 \in 1..(L + 2) /\ d + 1 > L
        BY <2>2, <2>4, <3>1
      <4>2. f[d + 1] = <<>>
        BY <1>8, <4>1 DEF SplitsFrom, L
      <4>3. rest = <<>>
        BY <4>1, <4>2
      <4> HIDE DEF rest
      <4> QED BY <3>1, <4>3, RestEmpty
    <3>2. CASE i # n
      <4>1. i < n /\ i + 1 \in 1..n /\ i + 1 \in (i + 1)..n /\ d \in 1..L
        BY <2>1, <3>2
      <4>2. off[i + 1] = d /\ (i + 1) \in T
        BY <1>9, <4>1 DEF d
      <4>3. CASE d # L
        <5>1. d + 1 <= L
          BY <2>2, <4>1, <4>3
        <5>2. IsRest(Seq(S), n, parts, i + 1, f[d + 1])
          BY <4>2, <5>1
        <5> QED BY <4>3, <5>2
      <4>4. CASE d = L
        <5>1. i + 1 = n /\ parts[i + 1] = <<>>
          <6> DEFINE g == off[(i + 1) + 1]
                     l == Len(parts[i + 1])
          <6>1. l \in Nat /\ g \in (d + 1)..(L + 1) /\ g = d + 1 + l
            BY <1>2, <1>7, <4>1, <4>2
          <6>2. i + 1 < n => g \in 1..L
            BY <1>7, <4>1
          <6> HIDE DEF g, l
          <6>3. i + 1 = n /\ l = 0
            BY <2>2, <4>1, <4>4, <6>1, <6>2
          <6>4. parts[i + 1] \in Seq(S)
            BY <1>2, <4>1
          <6> QED BY <6>3, <6>4, EmptySeq DEF l
        <5>2. IsRest(Seq(S), n, parts, n + 1, <<>>)
          BY RestEmpty
        <5>3. IsRest(Seq(S), n, parts, n, <<parts[n]>> \o <<>>)
          BY <1>5, <5>2, RestMore
        <5>4. <<parts[n]>> \o <<>> = <<parts[n]>>
          OBVIOUS
        <5>5. rest = <<parts[n]>>
          BY <4>4, <5>1
        <5> HIDE DEF rest
        <5>6. IsRest(Seq(S), n, parts, n, rest)
          BY <5>3, <5>4, <5>5
        <5> QED BY <5>1, <5>6
      <4> QED BY <4>3, <4>4
    <3> QED BY <3>1, <3>2
  <2> HIDE DEF rest
  <2>10. IsRest(Seq(S), n, parts, i, <<parts[i]>> \o rest)
    BY <2>9, RestMore
  <2> QED BY <2>8, <2>10 DEF a, p
<1>10. 1 \in T
  <2> HIDE DEF T
  <2>1. \A i \in 1..n : i \in T
    BY <1>9, Backward
  <2> QED BY <1>5, <2>1
<1>11. off[1] + 1 <= L
  <2>1. CASE n = 1
    <3>1. parts[1] # <<>> /\ off[2] = 1 + Len(parts[1]) /\ parts[1] \in Seq(S) /\ L = off[2] - 1
      BY <1>2, <1>3, <1>5, <1>6, <2>1
    <3>2. Len(parts[1]) \in Nat /\ Len(parts[1]) # 0
      BY <3>1, EmptySeq
    <3> QED BY <1>3, <3>1, <3>2
  <2>2. CASE n # 1
    <3>1. 1 < n
      BY <2>2
    <3>2. off[2] \in 1..L /\ off[2] = 1 + Len(parts[1]) /\ off[1] = 0
      BY <1>3, <1>5, <1>7, <3>1
    <3> QED BY <1>6, <3>2
  <2> QED BY <2>1, <2>2
<1>12. IsRest(Seq(S), n, parts, 1, f[1])
  <2>1. Rests(1)
    BY <1>10
  <2>2. off[1] + 1 = 1
    BY <1>3
  <2> QED BY <1>11, <2>1, <2>2
<1>13. f[1] = parts
  BY <1>12, RestAll
<1> QED BY <1>8, <1>13 DEF t, b, SplitsBack

\* Parts that a c can stand between.
Separable(S, n, parts, c) ==
    /\ n \in Nat \ {0} /\ parts \in [1..n -> Seq(S)] /\ c \in S
    /\ n # 1 \/ parts[1] # <<>>
    /\ \A i \in 1..n : \A k \in 1..Len(parts[i]) : parts[i][k] # c

\* Split returns the parts that were joined.
LEMMA SplitJoined ==
  ASSUME NEW S, NEW n, NEW parts, NEW c, Separable(S, n, parts, c)
  PROVE  SplitsBack(n, parts, c)
<1>1. /\ n \in Nat \ {0} /\ parts \in [1..n -> Seq(S)] /\ c \in S
      /\ n # 1 \/ parts[1] # <<>>
      /\ \A i \in 1..n : \A k \in 1..Len(parts[i]) : parts[i][k] # c
  BY Zenon DEF Separable
<1> QED BY <1>1, SplitParted

-----------------------------------------------------------------------------
(***************************************************************************)
(* Parameters of a query: bisect, trim, and which value stays.             *)
(***************************************************************************)
\* bisect gives back what stands before and behind a c.
LEMMA BisectJoined ==
  ASSUME NEW S, NEW a \in Seq(S), NEW d \in Seq(S), NEW c \in S, \A i \in 1..Len(a) : a[i] # c
  PROVE  Bisect((a \o <<c>>) \o d, c) = <<a, d>>
<1> DEFINE e == <<c>>
           u == a \o e
           s == u \o d
           I == {i \in 1..Len(s) : s[i] = c}
           at == SelectInSeq(s, LAMBDA x : x = c)
           l == Len(a)
           k == Len(d)
<1>1. e \in Seq(S) /\ Len(e) = 1 /\ e[1] = c /\ l \in Nat /\ k \in Nat
  OBVIOUS
<1>2. IsConcat(S, a, e, u)
  BY <1>1, ConcatPlaces
<1> HIDE DEF e, u
<1>3. u \in Seq(S) /\ Len(u) = l + 1 /\ u[l + 1] = c /\ \A i \in 1..l : u[i] = a[i]
  <2>1. u \in Seq(S) /\ Len(u) = l + Len(e) /\ (\A i \in 1..l : u[i] = a[i]) /\ \A i \in 1..Len(e) : u[l + i] = e[i]
    BY <1>2, Zenon DEF IsConcat
  <2>2. 1 \in 1..Len(e)
    BY <1>1
  <2> HIDE DEF l
  <2> QED BY <1>1, <2>1, <2>2
<1>4. IsConcat(S, u, d, s)
  BY <1>3, ConcatPlaces
<1> HIDE DEF s
<1>5. /\ s \in Seq(S) /\ Len(s) = l + 1 + k /\ s[l + 1] = c
      /\ (\A i \in 1..l : s[i] = a[i]) /\ \A i \in 1..k : s[l + 1 + i] = d[i]
  <2>1. s \in Seq(S) /\ Len(s) = Len(u) + k /\ (\A i \in 1..Len(u) : s[i] = u[i]) /\ \A i \in 1..k : s[Len(u) + i] = d[i]
    BY <1>4, Zenon DEF IsConcat
  <2> HIDE DEF l, k
  <2>2. s \in Seq(S) /\ Len(s) = (l + 1) + k /\ (\A i \in 1..(l + 1) : s[i] = u[i]) /\ \A i \in 1..k : s[l + 1 + i] = d[i]
    BY <1>3, <2>1
  <2>3. l + 1 \in 1..(l + 1) /\ \A i \in 1..l : i \in 1..(l + 1)
    BY <1>1
  <2> QED BY <1>3, <2>2, <2>3
<1>6. I \in SUBSET Nat /\ l + 1 \in I /\ \A i \in I : l + 1 <= i
  <2> HIDE DEF l, k
  <2>1. l + 1 \in 1..Len(s)
    BY <1>1, <1>5
  <2>2. ASSUME NEW i \in I PROVE l + 1 <= i
    <3>1. i \in Nat /\ i >= 1 /\ s[i] = c
      OBVIOUS
    <3>2. ~ (i \in 1..l)
      BY <1>5, <3>1 DEF l
    <3> QED BY <1>1, <3>1, <3>2
  <2> QED BY <1>5, <2>1, <2>2
<1>7. at = IF I # {} THEN Min(I) ELSE 0
  <2>1. DOMAIN s = 1..Len(s)
    BY <1>5
  <2> QED BY <2>1, Zenon DEF SelectInSeq
<1>8. at = l + 1
  <2> HIDE DEF I, at, l
  <2>1. Min(I) = l + 1
    BY <1>6, MinIs
  <2> QED BY <1>6, <1>7, <2>1
<1>9. Bisect(s, c) = IF at = 0 THEN <<s, <<>>>> ELSE <<SubSeq(s, 1, at - 1), SubSeq(s, at + 1, Len(s))>>
  BY Zenon DEF Bisect
<1>10. SubSeq(s, 0 + 1, 0 + l) = a
  <2>1. 0 + l <= Len(s) /\ \A i \in 1..l : s[0 + i] = a[i]
    BY <1>1, <1>5
  <2> QED BY <1>5, <2>1, SubSeqIs
<1>11. SubSeq(s, (l + 1) + 1, (l + 1) + k) = d
  <2>1. l + 1 \in Nat /\ (l + 1) + k <= Len(s)
    BY <1>1, <1>5
  <2> QED BY <1>5, <2>1, SubSeqIs
<1> HIDE DEF at, l, k
<1>12. at # 0 /\ at - 1 = 0 + l /\ at + 1 = (l + 1) + 1 /\ Len(s) = (l + 1) + k /\ 0 + 1 = 1
  BY <1>1, <1>5, <1>8
<1>13. Bisect(s, c) = <<a, d>>
  BY <1>9, <1>10, <1>11, <1>12
<1> QED BY <1>13 DEF s, u, e

\* trim leaves what stands from the first to the last that is no blank.
LEMMA TrimIs ==
  ASSUME NEW S, NEW s \in Seq(S), NEW i \in 1..Len(s), NEW j \in 1..Len(s), s[i] # Blank, s[j] # Blank,
         \A k \in 1..Len(s) : s[k] # Blank => i <= k /\ k <= j
  PROVE  Trim(s) = SubSeq(s, i, j)
<1> DEFINE solid == {k \in 1..Len(s) : s[k] # Blank}
           n == Len(s)
<1>1. n \in Nat /\ i \in solid /\ j \in solid /\ solid \in SUBSET Nat /\ solid \in SUBSET (1..n)
      /\ \A k \in solid : i <= k /\ k <= j
  OBVIOUS
<1>2. Trim(s) = IF solid = {} THEN <<>> ELSE SubSeq(s, Min(solid), Max(solid))
  <2>1. DOMAIN s = 1..Len(s)
    OBVIOUS
  <2> QED BY <2>1, Zenon DEF Trim
<1> HIDE DEF solid, n
<1>3. Min(solid) = i
  BY <1>1, MinIs
<1>4. Max(solid) = j
  <2>1. Max(solid) \in solid /\ \A k \in solid : k <= Max(solid)
    BY <1>1, MaxIsGreatest
  <2> DEFINE m == Max(solid)
  <2>2. m \in Nat /\ j \in Nat /\ m <= j /\ j <= m
    BY <1>1, <2>1
  <2> HIDE DEF m
  <2>3. m = j
    BY <2>2
  <2> QED BY <2>3 DEF m
<1> QED BY <1>1, <1>2, <1>3, <1>4

Blanks == {<<>>, <<Blank>>}

\* Blanks alone, before a text, and behind it.
LEMMA TrimBlank ==
  ASSUME NEW u \in Blanks
  PROVE  Trim(u) = <<>>
<1> DEFINE solid == {k \in DOMAIN u : u[k] # Blank}
<1>1. \A k \in DOMAIN u : u[k] = Blank
  BY DEF Blanks
<1>2. solid = {}
  BY <1>1
<1>3. Trim(u) = IF solid = {} THEN <<>> ELSE SubSeq(u, Min(solid), Max(solid))
  BY Zenon DEF Trim
<1> QED BY <1>2, <1>3

\* Blanks before a text, or behind it, are at most one.
LEMMA BlanksAre ==
  ASSUME NEW S, Blank \in S, NEW u \in Blanks
  PROVE  u \in Seq(S) /\ Len(u) \in Nat /\ \A k \in 1..Len(u) : u[k] = Blank
<1>1. CASE u = <<>>
  BY <1>1
<1>2. CASE u = <<Blank>>
  <2> DEFINE e == Blank
  <2>1. e \in S /\ u = <<e>>
    BY <1>2
  <2> HIDE DEF e
  <2>2. u \in Seq(S) /\ Len(u) \in Nat /\ \A k \in 1..Len(u) : u[k] = e
    BY <2>1
  <2> QED BY <2>2 DEF e
<1> QED BY <1>1, <1>2 DEF Blanks

\* A word is trimmed of what is before it.
LEMMA TrimBefore ==
  ASSUME NEW S, Blank \in S, NEW u \in Blanks, NEW p \in Seq(S), p # <<>>, p[1] # Blank, p[Len(p)] # Blank
  PROVE  Trim(u \o p) = p
<1> DEFINE s == u \o p
           l == Len(u)
           n == Len(p)
<1>1. u \in Seq(S) /\ l \in Nat /\ \A k \in 1..l : u[k] = Blank
  BY BlanksAre
<1>2. n \in Nat /\ n # 0
  OBVIOUS
<1>3. IsConcat(S, u, p, s)
  BY <1>1, ConcatPlaces
<1> HIDE DEF s
<1>4. s \in Seq(S) /\ Len(s) = l + n /\ (\A k \in 1..l : s[k] = u[k]) /\ \A k \in 1..n : s[l + k] = p[k]
  BY <1>3, Zenon DEF IsConcat
<1>5. SubSeq(s, l + 1, l + n) = p
  <2>1. l + n <= Len(s)
    BY <1>1, <1>2, <1>4
  <2> QED BY <1>1, <1>4, <2>1, SubSeqIs
<1> HIDE DEF l, n
<1>6. /\ l + 1 \in 1..Len(s) /\ l + n \in 1..Len(s) /\ 1 \in 1..n /\ n \in 1..n
  BY <1>1, <1>2, <1>4
<1>7. s[l + 1] # Blank /\ s[l + n] # Blank
  BY <1>4, <1>6 DEF n
<1>8. ASSUME NEW k \in 1..Len(s), s[k] # Blank PROVE l + 1 <= k /\ k <= l + n
  <2>1. ~ (k \in 1..l)
    BY <1>1, <1>4, <1>8
  <2> QED BY <1>1, <1>2, <1>4, <2>1
<1>9. Trim(s) = SubSeq(s, l + 1, l + n)
  BY <1>4, <1>6, <1>7, <1>8, TrimIs
<1> QED BY <1>5, <1>9 DEF s

\* A value is trimmed of what is behind it.
LEMMA TrimBehind ==
  ASSUME NEW S, Blank \in S, NEW u \in Blanks, NEW p \in Seq(S), p # <<>>, p[1] # Blank, p[Len(p)] # Blank
  PROVE  Trim(p \o u) = p
<1> DEFINE s == p \o u
           l == Len(u)
           n == Len(p)
<1>1. u \in Seq(S) /\ l \in Nat /\ \A k \in 1..l : u[k] = Blank
  BY BlanksAre
<1>2. n \in Nat /\ n # 0
  OBVIOUS
<1>3. IsConcat(S, p, u, s)
  BY <1>1, ConcatPlaces
<1> HIDE DEF s
<1>4. s \in Seq(S) /\ Len(s) = n + l /\ (\A k \in 1..n : s[k] = p[k]) /\ \A k \in 1..l : s[n + k] = u[k]
  BY <1>3, Zenon DEF IsConcat
<1>5. SubSeq(s, 0 + 1, 0 + n) = p
  <2>1. 0 + n <= Len(s) /\ \A k \in 1..n : s[0 + k] = p[k]
    BY <1>1, <1>2, <1>4
  <2> QED BY <1>4, <2>1, SubSeqIs
<1> HIDE DEF l, n
<1>6. /\ 1 \in 1..Len(s) /\ n \in 1..Len(s) /\ 1 \in 1..n /\ n \in 1..n
      /\ 0 + 1 = 1 /\ 0 + n = n
  BY <1>1, <1>2, <1>4
<1>7. s[1] # Blank /\ s[n] # Blank
  BY <1>4, <1>6 DEF n
<1>8. ASSUME NEW k \in 1..Len(s), s[k] # Blank PROVE 1 <= k /\ k <= n
  <2>1. n < k => k - n \in 1..l /\ n + (k - n) = k
    BY <1>1, <1>2, <1>4
  <2>2. ~ (n < k)
    BY <1>1, <1>4, <1>8, <2>1
  <2> QED BY <1>2, <1>4, <2>2
<1>9. Trim(s) = SubSeq(s, 1, n)
  BY <1>4, <1>6, <1>7, <1>8, TrimIs
<1> QED BY <1>5, <1>6, <1>9 DEF s

\* The values of a query.
QueryValues == {<<>>, <<"x">>, <<"x", "=", "x">>}

QueryWords == Words \cup {"=", Blank, "x", "&"}

\* What words and values are made of.
LEMMA ValueHas ==
  ASSUME NEW v \in QueryValues
  PROVE  /\ v \in Seq(QueryWords) /\ Len(v) \in Nat
         /\ v = <<>> \/ (v # <<>> /\ v[1] # Blank /\ v[Len(v)] # Blank)
         /\ \A k \in 1..Len(v) : v[k] # "&"
<1>1. "x" \in QueryWords /\ "=" \in QueryWords
  BY DEF QueryWords
<1>2. "x" # Blank
  BY DEF Blank
<1>3. CASE v = <<>>
  BY <1>3
<1>4. CASE v = <<"x">>
  BY <1>1, <1>2, <1>4
<1>5. CASE v = <<"x", "=", "x">>
  BY <1>1, <1>2, <1>5
<1> QED BY <1>3, <1>4, <1>5 DEF QueryValues

\* What is read from a field of a query.
Read(f, key, value) ==
    /\ f \in Seq(QueryWords) /\ f # <<>> /\ \A k \in 1..Len(f) : f[k] # "&"
    /\ Trim(Bisect(f, "=")[1]) = key /\ Trim(Bisect(f, "=")[2]) = value

\* Two texts without an &, one behind the other.
LEMMA NoneInBoth ==
  ASSUME NEW S, NEW u \in Seq(S), NEW v \in Seq(S), NEW c,
         \A k \in 1..Len(u) : u[k] # c, \A k \in 1..Len(v) : v[k] # c
  PROVE  u \o v \in Seq(S) /\ \A k \in 1..Len(u \o v) : (u \o v)[k] # c
<1> DEFINE w == u \o v
<1>1. IsConcat(S, u, v, w)
  BY ConcatPlaces
<1>2. Len(u) \in Nat /\ Len(v) \in Nat
  OBVIOUS
<1> HIDE DEF w
<1>3. w \in Seq(S) /\ Len(w) = Len(u) + Len(v) /\ (\A i \in 1..Len(u) : w[i] = u[i]) /\ \A i \in 1..Len(v) : w[Len(u) + i] = v[i]
  BY <1>1, Zenon DEF IsConcat
<1>4. ASSUME NEW k \in 1..Len(w) PROVE w[k] # c
  <2>1. CASE k <= Len(u)
    <3>1. k \in 1..Len(u)
      BY <1>2, <2>1
    <3> QED BY <1>3, <3>1
  <2>2. CASE ~ (k <= Len(u))
    <3>1. k - Len(u) \in 1..Len(v) /\ Len(u) + (k - Len(u)) = k
      BY <1>2, <1>3, <2>2
    <3> QED BY <1>3, <3>1
  <2> QED BY <2>1, <2>2
<1> QED BY <1>3, <1>4 DEF w

\* A field of a query is read as its name and its value.
LEMMA FieldRead ==
  ASSUME NEW w \in Words, NEW v \in QueryValues, NEW u \in Blanks
  PROVE  Read((((u \o <<w>>) \o <<"=">>) \o v) \o u, <<w>>, v)
<1> DEFINE S == QueryWords
           p == <<w>>
           e == <<"=">>
           a == u \o p
           d == v \o u
           b == a \o e
           f == b \o d
<1>1. w \in S /\ w # "=" /\ w # Blank /\ w # "&" /\ "=" \in S /\ Blank \in S
  BY TextAssumption DEF QueryWords
<1>2. Blank # "=" /\ Blank # "&"
  BY DEF Blank
<1>3. u \in Seq(S) /\ Len(u) \in Nat /\ \A k \in 1..Len(u) : u[k] = Blank
  BY <1>1, BlanksAre
<1>4. /\ v \in Seq(S) /\ Len(v) \in Nat /\ (v = <<>> \/ (v # <<>> /\ v[1] # Blank /\ v[Len(v)] # Blank))
      /\ \A k \in 1..Len(v) : v[k] # "&"
  BY ValueHas
<1> HIDE DEF S
<1>5. p \in Seq(S) /\ p # <<>> /\ Len(p) = 1 /\ p[1] = w
  BY <1>1
<1>6. e \in Seq(S) /\ Len(e) = 1 /\ e[1] = "="
  BY <1>1
<1> HIDE DEF p
<1>7. a \in Seq(S) /\ \A k \in 1..Len(a) : a[k] # "="
  <2>1. \A k \in 1..Len(u) : u[k] # "="
    BY <1>2, <1>3
  <2>2. \A k \in 1..Len(p) : p[k] # "="
    BY <1>1, <1>5
  <2> QED BY <1>3, <1>5, <2>1, <2>2, NoneInBoth
<1>8. a \in Seq(S) /\ \A k \in 1..Len(a) : a[k] # "&"
  <2>1. \A k \in 1..Len(u) : u[k] # "&"
    BY <1>2, <1>3
  <2>2. \A k \in 1..Len(p) : p[k] # "&"
    BY <1>1, <1>5
  <2> QED BY <1>3, <1>5, <2>1, <2>2, NoneInBoth
<1>9. d \in Seq(S) /\ \A k \in 1..Len(d) : d[k] # "&"
  <2>1. \A k \in 1..Len(u) : u[k] # "&"
    BY <1>2, <1>3
  <2> QED BY <1>3, <1>4, <2>1, NoneInBoth
<1>10. Trim(a) = p
  <2>1. p[1] # Blank /\ p[Len(p)] # Blank
    BY <1>1, <1>5
  <2> QED BY <1>1, <1>5, <2>1, TrimBefore
<1>11. Trim(d) = v
  <2>1. CASE v = <<>>
    <3>1. <<>> \o u = u
      BY <1>3
    <3>2. Trim(u) = <<>>
      BY TrimBlank
    <3>3. d = u
      BY <2>1, <3>1
    <3> HIDE DEF d
    <3> QED BY <2>1, <3>2, <3>3
  <2>2. CASE v # <<>>
    <3>1. v[1] # Blank /\ v[Len(v)] # Blank
      BY <1>4, <2>2
    <3> QED BY <1>1, <1>4, <2>2, <3>1, TrimBehind
  <2> QED BY <2>1, <2>2
<1> HIDE DEF a, d
<1>12. Bisect(f, "=") = <<a, d>>
  BY <1>1, <1>7, <1>9, BisectJoined
<1>13. b \in Seq(S) /\ \A k \in 1..Len(b) : b[k] # "&"
  <2>1. \A k \in 1..Len(e) : e[k] # "&"
    BY <1>6
  <2> HIDE DEF e
  <2> QED BY <1>6, <1>8, <2>1, NoneInBoth
<1> HIDE DEF b
<1>14. f \in Seq(S) /\ \A k \in 1..Len(f) : f[k] # "&"
  BY <1>9, <1>13, NoneInBoth
<1>15. f # <<>>
  <2>1. <<a, d>>[1] = a /\ <<a, d>>[2] = d
    OBVIOUS
  <2>2. Len(f) = Len(b) + Len(d) /\ Len(b) = Len(a) + Len(e) /\ Len(a) \in Nat /\ Len(d) \in Nat /\ Len(b) \in Nat
    <3>1. Len(b) = Len(a) + Len(e)
      BY <1>6, <1>7, ConcatPlaces, Zenon DEF b, IsConcat
    <3>2. Len(f) = Len(b) + Len(d)
      BY <1>9, <1>13, ConcatPlaces, Zenon DEF IsConcat
    <3>3. Len(a) \in Nat /\ Len(d) \in Nat /\ Len(b) \in Nat
      BY <1>7, <1>9, <1>13
    <3> QED BY <3>1, <3>2, <3>3
  <2> HIDE DEF e, f
  <2>3. Len(f) # 0
    BY <1>6, <2>2
  <2>4. Len(<<>>) = 0
    OBVIOUS
  <2> QED BY <2>3, <2>4
<1>16. (b \o v) \o u = f
  <2>1. (b \o v) \o u = b \o (v \o u)
    BY <1>3, <1>4, <1>13, ConcatAssociative
  <2> QED BY <2>1 DEF d
<1> HIDE DEF f
<1>17. Read(f, p, v)
  <2>1. <<a, d>>[1] = a /\ <<a, d>>[2] = d
    OBVIOUS
  <2> QED BY <1>10, <1>11, <1>12, <1>14, <1>15, <2>1 DEF Read, S
<1> QED BY <1>16, <1>17, Zenon DEF b, a, p, e

\* The parameters of a query whose fields are read.
ParamsMeant(n, pairs) ==
    [key \in {pairs[i][1] : i \in 1..n} |-> pairs[Max({i \in 1..n : pairs[i][1] = key})][2]]

\* Parts that are read, and others that are empty.
AllRead(N, n, parts, pairs) ==
    /\ N \in Nat /\ n \in 0..N /\ DOMAIN parts = 1..N
    /\ \A i \in 1..n : Read(parts[i], pairs[i][1], pairs[i][2])
    /\ \A i \in (n + 1)..N : parts[i] = <<>>

\* Fields that are read so become the parameters that were meant.
LEMMA ParamsRead ==
  ASSUME NEW query, NEW N, NEW n, NEW pairs, AllRead(N, n, Split(query, "&"), pairs)
  PROVE  Params(query) = ParamsMeant(n, pairs)
<1> DEFINE parts == Split(query, "&")
           ps == [i \in DOMAIN parts |-> LET kv == Bisect(parts[i], "=") IN <<Trim(kv[1]), Trim(kv[2])>>]
           named == {i \in DOMAIN ps : parts[i] # <<>>}
<1>1. Params(query) = [key \in {ps[i][1] : i \in named} |-> ps[Max({i \in named : ps[i][1] = key})][2]]
  BY Zenon DEF Params
<1>0. AllRead(N, n, parts, pairs)
  OBVIOUS
<1> HIDE DEF parts
<1>9. N \in Nat /\ n \in 0..N /\ DOMAIN parts = 1..N /\ \A i \in (n + 1)..N : parts[i] = <<>>
  BY <1>0, Zenon DEF AllRead
<1>2. DOMAIN ps = 1..N
  BY <1>9
<1>10. \A i \in 1..n : Read(parts[i], pairs[i][1], pairs[i][2]) /\ i \in 1..N
  <2>1. \A i \in 1..n : i \in 1..N
    BY <1>9
  <2> QED BY <1>0, <2>1, Zenon DEF AllRead
<1>3. \A i \in 1..n : i \in 1..N /\ parts[i] # <<>>
  BY <1>10 DEF Read
<1>4. named = 1..n
  <2>1. \A i \in 1..N : i \in 1..n \/ i \in (n + 1)..N
    BY <1>9
  <2> HIDE DEF ps
  <2> QED BY <1>9, <1>2, <1>3, <2>1
<1>5. ASSUME NEW i \in 1..n PROVE ps[i][1] = pairs[i][1] /\ ps[i][2] = pairs[i][2]
  <2> DEFINE a == Trim(Bisect(parts[i], "=")[1])
             b == Trim(Bisect(parts[i], "=")[2])
  <2>1. ps[i] = <<a, b>>
    BY <1>3, <1>9
  <2>2. a = pairs[i][1] /\ b = pairs[i][2]
    BY <1>10, Zenon DEF Read
  <2> HIDE DEF a, b, ps
  <2> QED BY <2>1, <2>2
<1> HIDE DEF ps, named
<1>6. {ps[i][1] : i \in named} = {pairs[i][1] : i \in 1..n}
  BY <1>4, <1>5
<1>7. ASSUME NEW key \in {pairs[i][1] : i \in 1..n}
      PROVE  ps[Max({i \in named : ps[i][1] = key})][2] = pairs[Max({i \in 1..n : pairs[i][1] = key})][2]
  <2> DEFINE T == {i \in 1..n : pairs[i][1] = key}
  <2>1. {i \in named : ps[i][1] = key} = T
    BY <1>4, <1>5
  <2>2. T # {} /\ T \in SUBSET (1..n) /\ n \in Nat
    BY <1>9
  <2> HIDE DEF T
  <2>3. Max(T) \in 1..n
    BY <2>2, MaxIsGreatest
  <2> DEFINE m == Max(T)
  <2>4. ps[m][2] = pairs[m][2]
    <3> HIDE DEF m
    <3> QED BY <1>5, <2>3 DEF m
  <2>5. ps[Max({i \in named : ps[i][1] = key})][2] = ps[m][2]
    BY <2>1, Zenon
  <2> QED BY <2>4, <2>5, Zenon DEF T
<1>8. Params(query) = [key \in {pairs[i][1] : i \in 1..n} |-> pairs[Max({i \in 1..n : pairs[i][1] = key})][2]]
  BY <1>1, <1>6, <1>7
<1> QED BY <1>8 DEF ParamsMeant

\* Some of a set, in an order.
LEMMA UptoHas ==
  ASSUME NEW S, NEW n, NEW s \in Upto(S, n)
  PROVE  \E k \in 0..n : s \in [1..k -> S]
BY DEF Upto

\* Parts that were separated come back (split).
LEMMA PartsSplit ==
  ASSUME TextAssumption, SplitParts
  PROVE  TextRight'
<1> DEFINE P == {<<>>, <<"x">>}
           S == {"x", "&"}
           c == <<"&">>
<1>1. PICK parts \in Upto(P, MaxText) \ {<<>>, <<<<>>>>} :
        Made("split", Split(Tail(Joined(parts, <<"&">>)), "&"), parts)
  BY Zenon DEF SplitParts
<1>2. PICK n \in 0..MaxText : parts \in [1..n -> P]
  BY <1>1, UptoHas
<1>3. n \in Nat
  BY DEF TextAssumption
<1>4. n # 0
  <2>1. n = 0 => parts = <<>>
    BY <1>2
  <2> QED BY <1>1, <2>1
<1>5. n # 1 \/ parts[1] # <<>>
  <2>1. n = 1 /\ parts[1] = <<>> => parts = <<<<>>>>
    BY <1>2
  <2> QED BY <1>1, <2>1
<1>6. ASSUME NEW p \in P PROVE p \in Seq(S) /\ \A k \in 1..Len(p) : p[k] # "&"
  <2>1. CASE p = <<>>
    BY <2>1
  <2>2. CASE p = <<"x">>
    BY <2>2
  <2> QED BY <2>1, <2>2
<1>7. "&" \in S
  OBVIOUS
<1> HIDE DEF P, S
<1>8. parts \in [1..n -> Seq(S)] /\ \A i \in 1..n : \A k \in 1..Len(parts[i]) : parts[i][k] # "&"
  BY <1>2, <1>6
<1>9. n \in Nat \ {0} /\ DOMAIN parts = 1..n
  BY <1>3, <1>4, <1>8
<1>10. Split(Tail(FlattenSeq([i \in 1..n |-> c \o parts[i]])), "&") = parts
  <2>1. Separable(S, n, parts, "&")
    BY <1>5, <1>7, <1>8, <1>9, Zenon DEF Separable
  <2>2. SplitsBack(n, parts, "&")
    BY <2>1, SplitJoined, Zenon
  <2> QED BY <2>2, Zenon DEF SplitsBack
<1>11. Joined(parts, c) = FlattenSeq([i \in 1..n |-> c \o parts[i]])
  BY <1>9, Zenon DEF Joined
<1>12. Made("split", parts, parts)
  BY <1>1, <1>10, <1>11, Zenon
<1> QED BY <1>12 DEF Made, TextRight

\* Fields with the same before and behind each.
LEMMA QuerySplit ==
  ASSUME TextAssumption, SplitQuery
  PROVE  TextRight'
<1> DEFINE P == {<<w>> : w \in Words} \X QueryValues
           S == QueryWords
           c == <<"&">>
<1>1. PICK pairs \in Upto(P, MaxText), u \in Blanks, more \in {<<>>, <<<<>>>>} :
        LET fields == [i \in DOMAIN pairs |-> u \o pairs[i][1] \o <<"=">> \o pairs[i][2] \o u]
            named(i) == pairs[i][1]
            lastOf(key) == Max({i \in DOMAIN pairs : named(i) = key})
        IN  pairs # <<>> /\
            Made("query", Params(Tail(Joined(fields \o more, <<"&">>))),
                 [key \in {named(i) : i \in DOMAIN pairs} |-> pairs[lastOf(key)][2]])
  BY Zenon DEF SplitQuery, QueryValues, Blanks
<1> DEFINE fields == [i \in DOMAIN pairs |-> u \o pairs[i][1] \o <<"=">> \o pairs[i][2] \o u]
           all == fields \o more
<1>2. PICK n \in 0..MaxText : pairs \in [1..n -> P]
  BY <1>1, UptoHas
<1>3. n \in Nat /\ DOMAIN pairs = 1..n
  BY <1>2 DEF TextAssumption
<1>4. n # 0
  <2>1. n = 0 => pairs = <<>>
    BY <1>2
  <2> QED BY <1>1, <2>1
<1>5. /\ pairs # <<>>
      /\ Made("query", Params(Tail(Joined(all, c))), ParamsMeant(n, pairs))
  BY <1>1, <1>3, Zenon DEF ParamsMeant
<1>6. ASSUME NEW i \in 1..n PROVE Read(fields[i], pairs[i][1], pairs[i][2])
  <2>1. pairs[i] \in P
    BY <1>2
  <2>2. PICK w \in Words, v \in QueryValues : pairs[i] = <<<<w>>, v>>
    BY <2>1
  <2>3. fields[i] = (((u \o pairs[i][1]) \o <<"=">>) \o pairs[i][2]) \o u
    BY <1>3, Zenon
  <2>4. pairs[i][1] = <<w>> /\ pairs[i][2] = v
    <3> DEFINE p == <<w>>
    <3>1. pairs[i] = <<p, v>>
      BY <2>2
    <3> HIDE DEF p
    <3>2. pairs[i][1] = p /\ pairs[i][2] = v
      BY <3>1
    <3> QED BY <3>2 DEF p
  <2>5. Read((((u \o <<w>>) \o <<"=">>) \o v) \o u, <<w>>, v)
    BY FieldRead
  <2> HIDE DEF fields
  <2> QED BY <2>3, <2>4, <2>5, Zenon
<1>7. \A i \in 1..n : fields[i] \in Seq(S)
  BY <1>6 DEF Read
<1>8. fields \in Seq(Seq(S)) /\ Len(fields) = n
  <2>1. fields \in [1..n -> Seq(S)]
    BY <1>3, <1>7
  <2> HIDE DEF fields, S
  <2> QED BY <1>3, <2>1
<1>9. more \in Seq(Seq(S)) /\ (\A k \in 1..Len(more) : more[k] = <<>>) /\ Len(more) \in Nat
  <2> HIDE DEF S
  <2>1. CASE more = <<>>
    BY <2>1
  <2>2. CASE more = <<<<>>>>
    BY <2>2
  <2> QED BY <2>1, <2>2
<1> DEFINE N == n + Len(more)
<1>10. IsConcat(Seq(S), fields, more, all)
  BY <1>8, <1>9, ConcatPlaces
<1> HIDE DEF fields, all, S
<1>11. /\ all \in Seq(Seq(S)) /\ Len(all) = N /\ N \in Nat /\ N # 0 /\ n \in 0..N
       /\ (\A i \in 1..n : all[i] = fields[i]) /\ \A i \in (n + 1)..N : all[i] = <<>>
  <2>1. all \in Seq(Seq(S)) /\ Len(all) = Len(fields) + Len(more) /\ (\A i \in 1..Len(fields) : all[i] = fields[i])
        /\ \A i \in 1..Len(more) : all[Len(fields) + i] = more[i]
    BY <1>10, Zenon DEF IsConcat
  <2>2. N \in Nat /\ N # 0 /\ n \in 0..N
    BY <1>3, <1>4, <1>9
  <2>3. ASSUME NEW i \in (n + 1)..N PROVE all[i] = <<>>
    <3>1. i - n \in 1..Len(more) /\ n + (i - n) = i
      BY <1>3, <1>9
    <3> QED BY <1>8, <1>9, <2>1, <3>1
  <2> QED BY <1>8, <2>1, <2>2, <2>3
<1> HIDE DEF N
<1>12. \A i \in 1..n : Read(all[i], pairs[i][1], pairs[i][2])
  BY <1>6, <1>11
<1>13. \A i \in 1..N : \A k \in 1..Len(all[i]) : all[i][k] # "&"
  <2> SUFFICES ASSUME NEW i \in 1..N, NEW k \in 1..Len(all[i]) PROVE all[i][k] # "&"
    OBVIOUS
  <2>1. CASE i \in 1..n
    BY <1>12, <2>1, Zenon DEF Read
  <2>2. CASE i \in (n + 1)..N
    <3>1. all[i] = <<>>
      BY <1>11, <2>2
    <3>2. k \in 1..Len(<<>>)
      BY <3>1
    <3> QED BY <3>2
  <2>3. i \in 1..n \/ i \in (n + 1)..N
    BY <1>3, <1>11
  <2> QED BY <2>1, <2>2, <2>3
<1>14. all \in [1..N -> Seq(S)] /\ DOMAIN all = 1..N /\ N \in Nat \ {0}
  BY <1>11
<1>15. N # 1 \/ all[1] # <<>>
  <2>1. 1 \in 1..n
    BY <1>3, <1>4
  <2> QED BY <1>12, <2>1, Zenon DEF Read
<1>16. "&" \in S
  BY DEF S, QueryWords
<1>17. Split(Tail(FlattenSeq([i \in 1..N |-> c \o all[i]])), "&") = all
  <2>1. Separable(S, N, all, "&")
    BY <1>13, <1>14, <1>15, <1>16, Zenon DEF Separable
  <2>2. SplitsBack(N, all, "&")
    BY <2>1, SplitJoined, Zenon
  <2> QED BY <2>2, Zenon DEF SplitsBack
<1>18. Joined(all, c) = FlattenSeq([i \in 1..N |-> c \o all[i]])
  BY <1>14, Zenon DEF Joined
<1>19. Params(Tail(Joined(all, c))) = ParamsMeant(n, pairs)
  <2> DEFINE query == Tail(Joined(all, c))
  <2>1. Split(query, "&") = all
    BY <1>17, <1>18, Zenon
  <2>2. AllRead(N, n, all, pairs)
    BY <1>11, <1>12, <1>14, Zenon DEF AllRead
  <2> HIDE DEF query
  <2>3. AllRead(N, n, Split(query, "&"), pairs)
    BY <2>1, <2>2, Zenon
  <2>4. Params(query) = ParamsMeant(n, pairs)
    BY <2>3, ParamsRead, Zenon
  <2> QED BY <2>4, Zenon DEF query
<1>20. Made("query", ParamsMeant(n, pairs), ParamsMeant(n, pairs))
  BY <1>5, <1>19, Zenon
<1> QED BY <1>20 DEF Made, TextRight

-----------------------------------------------------------------------------
(***************************************************************************)
(* Browsers, systems and addresses.                                        *)
(***************************************************************************)
\* The first rule that fits.
FirstRule(rules, tokens, i) ==
    /\ i \in 1..Len(rules) /\ rules[i][1] \in tokens
    /\ \A k \in 1..Len(rules) : rules[k][1] \in tokens => i <= k

\* The first rule that fits names a browser.
LEMMA NameIs ==
  ASSUME NEW rules, Len(rules) \in Nat, NEW tokens, NEW i, FirstRule(rules, tokens, i)
  PROVE  NameBy(rules, tokens) = rules[i][2]
<1> DEFINE I == {k \in 1..Len(rules) : rules[k][1] \in tokens}
           at == SelectInSeq(rules, LAMBDA rule : rule[1] \in tokens)
<1>1. I \in SUBSET Nat /\ i \in I /\ \A k \in I : i <= k
  BY DEF FirstRule
<1>2. at = IF I # {} THEN Min(I) ELSE 0
  BY Zenon DEF SelectInSeq
<1>3. NameBy(rules, tokens) = IF at = 0 THEN "" ELSE rules[at][2]
  BY Zenon DEF NameBy
<1> HIDE DEF I, at
<1>4. Min(I) = i
  BY <1>1, MinIs
<1>5. at = i
  BY <1>1, <1>2, <1>4
<1>6. i # 0
  BY DEF FirstRule
<1> QED BY <1>3, <1>5, <1>6

\* The rules.
LEMMA BrowserRulesAre ==
  /\ Len(BrowserRules) = 5
  /\ BrowserRules[1][1] = "Edg" /\ BrowserRules[1][2] = "Edge"
  /\ BrowserRules[2][1] = "OPR" /\ BrowserRules[2][2] = "Opera"
  /\ BrowserRules[3][1] = "Firefox" /\ BrowserRules[3][2] = "Firefox"
  /\ BrowserRules[4][1] = "Chrome" /\ BrowserRules[4][2] = "Chrome"
  /\ BrowserRules[5][1] = "Safari" /\ BrowserRules[5][2] = "Safari"
BY DEF BrowserRules

\* The rules of the systems.
LEMMA OsRulesAre ==
  /\ Len(OsRules) = 5
  /\ OsRules[1][1] = "Windows" /\ OsRules[1][2] = "Windows"
  /\ OsRules[2][1] = "CPU_OS_number" /\ OsRules[2][2] = "iOS"
  /\ OsRules[3][1] = "Mac_OS_X_number" /\ OsRules[3][2] = "macOS"
  /\ OsRules[4][1] = "Android" /\ OsRules[4][2] = "Android"
  /\ OsRules[5][1] = "Linux" /\ OsRules[5][2] = "Linux"
BY DEF OsRules

\* A browser is named, whatever its system bears too.
LEMMA BrowserIs ==
  ASSUME NEW browser \in DOMAIN UserAgents, NEW U, UserAgents[browser] \subseteq U,
         \A k \in 1..5 : BrowserRules[k][1] \in U => BrowserRules[k][1] \in UserAgents[browser]
  PROVE  NameBy(BrowserRules, U) = browser
<1>1. browser \in {"Edge", "Opera", "Firefox", "Chrome", "Safari"}
  BY DEF UserAgents
<1>2. Len(BrowserRules) \in Nat
  BY BrowserRulesAre
<1>3. ASSUME NEW i \in 1..5, FirstRule(BrowserRules, U, i), BrowserRules[i][2] = browser
      PROVE  NameBy(BrowserRules, U) = browser
  <2> QED BY <1>2, <1>3, NameIs
<1>4. \A k \in 1..5 : k = 1 \/ k = 2 \/ k = 3 \/ k = 4 \/ k = 5
  OBVIOUS
<1>5. CASE browser = "Edge"
  <2>1. UserAgents[browser] = {"Edg", "Chrome", "Safari"}
    BY <1>5 DEF UserAgents
  <2>2. FirstRule(BrowserRules, U, 1)
    BY <1>4, <2>1, BrowserRulesAre DEF FirstRule
  <2> QED BY <1>3, <1>5, <2>2, BrowserRulesAre
<1>6. CASE browser = "Opera"
  <2>1. UserAgents[browser] = {"OPR", "Chrome", "Safari"}
    BY <1>6 DEF UserAgents
  <2>2. FirstRule(BrowserRules, U, 2)
    BY <1>4, <2>1, BrowserRulesAre DEF FirstRule
  <2> QED BY <1>3, <1>6, <2>2, BrowserRulesAre
<1>7. CASE browser = "Firefox"
  <2>1. UserAgents[browser] = {"Firefox"}
    BY <1>7 DEF UserAgents
  <2>2. FirstRule(BrowserRules, U, 3)
    BY <1>4, <2>1, BrowserRulesAre DEF FirstRule
  <2> QED BY <1>3, <1>7, <2>2, BrowserRulesAre
<1>8. CASE browser = "Chrome"
  <2>1. UserAgents[browser] = {"Chrome", "Safari"}
    BY <1>8 DEF UserAgents
  <2>2. FirstRule(BrowserRules, U, 4)
    BY <1>4, <2>1, BrowserRulesAre DEF FirstRule
  <2> QED BY <1>3, <1>8, <2>2, BrowserRulesAre
<1>9. CASE browser = "Safari"
  <2>1. UserAgents[browser] = {"Safari"}
    BY <1>9 DEF UserAgents
  <2>2. FirstRule(BrowserRules, U, 5)
    BY <1>4, <2>1, BrowserRulesAre DEF FirstRule
  <2> QED BY <1>3, <1>9, <2>2, BrowserRulesAre
<1> QED BY <1>1, <1>5, <1>6, <1>7, <1>8, <1>9

\* The systems and the names they bear.
LEMMA SystemsAre ==
  /\ DOMAIN Systems = {"Windows", "macOS", "iOS", "Android", "Linux"}
  /\ Systems["Windows"] = {"Windows"} /\ Systems["iOS"] = {"CPU_OS_number", "Mac_OS_X"}
  /\ Systems["macOS"] = {"Mac_OS_X_number"} /\ Systems["Android"] = {"Linux", "Android"}
  /\ Systems["Linux"] = {"Linux"}
BY DEF Systems

\* A system is named, whatever its browser bears too.
LEMMA OsIs ==
  ASSUME NEW os \in DOMAIN Systems, NEW U, Systems[os] \subseteq U,
         \A k \in 1..5 : OsRules[k][1] \in U => OsRules[k][1] \in Systems[os]
  PROVE  NameBy(OsRules, U) = os
<1>1. os \in {"Windows", "macOS", "iOS", "Android", "Linux"}
  BY SystemsAre
<1>2. Len(OsRules) \in Nat
  BY OsRulesAre
<1>3. ASSUME NEW i \in 1..5, FirstRule(OsRules, U, i), OsRules[i][2] = os
      PROVE  NameBy(OsRules, U) = os
  <2> QED BY <1>2, <1>3, NameIs
<1>4. \A k \in 1..5 : k = 1 \/ k = 2 \/ k = 3 \/ k = 4 \/ k = 5
  OBVIOUS
<1>5. CASE os = "Windows"
  <2>1. Systems[os] = {"Windows"}
    BY <1>5, SystemsAre
  <2>2. FirstRule(OsRules, U, 1)
    BY <1>4, <2>1, OsRulesAre DEF FirstRule
  <2> QED BY <1>3, <1>5, <2>2, OsRulesAre
<1>6. CASE os = "iOS"
  <2>1. Systems[os] = {"CPU_OS_number", "Mac_OS_X"}
    BY <1>6, SystemsAre
  <2>2. FirstRule(OsRules, U, 2)
    BY <1>4, <2>1, OsRulesAre DEF FirstRule
  <2> QED BY <1>3, <1>6, <2>2, OsRulesAre
<1>7. CASE os = "macOS"
  <2>1. Systems[os] = {"Mac_OS_X_number"}
    BY <1>7, SystemsAre
  <2>2. FirstRule(OsRules, U, 3)
    BY <1>4, <2>1, OsRulesAre DEF FirstRule
  <2> QED BY <1>3, <1>7, <2>2, OsRulesAre
<1>8. CASE os = "Android"
  <2>1. Systems[os] = {"Linux", "Android"}
    BY <1>8, SystemsAre
  <2>2. FirstRule(OsRules, U, 4)
    BY <1>4, <2>1, OsRulesAre DEF FirstRule
  <2> QED BY <1>3, <1>8, <2>2, OsRulesAre
<1>9. CASE os = "Linux"
  <2>1. Systems[os] = {"Linux"}
    BY <1>9, SystemsAre
  <2>2. FirstRule(OsRules, U, 5)
    BY <1>4, <2>1, OsRulesAre DEF FirstRule
  <2> QED BY <1>3, <1>9, <2>2, OsRulesAre
<1> QED BY <1>1, <1>5, <1>6, <1>7, <1>8, <1>9

\* A browser and its system have their own names (BrowserInfo, OsInfo).
LEMMA BrowserNamed ==
  ASSUME NameBrowser
  PROVE  TextRight'
<1>1. PICK browser \in DOMAIN UserAgents, os \in DOMAIN Systems :
        Made("browser", <<NameBy(BrowserRules, UserAgents[browser] \cup Systems[os]),
                          NameBy(OsRules, UserAgents[browser] \cup Systems[os])>>, <<browser, os>>)
  BY Zenon DEF NameBrowser
<1>2. \A k \in 1..5 : k = 1 \/ k = 2 \/ k = 3 \/ k = 4 \/ k = 5
  OBVIOUS
<1>3. \A k \in 1..5 : BrowserRules[k][1] \notin Systems[os]
  <2>1. \A t \in Systems[os] : t \in {"Windows", "Mac_OS_X_number", "CPU_OS_number", "Mac_OS_X", "Linux", "Android"}
    BY SystemsAre
  <2>2. \A k \in 1..5 : BrowserRules[k][1] \in {"Edg", "OPR", "Firefox", "Chrome", "Safari"}
    BY <1>2, BrowserRulesAre
  <2> QED BY <2>1, <2>2
<1>4. \A k \in 1..5 : OsRules[k][1] \notin UserAgents[browser]
  <2>1. \A t \in UserAgents[browser] : t \in {"Edg", "OPR", "Firefox", "Chrome", "Safari"}
    BY DEF UserAgents
  <2>2. \A k \in 1..5 : OsRules[k][1] \in {"Windows", "Mac_OS_X_number", "CPU_OS_number", "Linux", "Android"}
    BY <1>2, OsRulesAre
  <2> QED BY <2>1, <2>2
<1>5. NameBy(BrowserRules, UserAgents[browser] \cup Systems[os]) = browser
  BY <1>3, BrowserIs
<1>6. NameBy(OsRules, UserAgents[browser] \cup Systems[os]) = os
  BY <1>4, OsIs
<1>7. Made("browser", <<browser, os>>, <<browser, os>>)
  BY <1>1, <1>5, <1>6, Zenon
<1> QED BY <1>7 DEF Made, TextRight

\* What is selected: the elements that are in T, and no others.
Picked(S, s, T, p) ==
    /\ p \in Seq(S)
    /\ \A i \in 1..Len(s) : s[i] \in T => \E k \in 1..Len(p) : p[k] = s[i]
    /\ \A k \in 1..Len(p) : \E i \in 1..Len(s) : s[i] \in T /\ p[k] = s[i]

\* What is selected is what passes the test.
LEMMA PickedIs ==
  ASSUME NEW S, NEW s \in Seq(S), NEW T
  PROVE  Picked(S, s, T, FlattenSeq([i \in 1..Len(s) |-> IF s[i] \in T THEN <<s[i]>> ELSE <<>>]))
<1> DEFINE n == Len(s)
           q == [i \in 1..n |-> IF s[i] \in T THEN <<s[i]>> ELSE <<>>]
           p == FlattenSeq(q)
<1>1. n \in Nat /\ \A i \in 1..n : s[i] \in S
  OBVIOUS
<1>2. ASSUME NEW i \in 1..n
      PROVE  /\ q[i] \in Seq(S)
             /\ IF s[i] \in T THEN Len(q[i]) = 1 /\ q[i][1] = s[i] ELSE Len(q[i]) = 0
  <2>1. CASE s[i] \in T
    <3>1. q[i] = <<s[i]>> /\ s[i] \in S
      BY <1>1, <2>1
    <3> HIDE DEF q
    <3> QED BY <2>1, <3>1
  <2>2. CASE s[i] \notin T
    <3>1. q[i] = <<>>
      BY <1>1, <2>2
    <3> HIDE DEF q
    <3> QED BY <2>2, <3>1
  <2> QED BY <2>1, <2>2
<1>3. q \in [1..n -> Seq(S)]
  BY <1>2
<1> HIDE DEF q
<1>4. PICK off : LaidOut(S, n, q, p, off)
  BY <1>1, <1>3, FlattenPlaces
<1>5. p \in Seq(S) /\ Len(p) = off[n + 1] /\ off \in [1..(n + 1) -> Nat] /\ off[1] = 0
      /\ \A i \in 1..n : off[i + 1] = off[i] + Len(q[i]) /\ \A k \in 1..Len(q[i]) : p[off[i] + k] = q[i][k]
  BY <1>4, Zenon DEF LaidOut
<1>6. ASSUME NEW i \in 1..n, s[i] \in T PROVE \E k \in 1..Len(p) : p[k] = s[i]
  <2>1. Len(q[i]) = 1 /\ q[i][1] = s[i]
    BY <1>2, <1>6
  <2>2. p[off[i] + 1] = s[i] /\ off[i + 1] = off[i] + 1
    <3>1. 1 \in 1..Len(q[i])
      BY <2>1
    <3> HIDE DEF p
    <3> QED BY <1>5, <2>1, <3>1
  <2>3. i + 1 \in 1..(n + 1) /\ n + 1 \in (i + 1)..(n + 1) /\ i \in 1..(n + 1) /\ n + 1 \in 1..(n + 1)
    BY <1>1
  <2>4. off[i + 1] <= off[n + 1]
    <3> HIDE DEF p
    <3> QED BY <1>1, <1>3, <1>4, <2>3, PlacesGrow
  <2>5. off[i] + 1 \in 1..Len(p)
    <3> HIDE DEF p, n
    <3> QED BY <1>5, <2>2, <2>3, <2>4
  <2> QED BY <2>2, <2>5
<1>7. ASSUME NEW k \in 1..Len(p) PROVE \E i \in 1..n : s[i] \in T /\ p[k] = s[i]
  <2>1. HasPlace(n, q, off, k)
    <3> HIDE DEF p
    <3> QED BY <1>1, <1>3, <1>4, EachPlace
  <2>2. PICK i \in 1..n : \E j \in 1..Len(q[i]) : k = off[i] + j
    BY <2>1 DEF HasPlace
  <2>3. PICK j \in 1..Len(q[i]) : k = off[i] + j
    BY <2>2
  <2>4. s[i] \in T /\ j = 1
    <3>1. IF s[i] \in T THEN Len(q[i]) = 1 ELSE Len(q[i]) = 0
      BY <1>2
    <3>2. CASE s[i] \in T
      <4>1. Len(q[i]) = 1
        BY <3>1, <3>2
      <4> QED BY <3>2, <4>1
    <3>3. CASE s[i] \notin T
      <4>1. Len(q[i]) = 0
        BY <3>1, <3>3
      <4> QED BY <4>1
    <3> QED BY <3>2, <3>3
  <2>5. p[k] = q[i][j]
    BY <1>5, <2>3
  <2>6. p[k] = s[i]
    BY <1>2, <2>4, <2>5
  <2> QED BY <2>4, <2>6
<1> HIDE DEF p
<1>8. Picked(S, s, T, p)
  BY <1>5, <1>6, <1>7 DEF Picked
<1> QED BY <1>8 DEF p, q

\* The addresses others can reach.
LEMMA AddressesShown ==
  ASSUME ShowAddresses
  PROVE  TextRight'
<1> DEFINE S == [family : {"AF_INET", "AF_INET6"}, ip : {Loopback, "lan", "vpn"}]
           A == {x \in S : x.family = "AF_INET"}
           B == {x \in S : x.ip # Loopback}
<1>1. PICK itf \in Upto(S, MaxText) :
        LET reached == {itf[i].ip : i \in {k \in DOMAIN itf : itf[k].family = "AF_INET" /\ itf[k].ip # Loopback}}
        IN  Made("addresses", ToSet(Addrs(itf)), IF reached = {} THEN {Loopback} ELSE reached)
  BY Zenon DEF ShowAddresses
<1> DEFINE n == Len(itf)
           reached == {itf[i].ip : i \in {k \in DOMAIN itf : itf[k].family = "AF_INET" /\ itf[k].ip # Loopback}}
           inet == GetIpAddress(itf)
           shown == Selected(inet, LAMBDA x : x.ip # Loopback)
<1>2. itf \in Seq(S) /\ DOMAIN itf = 1..n /\ n \in Nat
  <2> HIDE DEF S
  <2>1. PICK m \in 0..MaxText : itf \in [1..m -> S]
    BY <1>1, UptoHas
  <2>2. m \in Nat
    BY TextAssumption
  <2> QED BY <2>1, <2>2
<1>3. Picked(S, itf, A, inet)
  <2>1. inet = FlattenSeq([i \in DOMAIN itf |-> IF itf[i].family = "AF_INET" THEN <<itf[i]>> ELSE <<>>])
    BY Zenon DEF GetIpAddress, Selected
  <2>2. [i \in DOMAIN itf |-> IF itf[i].family = "AF_INET" THEN <<itf[i]>> ELSE <<>>]
        = [i \in 1..n |-> IF itf[i] \in A THEN <<itf[i]>> ELSE <<>>]
    <3>1. \A i \in 1..n : itf[i].family = "AF_INET" <=> itf[i] \in A
      <4> HIDE DEF S
      <4> QED BY <1>2
    <3> HIDE DEF n, A
    <3> QED BY <1>2, <3>1
  <2>3. Picked(S, itf, A, FlattenSeq([i \in 1..n |-> IF itf[i] \in A THEN <<itf[i]>> ELSE <<>>]))
    <3> HIDE DEF S, A
    <3> QED BY <1>2, PickedIs, Zenon
  <2> HIDE DEF inet, S, A, n
  <2> QED BY <2>1, <2>2, <2>3, Zenon
<1>4. inet \in Seq(S)
  <2> HIDE DEF S, A, inet
  <2> QED BY <1>3 DEF Picked
<1>5. Picked(S, inet, B, shown)
  <2> HIDE DEF inet
  <2>1. shown = FlattenSeq([i \in DOMAIN inet |-> IF inet[i].ip # Loopback THEN <<inet[i]>> ELSE <<>>])
    BY Zenon DEF Selected
  <2>2. [i \in DOMAIN inet |-> IF inet[i].ip # Loopback THEN <<inet[i]>> ELSE <<>>]
        = [i \in 1..Len(inet) |-> IF inet[i] \in B THEN <<inet[i]>> ELSE <<>>]
    <3>1. DOMAIN inet = 1..Len(inet)
      <4> HIDE DEF S
      <4> QED BY <1>4
    <3>2. \A i \in 1..Len(inet) : inet[i].ip # Loopback <=> inet[i] \in B
      <4> HIDE DEF S
      <4> QED BY <1>4
    <3> HIDE DEF B
    <3> QED BY <3>1, <3>2
  <2>3. Picked(S, inet, B, FlattenSeq([i \in 1..Len(inet) |-> IF inet[i] \in B THEN <<inet[i]>> ELSE <<>>]))
    <3> HIDE DEF S, B
    <3> QED BY <1>4, PickedIs, Zenon
  <2> HIDE DEF S, B, shown
  <2> QED BY <2>1, <2>2, <2>3, Zenon
<1>6. Addrs(itf) = IF shown = <<>> THEN <<Loopback>> ELSE [i \in DOMAIN shown |-> shown[i].ip]
  BY Zenon DEF Addrs
<1>7. shown \in Seq(S) /\ Len(shown) \in Nat /\ DOMAIN shown = 1..Len(shown)
  <2> HIDE DEF S, B, shown
  <2>1. shown \in Seq(S)
    BY <1>5 DEF Picked
  <2> QED BY <2>1
<1> HIDE DEF shown, inet
<1>8. ASSUME NEW k \in 1..Len(shown) PROVE shown[k].ip \in reached
  <2>1. PICK j \in 1..Len(inet) : inet[j] \in B /\ shown[k] = inet[j]
    <3> HIDE DEF S, B
    <3> QED BY <1>5 DEF Picked
  <2>2. PICK i \in 1..n : itf[i] \in A /\ inet[j] = itf[i]
    <3> HIDE DEF S, A, n
    <3> QED BY <1>3 DEF Picked, n
  <2>3. itf[i].family = "AF_INET" /\ itf[i].ip # Loopback /\ shown[k].ip = itf[i].ip
    <3> HIDE DEF S
    <3> QED BY <2>1, <2>2
  <2> QED BY <1>2, <2>3
<1>9. ASSUME NEW a \in reached PROVE \E k \in 1..Len(shown) : shown[k].ip = a
  <2>1. PICK i \in 1..n : itf[i].family = "AF_INET" /\ itf[i].ip # Loopback /\ a = itf[i].ip
    BY <1>2
  <2>2. itf[i] \in A /\ itf[i] \in B
    <3> HIDE DEF S
    <3> QED BY <1>2, <2>1
  <2>3. PICK j \in 1..Len(inet) : inet[j] = itf[i]
    <3> HIDE DEF S, A
    <3> QED BY <1>3, <2>2 DEF Picked
  <2>4. PICK k \in 1..Len(shown) : shown[k] = inet[j]
    <3> HIDE DEF S, B
    <3> QED BY <1>5, <2>2, <2>3 DEF Picked
  <2> QED BY <2>1, <2>3, <2>4
<1>10. Made("addresses", ToSet(Addrs(itf)), IF reached = {} THEN {Loopback} ELSE reached)
  BY <1>1, Zenon
<1>11. ToSet(Addrs(itf)) = IF reached = {} THEN {Loopback} ELSE reached
  <2> HIDE DEF reached, S, n
  <2>1. CASE shown = <<>>
    <3>1. Len(shown) = 0
      BY <2>1
    <3>2. reached = {}
      BY <1>9, <3>1
    <3> DEFINE l == <<Loopback>>
    <3>3. Addrs(itf) = l
      BY <1>6, <2>1, Zenon
    <3>4. DOMAIN l = {1} /\ l[1] = Loopback
      OBVIOUS
    <3> HIDE DEF l
    <3>5. ToSet(l) = {Loopback}
      BY <3>4 DEF ToSet
    <3> QED BY <3>2, <3>3, <3>5
  <2>2. CASE shown # <<>>
    <3>1. Len(shown) > 0
      BY <1>7, <2>2
    <3>2. reached # {}
      BY <1>8, <3>1
    <3> DEFINE l == [i \in DOMAIN shown |-> shown[i].ip]
    <3>3. Addrs(itf) = l
      BY <1>6, <2>2, Zenon
    <3>4. DOMAIN l = 1..Len(shown) /\ \A i \in 1..Len(shown) : l[i] = shown[i].ip
      BY <1>7
    <3> HIDE DEF l
    <3>5. ToSet(l) = reached
      BY <1>8, <1>9, <3>4 DEF ToSet
    <3> QED BY <3>2, <3>3, <3>5
  <2> QED BY <2>1, <2>2
<1> HIDE DEF reached
<1> QED BY <1>10, <1>11, Zenon DEF Made, TextRight

-----------------------------------------------------------------------------
(***************************************************************************)
(* Paths: a path with each of its slashes once or twice.                   *)
(***************************************************************************)
\* A path, or one with a slash at its end, some of its slashes twice.
Respelled(S, path, whole, times) ==
    /\ path \in Seq(S) /\ "/" \in S /\ IsClear(path)
    /\ whole = path \/ whole = WithSlash(path)
    /\ times \in [1..Len(whole) -> 1..2]
    /\ \A i \in 1..Len(whole) : times[i] > 1 => whole[i] = "/"

\* Of a path that is spelled with more slashes, clearSlash leaves the path.
LEMMA RespelledClear ==
  ASSUME NEW S, NEW path, NEW whole, NEW times, Respelled(S, path, whole, times)
  PROVE  ClearSlash(FlattenSeq([i \in 1..Len(whole) |-> [k \in 1..times[i] |-> whole[i]]])) = path
<1> DEFINE w == WithSlash(path)
           N == Len(whole)
           q == [i \in 1..N |-> [k \in 1..times[i] |-> whole[i]]]
           u == FlattenSeq(q)
<1>1. /\ path \in Seq(S) /\ "/" \in S /\ IsClear(path)
      /\ whole = path \/ whole = w
      /\ times \in [1..N -> 1..2]
      /\ \A i \in 1..N : times[i] > 1 => whole[i] = "/"
  BY Zenon DEF Respelled
<1>2. /\ w \in Seq(S) /\ Len(path) \in Nat \ {0}
      /\ \/ Len(w) = Len(path) /\ Len(path) = 1
         \/ Len(w) = Len(path) + 1 /\ Len(path) > 1 /\ w[Len(path) + 1] = "/"
      /\ \A i \in 1..Len(path) : w[i] = path[i]
  BY <1>1, WholeIs, Zenon
<1> HIDE DEF w
<1>3. /\ whole \in Seq(S) /\ N \in Nat \ {0} /\ Len(path) <= N /\ N <= Len(w) /\ Len(w) \in Nat
      /\ \A i \in 1..N : whole[i] = w[i] /\ whole[i] \in S
  <2>1. CASE whole = path
    BY <1>1, <1>2, <2>1
  <2>2. CASE whole = w
    BY <1>2, <2>2
  <2> QED BY <1>1, <2>1, <2>2
<1> HIDE DEF N
<1>4. \A i \in 1..N : /\ q[i] \in Seq(S) /\ Len(q[i]) = times[i] /\ times[i] \in 1..2
                      /\ \A k \in 1..times[i] : q[i][k] = whole[i]
  <2> SUFFICES ASSUME NEW i \in 1..N
               PROVE  /\ q[i] \in Seq(S) /\ Len(q[i]) = times[i] /\ times[i] \in 1..2
                      /\ \A k \in 1..times[i] : q[i][k] = whole[i]
    OBVIOUS
  <2> DEFINE m == times[i]
             e == whole[i]
             r == [k \in 1..m |-> e]
  <2>1. m \in 1..2 /\ e \in S /\ q[i] = r
    BY <1>1, <1>3
  <2> HIDE DEF m, e, q
  <2>2. r \in Seq(S) /\ Len(r) = m /\ \A k \in 1..m : r[k] = e
    BY <2>1
  <2> HIDE DEF r
  <2> QED BY <2>1, <2>2 DEF m, e
<1>5. q \in [1..N -> Seq(S)]
  BY <1>4
<1> HIDE DEF q
<1>6. N \in Nat
  BY <1>3
<1>7. PICK off : LaidOut(S, N, q, u, off)
  BY <1>5, <1>6, FlattenPlaces
<1> HIDE DEF u
<1>8. /\ u \in Seq(S) /\ Len(u) \in Nat /\ off \in [1..(N + 1) -> Nat] /\ off[1] = 0 /\ Len(u) = off[N + 1]
      /\ \A i \in 1..N : /\ off[i + 1] = off[i] + times[i] /\ off[i] \in Nat /\ off[i + 1] \in Nat
                         /\ \A k \in 1..times[i] : u[off[i] + k] = whole[i]
  <2>1. /\ u \in Seq(S) /\ off \in [1..(N + 1) -> Nat] /\ off[1] = 0 /\ Len(u) = off[N + 1]
        /\ \A i \in 1..N : /\ off[i + 1] = off[i] + Len(q[i])
                           /\ \A k \in 1..Len(q[i]) : u[off[i] + k] = q[i][k]
    BY <1>7, Zenon DEF LaidOut
  <2>2. \A i \in 1..N : i + 1 \in 1..(N + 1) /\ i \in 1..(N + 1)
    BY <1>6
  <2>3. \A i \in 1..N : off[i] \in Nat /\ off[i + 1] \in Nat
    BY <2>1, <2>2
  <2>4. Len(u) \in Nat
    BY <2>1
  <2>5. \A i \in 1..N : /\ off[i + 1] = off[i] + times[i]
                        /\ \A k \in 1..times[i] : u[off[i] + k] = whole[i]
    <3> SUFFICES ASSUME NEW i \in 1..N
                 PROVE  /\ off[i + 1] = off[i] + times[i]
                        /\ \A k \in 1..times[i] : u[off[i] + k] = whole[i]
      OBVIOUS
    <3>1. Len(q[i]) = times[i] /\ \A k \in 1..times[i] : q[i][k] = whole[i]
      BY <1>4
    <3> QED BY <2>1, <3>1
  <2> QED BY <2>1, <2>3, <2>4, <2>5
<1> DEFINE In(p, i) == off[i] < p /\ p <= off[i + 1]
<1>9. ASSUME NEW p \in 1..Len(u)
      PROVE  \E i \in 1..N : In(p, i)
  <2>0. PICK i \in 1..N : \E k \in 1..Len(q[i]) : p = off[i] + k
    <3>1. HasPlace(N, q, off, p)
      BY <1>5, <1>6, <1>7, EachPlace, Zenon
    <3> QED BY <3>1 DEF HasPlace
  <2>1. PICK k \in 1..Len(q[i]) : p = off[i] + k
    BY <2>0
  <2>2. k \in 1..times[i]
    BY <1>4, <2>1
  <2>3. off[i] \in Nat /\ times[i] \in 1..2 /\ off[i + 1] = off[i] + times[i]
    BY <1>4, <1>8
  <2> QED BY <2>1, <2>2, <2>3
<1>10. ASSUME NEW p \in Nat, NEW i \in 1..N, NEW j \in 1..N, In(p, i), In(p, j), i < j PROVE FALSE
  <2>1. i + 1 \in 1..(N + 1) /\ j \in (i + 1)..(N + 1)
    BY <1>6, <1>10
  <2>2. off[i + 1] <= off[j]
    BY <1>5, <1>6, <1>7, <2>1, PlacesGrow
  <2>3. off[i + 1] \in Nat /\ off[j] \in Nat
    BY <1>8
  <2> QED BY <1>10, <2>2, <2>3
<1> DEFINE at == [p \in 1..Len(u) |-> CHOOSE i \in 1..N : In(p, i)]
<1>11. ASSUME NEW p \in 1..Len(u)
       PROVE  at[p] \in 1..N /\ In(p, at[p])
  <2> HIDE DEF In
  <2> QED BY <1>9
<1>12. ASSUME NEW p \in 1..Len(u), NEW i \in 1..N, In(p, i)
       PROVE  at[p] = i
  <2>0. p \in Nat
    BY <1>8
  <2>1. at[p] \in 1..N /\ In(p, at[p]) /\ p \in Nat
    <3> HIDE DEF In, at
    <3> QED BY <1>11, <2>0
  <2> DEFINE j == at[p]
  <2>2. j \in 1..N /\ In(p, j)
    BY <2>1
  <2> HIDE DEF j, In
  <2>3. ~ (i < j) /\ ~ (j < i)
    BY <1>10, <1>12, <2>1, <2>2
  <2>4. j = i
    BY <1>6, <2>2, <2>3
  <2> QED BY <2>4 DEF j
<1>13. \A p \in 1..Len(u) : at[p] \in 1..N
  BY <1>11
<1> HIDE DEF at
<1>14. ASSUME NEW p \in 1..Len(u)
       PROVE  u[p] = whole[at[p]]
  <2> DEFINE i == at[p]
  <2>1. i \in 1..N /\ off[i] < p /\ p <= off[i + 1]
    BY <1>11
  <2> HIDE DEF i
  <2>2. off[i] \in Nat /\ times[i] \in 1..2 /\ off[i + 1] = off[i] + times[i] /\ \A k \in 1..times[i] : u[off[i] + k] = whole[i]
    BY <1>4, <1>8, <2>1
  <2>3. p - off[i] \in 1..times[i] /\ off[i] + (p - off[i]) = p
    BY <1>8, <2>1, <2>2
  <2>4. u[p] = whole[i]
    BY <2>2, <2>3
  <2> QED BY <2>4 DEF i
<1>15. 1 \in 1..N /\ N \in 1..N /\ off[1 + 1] = times[1] /\ times[1] \in 1..2 /\ times[N] \in 1..2
       /\ off[N + 1] = off[N] + times[N] /\ off[N] \in Nat
  <2>1. 1 \in 1..N /\ N \in 1..N
    BY <1>3
  <2> QED BY <1>4, <1>8, <2>1
<1>16. Len(u) >= 1 /\ 1 \in 1..Len(u) /\ Len(u) \in 1..Len(u)
  <2>1. Len(u) >= 1
    BY <1>8, <1>15
  <2> QED BY <1>8, <2>1
<1>17. at[1] = 1
  <2>1. In(1, 1)
    BY <1>8, <1>15
  <2> HIDE DEF In
  <2> QED BY <1>12, <1>15, <1>16, <2>1
<1>18. at[Len(u)] = N
  <2>1. In(Len(u), N)
    BY <1>8, <1>15
  <2> HIDE DEF In
  <2> QED BY <1>12, <1>15, <1>16, <2>1
<1>19. ASSUME NEW p \in 2..Len(u)
       PROVE  at[p] = at[p - 1] + 1 \/ (at[p] = at[p - 1] /\ u[p] = "/")
  <2> DEFINE i == at[p - 1]
  <2>1. p - 1 \in 1..Len(u) /\ p \in 1..Len(u) /\ p \in Nat
    BY <1>8
  <2>2. i \in 1..N /\ off[i] < p - 1 /\ p - 1 <= off[i + 1]
    BY <1>11, <2>1
  <2> HIDE DEF i
  <2>3. off[i] \in Nat /\ times[i] \in 1..2 /\ off[i + 1] = off[i] + times[i]
    BY <1>4, <1>8, <2>2
  <2>4. CASE p <= off[i + 1]
    <3>1. In(p, i)
      BY <2>1, <2>2, <2>3, <2>4
    <3>2. at[p] = i
      <4> HIDE DEF In
      <4> QED BY <1>12, <2>1, <2>2, <3>1
    <3>3. times[i] > 1
      BY <2>1, <2>2, <2>3, <2>4
    <3>4. whole[i] = "/"
      BY <1>1, <2>2, <3>3 DEF N
    <3> QED BY <1>14, <2>1, <3>2, <3>4 DEF i
  <2>5. CASE ~ (p <= off[i + 1])
    <3>1. p = off[i + 1] + 1
      BY <2>1, <2>2, <2>3, <2>5
    <3>2. i # N
      BY <1>8, <2>1, <3>1, <2>3
    <3>3. i + 1 \in 1..N
      BY <1>6, <2>2, <3>2
    <3>4. off[(i + 1) + 1] = off[i + 1] + times[i + 1] /\ times[i + 1] \in 1..2 /\ off[i + 1] \in Nat
      BY <1>4, <1>8, <3>3
    <3>5. In(p, i + 1)
      BY <3>1, <3>4
    <3>6. at[p] = i + 1
      <4> HIDE DEF In
      <4> QED BY <1>12, <2>1, <3>3, <3>5
    <3> QED BY <3>6 DEF i
  <2> QED BY <2>4, <2>5
<1>20. Repeats(u, path, at)
  <2>1. at \in [1..Len(u) -> 1..Len(w)]
    <3>1. \A i \in 1..N : i \in 1..Len(w)
      BY <1>3
    <3>2. at = [p \in 1..Len(u) |-> at[p]]
      BY DEF at
    <3> QED BY <1>13, <3>1, <3>2
  <2>2. at[Len(u)] >= Len(path)
    BY <1>2, <1>3, <1>18
  <2>3. \A i \in 1..Len(u) : u[i] = w[at[i]]
    BY <1>3, <1>13, <1>14
  <2> QED BY <1>17, <1>19, <2>1, <2>2, <2>3, Zenon DEF Repeats, w
<1>21. u # <<>>
  <2>1. Len(<<>>) = 0
    OBVIOUS
  <2> QED BY <1>16, <2>1
<1>22. ClearSlash(u) = path
  BY <1>1, <1>8, <1>20, <1>21, Clear, Zenon
<1> QED BY <1>22, Zenon DEF u, q, N

\* Halves of numbers.
LEMMA Halves ==
  ASSUME NEW n \in Nat \ {0}
  PROVE  /\ (2 * n) % 2 = 0 /\ 1 % 2 = 1
         /\ \A i \in 1..(2 * n) : i % 2 = 0 => i \div 2 \in 1..n
         /\ \A i \in 2..(2 * n) : i % 2 # 0 => i < 2 * n /\ i - 1 \in 1..(2 * n) /\ (i - 1) % 2 = 0
OBVIOUS

\* Words with a slash before each are a clear path.
IsWordPath(n, words, path) ==
    path = [i \in 1..(2 * n) |-> IF i % 2 = 0 THEN words[i \div 2] ELSE "/"]

\* A path of words has no slash too many.
LEMMA WordsClear ==
  ASSUME NEW W, "/" \notin W, NEW n \in Nat \ {0}, NEW words \in [1..n -> W], NEW path,
         IsWordPath(n, words, path)
  PROVE  path \in Seq(W \cup {"/"}) /\ Len(path) = 2 * n /\ IsClear(path)
<1> DEFINE m == 2 * n
<1>1. /\ m % 2 = 0 /\ 1 % 2 = 1
      /\ \A i \in 1..m : i % 2 = 0 => i \div 2 \in 1..n
      /\ \A i \in 2..m : i % 2 # 0 => i < m /\ i - 1 \in 1..m /\ (i - 1) % 2 = 0
  BY Halves
<1>2. m \in Nat /\ 1 \in 1..m /\ \A i \in 2..m : i \in 1..m
  OBVIOUS
<1> HIDE DEF m
<1>3. path = [i \in 1..m |-> IF i % 2 = 0 THEN words[i \div 2] ELSE "/"]
  BY DEF m, IsWordPath
<1>4. \A i \in 1..m : i % 2 = 0 => path[i] \in W /\ path[i] # "/"
  BY <1>1, <1>3
<1>5. \A i \in 1..m : i % 2 # 0 => path[i] = "/"
  BY <1>3
<1>6. path \in [1..m -> W \cup {"/"}]
  <2>1. path = [i \in 1..m |-> path[i]]
    BY <1>3
  <2>2. \A i \in 1..m : path[i] \in W \cup {"/"}
    BY <1>4, <1>5
  <2> QED BY <2>1, <2>2
<1>7. path \in Seq(W \cup {"/"}) /\ Len(path) = m
  BY <1>2, <1>6
<1>8. path # <<>> /\ path[1] = "/"
  <2>1. path[1] = "/"
    BY <1>1, <1>2, <1>5
  <2>2. Len(<<>>) = 0 /\ m # 0
    BY <1>2
  <2> QED BY <1>7, <2>1, <2>2
<1>9. ASSUME NEW i \in 2..m, path[i] = "/" PROVE i < m /\ path[i - 1] # "/"
  <2>1. i % 2 # 0
    BY <1>2, <1>4, <1>9
  <2> QED BY <1>1, <1>4, <2>1
<1>10. IsClear(path)
  BY <1>7, <1>8, <1>9 DEF IsClear
<1> QED BY <1>7, <1>10 DEF m

\* A path leads to its page however it is spelled (clearSlash).
LEMMA PathCleared ==
  ASSUME TextAssumption, ClearPath
  PROVE  TextRight'
<1> DEFINE S == Words \cup {"/"}
<1>1. PICK words \in Upto(Words, MaxText), more \in 0..1 :
        LET path  == IF words = <<>> THEN <<"/">>
                     ELSE [i \in 1..(2 * Len(words)) |-> IF i % 2 = 0 THEN words[i \div 2] ELSE "/"]
            whole == IF words = <<>> \/ more = 0 THEN path ELSE Append(path, "/")
        IN  \E times \in [DOMAIN whole -> 1..2] :
              /\ \A i \in DOMAIN whole : times[i] > 1 => whole[i] = "/"
              /\ Made("path", ClearSlash(FlattenSeq([i \in DOMAIN whole |->
                                                      [k \in 1..times[i] |-> whole[i]]])), path)
  BY Zenon DEF ClearPath
<1> DEFINE path == IF words = <<>> THEN <<"/">>
                   ELSE [i \in 1..(2 * Len(words)) |-> IF i % 2 = 0 THEN words[i \div 2] ELSE "/"]
           whole == IF words = <<>> \/ more = 0 THEN path ELSE Append(path, "/")
<1>2. PICK times \in [DOMAIN whole -> 1..2] :
        /\ \A i \in DOMAIN whole : times[i] > 1 => whole[i] = "/"
        /\ Made("path", ClearSlash(FlattenSeq([i \in DOMAIN whole |->
                                                [k \in 1..times[i] |-> whole[i]]])), path)
  BY <1>1, Zenon
<1>3. PICK n \in 0..MaxText : words \in [1..n -> Words]
  BY UptoHas
<1>4. n \in Nat
  BY DEF TextAssumption
<1>5. "/" \notin Words /\ "/" \in S
  BY DEF TextAssumption
<1>6. path \in Seq(S) /\ IsClear(path) /\ (whole = path \/ whole = WithSlash(path))
  <2>1. CASE words = <<>>
    <3> DEFINE p == <<"/">>
    <3>1. path = p /\ whole = path
      BY <2>1
    <3>2. p \in Seq(S) /\ p # <<>> /\ p[1] = "/" /\ \A i \in 2..Len(p) : FALSE
      OBVIOUS
    <3> HIDE DEF path, whole, p
    <3>3. IsClear(p)
      BY <3>2 DEF IsClear
    <3> QED BY <3>1, <3>2, <3>3
  <2>2. CASE words # <<>>
    <3>1. n # 0 /\ Len(words) = n
      <4>1. n = 0 => words = <<>>
        BY <1>3
      <4>2. Len(words) = n
        BY <1>3, <1>4
      <4> QED BY <2>2, <4>1, <4>2
    <3>2. path = [i \in 1..(2 * n) |-> IF i % 2 = 0 THEN words[i \div 2] ELSE "/"]
      BY <2>2, <3>1
    <3>3. whole = IF more = 0 THEN path ELSE Append(path, "/")
      BY <2>2
    <3> HIDE DEF path, whole
    <3>4. path \in Seq(Words \cup {"/"}) /\ Len(path) = 2 * n /\ IsClear(path)
      <4>1. n \in Nat \ {0}
        BY <1>4, <3>1
      <4>2. IsWordPath(n, words, path)
        BY <3>2, Zenon DEF IsWordPath
      <4> QED BY <1>3, <1>5, <4>1, <4>2, WordsClear, Zenon
    <3>5. Len(path) # 1
      BY <1>4, <3>1, <3>4
    <3>6. WithSlash(path) = Append(path, "/")
      BY <3>5, Zenon DEF WithSlash
    <3> QED BY <3>3, <3>4, <3>6
  <2> QED BY <2>1, <2>2
<1> HIDE DEF path, whole, S
<1>7. DOMAIN whole = 1..Len(whole)
  <2>1. WithSlash(path) \in Seq(S)
    BY <1>5, <1>6, WholeIs, Zenon
  <2>2. whole \in Seq(S)
    BY <1>6, <2>1
  <2> QED BY <2>2
<1>8. Respelled(S, path, whole, times)
  BY <1>2, <1>5, <1>6, <1>7, Zenon DEF Respelled
<1>9. ClearSlash(FlattenSeq([i \in 1..Len(whole) |-> [k \in 1..times[i] |-> whole[i]]])) = path
  BY <1>8, RespelledClear, Zenon
<1>10. Made("path", path, path)
  BY <1>2, <1>7, <1>9, Zenon
<1> QED BY <1>10 DEF Made, TextRight

\* What listClients computes.
Item(q, key) == <<q, key, q>>

ListText(keys, open, comma, q) ==
    CHOOSE f : f = [i \in 0..Len(keys) |->
                      IF i = 0 THEN open
                      ELSE (IF i = 1 THEN f[i - 1] ELSE f[i - 1] \o comma) \o <<q, keys[i], q>>]

\* It is made of the keys in their order, with commas between them.
LEMMA ListFcn ==
  ASSUME NEW S, NEW keys \in Seq(S), NEW o \in S, NEW c \in S, NEW q \in S
  PROVE  Lists(ListText(keys, <<o>>, <<c>>, q), Len(keys), <<o>>, <<c>>,
               [i \in 1..Len(keys) |-> Item(q, keys[i])])
<1> DEFINE n == Len(keys)
           D == 0..n
           V == Seq(S)
           open == <<o>>
           comma == <<c>>
           item == [i \in 1..n |-> Item(q, keys[i])]
           h == [x \in (1..n) \X V |-> (IF x[1] = 1 THEN x[2] ELSE x[2] \o comma) \o item[x[1]]]
           Is(f) == f = [i \in D |-> IF i = 0 THEN open
                                     ELSE (IF i = 1 THEN f[i - 1] ELSE f[i - 1] \o comma) \o Item(q, keys[i])]
           g == ListText(keys, open, comma, q)
<1>1. n \in Nat /\ \A i \in 1..n : keys[i] \in S
  OBVIOUS
<1>2. open \in V /\ comma \in V /\ \A i \in 1..n : Item(q, keys[i]) \in V
  BY <1>1, One, Three, Zenon DEF Item
<1>3. g = CHOOSE f : Is(f)
  BY Zenon DEF ListText, Item
<1> HIDE DEF g
<1> HIDE DEF open, comma, n
<1>4. item \in [1..n -> V]
  BY <1>2
<1>5. h \in [(1..n) \X V -> V]
  <2>1. \A x, y \in V : x \o y \in V
    BY Associate, Zenon
  <2>2. ASSUME NEW x \in (1..n) \X V
        PROVE (IF x[1] = 1 THEN x[2] ELSE x[2] \o comma) \o item[x[1]] \in V
    <3>1. x[2] \in V /\ item[x[1]] \in V /\ x[2] \o comma \in V
      <4> HIDE DEF item, V
      <4> QED BY <1>2, <1>4, <2>1
    <3> HIDE DEF item, V
    <3> QED BY <2>1, <3>1
  <2> HIDE DEF V, item
  <2> QED BY <2>2
<1>6. PICK f \in [0..n -> V] : IsForward(f, n, open, h)
  <2> HIDE DEF V, h
  <2> QED BY <1>1, <1>2, <1>5, Forward, Zenon
<1>7. \A i \in 1..n : f[i] = (IF i = 1 THEN f[i - 1] ELSE f[i - 1] \o comma) \o item[i]
  <2> SUFFICES ASSUME NEW i \in 1..n
               PROVE  f[i] = (IF i = 1 THEN f[i - 1] ELSE f[i - 1] \o comma) \o item[i]
    OBVIOUS
  <2> DEFINE x == <<i, f[i - 1]>>
  <2>1. x \in (1..n) \X V
    <3>1. i - 1 \in 0..n
      BY <1>1
    <3> HIDE DEF V
    <3> QED BY <1>6, <3>1
  <2>2. f[i] = h[x]
    <3> HIDE DEF h
    <3> QED BY <1>6, Zenon DEF IsForward
  <2>3. x[1] = i /\ x[2] = f[i - 1]
    OBVIOUS
  <2> HIDE DEF x, V, item
  <2> QED BY <2>1, <2>2, <2>3
<1>8. Is(f)
  <2>1. f[0] = open
    <3> HIDE DEF h
    <3> QED BY <1>6, Zenon DEF IsForward
  <2>2. \A i \in 1..n : item[i] = Item(q, keys[i])
    OBVIOUS
  <2> HIDE DEF item, V
  <2>3. \A i \in D : f[i] = IF i = 0 THEN open
                            ELSE (IF i = 1 THEN f[i - 1] ELSE f[i - 1] \o comma) \o Item(q, keys[i])
    <3> SUFFICES ASSUME NEW i \in D
                 PROVE  f[i] = IF i = 0 THEN open
                               ELSE (IF i = 1 THEN f[i - 1] ELSE f[i - 1] \o comma) \o Item(q, keys[i])
      OBVIOUS
    <3>1. CASE i = 0
      BY <2>1, <3>1, Zenon
    <3>2. CASE i # 0
      <4>1. i \in 1..n
        BY <1>1, <3>2
      <4> HIDE DEF D
      <4> QED BY <1>7, <2>2, <3>2, <4>1, Zenon
    <3> QED BY <3>1, <3>2
  <2>4. f = [i \in D |-> f[i]]
    BY <1>6
  <2> HIDE DEF D
  <2> QED BY <2>3, <2>4
<1>9. Is(g)
  <2>1. Is(CHOOSE e : Is(e))
    <3> HIDE DEF Is
    <3> QED BY <1>8
  <2> HIDE DEF Is
  <2> QED BY <1>3, <2>1
<1>10. \A i \in D : g[i] = IF i = 0 THEN open
                           ELSE (IF i = 1 THEN g[i - 1] ELSE g[i - 1] \o comma) \o Item(q, keys[i])
  <2> HIDE DEF D
  <2> QED BY <1>9
<1>11. Lists(g, n, open, comma, item)
  <2>1. g[0] = open
    BY <1>1, <1>10
  <2>2. \A i \in 1..n : g[i] = (IF i = 1 THEN g[i - 1] ELSE g[i - 1] \o comma) \o item[i]
    <3>1. \A i \in 1..n : item[i] = Item(q, keys[i]) /\ i \in D /\ i # 0
      BY <1>1
    <3> HIDE DEF D, item
    <3> QED BY <1>10, <3>1
  <2> HIDE DEF item
  <2> QED BY <2>1, <2>2 DEF Lists
<1> QED BY <1>11, Zenon DEF n, open, comma, g

\* The items, with commas between them.
LEMMA TextList ==
  ASSUME NEW W, NEW keys \in Seq(W), NEW o, NEW c, NEW q
  PROVE  LET quoted == FlattenSeq([i \in 1..Len(keys) |->
                                     <<c>> \o [k \in 1..Len(keys) |-> Item(q, keys[k])][i]])
         IN  ListText(keys, <<o>>, <<c>>, q)[Len(keys)] = <<o>> \o SubSeq(quoted, 2, Len(quoted))
<1> DEFINE S == W \cup {o, c, q}
           n == Len(keys)
           item == [i \in 1..n |-> Item(q, keys[i])]
           quoted == FlattenSeq([i \in 1..n |-> <<c>> \o item[i]])
           f == ListText(keys, <<o>>, <<c>>, q)
<1>1. o \in S /\ c \in S /\ q \in S /\ W \subseteq S
  OBVIOUS
<1>2. n \in Nat
  OBVIOUS
<1> HIDE DEF S
<1>3. keys \in Seq(S)
  BY <1>1, SeqOverMore
<1>4. Lists(f, n, <<o>>, <<c>>, item)
  BY <1>1, <1>3, ListFcn
<1>5. item \in [1..n -> Seq(S)]
  <2>1. \A i \in 1..n : Item(q, keys[i]) \in Seq(S)
    <3>1. \A i \in 1..n : keys[i] \in S
      BY <1>3
    <3> QED BY <1>1, <3>1, Three, Zenon DEF Item
  <2> HIDE DEF n
  <2> QED BY <2>1
<1>6. IsQuoted(quoted, n, <<c>>, item)
  BY Zenon DEF IsQuoted
<1>7. IsListed(f[n], <<o>>, quoted)
  <2> HIDE DEF f, n, item, quoted
  <2> QED BY <1>1, <1>2, <1>4, <1>5, <1>6, ListedAs, Zenon
<1> QED BY <1>7, Zenon DEF IsListed

\* Players are told each other.
LEMMA ClientsShown ==
  ASSUME ShowClients
  PROVE  TextRight'
<1>1. PICK keys \in Upto(Words, MaxText) :
        LET quoted == Joined([i \in DOMAIN keys |-> <<"\"", keys[i], "\"">>], <<",">>)
        IN  Made("clients", ListClients(keys), <<"[">> \o SubSeq(quoted, 2, Len(quoted)) \o <<"]">>)
  BY Zenon DEF ShowClients
<1>2. PICK m \in 0..MaxText : keys \in [1..m -> Words]
  BY <1>1, UptoHas
<1>3. keys \in Seq(Words) /\ DOMAIN keys = 1..Len(keys)
  <2>1. m \in Nat
    BY <1>2, TextAssumption
  <2> QED BY <1>2, <2>1
<1> DEFINE n == Len(keys)
           item == [i \in 1..n |-> Item("\"", keys[i])]
           quoted == FlattenSeq([i \in 1..n |-> <<",">> \o item[i]])
           inner == SubSeq(quoted, 2, Len(quoted))
           f == ListText(keys, <<"[">>, <<",">>, "\"")
<1>4. quoted = Joined([i \in DOMAIN keys |-> <<"\"", keys[i], "\"">>], <<",">>)
  <2>1. [i \in DOMAIN keys |-> <<"\"", keys[i], "\"">>] = item
    BY <1>3, Zenon DEF Item
  <2>2. DOMAIN item = 1..n
    BY Zenon
  <2> HIDE DEF item, n
  <2> QED BY <2>1, <2>2, Zenon DEF Joined
<1>5. ListClients(keys) = f[n] \o <<"]">>
  BY Zenon DEF ListClients, ListText
<1>6. f[n] = <<"[">> \o inner
  BY <1>3, TextList, Zenon
<1>7. Made("clients", ListClients(keys), <<"[">> \o inner \o <<"]">>)
  <2> HIDE DEF quoted
  <2> QED BY <1>1, <1>4, Zenon
<1>8. ListClients(keys) = <<"[">> \o inner \o <<"]">>
  <2> HIDE DEF inner, f
  <2> QED BY <1>5, <1>6, Zenon
<1> HIDE DEF inner
<1> QED BY <1>7, <1>8, Zenon DEF Made, TextRight

-----------------------------------------------------------------------------
(***************************************************************************)
(* Templates: where placeholders are, and what stands between them.        *)
(***************************************************************************)
\* Braces.
OpenBrace == "{"

CloseBrace == "}"

\* Braces are two.
LEMMA BracesDiffer ==
  /\ OpenBrace # CloseBrace /\ OpenBrace # "x" /\ OpenBrace # "k" /\ OpenBrace # "u"
  /\ CloseBrace # "x" /\ CloseBrace # "k" /\ CloseBrace # "u"
BY Zenon DEF OpenBrace, CloseBrace

\* Where two braces open.
LEMMA OpensIs ==
  ASSUME NEW t, NEW i
  PROVE  Opens(t, i) <=> i < Len(t) /\ t[i] = OpenBrace /\ t[i + 1] = OpenBrace
BY Zenon DEF Opens, OpenBrace

\* What findPlaceholder looks for.
OpenAt(t, i) == Find([n \in DOMAIN t |-> Opens(t, n)], TRUE, i)

BraceAt(t, i) == Find(t, "}", OpenAt(t, i) + 2)

Closes(t, b) == b < Len(t) /\ t[b + 1] = "}"

\* What is found is a place where two open, the first.
LEMMA OpenIn ==
  ASSUME NEW S, NEW t \in Seq(S), NEW i \in Nat \ {0}
  PROVE  \/ OpenAt(t, i) = 0
         \/ OpenAt(t, i) \in i..Len(t)
<1> DEFINE s == [n \in DOMAIN t |-> Opens(t, n)]
<1>1. DOMAIN t = 1..Len(t) /\ Len(t) \in Nat
  OBVIOUS
<1>2. \A n : Opens(t, n) \in BOOLEAN
  BY DEF Opens
<1>3. s \in Seq(BOOLEAN) /\ Len(s) = Len(t)
  <2> HIDE DEF s
  <2>1. s \in [1..Len(t) -> BOOLEAN]
    BY <1>1, <1>2 DEF s
  <2> QED BY <1>1, <2>1
<1> HIDE DEF s
<1>4. Find(s, TRUE, i) = 0 \/ Find(s, TRUE, i) \in i..Len(s)
  BY <1>3, FindIn, Zenon
<1>5. OpenAt(t, i) = Find(s, TRUE, i)
  BY Zenon DEF OpenAt, s
<1> QED BY <1>3, <1>4, <1>5

\* The first place where two open is found.
LEMMA OpenIs ==
  ASSUME NEW S, NEW t \in Seq(S), NEW i \in Nat \ {0}, Opens(t, i)
  PROVE  OpenAt(t, i) = i
<1> DEFINE s == [n \in DOMAIN t |-> Opens(t, n)]
<1>1. DOMAIN t = 1..Len(t) /\ Len(t) \in Nat
  OBVIOUS
<1>2. \A n : Opens(t, n) \in BOOLEAN
  BY DEF Opens
<1>3. s \in Seq(BOOLEAN) /\ Len(s) = Len(t) /\ \A n \in 1..Len(t) : s[n] = Opens(t, n)
  <2> HIDE DEF s
  <2>1. s \in [1..Len(t) -> BOOLEAN] /\ \A n \in 1..Len(t) : s[n] = Opens(t, n)
    BY <1>1, <1>2 DEF s
  <2> QED BY <1>1, <2>1
<1> HIDE DEF s
<1>4. i \in 1..Len(t) /\ i \in i..Len(t)
  <2>1. i < Len(t)
    BY OpensIs
  <2> QED BY <1>1, <2>1
<1>5. s[i] = TRUE
  <2>1. s[i]
    BY <1>3, <1>4, Zenon
  <2>2. s[i] \in BOOLEAN
    BY <1>3, <1>4
  <2> QED BY <2>1, <2>2
<1>6. \A n \in i..(i - 1) : s[n] # TRUE
  OBVIOUS
<1>7. Find(s, TRUE, i) = i
  <2>1. i \in i..Len(s)
    BY <1>3, <1>4
  <2> QED BY <1>3, <1>5, <1>6, <2>1, FindAt
<1> QED BY <1>7, Zenon DEF OpenAt, s

\* Where there is none, the search may as well begin behind it.
LEMMA FindSkips ==
  ASSUME NEW S, NEW s \in Seq(S), NEW c, NEW i \in Nat \ {0}, NEW j \in Nat, i <= j,
         \A k \in i..(j - 1) : k <= Len(s) => s[k] # c
  PROVE  Find(s, c, i) = Find(s, c, j)
<1>1. Len(s) \in Nat /\ j \in Nat \ {0}
  OBVIOUS
<1>2. CASE Find(s, c, j) = 0
  <2>1. \A k \in j..Len(s) : s[k] # c
    <3> SUFFICES ASSUME NEW k \in j..Len(s), s[k] = c PROVE FALSE
      OBVIOUS
    <3> DEFINE I == {m \in j..Len(s) : s[m] = c}
    <3>1. I \in SUBSET Nat /\ I # {}
      BY <1>1
    <3>2. PICK m \in I : \A e \in I : m <= e
      <4> HIDE DEF I
      <4> QED BY <3>1, LeastNumber
    <3>3. m \in j..Len(s) /\ s[m] = c
      OBVIOUS
    <3>4. \A e \in j..(m - 1) : s[e] # c
      <4> SUFFICES ASSUME NEW e \in j..(m - 1), s[e] = c PROVE FALSE
        OBVIOUS
      <4>1. e \in j..Len(s) /\ ~(m <= e)
        BY <1>1, <3>3
      <4> QED BY <3>2, <4>1
    <3>5. Find(s, c, j) = m
      BY <1>1, <3>3, <3>4, FindAt
    <3> QED BY <1>1, <1>2, <3>3, <3>5
  <2>2. \A k \in i..Len(s) : s[k] # c
    <3> SUFFICES ASSUME NEW k \in i..Len(s) PROVE s[k] # c
      OBVIOUS
    <3>1. CASE k < j
      BY <1>1, <3>1
    <3>2. CASE ~(k < j)
      <4>1. k \in j..Len(s)
        BY <1>1, <3>2
      <4> QED BY <2>1, <4>1
    <3> QED BY <3>1, <3>2
  <2> QED BY <1>2, <2>2, FindNone
<1>3. CASE Find(s, c, j) # 0
  <2> DEFINE m == Find(s, c, j)
  <2>1. m \in j..Len(s) /\ s[m] = c /\ \A k \in j..(m - 1) : s[k] # c
    BY <1>1, <1>3, FindIn
  <2> HIDE DEF m
  <2>2. m \in i..Len(s)
    BY <1>1, <2>1
  <2>3. \A k \in i..(m - 1) : s[k] # c
    <3> SUFFICES ASSUME NEW k \in i..(m - 1) PROVE s[k] # c
      OBVIOUS
    <3>1. CASE k < j
      BY <1>1, <2>1, <3>1
    <3>2. CASE ~(k < j)
      <4>1. k \in j..(m - 1)
        BY <1>1, <2>1, <3>2
      <4> QED BY <2>1, <4>1
    <3> QED BY <3>1, <3>2
  <2>4. Find(s, c, i) = m
    BY <2>1, <2>2, <2>3, FindAt
  <2> QED BY <2>4 DEF m
<1> QED BY <1>2, <1>3

\* The same for two that open.
LEMMA OpenSkips ==
  ASSUME NEW S, NEW t \in Seq(S), NEW i \in Nat \ {0}, NEW j \in Nat, i <= j,
         \A k \in i..(j - 1) : ~Opens(t, k)
  PROVE  OpenAt(t, i) = OpenAt(t, j)
<1> DEFINE s == [n \in DOMAIN t |-> Opens(t, n)]
<1>1. DOMAIN t = 1..Len(t) /\ Len(t) \in Nat
  OBVIOUS
<1>2. \A n : Opens(t, n) \in BOOLEAN
  BY DEF Opens
<1>3. s \in Seq(BOOLEAN) /\ Len(s) = Len(t) /\ \A n \in 1..Len(t) : s[n] = Opens(t, n)
  <2> HIDE DEF s
  <2>1. s \in [1..Len(t) -> BOOLEAN] /\ \A n \in 1..Len(t) : s[n] = Opens(t, n)
    BY <1>1, <1>2 DEF s
  <2> QED BY <1>1, <2>1
<1> HIDE DEF s
<1>4. \A k \in i..(j - 1) : k <= Len(s) => s[k] # TRUE
  <2> SUFFICES ASSUME NEW k \in i..(j - 1), k <= Len(s) PROVE s[k] # TRUE
    OBVIOUS
  <2>1. k \in 1..Len(t)
    BY <1>1, <1>3
  <2>2. ~s[k]
    BY <1>3, <2>1, Zenon
  <2> QED BY <2>2
<1>5. Find(s, TRUE, i) = Find(s, TRUE, j)
  BY <1>3, <1>4, FindSkips
<1> QED BY <1>5, Zenon DEF OpenAt, s

\* What closes lies behind what opens.
LEMMA BraceIn ==
  ASSUME NEW S, NEW t \in Seq(S), NEW i, OpenAt(t, i) \in Nat
  PROVE  \/ BraceAt(t, i) = 0
         \/ BraceAt(t, i) \in (OpenAt(t, i) + 2)..Len(t)
<1> DEFINE m == OpenAt(t, i) + 2
<1>1. m \in Nat \ {0}
  OBVIOUS
<1> HIDE DEF m
<1>2. Find(t, "}", m) = 0 \/ Find(t, "}", m) \in m..Len(t)
  BY <1>1, FindIn, Zenon
<1> QED BY <1>2, Zenon DEF BraceAt, m

\* What findPlaceholder computes, from each place on.
NoPlaceholder == <<0, 0>>

Misses(t, i) == i > Len(t) \/ OpenAt(t, i) = 0 \/ BraceAt(t, i) = 0

IsFinding(t, g) ==
    \A i \in 1..(Len(t) + 3) :
       g[i] = IF Misses(t, i) THEN NoPlaceholder
              ELSE IF Closes(t, BraceAt(t, i)) THEN <<OpenAt(t, i), BraceAt(t, i) + 1>>
              ELSE g[BraceAt(t, i) + 2]

\* findPlaceholder is such a function.
LEMMA FindingFcn ==
  ASSUME NEW S, NEW t \in Seq(S)
  PROVE  \E g : IsFinding(t, g) /\ \A k : Placeholder(t, k) = g[k]
<1> DEFINE n == Len(t) + 3
           D == 1..n
           V == Nat \X Nat
           found(i) == <<OpenAt(t, i), BraceAt(t, i) + 1>>
           next == [i \in D |-> IF Misses(t, i) \/ Closes(t, BraceAt(t, i)) THEN 0 ELSE BraceAt(t, i) + 2]
           base == [i \in D |-> IF Misses(t, i) THEN NoPlaceholder ELSE found(i)]
           h == [x \in D \X V |-> x[2]]
           Is(f) == f = [i \in D |-> IF Misses(t, i) THEN NoPlaceholder
                                     ELSE IF Closes(t, BraceAt(t, i)) THEN found(i)
                                     ELSE f[BraceAt(t, i) + 2]]
<1>1. Len(t) \in Nat /\ n \in Nat
  OBVIOUS
<1>2. ASSUME NEW i \in D, ~Misses(t, i)
      PROVE  /\ OpenAt(t, i) \in i..Len(t)
             /\ BraceAt(t, i) \in (OpenAt(t, i) + 2)..Len(t)
  <2>1. OpenAt(t, i) # 0 /\ BraceAt(t, i) # 0
    BY <1>2 DEF Misses
  <2>2. i \in Nat \ {0}
    OBVIOUS
  <2>3. OpenAt(t, i) \in i..Len(t)
    BY <2>1, <2>2, OpenIn, Zenon
  <2>4. OpenAt(t, i) \in Nat
    BY <2>2, <2>3
  <2>5. BraceAt(t, i) \in (OpenAt(t, i) + 2)..Len(t)
    BY <2>1, <2>4, BraceIn
  <2> QED BY <2>3, <2>5
<1>3. NoPlaceholder \in V /\ \A i \in D : ~Misses(t, i) => found(i) \in V
  BY <1>1, <1>2 DEF NoPlaceholder
<1> HIDE DEF V, found
<1>4. next \in [D -> Nat] /\ base \in [D -> V] /\ h \in [D \X V -> V]
  <2>1. next \in [D -> Nat]
    BY <1>1, <1>2
  <2>2. base \in [D -> V]
    BY <1>3
  <2>3. h \in [D \X V -> V]
    OBVIOUS
  <2> QED BY <2>1, <2>2, <2>3
<1>5. PICK f \in [D -> V] : IsOnward(f, n, next, base, h)
  <2>1. n \in Nat /\ next \in [1..n -> Nat] /\ base \in [1..n -> V] /\ h \in [(1..n) \X V -> V]
    BY <1>1, <1>4
  <2>2. D = 1..n
    OBVIOUS
  <2> HIDE DEF n, next, base, h, D
  <2> QED BY <2>1, <2>2, Onward, Zenon
<1>6. ASSUME NEW i \in D
      PROVE  f[i] = IF Misses(t, i) THEN NoPlaceholder
                    ELSE IF Closes(t, BraceAt(t, i)) THEN found(i) ELSE f[BraceAt(t, i) + 2]
  <2>1. f[i] = IF i < next[i] /\ next[i] <= n THEN h[<<i, f[next[i]]>>] ELSE base[i]
    <3> HIDE DEF next, base, h
    <3> QED BY <1>5 DEF IsOnward
  <2>2. CASE Misses(t, i) \/ Closes(t, BraceAt(t, i))
    <3>1. next[i] = 0 /\ ~(i < next[i])
      BY <2>2
    <3>2. base[i] = IF Misses(t, i) THEN NoPlaceholder ELSE found(i)
      OBVIOUS
    <3> HIDE DEF next, base, h
    <3>3. f[i] = base[i]
      BY <2>1, <3>1
    <3> QED BY <2>2, <3>2, <3>3
  <2>3. CASE ~(Misses(t, i) \/ Closes(t, BraceAt(t, i)))
    <3> DEFINE j == BraceAt(t, i) + 2
    <3>1. next[i] = j
      BY <2>3
    <3>2. i < j /\ j <= n /\ j \in D
      BY <1>1, <1>2, <2>3
    <3>3. h[<<i, f[j]>>] = f[j]
      <4>1. <<i, f[j]>> \in D \X V
        BY <1>5, <3>2
      <4> QED BY <4>1
    <3> HIDE DEF next, base, h, j
    <3>4. f[i] = f[j]
      BY <2>1, <3>1, <3>2, <3>3
    <3> QED BY <2>3, <3>4, Zenon DEF j
  <2> QED BY <2>2, <2>3
<1>7. Is(f)
  <2>1. f = [i \in D |-> f[i]]
    BY <1>5
  <2> HIDE DEF D
  <2> QED BY <1>6, <2>1
<1> DEFINE g == CHOOSE e : Is(e)
<1>8. Is(g)
  <2>1. Is(CHOOSE e : Is(e))
    <3> HIDE DEF Is
    <3> QED BY <1>7
  <2> HIDE DEF Is
  <2> QED BY <2>1
<1>9. \A k : Placeholder(t, k) = g[k]
  BY DEF Placeholder, Misses, NoPlaceholder, Closes, BraceAt, OpenAt, found
<1> HIDE DEF g
<1>10. IsFinding(t, g)
  <2>1. \A i \in D : g[i] = IF Misses(t, i) THEN NoPlaceholder
                            ELSE IF Closes(t, BraceAt(t, i)) THEN found(i)
                            ELSE g[BraceAt(t, i) + 2]
    <3> HIDE DEF D
    <3> QED BY <1>8
  <2> QED BY <2>1, Zenon DEF IsFinding, found
<1> QED BY <1>9, <1>10

\* What findPlaceholder returns lies in the template.
Lies(t, k, p) ==
    \/ p = NoPlaceholder
    \/ p \in Nat \X Nat /\ k <= p[1] /\ p[1] + 3 <= p[2] /\ p[2] <= Len(t)

\* What it finds lies where it looks.
LEMMA FindingLies ==
  ASSUME NEW S, NEW t \in Seq(S), NEW g, IsFinding(t, g), NEW k \in 1..(Len(t) + 3)
  PROVE  Lies(t, k, g[k])
<1> DEFINE n == Len(t) + 3
           T == {i \in 1..n : Lies(t, i, g[i])}
<1>1. Len(t) \in Nat /\ n \in Nat
  OBVIOUS
<1>2. ASSUME NEW i \in 1..n, \A j \in (i + 1)..n : j \in T PROVE i \in T
  <2>1. g[i] = IF Misses(t, i) THEN NoPlaceholder
               ELSE IF Closes(t, BraceAt(t, i)) THEN <<OpenAt(t, i), BraceAt(t, i) + 1>>
               ELSE g[BraceAt(t, i) + 2]
    BY Zenon DEF IsFinding
  <2>2. CASE Misses(t, i)
    BY <2>1, <2>2 DEF Lies
  <2>3. CASE ~Misses(t, i)
    <3> DEFINE a == OpenAt(t, i)
               b == BraceAt(t, i)
    <3>1. a # 0 /\ b # 0
      BY <2>3 DEF Misses
    <3>2. i \in Nat \ {0}
      OBVIOUS
    <3>3. a \in i..Len(t)
      BY <3>1, <3>2, OpenIn, Zenon
    <3>4. a \in Nat
      BY <3>2, <3>3
    <3>5. b \in (a + 2)..Len(t)
      BY <3>1, <3>4, BraceIn
    <3>6. CASE Closes(t, b)
      <4>1. g[i] = <<a, b + 1>>
        BY <2>1, <2>3, <3>6, Zenon
      <4>2. b < Len(t)
        BY <3>6, Zenon DEF Closes
      <4> HIDE DEF a, b
      <4>3. <<a, b + 1>> \in Nat \X Nat /\ i <= a /\ a + 3 <= b + 1 /\ b + 1 <= Len(t)
        BY <1>1, <3>3, <3>4, <3>5, <4>2
      <4>4. Lies(t, i, <<a, b + 1>>)
        BY <4>3 DEF Lies
      <4> QED BY <4>1, <4>4
    <3>7. CASE ~Closes(t, b)
      <4>1. g[i] = g[b + 2]
        BY <2>1, <2>3, <3>7, Zenon
      <4> HIDE DEF a, b
      <4>2. b + 2 \in (i + 1)..n /\ i <= b + 2
        BY <1>1, <3>3, <3>4, <3>5
      <4>3. Lies(t, b + 2, g[b + 2])
        BY <1>2, <4>2
      <4>4. b + 2 \in Nat
        BY <4>2
      <4>5. Lies(t, i, g[b + 2])
        BY <4>2, <4>3, <4>4 DEF Lies
      <4> QED BY <4>1, <4>5
    <3> QED BY <3>6, <3>7
  <2> QED BY <2>2, <2>3
<1> HIDE DEF T
<1>3. \A i \in 1..n : i \in T
  BY <1>1, <1>2, Backward
<1> QED BY <1>3 DEF T

\* What findPlaceholder returns lies in the template.
LEMMA PlaceholderLies ==
  ASSUME NEW S, NEW t \in Seq(S), NEW k \in 1..(Len(t) + 1)
  PROVE  \/ Placeholder(t, k) = NoPlaceholder /\ Placeholder(t, k)[2] = 0
         \/ /\ Placeholder(t, k)[1] \in k..Len(t)
            /\ Placeholder(t, k)[2] \in (Placeholder(t, k)[1] + 3)..Len(t)
            /\ Placeholder(t, k)[2] # 0
<1>1. PICK g : IsFinding(t, g) /\ \A i : Placeholder(t, i) = g[i]
  BY FindingFcn
<1>2. Len(t) \in Nat /\ k \in 1..(Len(t) + 3)
  OBVIOUS
<1>3. Lies(t, k, g[k])
  BY <1>1, <1>2, FindingLies, Zenon
<1>4. Lies(t, k, Placeholder(t, k))
  BY <1>1, <1>3
<1> DEFINE p == Placeholder(t, k)
<1> HIDE DEF p
<1>5. Lies(t, k, p)
  BY <1>4 DEF p
<1>6. CASE p = NoPlaceholder
  BY <1>6 DEF NoPlaceholder, p
<1>7. CASE p # NoPlaceholder
  <2>1. p \in Nat \X Nat /\ k <= p[1] /\ p[1] + 3 <= p[2] /\ p[2] <= Len(t)
    BY <1>5, <1>7 DEF Lies
  <2>2. p[1] \in k..Len(t) /\ p[2] \in (p[1] + 3)..Len(t) /\ p[2] # 0
    BY <1>2, <2>1
  <2> QED BY <2>2 DEF p
<1> QED BY <1>6, <1>7

\* What renderTemplate puts for the template up to the end of a placeholder, and
\* what it computes from each place on.
ShownAt(t, values, k) ==
    LET p   == Placeholder(t, k)
        key == SubSeq(t, p[1] + 2, p[2] - 2)
    IN  IF key \in DOMAIN values THEN SubSeq(t, k, p[1] - 1) \o values[key] ELSE SubSeq(t, k, p[2])

IsRendering(t, values, f) ==
    \A k \in 1..(Len(t) + 1) :
       f[k] = IF Placeholder(t, k)[2] = 0 THEN SubSeq(t, k, Len(t))
              ELSE ShownAt(t, values, k) \o f[Placeholder(t, k)[2] + 1]

\* What is shown is a text.
LEMMA ShownIs ==
  ASSUME NEW S, NEW t \in Seq(S), NEW values, \A key \in DOMAIN values : values[key] \in Seq(S),
         NEW k \in 1..(Len(t) + 1), Placeholder(t, k)[2] # 0
  PROVE  ShownAt(t, values, k) \in Seq(S)
<1> DEFINE p == Placeholder(t, k)
           key == SubSeq(t, p[1] + 2, p[2] - 2)
<1>1. p[1] \in k..Len(t) /\ p[2] \in (p[1] + 3)..Len(t)
  BY PlaceholderLies
<1>2. ShownAt(t, values, k) =
        IF key \in DOMAIN values THEN SubSeq(t, k, p[1] - 1) \o values[key] ELSE SubSeq(t, k, p[2])
  BY Zenon DEF ShownAt
<1> HIDE DEF p
<1>3. k \in Nat \ {0} /\ p[1] - 1 \in Int /\ p[1] - 1 <= Len(t) /\ p[2] \in Int /\ p[2] <= Len(t)
  BY <1>1
<1>4. SubSeq(t, k, p[1] - 1) \in Seq(S) /\ SubSeq(t, k, p[2]) \in Seq(S)
  BY <1>3, Within
<1> HIDE DEF key
<1>5. CASE key \in DOMAIN values
  <2>1. SubSeq(t, k, p[1] - 1) \o values[key] \in Seq(S)
    BY <1>4, <1>5, Associate, Zenon
  <2> QED BY <1>2, <1>5, <2>1
<1>6. CASE key \notin DOMAIN values
  BY <1>2, <1>4, <1>6
<1> QED BY <1>5, <1>6

\* renderTemplate is such a function.
LEMMA RenderingFcn ==
  ASSUME NEW S, NEW t \in Seq(S), NEW values, \A key \in DOMAIN values : values[key] \in Seq(S)
  PROVE  \E f : /\ \A k \in 1..(Len(t) + 1) : f[k] \in Seq(S)
                /\ IsRendering(t, values, f) /\ Rendered(t, values) = f[1]
<1> DEFINE n == Len(t) + 1
           D == 1..n
           V == Seq(S)
           e(k) == Placeholder(t, k)[2]
           plain(k) == SubSeq(t, k, Len(t))
           next == [k \in D |-> IF e(k) = 0 THEN 0 ELSE e(k) + 1]
           base == [k \in D |-> IF e(k) = 0 THEN plain(k) ELSE <<>>]
           h == [x \in D \X V |-> IF e(x[1]) = 0 THEN <<>> ELSE ShownAt(t, values, x[1]) \o x[2]]
           Is(f) == f = [k \in D |-> IF e(k) = 0 THEN plain(k)
                                     ELSE ShownAt(t, values, k) \o f[e(k) + 1]]
<1>1. Len(t) \in Nat /\ n \in Nat
  OBVIOUS
<1>2. ASSUME NEW k \in D PROVE e(k) = 0 \/ e(k) \in k..Len(t)
  <2>1. \/ e(k) = 0
        \/ Placeholder(t, k)[1] \in k..Len(t) /\ e(k) \in (Placeholder(t, k)[1] + 3)..Len(t)
    BY PlaceholderLies
  <2> HIDE DEF e
  <2> QED BY <1>1, <2>1
<1>3. ASSUME NEW k \in D
      PROVE  plain(k) \in V /\ (e(k) # 0 => ShownAt(t, values, k) \in V)
  <2>1. k \in Nat \ {0} /\ Len(t) \in Int /\ Len(t) <= Len(t)
    BY <1>1
  <2>2. plain(k) \in V
    BY <2>1, Within
  <2>3. e(k) # 0 => ShownAt(t, values, k) \in V
    BY ShownIs
  <2> QED BY <2>2, <2>3
<1>4. <<>> \in V /\ \A x, y \in V : x \o y \in V
  BY Associate
<1> HIDE DEF V, e, plain
<1>5. next \in [D -> Nat] /\ base \in [D -> V] /\ h \in [D \X V -> V]
  <2>1. next \in [D -> Nat]
    BY <1>1, <1>2
  <2>2. base \in [D -> V]
    BY <1>3, <1>4
  <2>3. \A x \in D \X V : (IF e(x[1]) = 0 THEN <<>> ELSE ShownAt(t, values, x[1]) \o x[2]) \in V
    BY <1>3, <1>4
  <2>4. h \in [D \X V -> V]
    BY <2>3
  <2> QED BY <2>1, <2>2, <2>4
<1>6. PICK f \in [D -> V] : IsOnward(f, n, next, base, h)
  <2>1. n \in Nat /\ next \in [1..n -> Nat] /\ base \in [1..n -> V] /\ h \in [(1..n) \X V -> V]
    BY <1>1, <1>5
  <2>2. D = 1..n
    OBVIOUS
  <2> HIDE DEF n, next, base, h, D
  <2> QED BY <2>1, <2>2, Onward, Zenon
<1>7. ASSUME NEW k \in D
      PROVE  f[k] = IF e(k) = 0 THEN plain(k) ELSE ShownAt(t, values, k) \o f[e(k) + 1]
  <2>1. f[k] = IF k < next[k] /\ next[k] <= n THEN h[<<k, f[next[k]]>>] ELSE base[k]
    <3> HIDE DEF next, base, h
    <3> QED BY <1>6 DEF IsOnward
  <2>2. CASE e(k) = 0
    <3>1. next[k] = 0 /\ base[k] = plain(k) /\ ~(k < next[k])
      BY <2>2
    <3> HIDE DEF next, base, h
    <3> QED BY <2>1, <2>2, <3>1
  <2>3. CASE e(k) # 0
    <3> DEFINE j == e(k) + 1
    <3>1. next[k] = j
      BY <2>3
    <3>2. k < j /\ j <= n /\ j \in D
      BY <1>1, <1>2, <2>3
    <3>3. h[<<k, f[j]>>] = ShownAt(t, values, k) \o f[j]
      <4>1. <<k, f[j]>> \in D \X V
        BY <1>6, <3>2
      <4> HIDE DEF j
      <4> QED BY <2>3, <4>1
    <3> HIDE DEF next, base, h, j
    <3>4. f[k] = ShownAt(t, values, k) \o f[j]
      BY <2>1, <3>1, <3>2, <3>3
    <3> QED BY <2>3, <3>4 DEF j
  <2> QED BY <2>2, <2>3
<1>8. Is(f)
  <2>1. f = [k \in D |-> f[k]]
    BY <1>6
  <2> HIDE DEF D
  <2> QED BY <1>7, <2>1
<1> DEFINE g == CHOOSE d : Is(d)
<1>9. Is(g)
  <2>1. Is(CHOOSE d : Is(d))
    <3> HIDE DEF Is
    <3> QED BY <1>8
  <2> HIDE DEF Is
  <2> QED BY <2>1
<1>10. Rendered(t, values) = g[1]
  BY DEF Rendered, ShownAt, e, plain
<1> HIDE DEF g
<1>11. \A k \in D : g[k] = IF e(k) = 0 THEN plain(k) ELSE ShownAt(t, values, k) \o g[e(k) + 1]
  <2> HIDE DEF D
  <2> QED BY <1>9
<1>12. \A k \in D : g[k] \in V
  <2> DEFINE T == {k \in D : g[k] \in V}
  <2>1. ASSUME NEW i \in 1..n, \A k \in (i + 1)..n : k \in T PROVE i \in T
    <3>1. CASE e(i) = 0
      BY <1>3, <1>11, <3>1
    <3>2. CASE e(i) # 0
      <4> DEFINE j == e(i) + 1
      <4>1. j \in (i + 1)..n
        BY <1>1, <1>2, <3>2
      <4> HIDE DEF j
      <4>2. g[j] \in V
        BY <2>1, <4>1
      <4>3. g[i] = ShownAt(t, values, i) \o g[j]
        BY <1>11, <3>2 DEF j
      <4> QED BY <1>3, <1>4, <3>2, <4>2, <4>3
    <3> QED BY <3>1, <3>2
  <2> HIDE DEF T
  <2>2. \A i \in 1..n : i \in T
    BY <1>1, <2>1, Backward
  <2> QED BY <2>2 DEF T
<1>13. IsRendering(t, values, g)
  BY <1>11, Zenon DEF IsRendering, e, plain
<1>14. \A k \in 1..(Len(t) + 1) : g[k] \in Seq(S)
  BY <1>12 DEF V
<1> QED BY <1>10, <1>13, <1>14

\* Where nothing opens, findPlaceholder may as well begin behind it.
LEMMA PlaceholderSkips ==
  ASSUME NEW S, NEW t \in Seq(S), NEW i \in 1..(Len(t) + 1), NEW j \in i..(Len(t) + 1),
         \A k \in i..(j - 1) : ~Opens(t, k)
  PROVE  Placeholder(t, i) = Placeholder(t, j)
<1>1. PICK g : IsFinding(t, g) /\ \A k : Placeholder(t, k) = g[k]
  BY FindingFcn
<1>2. /\ i \in Nat \ {0} /\ j \in Nat \ {0} /\ i <= j
      /\ i \in 1..(Len(t) + 3) /\ j \in 1..(Len(t) + 3) /\ Len(t) \in Nat
  OBVIOUS
<1>3. OpenAt(t, i) = OpenAt(t, j)
  BY <1>2, OpenSkips
<1>4. BraceAt(t, i) = BraceAt(t, j)
  BY <1>3, Zenon DEF BraceAt
<1>5. Misses(t, i) <=> Misses(t, j)
  <2>1. CASE j > Len(t)
    <3>1. OpenAt(t, j) = 0
      <4>1. OpenAt(t, j) = 0 \/ OpenAt(t, j) \in j..Len(t)
        BY <1>2, OpenIn
      <4> QED BY <1>2, <2>1, <4>1
    <3> QED BY <1>3, <3>1 DEF Misses
  <2>2. CASE ~(j > Len(t))
    <3>1. ~(i > Len(t))
      BY <1>2, <2>2
    <3> QED BY <1>3, <1>4, <2>2, <3>1, Zenon DEF Misses
  <2> QED BY <2>1, <2>2
<1>6. g[i] = g[j]
  BY <1>1, <1>2, <1>3, <1>4, <1>5 DEF IsFinding
<1> QED BY <1>1, <1>6

\* What is shown from a place is what stands before the next one, and what is shown from there.
LEMMA ShownFrom ==
  ASSUME NEW S, NEW t \in Seq(S), NEW values, \A key \in DOMAIN values : values[key] \in Seq(S),
         NEW i \in 1..(Len(t) + 1), NEW j \in i..(Len(t) + 1),
         Placeholder(t, i) = Placeholder(t, j), Placeholder(t, j)[2] # 0
  PROVE  Joins(ShownAt(t, values, i), SubSeq(t, i, j - 1), ShownAt(t, values, j))
<1> DEFINE p == Placeholder(t, j)
           key == SubSeq(t, p[1] + 2, p[2] - 2)
           a == p[1] - 1
           b == p[2]
<1>1. j \in 1..(Len(t) + 1) /\ Len(t) \in Nat
  OBVIOUS
<1>2. p[1] \in j..Len(t) /\ p[2] \in (p[1] + 3)..Len(t)
  BY <1>1, PlaceholderLies
<1>3. ShownAt(t, values, i) =
        IF key \in DOMAIN values THEN SubSeq(t, i, a) \o values[key] ELSE SubSeq(t, i, b)
  BY Zenon DEF ShownAt
<1>4. ShownAt(t, values, j) =
        IF key \in DOMAIN values THEN SubSeq(t, j, a) \o values[key] ELSE SubSeq(t, j, b)
  BY Zenon DEF ShownAt
<1>5. /\ i \in Nat \ {0} /\ j \in Nat \ {0} /\ a \in Nat /\ b \in Nat /\ i <= j
      /\ j <= a + 1 /\ a <= Len(t) /\ j <= b + 1 /\ b <= Len(t) /\ j - 1 \in Int /\ j - 1 <= Len(t)
  <2> HIDE DEF p
  <2> QED BY <1>1, <1>2
<1> HIDE DEF p, key, a, b
<1>6. CASE key \in DOMAIN values
  <2> DEFINE v == values[key]
             x == SubSeq(t, i, j - 1)
             y == SubSeq(t, j, a)
             z == SubSeq(t, i, a)
  <2>1. Joins(z, x, y)
    BY <1>5, SubSeqSplit, Zenon
  <2>2. x \in Seq(S) /\ y \in Seq(S) /\ v \in Seq(S)
    <3>1. a \in Int
      BY <1>5
    <3>2. v \in Seq(S)
      BY <1>6
    <3> HIDE DEF v
    <3> QED BY <1>5, <3>1, <3>2, Within
  <2>3. Joins(ShownAt(t, values, j), y, v) /\ Joins(ShownAt(t, values, i), z, v)
    BY <1>3, <1>4, <1>6, Zenon DEF Joins
  <2> HIDE DEF x, y, z, v
  <2>6. Joins(ShownAt(t, values, i), x, ShownAt(t, values, j))
    BY <2>1, <2>2, <2>3, RegroupBoth
  <2> QED BY <2>6, Zenon DEF x
<1>7. CASE key \notin DOMAIN values
  <2>1. Joins(SubSeq(t, i, b), SubSeq(t, i, j - 1), SubSeq(t, j, b))
    BY <1>5, SubSeqSplit, Zenon
  <2>2. ShownAt(t, values, i) = SubSeq(t, i, b) /\ ShownAt(t, values, j) = SubSeq(t, j, b)
    BY <1>3, <1>4, <1>7, Zenon
  <2> QED BY <2>1, <2>2, Zenon
<1> QED BY <1>6, <1>7

\* The function that renderTemplate computes, typed.
Renders(S, t, values, f) ==
    (\A k \in 1..(Len(t) + 1) : f[k] \in Seq(S)) /\ IsRendering(t, values, f)

\* What has no placeholders stays.
LEMMA PlainStays ==
  ASSUME NEW S, NEW t \in Seq(S), NEW values, \A key \in DOMAIN values : values[key] \in Seq(S),
         NEW f, Renders(S, t, values, f),
         NEW i \in 1..(Len(t) + 1), NEW j \in i..(Len(t) + 1),
         \A k \in i..(j - 1) : ~Opens(t, k)
  PROVE  Joins(f[i], SubSeq(t, i, j - 1), f[j])
<1>1. i \in Nat \ {0} /\ j \in Nat \ {0} /\ Len(t) \in Nat /\ j \in 1..(Len(t) + 1) /\ i <= j
  OBVIOUS
<1>2. Placeholder(t, i) = Placeholder(t, j)
  BY PlaceholderSkips
<1> DEFINE e == Placeholder(t, j)[2]
           x == SubSeq(t, i, j - 1)
<1>3. \A k \in 1..(Len(t) + 1) :
         f[k] = IF Placeholder(t, k)[2] = 0 THEN SubSeq(t, k, Len(t))
                ELSE ShownAt(t, values, k) \o f[Placeholder(t, k)[2] + 1]
  BY Zenon DEF Renders, IsRendering
<1>4. /\ f[i] = IF e = 0 THEN SubSeq(t, i, Len(t)) ELSE ShownAt(t, values, i) \o f[e + 1]
      /\ f[j] = IF e = 0 THEN SubSeq(t, j, Len(t)) ELSE ShownAt(t, values, j) \o f[e + 1]
  BY <1>1, <1>2, <1>3, Zenon
<1>5. CASE e = 0
  <2>1. Joins(SubSeq(t, i, Len(t)), x, SubSeq(t, j, Len(t)))
    <3>1. j <= Len(t) + 1 /\ Len(t) <= Len(t) /\ j \in Nat
      BY <1>1
    <3> QED BY <1>1, <3>1, SubSeqSplit, Zenon
  <2> QED BY <1>4, <1>5, <2>1, Zenon
<1>6. CASE e # 0
  <2> DEFINE y == ShownAt(t, values, j)
             r == f[e + 1]
             z == ShownAt(t, values, i)
  <2>1. Joins(z, x, y)
    BY <1>2, <1>6, ShownFrom
  <2>2. y \in Seq(S)
    BY <1>1, <1>6, ShownIs
  <2>3. x \in Seq(S)
    <3>1. j - 1 \in Int /\ j - 1 <= Len(t)
      BY <1>1
    <3> QED BY <1>1, <3>1, Within
  <2>4. r \in Seq(S)
    <3>1. Placeholder(t, j)[1] \in j..Len(t) /\ e \in (Placeholder(t, j)[1] + 3)..Len(t)
      BY <1>1, <1>6, PlaceholderLies
    <3> HIDE DEF e
    <3>2. e + 1 \in 1..(Len(t) + 1)
      BY <1>1, <3>1
    <3> QED BY <3>2 DEF Renders
  <2>5. Joins(f[j], y, r) /\ Joins(f[i], z, r)
    <3> HIDE DEF e
    <3> QED BY <1>4, <1>6, Zenon DEF Joins
  <2> HIDE DEF x, y, z, r
  <2>8. Joins(f[i], x, f[j])
    BY <2>1, <2>2, <2>3, <2>4, <2>5, RegroupBoth
  <2> QED BY <2>8, Zenon DEF x
<1> QED BY <1>5, <1>6

\* A placeholder in the template.
HoldsAt(t, i) ==
    /\ i + 4 <= Len(t) /\ t[i] = OpenBrace /\ t[i + 1] = OpenBrace
    /\ t[i + 2] # CloseBrace /\ t[i + 3] = CloseBrace /\ t[i + 4] = CloseBrace

\* findPlaceholder finds the one that stands where it looks.
LEMMA PlaceholderAt ==
  ASSUME NEW S, NEW t \in Seq(S), NEW i \in Nat \ {0}, HoldsAt(t, i)
  PROVE  Placeholder(t, i) = <<i, i + 4>>
<1>1. PICK g : IsFinding(t, g) /\ \A k : Placeholder(t, k) = g[k]
  BY FindingFcn
<1>2. Len(t) \in Nat /\ i + 4 <= Len(t)
  BY DEF HoldsAt
<1>3. Opens(t, i)
  BY <1>2, OpensIs DEF HoldsAt
<1>4. OpenAt(t, i) = i
  BY <1>3, OpenIs
<1>5. BraceAt(t, i) = i + 3
  <2> DEFINE m == i + 2
             b == i + 3
  <2>1. m \in Nat \ {0} /\ b \in m..Len(t) /\ b - 1 = m
    BY <1>2
  <2>2. t[b] = CloseBrace /\ t[m] # CloseBrace
    BY Zenon DEF HoldsAt
  <2> HIDE DEF m, b
  <2>3. \A k \in m..(b - 1) : t[k] # CloseBrace
    BY <2>1, <2>2
  <2>4. Find(t, CloseBrace, m) = b
    BY <2>1, <2>2, <2>3, FindAt
  <2>5. BraceAt(t, i) = Find(t, CloseBrace, m)
    BY <1>4, Zenon DEF BraceAt, CloseBrace, m
  <2> QED BY <2>4, <2>5 DEF b
<1>6. Closes(t, i + 3)
  <2>1. i + 3 < Len(t) /\ (i + 3) + 1 = i + 4
    BY <1>2
  <2>2. t[(i + 3) + 1] = CloseBrace
    BY <2>1 DEF HoldsAt
  <2> QED BY <2>1, <2>2, Zenon DEF Closes, CloseBrace
<1>7. ~Misses(t, i)
  <2>1. i <= Len(t) /\ i # 0 /\ i + 3 # 0
    BY <1>2
  <2> QED BY <1>4, <1>5, <2>1 DEF Misses
<1>8. g[i] = <<OpenAt(t, i), BraceAt(t, i) + 1>>
  <2>1. i \in 1..(Len(t) + 3)
    BY <1>2
  <2> QED BY <1>1, <1>5, <1>6, <1>7, <2>1 DEF IsFinding
<1>9. (i + 3) + 1 = i + 4
  OBVIOUS
<1> QED BY <1>1, <1>4, <1>5, <1>8, <1>9

\* A placeholder is shown as its value, or as it is.
Known(t, values, i) ==
    IF <<t[i + 2]>> \in DOMAIN values THEN values[<<t[i + 2]>>] ELSE SubSeq(t, i, i + 4)

\* Its value is shown, if it is known, and what is behind it.
LEMMA HeldIsShown ==
  ASSUME NEW S, NEW t \in Seq(S), NEW values, \A key \in DOMAIN values : values[key] \in Seq(S),
         NEW f, Renders(S, t, values, f), NEW i \in Nat \ {0}, HoldsAt(t, i)
  PROVE  Joins(f[i], Known(t, values, i), f[i + 5])
<1> DEFINE p == Placeholder(t, i)
           name == t[i + 2]
<1>1. p = <<i, i + 4>>
  BY PlaceholderAt
<1>2. Len(t) \in Nat /\ i + 4 <= Len(t)
  BY DEF HoldsAt
<1>3. SubSeq(t, i + 2, (i + 4) - 2) = <<name>>
  <2> DEFINE q == <<name>>
             j == i + 1
  <2>1. name \in S
    BY <1>2
  <2> HIDE DEF name
  <2>2. q \in Seq(S) /\ Len(q) = 1 /\ q[1] = name
    BY <2>1
  <2> HIDE DEF q
  <2>3. j \in Nat /\ j + Len(q) <= Len(t) /\ j + 1 = i + 2 /\ j + Len(q) = (i + 4) - 2
    BY <1>2, <2>2
  <2>4. \A k \in 1..Len(q) : t[j + k] = q[k]
    BY <2>2, <2>3 DEF name
  <2> HIDE DEF j
  <2>5. SubSeq(t, j + 1, j + Len(q)) = q
    BY <2>2, <2>3, <2>4, SubSeqIs
  <2> QED BY <2>3, <2>5 DEF q
<1>4. ShownAt(t, values, i) = Known(t, values, i)
  <2> DEFINE a == p[1]
             b == p[2]
             key == SubSeq(t, a + 2, b - 2)
  <2>1. a = i /\ b = i + 4
    BY <1>1
  <2>2. ShownAt(t, values, i) =
          IF key \in DOMAIN values THEN SubSeq(t, i, a - 1) \o values[key] ELSE SubSeq(t, i, b)
    BY Zenon DEF ShownAt
  <2> HIDE DEF a, b, p
  <2>3. key = <<name>>
    BY <1>3, <2>1
  <2> HIDE DEF key
  <2>4. SubSeq(t, i, a - 1) = <<>>
    <3>1. i \in Int /\ i - 1 \in Int /\ \A k \in i..(i - 1) : t[k] \in S
      OBVIOUS
    <3>2. SubSeq(t, i, i - 1) \in Seq(S) /\ Len(SubSeq(t, i, i - 1)) = IF i <= i - 1 THEN (i - 1) - i + 1 ELSE 0
      BY <3>1, SubSeqProperties
    <3>3. Len(SubSeq(t, i, i - 1)) = 0
      BY <3>2
    <3> DEFINE e == SubSeq(t, i, i - 1)
    <3> HIDE DEF e
    <3>4. e \in Seq(S) /\ Len(e) = 0
      BY <3>2, <3>3 DEF e
    <3>5. e = <<>>
      BY <3>4
    <3> QED BY <2>1, <3>5 DEF e
  <2> HIDE DEF name
  <2>5. CASE <<name>> \in DOMAIN values
    <3> DEFINE v == values[<<name>>]
    <3>1. v \in Seq(S)
      BY <2>5
    <3>2. ShownAt(t, values, i) = <<>> \o v
      BY <2>2, <2>3, <2>4, <2>5
    <3>3. Known(t, values, i) = v
      BY <2>5, Zenon DEF Known, name
    <3> HIDE DEF v
    <3>4. <<>> \o v = v
      BY <3>1, ConcatEmptySeq
    <3> QED BY <3>2, <3>3, <3>4
  <2>6. CASE <<name>> \notin DOMAIN values
    <3>1. ShownAt(t, values, i) = SubSeq(t, i, i + 4)
      BY <2>1, <2>2, <2>3, <2>6
    <3>2. Known(t, values, i) = SubSeq(t, i, i + 4)
      BY <2>6, Zenon DEF Known, name
    <3> QED BY <3>1, <3>2
  <2> QED BY <2>5, <2>6
<1>5. f[i] = ShownAt(t, values, i) \o f[i + 5]
  <2>1. i \in 1..(Len(t) + 1) /\ (i + 4) + 1 = i + 5 /\ i + 4 # 0
    BY <1>2
  <2>2. f[i] = IF p[2] = 0 THEN SubSeq(t, i, Len(t)) ELSE ShownAt(t, values, i) \o f[p[2] + 1]
    BY <2>1, Zenon DEF Renders, IsRendering
  <2>3. p[2] = i + 4
    BY <1>1
  <2> HIDE DEF p
  <2> QED BY <2>1, <2>2, <2>3
<1> QED BY <1>4, <1>5, Zenon DEF Joins

\* Behind the template there is nothing.
LEMMA EndIsShown ==
  ASSUME NEW S, NEW t \in Seq(S), NEW values, NEW f, Renders(S, t, values, f)
  PROVE  f[Len(t) + 1] = <<>>
<1> DEFINE k == Len(t) + 1
           p == Placeholder(t, k)
<1>1. Len(t) \in Nat /\ k \in 1..(Len(t) + 1)
  OBVIOUS
<1>2. p[2] = 0
  <2>1. \/ p[2] = 0
        \/ p[1] \in k..Len(t)
    BY <1>1, PlaceholderLies
  <2>2. \A m \in k..Len(t) : FALSE
    BY <1>1
  <2> QED BY <2>1, <2>2
<1>3. f[k] = SubSeq(t, k, Len(t))
  BY <1>1, <1>2, Zenon DEF Renders, IsRendering
<1>4. SubSeq(t, k, Len(t)) = <<>>
  <2> DEFINE e == SubSeq(t, k, Len(t))
             n == Len(t)
  <2>1. k \in Int /\ n \in Int /\ \A m \in k..n : t[m] \in S
    BY <1>1
  <2>2. e \in Seq(S) /\ Len(e) = IF k <= n THEN n - k + 1 ELSE 0
    <3> HIDE DEF k, n
    <3> QED BY <2>1, SubSeqProperties DEF n
  <2> HIDE DEF e
  <2>3. Len(e) = 0
    BY <1>1, <2>2
  <2>4. e = <<>>
    BY <2>2, <2>3
  <2> QED BY <2>4 DEF e
<1> QED BY <1>3, <1>4

\* The parts of a template.
Chars == {"x", "k", "u", "v", OpenBrace, CloseBrace}

Held(name) == <<OpenBrace, OpenBrace, name, CloseBrace, CloseBrace>>

PartTexts == {<<"x">>, <<OpenBrace, "x">>, <<"x", CloseBrace>>, Held("k"), Held("u")}

IsPlain(p) == \A m \in 1..Len(p) : p[m] = OpenBrace => m + 1 \in 1..Len(p) /\ p[m + 1] # OpenBrace

IsHeld(p, name) ==
    Len(p) = 5 /\ p[1] = OpenBrace /\ p[2] = OpenBrace /\ p[3] = name
    /\ p[4] = CloseBrace /\ p[5] = CloseBrace

\* The places of a placeholder.
LEMMA HeldIs ==
  ASSUME NEW name \in Chars
  PROVE  IsHeld(Held(name), name) /\ Held(name) \in Seq(Chars)
<1>1. OpenBrace \in Chars /\ CloseBrace \in Chars
  BY DEF Chars
<1> QED BY <1>1 DEF IsHeld, Held

\* The parts are texts, with placeholders or without.
LEMMA PartKinds ==
  ASSUME NEW p \in PartTexts
  PROVE  /\ p \in Seq(Chars)
         /\ \/ p # Held("k") /\ IsPlain(p)
            \/ p = Held("k") /\ IsHeld(p, "k")
            \/ p # Held("k") /\ IsHeld(p, "u")
<1>1. OpenBrace \in Chars /\ CloseBrace \in Chars /\ "x" \in Chars /\ "k" \in Chars /\ "u" \in Chars
  BY DEF Chars
<1>2. IsHeld(Held("k"), "k") /\ Held("k") \in Seq(Chars)
  BY <1>1, HeldIs
<1>3. IsHeld(Held("u"), "u") /\ Held("u") \in Seq(Chars)
  BY <1>1, HeldIs
<1>4. CASE p = <<"x">>
  <2>1. Len(p) = 1 /\ p[1] = "x" /\ p \in Seq(Chars)
    BY <1>1, <1>4
  <2>2. p # Held("k")
    BY <1>2, <2>1 DEF IsHeld
  <2>3. IsPlain(p)
    BY <2>1, BracesDiffer DEF IsPlain
  <2> QED BY <2>1, <2>2, <2>3
<1>5. CASE p = <<OpenBrace, "x">>
  <2>1. Len(p) = 2 /\ p[1] = OpenBrace /\ p[2] = "x" /\ p \in Seq(Chars)
    BY <1>1, <1>5
  <2>2. p # Held("k")
    BY <1>2, <2>1 DEF IsHeld
  <2>3. IsPlain(p)
    BY <2>1, BracesDiffer DEF IsPlain
  <2> QED BY <2>1, <2>2, <2>3
<1>6. CASE p = <<"x", CloseBrace>>
  <2>1. Len(p) = 2 /\ p[1] = "x" /\ p[2] = CloseBrace /\ p \in Seq(Chars)
    BY <1>1, <1>6
  <2>2. p # Held("k")
    BY <1>2, <2>1 DEF IsHeld
  <2>3. IsPlain(p)
    BY <2>1, BracesDiffer DEF IsPlain
  <2> QED BY <2>1, <2>2, <2>3
<1>7. CASE p = Held("k")
  BY <1>2, <1>7
<1>8. CASE p = Held("u")
  <2>1. p # Held("k")
    BY <1>2, <1>3, <1>8 DEF IsHeld
  <2> QED BY <1>3, <1>8, <2>1
<1> QED BY <1>4, <1>5, <1>6, <1>7, <1>8 DEF PartTexts

\* What a part becomes.
Meant(p) == IF p = Held("k") THEN <<"v">> ELSE p

\* Each part of a template is shown as it is meant.
LEMMA PartShown ==
  ASSUME NEW n \in Nat, NEW parts \in [1..n -> PartTexts], NEW t, NEW off,
         LaidOut(Chars, n, parts, t, off),
         NEW f, Renders(Chars, t, [key \in {<<"k">>} |-> <<"v">>], f), NEW i \in 1..n
  PROVE  Joins(f[off[i] + 1], Meant(parts[i]), f[off[i + 1] + 1])
<1> DEFINE values == [key \in {<<"k">>} |-> <<"v">>]
           p == parts[i]
           a == off[i]
           l == Len(p)
<1>1. parts \in [1..n -> Seq(Chars)] /\ p \in Seq(Chars) /\ p \in PartTexts
  <2>1. PartTexts \subseteq Seq(Chars)
    BY PartKinds
  <2> HIDE DEF p
  <2>2. p \in PartTexts
    BY DEF p
  <2> QED BY <2>1, <2>2
<1>2. /\ t \in Seq(Chars) /\ off \in [1..(n + 1) -> Nat] /\ Len(t) = off[n + 1]
      /\ off[i + 1] = a + l /\ \A k \in 1..l : t[a + k] = p[k]
  BY Zenon DEF LaidOut
<1>3. i \in 1..(n + 1) /\ i + 1 \in 1..(n + 1) /\ n + 1 \in (i + 1)..(n + 1)
  OBVIOUS
<1>4. off[i + 1] <= off[n + 1]
  BY <1>1, <1>3, PlacesGrow
<1>5. a \in Nat /\ l \in Nat /\ Len(t) \in Nat /\ a + l <= Len(t)
  <2> HIDE DEF p
  <2>1. a \in Nat /\ l \in Nat /\ Len(t) \in Nat
    BY <1>1, <1>2, <1>3
  <2> QED BY <1>2, <1>4, <2>1
<1>6. SubSeq(t, a + 1, a + l) = p
  <2> HIDE DEF p, a
  <2> QED BY <1>1, <1>2, <1>5, SubSeqIs DEF a, p
<1>7. \A key \in DOMAIN values : values[key] \in Seq(Chars)
  <2>1. "v" \in Chars
    BY DEF Chars
  <2> QED BY <2>1
<1>8. DOMAIN values = {<<"k">>} /\ values[<<"k">>] = <<"v">>
  OBVIOUS
<1> HIDE DEF values
<1>9. Renders(Chars, t, values, f)
  BY DEF values
<1> HIDE DEF p, a, l
<1>10. CASE IsPlain(p) /\ p # Held("k")
  <2>1. ASSUME NEW k \in (a + 1)..(a + l) PROVE ~Opens(t, k)
    <3> DEFINE m == k - a
    <3>1. m \in 1..l /\ k = a + m /\ k + 1 = a + (m + 1)
      BY <1>5
    <3> HIDE DEF m
    <3>2. t[k] = p[m]
      BY <1>2, <3>1
    <3>3. CASE p[m] = OpenBrace
      <4>1. m + 1 \in 1..l /\ p[m + 1] # OpenBrace
        BY <1>10, <3>1, <3>3 DEF IsPlain, l
      <4>2. t[k + 1] # OpenBrace
        BY <1>2, <3>1, <4>1
      <4> QED BY <4>2, OpensIs
    <3>4. CASE p[m] # OpenBrace
      BY <3>2, <3>4, OpensIs
    <3> QED BY <3>3, <3>4
  <2> DEFINE b == a + 1
             c == a + l + 1
  <2>2. b \in 1..(Len(t) + 1) /\ c \in b..(Len(t) + 1) /\ c - 1 = a + l
    BY <1>5
  <2>3. \A k \in b..(c - 1) : ~Opens(t, k)
    BY <2>1, <2>2
  <2> HIDE DEF b, c
  <2>4. Joins(f[b], SubSeq(t, b, c - 1), f[c])
    BY <1>2, <1>7, <1>9, <2>2, <2>3, PlainStays
  <2>5. SubSeq(t, b, c - 1) = p /\ c = off[i + 1] + 1 /\ Meant(p) = p
    BY <1>2, <1>6, <1>10, <2>2 DEF b, c, Meant
  <2>6. Joins(f[b], Meant(p), f[off[i + 1] + 1])
    BY <2>4, <2>5
  <2> QED BY <2>6 DEF b, p, a
<1>11. ASSUME NEW name \in {"k", "u"}, IsHeld(p, name), p = Held("k") <=> name = "k"
       PROVE  Joins(f[off[i] + 1], Meant(parts[i]), f[off[i + 1] + 1])
  <2> DEFINE b == a + 1
  <2>1. l = 5
    BY <1>11 DEF IsHeld, l
  <2>2. b \in Nat \ {0} /\ b + 4 <= Len(t) /\ b + 5 = off[i + 1] + 1
    BY <1>2, <1>5, <2>1
  <2>3. t[b] = p[1] /\ t[b + 1] = p[2] /\ t[b + 2] = p[3] /\ t[b + 3] = p[4] /\ t[b + 4] = p[5]
    <3>1. b = a + 1 /\ b + 1 = a + 2 /\ b + 2 = a + 3 /\ b + 3 = a + 4 /\ b + 4 = a + 5
      BY <1>5
    <3> QED BY <1>2, <2>1, <3>1
  <2>4. name # CloseBrace
    BY BracesDiffer
  <2>5. t[b + 2] = name
    BY <1>11, <2>3 DEF IsHeld
  <2>6. HoldsAt(t, b)
    BY <1>11, <2>2, <2>3, <2>4 DEF IsHeld, HoldsAt
  <2> HIDE DEF b
  <2>7. Joins(f[b], Known(t, values, b), f[b + 5])
    BY <1>2, <1>7, <1>9, <2>2, <2>6, HeldIsShown
  <2>8. Known(t, values, b) = IF <<name>> \in DOMAIN values THEN values[<<name>>] ELSE SubSeq(t, b, b + 4)
    BY <2>5, Zenon DEF Known
  <2>9. SubSeq(t, b, b + 4) = p
    <3>1. b = a + 1 /\ b + 4 = a + l
      BY <1>5, <2>1 DEF b
    <3> QED BY <1>6, <3>1
  <2>10. Known(t, values, b) = Meant(p)
    <3>1. CASE name = "k"
      BY <1>8, <1>11, <2>8, <3>1 DEF Meant
    <3>2. CASE name = "u"
      <4>1. <<name>> \notin DOMAIN values
        BY <1>8, <3>2
      <4> QED BY <1>11, <2>8, <2>9, <3>2, <4>1 DEF Meant
    <3> QED BY <3>1, <3>2
  <2>11. Joins(f[b], Meant(p), f[off[i + 1] + 1])
    BY <2>2, <2>7, <2>10
  <2> QED BY <2>11 DEF b, p, a
<1> QED BY <1>1, <1>10, <1>11, PartKinds

\* A template shows its values, and what is not known stays.
LEMMA TemplateShown ==
  ASSUME RenderParts
  PROVE  TextRight'
<1> DEFINE values == [key \in {<<"k">>} |-> <<"v">>]
<1>1. PICK parts \in Upto(PartTexts, MaxText) :
        Made("template", Rendered(FlattenSeq(parts), values), FlattenSeq([i \in DOMAIN parts |-> Meant(parts[i])]))
  BY Zenon DEF RenderParts, PartTexts, Held, OpenBrace, CloseBrace, Meant
<1>2. PICK n \in 0..MaxText : parts \in [1..n -> PartTexts]
  BY <1>1, UptoHas
<1>3. n \in Nat /\ DOMAIN parts = 1..n
  BY <1>2, TextAssumption
<1>4. parts \in [1..n -> Seq(Chars)]
  <2>1. PartTexts \subseteq Seq(Chars)
    BY PartKinds
  <2> QED BY <1>2, <2>1
<1> DEFINE t == FlattenSeq(parts)
           meant == [i \in 1..n |-> Meant(parts[i])]
<1>5. PICK off : LaidOut(Chars, n, parts, t, off)
  BY <1>3, <1>4, FlattenPlaces
<1>6. t \in Seq(Chars) /\ Len(t) = off[n + 1] /\ off[1] = 0 /\ off \in [1..(n + 1) -> Nat]
  BY <1>5, Zenon DEF LaidOut
<1> HIDE DEF t
<1>7. \A key \in DOMAIN values : values[key] \in Seq(Chars)
  <2>1. "v" \in Chars
    BY DEF Chars
  <2> QED BY <2>1
<1> HIDE DEF values
<1>8. PICK f : Renders(Chars, t, values, f) /\ Rendered(t, values) = f[1]
  <2>1. PICK f : /\ \A k \in 1..(Len(t) + 1) : f[k] \in Seq(Chars)
                 /\ IsRendering(t, values, f) /\ Rendered(t, values) = f[1]
    BY <1>6, <1>7, RenderingFcn
  <2> QED BY <2>1 DEF Renders
<1> DEFINE g == [i \in 1..(n + 1) |-> f[off[i] + 1]]
<1>9. ASSUME NEW i \in 1..n PROVE Joins(f[off[i] + 1], Meant(parts[i]), f[off[i + 1] + 1])
  <2>1. Renders(Chars, t, [key \in {<<"k">>} |-> <<"v">>], f)
    BY <1>8, Zenon DEF values
  <2> QED BY <1>2, <1>3, <1>5, <2>1, PartShown
<1>10. IsBehind(Chars, n, meant, g)
  <2>1. g \in [1..(n + 1) -> Seq(Chars)]
    <3>1. ASSUME NEW i \in 1..(n + 1) PROVE f[off[i] + 1] \in Seq(Chars)
      <4>1. off[i] <= off[n + 1] /\ off[i] \in Nat /\ off[n + 1] \in Nat
        <5>1. n + 1 \in i..(n + 1)
          BY <1>3
        <5>2. off[i] <= off[n + 1]
          BY <1>3, <1>4, <1>5, <5>1, PlacesGrow
        <5> QED BY <1>3, <1>6, <5>2
      <4>2. off[i] + 1 \in 1..(Len(t) + 1)
        BY <1>6, <4>1
      <4> QED BY <1>8, <4>2 DEF Renders
    <3> QED BY <3>1
  <2>2. g[n + 1] = <<>>
    <3>1. f[Len(t) + 1] = <<>>
      BY <1>6, <1>8, EndIsShown
    <3> QED BY <1>3, <1>6, <3>1
  <2>3. ASSUME NEW i \in 1..n PROVE g[i] = meant[i] \o g[i + 1]
    <3>1. g[i] = f[off[i] + 1] /\ g[i + 1] = f[off[i + 1] + 1] /\ meant[i] = Meant(parts[i])
      BY <1>3
    <3> HIDE DEF g, meant
    <3> QED BY <1>9, <3>1 DEF Joins
  <2> HIDE DEF g, meant
  <2> QED BY <2>1, <2>2, <2>3 DEF IsBehind
<1>11. meant \in [1..n -> Seq(Chars)]
  <2>1. "v" \in Chars
    BY DEF Chars
  <2>2. <<"v">> \in Seq(Chars)
    BY <2>1
  <2> QED BY <1>4, <2>2 DEF Meant
<1>12. FlattenSeq(meant) = g[1]
  <2> HIDE DEF g, meant
  <2> QED BY <1>3, <1>10, <1>11, FlattenBehind
<1>13. g[1] = f[1]
  BY <1>3, <1>6
<1>14. Made("template", Rendered(t, values), FlattenSeq(meant))
  <2> HIDE DEF g
  <2>1. meant = [i \in DOMAIN parts |-> Meant(parts[i])]
    BY <1>3
  <2> HIDE DEF meant
  <2> QED BY <1>1, <2>1, Zenon DEF t
<1> HIDE DEF g, meant
<1> QED BY <1>8, <1>12, <1>13, <1>14, Zenon DEF Made, TextRight

-----------------------------------------------------------------------------
(***************************************************************************)
(* Lines of the log: what becomes of their colours.                        *)
(***************************************************************************)
\* What becomes of the colours of a line, from each place on.
IsPlaining(s, f) ==
    \A i \in 1..(Len(s) + 1) :
       f[i] = IF i > Len(s) THEN <<>>
              ELSE IF s[i] # ESC THEN <<s[i]>> \o f[i + 1]
              ELSE IF Find(s, "m", i) = 0 THEN <<"endless">> ELSE f[Find(s, "m", i) + 1]

\* Erasing the colours is such a function.
LEMMA PlainFcn ==
  ASSUME NEW S, NEW s \in Seq(S), "endless" \in S
  PROVE  \E f : (\A i \in 1..(Len(s) + 1) : f[i] \in Seq(S)) /\ IsPlaining(s, f) /\ Plain(s) = f[1]
<1> DEFINE n == Len(s) + 1
           D == 1..n
           V == Seq(S)
           m(i) == Find(s, "m", i)
           endless == <<"endless">>
           ends(i) == i > Len(s) \/ (s[i] = ESC /\ m(i) = 0)
           end(i) == IF i > Len(s) THEN <<>> ELSE endless
           next == [i \in D |-> IF ends(i) THEN 0 ELSE IF s[i] # ESC THEN i + 1 ELSE m(i) + 1]
           base == [i \in D |-> end(i)]
           h == [x \in D \X V |-> IF x[1] <= Len(s) /\ s[x[1]] # ESC THEN <<s[x[1]]>> \o x[2] ELSE x[2]]
           Is(f) == f = [i \in D |-> IF i > Len(s) THEN <<>>
                                     ELSE IF s[i] # ESC THEN <<s[i]>> \o f[i + 1]
                                     ELSE IF m(i) = 0 THEN endless ELSE f[m(i) + 1]]
<1>1. Len(s) \in Nat /\ n \in Nat /\ \A i \in 1..Len(s) : s[i] \in S
  OBVIOUS
<1>2. \A i \in D : m(i) = 0 \/ m(i) \in i..Len(s)
  <2> SUFFICES ASSUME NEW i \in D PROVE m(i) = 0 \/ m(i) \in i..Len(s)
    OBVIOUS
  <2>1. i \in Nat \ {0}
    OBVIOUS
  <2> QED BY <2>1, FindIn, Zenon
<1>3. endless \in V /\ <<>> \in V /\ (\A x, y \in V : x \o y \in V) /\ \A i \in 1..Len(s) : <<s[i]>> \in V
  BY <1>1, Associate
<1> HIDE DEF V, m, endless
<1>4. next \in [D -> Nat] /\ base \in [D -> V] /\ h \in [D \X V -> V]
  <2>1. next \in [D -> Nat]
    BY <1>1, <1>2
  <2>2. base \in [D -> V]
    BY <1>3
  <2>3. \A x \in D \X V : (IF x[1] <= Len(s) /\ s[x[1]] # ESC THEN <<s[x[1]]>> \o x[2] ELSE x[2]) \in V
    <3> SUFFICES ASSUME NEW i \in D, NEW v \in V
                 PROVE (IF i <= Len(s) /\ s[i] # ESC THEN <<s[i]>> \o v ELSE v) \in V
      OBVIOUS
    <3>1. i <= Len(s) => i \in 1..Len(s)
      BY <1>1
    <3> QED BY <1>3, <3>1
  <2>4. h \in [D \X V -> V]
    BY <2>3
  <2> QED BY <2>1, <2>2, <2>4
<1>5. PICK f \in [D -> V] : IsOnward(f, n, next, base, h)
  <2>1. n \in Nat /\ next \in [1..n -> Nat] /\ base \in [1..n -> V] /\ h \in [(1..n) \X V -> V]
    BY <1>1, <1>4
  <2>2. D = 1..n
    OBVIOUS
  <2> HIDE DEF n, next, base, h, D
  <2> QED BY <2>1, <2>2, Onward, Zenon
<1>6. ASSUME NEW i \in D
      PROVE  f[i] = IF i > Len(s) THEN <<>>
                    ELSE IF s[i] # ESC THEN <<s[i]>> \o f[i + 1]
                    ELSE IF m(i) = 0 THEN endless ELSE f[m(i) + 1]
  <2>1. f[i] = IF i < next[i] /\ next[i] <= n THEN h[<<i, f[next[i]]>>] ELSE base[i]
    <3> HIDE DEF next, base, h
    <3> QED BY <1>5 DEF IsOnward
  <2>2. CASE ends(i)
    <3>1. next[i] = 0 /\ base[i] = end(i) /\ ~(i < next[i])
      BY <2>2
    <3> HIDE DEF next, base, h
    <3>2. f[i] = end(i)
      BY <2>1, <3>1
    <3> QED BY <2>2, <3>2
  <2>3. CASE ~ends(i)
    <3> DEFINE j == IF s[i] # ESC THEN i + 1 ELSE m(i) + 1
    <3>1. next[i] = j
      BY <2>3
    <3>2. i < j /\ j <= n /\ j \in D /\ i <= Len(s)
      BY <1>1, <1>2, <2>3
    <3>3. f[j] \in V
      BY <1>5, <3>2
    <3>4. h[<<i, f[j]>>] = IF s[i] # ESC THEN <<s[i]>> \o f[j] ELSE f[j]
      <4> DEFINE v == f[j]
      <4> HIDE DEF v, j
      <4>1. <<i, v>> \in D \X V /\ i <= Len(s)
        BY <3>2, <3>3 DEF v
      <4> HIDE DEF D
      <4> QED BY <4>1 DEF v
    <3> HIDE DEF next, base, h
    <3>5. f[i] = h[<<i, f[j]>>]
      <4> HIDE DEF j
      <4> QED BY <2>1, <3>1, <3>2
    <3>6. CASE s[i] # ESC
      <4>1. j = i + 1
        BY <3>6
      <4> HIDE DEF j
      <4> QED BY <3>2, <3>4, <3>5, <3>6, <4>1
    <3>7. CASE s[i] = ESC
      <4>1. j = m(i) + 1 /\ m(i) # 0
        BY <2>3, <3>7
      <4> HIDE DEF j
      <4> QED BY <3>2, <3>4, <3>5, <3>7, <4>1
    <3> QED BY <3>6, <3>7
  <2> QED BY <2>2, <2>3
<1>7. Is(f)
  <2>1. f = [i \in D |-> f[i]]
    BY <1>5
  <2> HIDE DEF D
  <2> QED BY <1>6, <2>1
<1> DEFINE g == CHOOSE d : Is(d)
<1>8. Is(g)
  <2>1. Is(CHOOSE d : Is(d))
    <3> HIDE DEF Is
    <3> QED BY <1>7
  <2> HIDE DEF Is
  <2> QED BY <2>1
<1>9. Plain(s) = g[1]
  BY DEF Plain, m, endless
<1> HIDE DEF g
<1>10. \A i \in D : g[i] = IF i > Len(s) THEN <<>>
                           ELSE IF s[i] # ESC THEN <<s[i]>> \o g[i + 1]
                           ELSE IF m(i) = 0 THEN endless ELSE g[m(i) + 1]
  <2> HIDE DEF D
  <2> QED BY <1>8
<1>11. \A i \in D : g[i] \in V
  <2> DEFINE T == {i \in D : g[i] \in V}
  <2>1. ASSUME NEW i \in 1..n, \A k \in (i + 1)..n : k \in T PROVE i \in T
    <3>1. CASE ends(i)
      BY <1>3, <1>10, <3>1
    <3>2. CASE ~ends(i) /\ s[i] # ESC
      <4>1. i + 1 \in (i + 1)..n /\ i \in 1..Len(s)
        BY <1>1, <3>2
      <4>2. g[i + 1] \in V
        BY <2>1, <4>1
      <4> QED BY <1>3, <1>10, <3>2, <4>1, <4>2
    <3>3. CASE ~ends(i) /\ s[i] = ESC
      <4>1. m(i) + 1 \in (i + 1)..n
        BY <1>1, <1>2, <3>3
      <4>2. g[m(i) + 1] \in V
        BY <2>1, <4>1
      <4> QED BY <1>10, <3>3, <4>2
    <3> QED BY <3>1, <3>2, <3>3
  <2> HIDE DEF T
  <2>2. \A i \in 1..n : i \in T
    BY <1>1, <2>1, Backward
  <2> QED BY <2>2 DEF T
<1>12. IsPlaining(s, g)
  BY <1>10, Zenon DEF IsPlaining, m, endless
<1>13. \A i \in 1..(Len(s) + 1) : g[i] \in Seq(S)
  BY <1>11 DEF V
<1> QED BY <1>9, <1>12, <1>13

\* What is behind something is found where it is.
LEMMA FindShift ==
  ASSUME NEW S, NEW x \in Seq(S), NEW b \in Seq(S), NEW t, IsConcat(S, x, b, t), NEW c,
         NEW i \in 1..(Len(b) + 1)
  PROVE  Find(t, c, Len(x) + i) = IF Find(b, c, i) = 0 THEN 0 ELSE Len(x) + Find(b, c, i)
<1> DEFINE l == Len(x)
           m == Len(b)
<1>1. l \in Nat /\ m \in Nat /\ i \in Nat \ {0}
  OBVIOUS
<1>2. t \in Seq(S) /\ Len(t) = l + m /\ \A k \in 1..m : t[l + k] = b[k]
  BY Zenon DEF IsConcat
<1>3. Find(b, c, i) = 0 \/ /\ Find(b, c, i) \in i..m /\ b[Find(b, c, i)] = c
                           /\ \A k \in i..(Find(b, c, i) - 1) : b[k] # c
  BY <1>1, FindIn
<1> DEFINE j == Find(b, c, i)
<1> HIDE DEF j, l, m
<1>4. CASE j = 0
  <2>1. \A k \in i..m : b[k] # c
    <3> SUFFICES ASSUME NEW k \in i..m, b[k] = c PROVE FALSE
      OBVIOUS
    <3> DEFINE I == {e \in i..m : b[e] = c}
    <3>2. I \in SUBSET Nat /\ I # {}
      BY <1>1
    <3>3. PICK e \in I : \A d \in I : e <= d
      <4> HIDE DEF I
      <4> QED BY <3>2, LeastNumber
    <3>4. e \in i..m /\ b[e] = c
      OBVIOUS
    <3>5. \A d \in i..(e - 1) : b[d] # c
      <4> SUFFICES ASSUME NEW d \in i..(e - 1), b[d] = c PROVE FALSE
        OBVIOUS
      <4>1. d \in i..m /\ ~(e <= d)
        BY <1>1, <3>4
      <4> QED BY <3>3, <4>1
    <3>6. Find(b, c, i) = e
      BY <1>1, <3>4, <3>5, FindAt DEF m
    <3> QED BY <1>1, <1>4, <3>4, <3>6 DEF j
  <2>2. \A k \in (l + i)..Len(t) : t[k] # c
    <3> SUFFICES ASSUME NEW k \in (l + i)..Len(t) PROVE t[k] # c
      OBVIOUS
    <3>1. k - l \in i..m /\ k - l \in 1..m /\ l + (k - l) = k
      BY <1>1, <1>2
    <3> QED BY <1>2, <2>1, <3>1
  <2>3. Find(t, c, l + i) = 0
    BY <2>2, FindNone
  <2> QED BY <1>4, <2>3 DEF j, l
<1>5. CASE j # 0
  <2>1. j \in i..m /\ b[j] = c /\ \A k \in i..(j - 1) : b[k] # c
    BY <1>3, <1>5 DEF j
  <2>2. l + j \in (l + i)..Len(t) /\ t[l + j] = c /\ l + i \in Nat \ {0}
    BY <1>1, <1>2, <2>1
  <2>3. \A k \in (l + i)..((l + j) - 1) : t[k] # c
    <3> SUFFICES ASSUME NEW k \in (l + i)..((l + j) - 1) PROVE t[k] # c
      OBVIOUS
    <3>1. k - l \in i..(j - 1) /\ k - l \in 1..m /\ l + (k - l) = k
      BY <1>1, <1>2, <2>1
    <3> QED BY <1>2, <2>1, <3>1
  <2>4. Find(t, c, l + i) = l + j
    BY <1>2, <2>2, <2>3, FindAt
  <2> QED BY <1>5, <2>4 DEF j, l
<1> QED BY <1>4, <1>5

\* Erased of their colours, what is behind x and the other text are the same.
Agree(f, x, g) == f[Len(x) + 1] = g[1]

\* Behind something, what becomes of a text is what becomes of it alone.
LEMMA PlainShift ==
  ASSUME NEW S, NEW x \in Seq(S), NEW b \in Seq(S), NEW t, IsConcat(S, x, b, t),
         NEW f, IsPlaining(t, f), NEW g, IsPlaining(b, g)
  PROVE  Agree(f, x, g)
<1> DEFINE l == Len(x)
           n == Len(b) + 1
           T == {i \in 1..n : f[l + i] = g[i]}
<1>1. l \in Nat /\ Len(b) \in Nat /\ n \in Nat
  OBVIOUS
<1>2. t \in Seq(S) /\ Len(t) = l + Len(b) /\ \A k \in 1..Len(b) : t[l + k] = b[k]
  BY Zenon DEF IsConcat
<1>3. ASSUME NEW i \in 1..n, \A k \in (i + 1)..n : k \in T PROVE i \in T
  <2> DEFINE a == l + i
             mb == Find(b, "m", i)
             mt == Find(t, "m", a)
  <2>1. a \in 1..(Len(t) + 1) /\ (a > Len(t) <=> i > Len(b)) /\ a + 1 = l + (i + 1)
    BY <1>1, <1>2
  <2>2. f[a] = IF a > Len(t) THEN <<>>
               ELSE IF t[a] # ESC THEN <<t[a]>> \o f[a + 1]
               ELSE IF mt = 0 THEN <<"endless">> ELSE f[mt + 1]
    BY <2>1, Zenon DEF IsPlaining
  <2>3. g[i] = IF i > Len(b) THEN <<>>
               ELSE IF b[i] # ESC THEN <<b[i]>> \o g[i + 1]
               ELSE IF mb = 0 THEN <<"endless">> ELSE g[mb + 1]
    BY Zenon DEF IsPlaining
  <2>4. mt = IF mb = 0 THEN 0 ELSE l + mb
    BY FindShift
  <2>5. mb = 0 \/ mb \in i..Len(b)
    <3>1. i \in Nat \ {0}
      OBVIOUS
    <3> QED BY <3>1, FindIn, Zenon
  <2> HIDE DEF a, mb, mt
  <2>6. CASE i > Len(b)
    BY <2>1, <2>2, <2>3, <2>6 DEF a
  <2>7. CASE ~(i > Len(b))
    <3>1. t[a] = b[i] /\ i + 1 \in (i + 1)..n
      BY <1>1, <1>2, <2>7 DEF a
    <3>2. f[a + 1] = g[i + 1]
      BY <1>3, <2>1, <3>1
    <3>3. CASE b[i] # ESC
      BY <2>1, <2>2, <2>3, <2>7, <3>1, <3>2, <3>3 DEF a
    <3>4. CASE b[i] = ESC /\ mb = 0
      BY <2>1, <2>2, <2>3, <2>4, <2>7, <3>1, <3>4, Zenon DEF a
    <3>5. CASE b[i] = ESC /\ mb # 0
      <4>1. mb + 1 \in (i + 1)..n /\ mt + 1 = l + (mb + 1)
        BY <1>1, <2>4, <2>5, <3>5
      <4>2. f[mt + 1] = g[mb + 1]
        BY <1>3, <4>1
      <4>3. mt # 0
        BY <1>1, <2>4, <2>5, <3>5
      <4> QED BY <2>1, <2>2, <2>3, <2>7, <3>1, <3>5, <4>2, <4>3 DEF a
    <3> QED BY <3>3, <3>4, <3>5
  <2> QED BY <2>6, <2>7
<1> HIDE DEF T
<1>4. \A i \in 1..n : i \in T
  BY <1>1, <1>3, Backward
<1>5. 1 \in 1..n
  BY <1>1
<1> QED BY <1>4, <1>5 DEF T, Agree

\* What stands before something becomes y, and what is behind it what it would.
PlainOnto(S, x, y) ==
    /\ x \in Seq(S) /\ y \in Seq(S)
    /\ \A b \in Seq(S) : Joins(Plain(x \o b), y, Plain(b))

\* What becomes of a text is a text.
LEMMA PlainTyped ==
  ASSUME NEW S, NEW s \in Seq(S), "endless" \in S
  PROVE  Plain(s) \in Seq(S)
<1>1. PICK f : (\A i \in 1..(Len(s) + 1) : f[i] \in Seq(S)) /\ IsPlaining(s, f) /\ Plain(s) = f[1]
  BY PlainFcn
<1>2. 1 \in 1..(Len(s) + 1)
  OBVIOUS
<1> QED BY <1>1, <1>2

\* Nothing becomes nothing.
LEMMA PlainOfNone ==
  ASSUME NEW S, "endless" \in S
  PROVE  Plain(<<>>) = <<>>
<1> DEFINE s == <<>>
<1>1. s \in Seq(S) /\ Len(s) = 0
  OBVIOUS
<1> HIDE DEF s
<1>2. PICK f : IsPlaining(s, f) /\ Plain(s) = f[1]
  BY <1>1, PlainFcn
<1>3. 1 \in 1..(Len(s) + 1) /\ 1 > Len(s)
  BY <1>1
<1>4. f[1] = <<>>
  BY <1>2, <1>3 DEF IsPlaining
<1> QED BY <1>2, <1>4 DEF s

\* In t, what is behind x becomes what b becomes alone.
StaysBehind(t, x, b) == \E f : IsPlaining(t, f) /\ Plain(t) = f[1] /\ f[Len(x) + 1] = Plain(b)

\* Behind something, a text becomes what it would alone.
LEMMA PlainBehind ==
  ASSUME NEW S, "endless" \in S, NEW x \in Seq(S), NEW b \in Seq(S), NEW t, IsConcat(S, x, b, t)
  PROVE  StaysBehind(t, x, b)
<1>1. t \in Seq(S)
  BY Zenon DEF IsConcat
<1>2. PICK f : IsPlaining(t, f) /\ Plain(t) = f[1]
  BY <1>1, PlainFcn
<1>3. PICK g : IsPlaining(b, g) /\ Plain(b) = g[1]
  BY PlainFcn
<1>4. Agree(f, x, g)
  BY <1>2, <1>3, PlainShift, Zenon
<1> QED BY <1>2, <1>3, <1>4 DEF StaysBehind, Agree

\* A word stays.
LEMMA PlainWord ==
  ASSUME NEW S, "endless" \in S, NEW e \in S, e # ESC
  PROVE  PlainOnto(S, <<e>>, <<e>>)
<1> DEFINE x == <<e>>
<1>1. x \in Seq(S) /\ Len(x) = 1 /\ x[1] = e
  OBVIOUS
<1>2. ASSUME NEW b \in Seq(S) PROVE Joins(Plain(x \o b), x, Plain(b))
  <2> DEFINE t == x \o b
  <2> HIDE DEF x
  <2>1. IsConcat(S, x, b, t)
    BY <1>1, ConcatPlaces
  <2> HIDE DEF t
  <2>2. t \in Seq(S) /\ Len(t) = 1 + Len(b) /\ Len(b) \in Nat /\ t[1] = e
    BY <1>1, <2>1 DEF IsConcat
  <2>a. StaysBehind(t, x, b)
    BY <1>1, <2>1, PlainBehind, Zenon
  <2>3. PICK f : IsPlaining(t, f) /\ Plain(t) = f[1] /\ f[Len(x) + 1] = Plain(b)
    BY <2>a, Zenon DEF StaysBehind
  <2>6. 1 \in 1..(Len(t) + 1) /\ ~(1 > Len(t)) /\ Len(x) + 1 = 1 + 1
    BY <1>1, <2>2
  <2>7. f[1] = <<t[1]>> \o f[1 + 1]
    BY <2>2, <2>3, <2>6 DEF IsPlaining
  <2>8. Plain(t) = x \o Plain(b)
    BY <2>2, <2>3, <2>6, <2>7 DEF x
  <2> QED BY <2>8 DEF t, Joins
<1> QED BY <1>1, <1>2 DEF PlainOnto

\* A colour disappears.
LEMMA PlainColour ==
  ASSUME NEW S, "endless" \in S, ESC \in S, "m" \in S, NEW c \in S, c # "m", ESC # "m"
  PROVE  PlainOnto(S, <<ESC, c, "m">>, <<>>)
<1> DEFINE x == <<ESC, c, "m">>
<1>1. x \in Seq(S) /\ Len(x) = 3 /\ x[1] = ESC /\ x[2] = c /\ x[3] = "m"
  OBVIOUS
<1>2. ASSUME NEW b \in Seq(S) PROVE Joins(Plain(x \o b), <<>>, Plain(b))
  <2> DEFINE t == x \o b
  <2> HIDE DEF x
  <2>1. IsConcat(S, x, b, t)
    BY <1>1, ConcatPlaces
  <2> HIDE DEF t
  <2>2. t \in Seq(S) /\ Len(t) = 3 + Len(b) /\ Len(b) \in Nat /\ t[1] = ESC /\ t[2] = c /\ t[3] = "m"
    BY <1>1, <2>1 DEF IsConcat
  <2>a. StaysBehind(t, x, b)
    BY <1>1, <2>1, PlainBehind, Zenon
  <2>3. PICK f : IsPlaining(t, f) /\ Plain(t) = f[1] /\ f[Len(x) + 1] = Plain(b)
    BY <2>a, Zenon DEF StaysBehind
  <2>6. Find(t, "m", 1) = 3
    <3>1. \A k \in 1..(3 - 1) : t[k] # "m"
      BY <2>2
    <3>2. 3 \in 1..Len(t) /\ 1 \in Nat \ {0}
      BY <2>2
    <3> QED BY <2>2, <3>1, <3>2, FindAt
  <2>7. 1 \in 1..(Len(t) + 1) /\ ~(1 > Len(t)) /\ Len(x) + 1 = 3 + 1
    BY <1>1, <2>2
  <2>8. f[1] = f[3 + 1]
    <3>1. f[1] = IF 1 > Len(t) THEN <<>>
                 ELSE IF t[1] # ESC THEN <<t[1]>> \o f[1 + 1]
                 ELSE IF Find(t, "m", 1) = 0 THEN <<"endless">> ELSE f[Find(t, "m", 1) + 1]
      BY <2>3, <2>7, Zenon DEF IsPlaining
    <3> QED BY <2>2, <2>6, <2>7, <3>1
  <2>9. Plain(t) = Plain(b)
    BY <2>3, <2>7, <2>8
  <2>10. Plain(b) \in Seq(S)
    BY PlainTyped
  <2>11. <<>> \o Plain(b) = Plain(b)
    BY <2>10, ConcatEmptySeq
  <2> QED BY <2>9, <2>11 DEF t, Joins
<1>3. <<>> \in Seq(S)
  OBVIOUS
<1> QED BY <1>1, <1>2, <1>3 DEF PlainOnto

\* What is joined becomes what its parts become.
LEMMA PlainJoins ==
  ASSUME NEW S, "endless" \in S, NEW x, NEW y, PlainOnto(S, x, y), NEW v, NEW w, PlainOnto(S, v, w)
  PROVE  PlainOnto(S, x \o v, y \o w)
<1>1. x \in Seq(S) /\ y \in Seq(S) /\ v \in Seq(S) /\ w \in Seq(S)
  BY DEF PlainOnto
<1>2. x \o v \in Seq(S) /\ y \o w \in Seq(S)
  BY <1>1, Associate
<1>3. ASSUME NEW b \in Seq(S) PROVE Joins(Plain((x \o v) \o b), y \o w, Plain(b))
  <2> DEFINE u == v \o b
             p == Plain(b)
             q == Plain(u)
  <2>1. u \in Seq(S) /\ p \in Seq(S)
    BY <1>1, Associate, PlainTyped
  <2>2. Joins(q, w, p)
    BY DEF PlainOnto
  <2>3. Joins(Plain(x \o u), y, q)
    <3> HIDE DEF u
    <3> QED BY <2>1 DEF PlainOnto
  <2>4. (x \o v) \o b = x \o u
    BY <1>1, ConcatAssociative
  <2> DEFINE t == Plain(x \o u)
             z == y \o w
  <2>5. Joins(z, y, w)
    BY Zenon DEF Joins
  <2> HIDE DEF p, q, u, t, z
  <2>6. Joins(t, z, p)
    BY <1>1, <2>1, <2>2, <2>3, <2>5, Regroup DEF t
  <2> QED BY <2>4, <2>6 DEF t, z, p
<1> QED BY <1>2, <1>3 DEF PlainOnto

\* Nothing stays nothing.
LEMMA PlainNothing ==
  ASSUME NEW S, "endless" \in S
  PROVE  PlainOnto(S, <<>>, <<>>)
<1> DEFINE e == <<>>
<1>1. e \in Seq(S)
  OBVIOUS
<1>2. ASSUME NEW b \in Seq(S) PROVE Joins(Plain(e \o b), e, Plain(b))
  <2>1. e \o b = b
    BY ConcatEmptySeq
  <2>2. Plain(b) \in Seq(S)
    BY PlainTyped
  <2>3. e \o Plain(b) = Plain(b)
    BY <2>2, ConcatEmptySeq
  <2> QED BY <2>1, <2>3 DEF Joins
<1> QED BY <1>1, <1>2 DEF PlainOnto

\* The same for a piece and what it becomes, which is not longer.
Becomes(S, x, y) == PlainOnto(S, x, y) /\ Len(y) <= Len(x)

\* So do joined pieces.
LEMMA BecomesJoined ==
  ASSUME NEW S, "endless" \in S, NEW x, NEW y, Becomes(S, x, y), NEW v, NEW w, Becomes(S, v, w)
  PROVE  Becomes(S, x \o v, y \o w)
<1>1. x \in Seq(S) /\ y \in Seq(S) /\ v \in Seq(S) /\ w \in Seq(S) /\ Len(y) <= Len(x) /\ Len(w) <= Len(v)
  BY DEF Becomes, PlainOnto
<1>2. IsConcat(S, x, v, x \o v) /\ IsConcat(S, y, w, y \o w)
  BY <1>1, ConcatPlaces
<1>3. Len(x \o v) = Len(x) + Len(v) /\ Len(y \o w) = Len(y) + Len(w)
  BY <1>2, Zenon DEF IsConcat
<1>4. Len(y \o w) <= Len(x \o v)
  <2> DEFINE a == x \o v
             b == y \o w
  <2> HIDE DEF a, b
  <2>1. Len(a) = Len(x) + Len(v) /\ Len(b) = Len(y) + Len(w)
    BY <1>3 DEF a, b
  <2>2. Len(b) <= Len(a)
    BY <1>1, <2>1
  <2> QED BY <2>2 DEF a, b
<1>5. PlainOnto(S, x \o v, y \o w)
  BY PlainJoins, Zenon DEF Becomes
<1> QED BY <1>4, <1>5, Zenon DEF Becomes

\* And any number of them.
LEMMA BecomesFlat ==
  ASSUME NEW S, "endless" \in S, NEW n \in Nat, NEW s \in [1..n -> Seq(S)], NEW r \in [1..n -> Seq(S)],
         \A i \in 1..n : Becomes(S, s[i], r[i])
  PROVE  Becomes(S, FlattenSeq(s), FlattenSeq(r))
<1>1. s \in Seq(Seq(S)) /\ Len(s) = n /\ r \in Seq(Seq(S)) /\ Len(r) = n
  OBVIOUS
<1>2. CASE n = 0
  <2>1. s = <<>> /\ r = <<>>
    BY <1>1, <1>2
  <2>2. FlattenSeq(s) = <<>> /\ FlattenSeq(r) = <<>>
    BY <2>1, FlattenEmpty
  <2>3. Len(<<>>) <= Len(<<>>)
    OBVIOUS
  <2> QED BY <2>2, <2>3, PlainNothing DEF Becomes
<1>3. CASE n # 0
  <2>1. s # <<>> /\ r # <<>>
    BY <1>1, <1>3
  <2>2. PICK f \in [1..n -> Seq(S)] :
          FlattenSeq(s) = f[n] /\ \A i \in 1..n : f[i] = IF i = 1 THEN s[1] ELSE f[i - 1] \o s[i]
    <3>1. \E f \in [1..Len(s) -> Seq(S)] :
            /\ FlattenSeq(s) = f[Len(s)]
            /\ \A i \in 1..Len(s) : f[i] = IF i = 1 THEN s[1] ELSE f[i - 1] \o s[i]
      BY <1>1, <2>1, FlattenFcn, Zenon
    <3> QED BY <1>1, <3>1
  <2>3. PICK g \in [1..n -> Seq(S)] :
          FlattenSeq(r) = g[n] /\ \A i \in 1..n : g[i] = IF i = 1 THEN r[1] ELSE g[i - 1] \o r[i]
    <3>1. \E e \in [1..Len(r) -> Seq(S)] :
            /\ FlattenSeq(r) = e[Len(r)]
            /\ \A i \in 1..Len(r) : e[i] = IF i = 1 THEN r[1] ELSE e[i - 1] \o r[i]
      BY <1>1, <2>1, FlattenFcn, Zenon
    <3> QED BY <1>1, <3>1
  <2> DEFINE T == {d \in Nat : d + 1 <= n => Becomes(S, f[d + 1], g[d + 1])}
  <2>4. 0 \in T
    <3>1. 1 \in 1..n /\ 0 + 1 = 1
      BY <1>3
    <3>2. f[1] = s[1] /\ g[1] = r[1]
      BY <2>2, <2>3, <3>1
    <3>3. Becomes(S, f[1], g[1])
      BY <3>1, <3>2
    <3> QED BY <3>1, <3>3
  <2>5. ASSUME NEW d \in Nat, d \in T PROVE d + 1 \in T
    <3> SUFFICES ASSUME d + 1 + 1 <= n PROVE Becomes(S, f[d + 1 + 1], g[d + 1 + 1])
      OBVIOUS
    <3> DEFINE i == d + 1
               j == d + 1 + 1
    <3>1. i \in 1..n /\ j \in 1..n /\ j # 1 /\ j - 1 = i
      OBVIOUS
    <3>2. Becomes(S, f[i], g[i])
      BY <2>5, <3>1
    <3> HIDE DEF i, j
    <3>3. f[j] = f[i] \o s[j] /\ g[j] = g[i] \o r[j]
      BY <2>2, <2>3, <3>1, Zenon
    <3>4. Becomes(S, s[j], r[j])
      BY <3>1
    <3>5. Becomes(S, f[i] \o s[j], g[i] \o r[j])
      BY <3>2, <3>4, BecomesJoined, Zenon
    <3>6. Becomes(S, f[j], g[j])
      BY <3>3, <3>5
    <3> QED BY <3>6 DEF j
  <2> HIDE DEF T
  <2>6. \A d \in Nat : d \in T
    BY <2>4, <2>5, Induction
  <2>7. n - 1 \in Nat /\ (n - 1) + 1 = n
    BY <1>3
  <2>8. n - 1 \in T
    BY <2>6, <2>7
  <2>9. Becomes(S, f[n], g[n])
    BY <2>7, <2>8 DEF T
  <2> QED BY <2>2, <2>3, <2>9
<1> QED BY <1>2, <1>3

\* A text without colours stays.
LEMMA NoColours ==
  ASSUME NEW S, "endless" \in S, NEW x \in Seq(S), \A k \in 1..Len(x) : x[k] # ESC
  PROVE  Becomes(S, x, x)
<1> DEFINE n == Len(x)
           s == [i \in 1..n |-> <<x[i]>>]
<1>1. n \in Nat /\ \A i \in 1..n : x[i] \in S /\ x[i] # ESC
  OBVIOUS
<1>2. s \in [1..n -> Seq(S)]
  BY <1>1
<1>3. ASSUME NEW i \in 1..n PROVE Becomes(S, s[i], s[i])
  <2>1. s[i] = <<x[i]>> /\ x[i] \in S /\ x[i] # ESC
    BY <1>1
  <2>2. PlainOnto(S, <<x[i]>>, <<x[i]>>)
    BY <2>1, PlainWord
  <2>3. Len(s[i]) \in Nat
    BY <1>2
  <2> HIDE DEF s
  <2> QED BY <2>1, <2>2, <2>3 DEF Becomes
<1>4. FlattenSeq(s) = x
  BY FlattenWords
<1> HIDE DEF s, n
<1>5. Becomes(S, FlattenSeq(s), FlattenSeq(s))
  BY <1>1, <1>2, <1>3, BecomesFlat
<1> QED BY <1>4, <1>5

\* What a text becomes by itself.
LEMMA BecomesIs ==
  ASSUME NEW S, "endless" \in S, NEW x, NEW y, Becomes(S, x, y)
  PROVE  Plain(x) = y
<1> DEFINE e == <<>>
<1>1. x \in Seq(S) /\ y \in Seq(S) /\ \A b \in Seq(S) : Joins(Plain(x \o b), y, Plain(b))
  BY Zenon DEF Becomes, PlainOnto
<1>2. e \in Seq(S)
  OBVIOUS
<1>3. x \o e = x /\ y \o e = y
  BY <1>1, NoneBehind
<1>4. Plain(e) = e
  BY PlainOfNone
<1> HIDE DEF e
<1>5. Joins(Plain(x \o e), y, Plain(e))
  BY <1>1, <1>2, Zenon
<1> QED BY <1>3, <1>4, <1>5 DEF Joins

-----------------------------------------------------------------------------
(***************************************************************************)
(* Lines of the log: what stands before the message.                       *)
(***************************************************************************)
\* The last of something in a text.
LastAt(s, c) == SelectLastInSeq(s, LAMBDA x : x = c)

\* The last place of something.
LEMMA LastIs ==
  ASSUME NEW S, NEW s \in Seq(S), NEW c, NEW j \in 1..Len(s), s[j] = c,
         \A k \in (j + 1)..Len(s) : s[k] # c
  PROVE  LastAt(s, c) = j
<1> DEFINE I == {k \in 1..Len(s) : s[k] = c}
<1>1. Len(s) \in Nat
  OBVIOUS
<1>2. I \in SUBSET Nat /\ j \in I
  BY <1>1
<1>a. I \in SUBSET (1..Len(s))
  OBVIOUS
<1>3. \A k \in I : k <= Len(s)
  BY <1>1
<1>4. ASSUME NEW k \in I PROVE k <= j
  <2>1. k \in 1..Len(s) /\ ~(k \in (j + 1)..Len(s))
    OBVIOUS
  <2> QED BY <1>1, <2>1
<1>5. LastAt(s, c) = IF I # {} THEN Max(I) ELSE 0
  BY Zenon DEF LastAt, SelectLastInSeq
<1> HIDE DEF I
<1>6. Max(I) \in I /\ \A k \in I : k <= Max(I)
  <2>1. I # {} /\ (\A k \in I : k <= Len(s)) /\ I \in SUBSET Nat /\ I \in SUBSET (1..Len(s))
    BY <1>1, <1>2, <1>3, <1>a
  <2> QED BY <1>1, <2>1, MaxIsGreatest
<1>7. Max(I) = j
  <2> DEFINE x == Max(I)
  <2>1. x \in I /\ j <= x /\ x <= j
    BY <1>2, <1>4, <1>6
  <2> HIDE DEF x
  <2>2. x \in Nat /\ j \in Nat
    BY <1>2, <2>1
  <2>3. x = j
    BY <2>1, <2>2
  <2> QED BY <2>3 DEF x
<1> QED BY <1>2, <1>5, <1>7

\* Where there is none, it is 0.
LEMMA LastNone ==
  ASSUME NEW s, NEW c, \A k \in 1..Len(s) : s[k] # c
  PROVE  LastAt(s, c) = 0
<1> DEFINE I == {k \in 1..Len(s) : s[k] = c}
<1>1. I = {}
  OBVIOUS
<1>2. LastAt(s, c) = IF I # {} THEN Max(I) ELSE 0
  BY Zenon DEF LastAt, SelectLastInSeq
<1> HIDE DEF I
<1> QED BY <1>1, <1>2

\* The path of a source file without its directories.
LEMMA FileNameAt ==
  ASSUME NEW S, NEW s \in Seq(S), NEW l \in Nat, Len(s) = l + 1,
         (IF LastAt(s, "/") # 0 THEN LastAt(s, "/") ELSE LastAt(s, "\\")) = l
  PROVE  FileName(s) = <<s[l + 1]>>
<1> DEFINE p == <<s[l + 1]>>
<1>1. p \in Seq(S) /\ Len(p) = 1 /\ p[1] = s[l + 1]
  OBVIOUS
<1>2. FileName(s) = SubSeq(s, l + 1, Len(s))
  <2>1. FileName(s) = SubSeq(s, (IF LastAt(s, "/") # 0 THEN LastAt(s, "/") ELSE LastAt(s, "\\")) + 1, Len(s))
    BY Zenon DEF FileName, LastAt
  <2> QED BY <2>1
<1> HIDE DEF p
<1>3. l + Len(p) <= Len(s) /\ (\A k \in 1..Len(p) : s[l + k] = p[k]) /\ l + Len(p) = Len(s)
  BY <1>1
<1>4. SubSeq(s, l + 1, l + Len(p)) = p
  BY <1>1, <1>3, SubSeqIs
<1> QED BY <1>2, <1>3, <1>4 DEF p

\* The words of a line.
Tokens == {"[", "]", Blank, "date", "time", "file", "line", "function", "dir", "/", "\\", ESC, "0", "1", "x",
           "m", "36", "32", "33", "31", "DEBUG", "INFO", "WARNING", "ERROR", "endless"}

\* They are words of a line.
LEMMA TokensAre ==
  /\ "[" \in Tokens /\ "]" \in Tokens /\ Blank \in Tokens /\ "date" \in Tokens /\ "time" \in Tokens
  /\ "file" \in Tokens /\ "line" \in Tokens /\ "function" \in Tokens /\ "dir" \in Tokens
  /\ "/" \in Tokens /\ "\\" \in Tokens /\ ESC \in Tokens /\ "0" \in Tokens /\ "1" \in Tokens
  /\ "x" \in Tokens /\ "m" \in Tokens /\ "36" \in Tokens /\ "32" \in Tokens /\ "33" \in Tokens
  /\ "31" \in Tokens /\ "DEBUG" \in Tokens /\ "INFO" \in Tokens /\ "WARNING" \in Tokens
  /\ "ERROR" \in Tokens /\ "endless" \in Tokens
BY Zenon DEF Tokens

\* Without its directory a file has its name, on any system.
LEMMA FileNameIs ==
  ASSUME NEW dir \in {<<>>, <<"dir", "/", "m", "/">>, <<"dir", "\\">>}
  PROVE  FileName(dir \o <<"file">>) = <<"file">>
<1> DEFINE f == <<"file">>
           s == dir \o f
<1>1. f \in Seq(Tokens) /\ Len(f) = 1 /\ f[1] = "file"
  BY TokensAre
<1>2. dir \in Seq(Tokens)
  <2>1. <<>> \in Seq(Tokens)
    OBVIOUS
  <2>2. <<"dir", "/", "m", "/">> \in Seq(Tokens)
    BY TokensAre
  <2>3. <<"dir", "\\">> \in Seq(Tokens)
    BY TokensAre
  <2> QED BY <2>1, <2>2, <2>3
<1> HIDE DEF f
<1>3. IsConcat(Tokens, dir, f, s)
  BY <1>1, <1>2, ConcatPlaces
<1> HIDE DEF s
<1>4. s \in Seq(Tokens) /\ Len(dir) \in Nat /\ Len(s) = Len(dir) + 1 /\ s[Len(dir) + 1] = "file"
      /\ \A k \in 1..Len(dir) : s[k] = dir[k]
  BY <1>1, <1>2, <1>3 DEF IsConcat
<1>5. (IF LastAt(s, "/") # 0 THEN LastAt(s, "/") ELSE LastAt(s, "\\")) = Len(dir)
  <2>1. CASE dir = <<>>
    <3>1. Len(dir) = 0 /\ Len(s) = 1 /\ s[1] = "file"
      BY <1>4, <2>1
    <3>2. \A k \in 1..Len(s) : s[k] # "/" /\ s[k] # "\\"
      BY <3>1
    <3>3. LastAt(s, "/") = 0 /\ LastAt(s, "\\") = 0
      BY <3>2, LastNone
    <3> QED BY <3>1, <3>3
  <2>2. CASE dir = <<"dir", "/", "m", "/">>
    <3>1. Len(dir) = 4 /\ dir[4] = "/"
      BY <2>2
    <3>2. Len(s) = 5 /\ s[5] = "file" /\ s[4] = "/"
      BY <1>4, <3>1
    <3>3. 4 \in 1..Len(s) /\ \A k \in (4 + 1)..Len(s) : s[k] # "/"
      BY <3>2
    <3>4. LastAt(s, "/") = 4
      BY <1>4, <3>2, <3>3, LastIs
    <3> QED BY <3>1, <3>4
  <2>3. CASE dir = <<"dir", "\\">>
    <3>1. Len(dir) = 2 /\ dir[1] = "dir" /\ dir[2] = "\\"
      BY <2>3
    <3>2. Len(s) = 3 /\ s[1] = "dir" /\ s[2] = "\\" /\ s[3] = "file"
      BY <1>4, <3>1
    <3>3. \A k \in 1..Len(s) : s[k] # "/"
      BY <3>2
    <3>4. 2 \in 1..Len(s) /\ \A k \in (2 + 1)..Len(s) : s[k] # "\\"
      BY <3>2
    <3>5. LastAt(s, "/") = 0
      BY <3>3, LastNone
    <3>6. LastAt(s, "\\") = 2
      BY <1>4, <3>2, <3>4, LastIs
    <3> QED BY <3>1, <3>5, <3>6
  <2> QED BY <2>1, <2>2, <2>3
<1>6. FileName(s) = <<s[Len(dir) + 1]>>
  BY <1>4, <1>5, FileNameAt
<1> QED BY <1>4, <1>6 DEF s, f

\* A text of the words of two.
LEMMA Tuples ==
  ASSUME NEW S, "[" \in S, "]" \in S, NEW a \in S, NEW b \in S
  PROVE  Bracketed(<<a, b>>) = <<"[", a, b, "]">> /\ Bracketed(<<a>>) = <<"[", a, "]">>
<1> DEFINE o == <<"[">>
           c == <<"]">>
           ab == <<a, b>>
           one == <<a>>
           oab == <<"[", a, b>>
           oone == <<"[", a>>
           oabc == <<"[", a, b, "]">>
           oonec == <<"[", a, "]">>
<1>1. o \in Seq(S) /\ c \in Seq(S) /\ ab \in Seq(S) /\ one \in Seq(S) /\ oab \in Seq(S) /\ oone \in Seq(S)
  OBVIOUS
<1>2. IsConcat(S, o, ab, oab) /\ IsConcat(S, oab, c, oabc)
  BY DEF IsConcat
<1>3. IsConcat(S, o, one, oone) /\ IsConcat(S, oone, c, oonec)
  BY DEF IsConcat
<1> HIDE DEF o, c, ab, one, oab, oone, oabc, oonec
<1>4. Joins(oab, o, ab) /\ Joins(oabc, oab, c) /\ Joins(oone, o, one) /\ Joins(oonec, oone, c)
  BY <1>1, <1>2, <1>3, JoinsIs
<1>5. Bracketed(ab) = (o \o ab) \o c /\ Bracketed(one) = (o \o one) \o c
  BY Zenon DEF Bracketed, o, c
<1>6. Bracketed(ab) = oabc /\ Bracketed(one) = oonec
  BY <1>4, <1>5, Zenon DEF Joins
<1> QED BY <1>6 DEF ab, one, oabc, oonec

\* What comes before the message, with a level and without.
LineHead == <<"[", "date", "time", "]", "[">>

LineFoot == <<"]", "[", "file", "line", "]", "[", "function", "]", Blank>>

Long(levelText) == LineHead \o levelText \o LineFoot

Short == <<"[", "time", "]", Blank>>

\* The fields that are before a message, of all and of a window without debugging.
LEMMA FieldsOf ==
  ASSUME NEW level, NEW color, NEW path
  PROVE  /\ Fields(LOG_ALL, level, color, path) =
              Bracketed(<<"date", "time">>) \o Bracketed(ColoredLevelString(level, color))
              \o Bracketed(FileName(path) \o <<"line">>) \o Bracketed(<<"function">>)
         /\ Fields(LOG_STIME, level, color, path) = Bracketed(<<"time">>) \o <<>> \o <<>> \o <<>>
<1>1. /\ LOG_ALL \cap LOG_TIME # {} /\ LOG_ALL \cap LOG_LEVEL # {}
      /\ LOG_ALL \cap LOG_LINE # {} /\ LOG_ALL \cap LOG_FUNC # {}
  <2>1. 2 \in LOG_ALL \cap LOG_TIME
    BY DEF LOG_ALL, LOG_TIME
  <2>2. 4 \in LOG_ALL \cap LOG_LEVEL
    BY DEF LOG_ALL, LOG_LEVEL
  <2>3. 8 \in LOG_ALL \cap LOG_LINE
    BY DEF LOG_ALL, LOG_LINE
  <2>4. 8 \in LOG_ALL \cap LOG_FUNC
    BY DEF LOG_ALL, LOG_FUNC
  <2> QED BY <2>1, <2>2, <2>3, <2>4
<1>2. /\ LOG_STIME \cap LOG_TIME = {} /\ LOG_STIME \cap LOG_LEVEL = {}
      /\ LOG_STIME \cap LOG_LINE = {} /\ LOG_STIME \cap LOG_FUNC = {} /\ LOG_STIME \cap LOG_STIME # {}
  BY DEF LOG_STIME, LOG_TIME, LOG_LEVEL, LOG_LINE, LOG_FUNC
<1> QED BY <1>1, <1>2, Zenon DEF Fields

\* With all fields that is before a message what was meant to be.
LEMMA LongIs ==
  ASSUME NEW level, NEW color, NEW path, FileName(path) = <<"file">>,
         ColoredLevelString(level, color) \in Seq(Tokens)
  PROVE  Fields(LOG_ALL, level, color, path) \o <<Blank>> = Long(ColoredLevelString(level, color))
<1> DEFINE S == Tokens
           lt == ColoredLevelString(level, color)
           co == <<"[">>
           cc == <<"]">>
           sp == <<Blank>>
           b1 == <<"[", "date", "time", "]">>
           b3 == <<"[", "file", "line", "]">>
           b4 == <<"[", "function", "]">>
           B1 == <<"]", "[", "file", "line", "]">>
           B2 == <<"]", "[", "file", "line", "]", "[", "function", "]">>
           fi == <<"file">>
           li == <<"line">>
           fl == <<"file", "line">>
<1>1. /\ co \in Seq(S) /\ cc \in Seq(S) /\ sp \in Seq(S) /\ b1 \in Seq(S) /\ b3 \in Seq(S) /\ b4 \in Seq(S)
      /\ fi \in Seq(S) /\ li \in Seq(S)
  <2> HIDE DEF S
  <2> QED BY TokensAre DEF S
<1>2. B1 \in Seq(S) /\ B2 \in Seq(S) /\ LineHead \in Seq(S) /\ LineFoot \in Seq(S)
  BY TokensAre DEF LineHead, LineFoot
<1>3. IsConcat(S, fi, li, fl) /\ IsConcat(S, b1, co, LineHead)
  <2>1. fl \in Seq(S)
    BY TokensAre
  <2> QED BY <1>2, <2>1 DEF IsConcat, LineHead
<1>4. IsConcat(S, cc, b3, B1)
  BY <1>2 DEF IsConcat
<1>5. IsConcat(S, B1, b4, B2)
  BY <1>2 DEF IsConcat
<1>6. IsConcat(S, B2, sp, LineFoot)
  BY <1>2 DEF IsConcat, LineFoot
<1>7. Bracketed(fl) = b3 /\ Bracketed(<<"date", "time">>) = b1 /\ Bracketed(<<"function">>) = b4
  BY TokensAre, Tuples
<1>8. FileName(path) = fi
  OBVIOUS
<1>9. Bracketed(lt) = (co \o lt) \o cc
  BY Zenon DEF Bracketed
<1>10. Fields(LOG_ALL, level, color, path) =
         ((Bracketed(<<"date", "time">>) \o Bracketed(lt)) \o Bracketed(FileName(path) \o li))
         \o Bracketed(<<"function">>)
  BY FieldsOf, Zenon
<1>11. lt \in Seq(S)
  OBVIOUS
<1> DEFINE k == co \o lt
           b2 == k \o cc
           AL == LineHead \o lt
           L0 == b1 \o b2
           L1 == L0 \o b3
           L2 == L1 \o b4
           L3 == L2 \o sp
<1> HIDE DEF S, lt, co, cc, sp, b1, b3, b4, B1, B2, fi, li, fl
<1>12. Joins(fl, fi, li) /\ Joins(LineHead, b1, co) /\ Joins(B1, cc, b3) /\ Joins(B2, B1, b4) /\ Joins(LineFoot, B2, sp)
  BY <1>1, <1>2, <1>3, <1>4, <1>5, <1>6, JoinsIs
<1>13. FileName(path) \o li = fl
  BY <1>8, <1>12 DEF Joins
<1>14. /\ Joins(k, co, lt) /\ Joins(b2, k, cc) /\ Joins(AL, LineHead, lt) /\ Joins(L0, b1, b2) /\ Joins(L1, L0, b3)
       /\ Joins(L2, L1, b4) /\ Joins(L3, L2, sp)
  BY Zenon DEF Joins
<1>15. k \in Seq(S) /\ AL \in Seq(S)
  BY <1>1, <1>2, <1>11, Associate
<1>16. b2 \in Seq(S)
  <2> HIDE DEF k
  <2> QED BY <1>1, <1>15, Associate
<1>17. Bracketed(lt) = b2
  BY <1>9, Zenon
<1> HIDE DEF k, b2, AL
<1>18. Fields(LOG_ALL, level, color, path) = L2
  BY <1>7, <1>10, <1>13, <1>17
<1>19. Fields(LOG_ALL, level, color, path) \o sp = L3
  BY <1>18
<1> HIDE DEF L0, L1, L2, L3
<1>20. Joins(L3, AL, LineFoot)
  <2> HIDE DEF LineHead, LineFoot
  <2>1. Joins(AL, b1, k)
    BY <1>1, <1>2, <1>11, <1>12, <1>14, <1>15, RegroupBoth
  <2>2. Joins(L0, AL, cc)
    BY <1>1, <1>2, <1>14, <1>15, <2>1, Regroup
  <2>3. Joins(L1, AL, B1)
    BY <1>1, <1>2, <1>12, <1>14, <1>15, <2>2, RegroupBoth
  <2>4. Joins(L2, AL, B2)
    BY <1>1, <1>2, <1>12, <1>14, <1>15, <2>3, RegroupBoth
  <2> QED BY <1>1, <1>2, <1>12, <1>14, <1>15, <2>4, RegroupBoth
<1>21. L3 = AL \o LineFoot
  BY <1>20, Zenon DEF Joins
<1>22. Fields(LOG_ALL, level, color, path) \o sp = Long(lt)
  BY <1>19, <1>21, Zenon DEF AL, Long
<1> QED BY <1>22, Zenon DEF sp, lt

\* And with the time alone.
LEMMA ShortIs ==
  ASSUME NEW level, NEW color, NEW path
  PROVE  Fields(LOG_STIME, level, color, path) \o <<Blank>> = Short
<1> DEFINE S == Tokens
           t == <<"[", "time", "]">>
           sp == <<Blank>>
<1>1. t \in Seq(S) /\ sp \in Seq(S) /\ Short \in Seq(S)
  BY TokensAre DEF Short
<1>2. IsConcat(S, t, sp, Short)
  BY <1>1 DEF IsConcat, Short
<1>3. Bracketed(<<"time">>) = t
  BY TokensAre, Tuples
<1> HIDE DEF S, t, sp
<1>4. Joins(Short, t, sp)
  BY <1>1, <1>2, JoinsIs
<1>5. t \o <<>> = t
  BY <1>1, NoneBehind
<1>6. Fields(LOG_STIME, level, color, path) = t \o <<>> \o <<>> \o <<>>
  BY <1>3, FieldsOf
<1>7. Fields(LOG_STIME, level, color, path) = t
  BY <1>5, <1>6
<1>8. Fields(LOG_STIME, level, color, path) \o sp = Short
  BY <1>4, <1>7 DEF Joins
<1> QED BY <1>8 DEF sp

-----------------------------------------------------------------------------
(***************************************************************************)
(* Lines of the log: the message.                                          *)
(***************************************************************************)
\* The parts of a message.
MessageParts == {<<"x">>, <<"m">>, <<ESC, "1", "m">>}

Uncoloured(piece) == IF piece[1] = ESC THEN <<>> ELSE piece

\* Of a message without its colours the rest stays.
LEMMA PiecesAre ==
  ASSUME NEW piece \in MessageParts
  PROVE  /\ piece \in Seq(Tokens) /\ Uncoloured(piece) \in Seq(Tokens)
         /\ Becomes(Tokens, piece, Uncoloured(piece))
         /\ piece[1] # ESC => Uncoloured(piece) = piece /\ \A k \in 1..Len(piece) : piece[k] # ESC
<1> DEFINE x == <<"x">>
           m == <<"m">>
           c == <<ESC, "1", "m">>
<1>1. ESC # "x" /\ ESC # "m" /\ ESC # "1" /\ "1" # "m"
  BY DEF ESC
<1>2. /\ x \in Seq(Tokens) /\ m \in Seq(Tokens) /\ c \in Seq(Tokens) /\ <<>> \in Seq(Tokens)
      /\ x[1] = "x" /\ m[1] = "m" /\ c[1] = ESC /\ Len(x) = 1 /\ Len(m) = 1 /\ Len(c) = 3
  BY TokensAre
<1>3. PlainOnto(Tokens, x, x) /\ PlainOnto(Tokens, m, m)
  BY <1>1, TokensAre, PlainWord
<1>4. PlainOnto(Tokens, c, <<>>)
  BY <1>1, TokensAre, PlainColour
<1>5. piece = x \/ piece = m \/ piece = c
  BY DEF MessageParts
<1> HIDE DEF x, m, c
<1>6. CASE piece = x \/ piece = m
  <2>1. piece[1] # ESC /\ Len(piece) = 1 /\ piece \in Seq(Tokens) /\ PlainOnto(Tokens, piece, piece)
    BY <1>1, <1>2, <1>3, <1>6
  <2>2. Uncoloured(piece) = piece
    BY <2>1 DEF Uncoloured
  <2>3. Becomes(Tokens, piece, piece)
    BY <2>1 DEF Becomes
  <2>4. \A k \in 1..Len(piece) : piece[k] # ESC
    BY <2>1
  <2> QED BY <2>1, <2>2, <2>3, <2>4
<1>7. CASE piece = c
  <2>1. Uncoloured(piece) = <<>> /\ piece[1] = ESC
    BY <1>2, <1>7 DEF Uncoloured
  <2>2. Len(<<>>) = 0
    OBVIOUS
  <2>3. Becomes(Tokens, piece, <<>>)
    BY <1>2, <1>4, <1>7, <2>2 DEF Becomes
  <2> QED BY <1>2, <1>7, <2>1, <2>3
<1> QED BY <1>5, <1>6, <1>7

\* A text that fits is not cut.
LEMMA Uncut ==
  ASSUME NEW S, NEW t \in Seq(S), Len(t) <= MaxMessage
  PROVE  Cut(t) = t
<1>1. Cut(t) = SubSeq(t, 1, Len(t))
  BY DEF Cut
<1>2. SubSeq(t, 0 + 1, 0 + Len(t)) = t
  <2>1. \A k \in 1..Len(t) : t[0 + k] = t[k]
    OBVIOUS
  <2>2. 0 + Len(t) <= Len(t)
    OBVIOUS
  <2> QED BY <2>1, <2>2, SubSeqIs
<1> QED BY <1>1, <1>2

\* What is cut has the words of what it was.
LEMMA CutIs ==
  ASSUME NEW S, NEW t \in Seq(S)
  PROVE  Cut(t) \in Seq(S) /\ \A k \in 1..Len(Cut(t)) : k \in 1..Len(t) /\ Cut(t)[k] = t[k]
<1> DEFINE n == IF Len(t) <= MaxMessage THEN Len(t) ELSE MaxMessage
<1>1. n \in Nat /\ n <= Len(t) /\ Len(t) \in Nat
  BY LoggerAssumption
<1>2. Cut(t) = SubSeq(t, 1, n)
  BY DEF Cut
<1> HIDE DEF n
<1>3. 1 \in Int /\ n \in Int /\ \A m \in 1..n : t[m] \in S
  BY <1>1
<1>4. /\ SubSeq(t, 1, n) \in Seq(S)
      /\ Len(SubSeq(t, 1, n)) = IF 1 <= n THEN n - 1 + 1 ELSE 0
      /\ \A m \in 1..(n - 1 + 1) : SubSeq(t, 1, n)[m] = t[1 + m - 1]
  BY <1>3, SubSeqProperties
<1> DEFINE e == SubSeq(t, 1, n)
<1> HIDE DEF e
<1>5. e \in Seq(S) /\ Len(e) = (IF 1 <= n THEN n - 1 + 1 ELSE 0) /\ \A m \in 1..(n - 1 + 1) : e[m] = t[1 + m - 1]
  BY <1>4 DEF e
<1>6. ASSUME NEW k \in 1..Len(e) PROVE k \in 1..Len(t) /\ e[k] = t[k]
  <2>1. k \in 1..(n - 1 + 1) /\ 1 + k - 1 = k
    BY <1>1, <1>5
  <2> QED BY <1>1, <1>5, <2>1
<1> QED BY <1>2, <1>5, <1>6 DEF e

\* What a message becomes that is not cut, or has no colours.
LEMMA MessageBecomes ==
  ASSUME NEW n \in Nat, NEW parts \in [1..n -> MessageParts],
         Len(FlattenSeq(parts)) <= MaxMessage \/ \A i \in 1..n : parts[i][1] # ESC
  PROVE  Becomes(Tokens, Cut(FlattenSeq(parts)), Cut(FlattenSeq([i \in 1..n |-> Uncoloured(parts[i])])))
<1> DEFINE kept == [i \in 1..n |-> Uncoloured(parts[i])]
           t == FlattenSeq(parts)
           r == FlattenSeq(kept)
<1>1. parts \in [1..n -> Seq(Tokens)]
  BY PiecesAre
<1>2. kept \in [1..n -> Seq(Tokens)]
  BY PiecesAre
<1>3. \A i \in 1..n : Becomes(Tokens, parts[i], kept[i])
  BY PiecesAre
<1>4. "endless" \in Tokens
  BY TokensAre
<1>5. Becomes(Tokens, t, r)
  <2> HIDE DEF kept
  <2> QED BY <1>1, <1>2, <1>3, <1>4, BecomesFlat
<1>6. t \in Seq(Tokens) /\ r \in Seq(Tokens) /\ Len(r) <= Len(t)
  BY <1>5, Zenon DEF Becomes, PlainOnto
<1>7. \A i \in 1..n : kept[i] = Uncoloured(parts[i])
  OBVIOUS
<1> HIDE DEF t, r, kept
<1>8. ASSUME Len(t) <= MaxMessage PROVE Becomes(Tokens, Cut(t), Cut(r))
  <2>1. Len(r) <= MaxMessage
    BY <1>6, <1>8, LoggerAssumption
  <2>2. Cut(t) = t /\ Cut(r) = r
    BY <1>6, <1>8, <2>1, Uncut
  <2> QED BY <1>5, <2>2
<1>9. ASSUME \A i \in 1..n : parts[i][1] # ESC PROVE Becomes(Tokens, Cut(t), Cut(r))
  <2>1. kept = parts
    <3>1. \A i \in 1..n : kept[i] = parts[i]
      BY <1>7, <1>9, PiecesAre
    <3> QED BY <1>1, <1>2, <3>1
  <2>2. PICK off : LaidOut(Tokens, n, parts, t, off)
    BY <1>1, FlattenPlaces DEF t
  <2>3. ASSUME NEW k \in 1..Len(t) PROVE t[k] # ESC
    <3>1. HasPlace(n, parts, off, k)
      BY <1>1, <2>2, EachPlace
    <3>2. PICK i \in 1..n : \E e \in 1..Len(parts[i]) : k = off[i] + e
      BY <3>1 DEF HasPlace
    <3>3. PICK e \in 1..Len(parts[i]) : k = off[i] + e
      BY <3>2
    <3>4. t[off[i] + e] = parts[i][e]
      BY <2>2, Zenon DEF LaidOut
    <3>5. parts[i][e] # ESC
      <4>1. parts[i] \in MessageParts /\ parts[i][1] # ESC
        BY <1>9
      <4> QED BY <4>1, PiecesAre
    <3> QED BY <3>3, <3>4, <3>5
  <2>4. Cut(t) \in Seq(Tokens) /\ \A k \in 1..Len(Cut(t)) : k \in 1..Len(t) /\ Cut(t)[k] = t[k]
    BY <1>6, CutIs
  <2> DEFINE c == Cut(t)
  <2> HIDE DEF c
  <2>5. c \in Seq(Tokens) /\ \A k \in 1..Len(c) : c[k] # ESC
    BY <2>3, <2>4 DEF c
  <2>6. Becomes(Tokens, c, c)
    BY <1>4, <2>5, NoColours
  <2>7. r = t
    BY <2>1 DEF r, t
  <2> QED BY <2>6, <2>7 DEF c
<1>10. Len(t) <= MaxMessage \/ \A i \in 1..n : parts[i][1] # ESC
  BY Zenon DEF t
<1>11. Becomes(Tokens, Cut(t), Cut(r))
  BY <1>8, <1>9, <1>10, Zenon
<1> QED BY <1>11, Zenon DEF t, r, kept

\* The names of the levels and what they become.
LEMMA LevelsAre ==
  ASSUME NEW level \in Levels
  PROVE  /\ LevelString[level] \in Tokens /\ LevelString[level] # ESC
         /\ Colour[level] \in Tokens /\ Colour[level] # "m"
<1>1. level = 1 \/ level = 2 \/ level = 3 \/ level = 4
  BY DEF Levels
<1>2. /\ LevelString[1] = "DEBUG" /\ LevelString[2] = "INFO" /\ LevelString[3] = "WARNING"
      /\ LevelString[4] = "ERROR"
  BY DEF LevelString
<1>3. Colour[1] = "36" /\ Colour[2] = "32" /\ Colour[3] = "33" /\ Colour[4] = "31"
  BY DEF Colour
<1>4. ESC # "DEBUG" /\ ESC # "INFO" /\ ESC # "WARNING" /\ ESC # "ERROR"
  BY DEF ESC
<1>5. "36" # "m" /\ "32" # "m" /\ "33" # "m" /\ "31" # "m"
  OBVIOUS
<1> QED BY <1>1, <1>2, <1>3, <1>4, <1>5, TokensAre

\* A level with its colour becomes one without.
LEMMA LevelBecomes ==
  ASSUME NEW level \in Levels, NEW color \in BOOLEAN
  PROVE  /\ ColoredLevelString(level, color) \in Seq(Tokens)
         /\ Becomes(Tokens, ColoredLevelString(level, color), <<LevelString[level]>>)
<1> DEFINE a == <<ESC, Colour[level], "m">>
           b == <<LevelString[level]>>
           c == <<ESC, "0", "m">>
           ab == <<ESC, Colour[level], "m", LevelString[level]>>
           abc == <<ESC, Colour[level], "m", LevelString[level], ESC, "0", "m">>
           S == Tokens
<1>1. ESC # "m" /\ "0" # "m"
  BY DEF ESC
<1>2. /\ a \in Seq(S) /\ b \in Seq(S) /\ c \in Seq(S) /\ ab \in Seq(S) /\ abc \in Seq(S)
      /\ Len(a) = 3 /\ Len(b) = 1 /\ Len(c) = 3
  BY TokensAre, LevelsAre
<1>3. PlainOnto(S, a, <<>>) /\ PlainOnto(S, c, <<>>)
  BY <1>1, TokensAre, LevelsAre, PlainColour
<1>4. PlainOnto(S, b, b)
  BY TokensAre, LevelsAre, PlainWord
<1>5. IsConcat(S, a, b, ab) /\ IsConcat(S, ab, c, abc)
  BY <1>2 DEF IsConcat
<1>6. ColoredLevelString(level, color) = IF color THEN abc ELSE b
  BY Zenon DEF ColoredLevelString
<1> HIDE DEF a, b, c, ab, abc, S
<1>7. Joins(ab, a, b) /\ Joins(abc, ab, c)
  BY <1>2, <1>5, JoinsIs
<1>8. "endless" \in S
  BY TokensAre DEF S
<1> DEFINE e == <<>>
<1>9. Len(e) = 0 /\ e \in Seq(S)
  OBVIOUS
<1> HIDE DEF e
<1>10. Becomes(S, a, e) /\ Becomes(S, b, b) /\ Becomes(S, c, e)
  BY <1>2, <1>3, <1>4, <1>9 DEF Becomes, e
<1>11. Becomes(S, a \o b, e \o b)
  BY <1>8, <1>10, BecomesJoined, Zenon
<1>12. Becomes(S, (a \o b) \o c, (e \o b) \o e)
  <2> DEFINE x == a \o b
             y == e \o b
  <2> HIDE DEF x, y
  <2>1. Becomes(S, x, y)
    BY <1>11 DEF x, y
  <2>2. Becomes(S, x \o c, y \o e)
    BY <1>8, <1>10, <2>1, BecomesJoined, Zenon
  <2> QED BY <2>2 DEF x, y
<1>13. e \o b = b /\ b \o e = b
  BY <1>2, ConcatEmptySeq DEF e
<1>14. Becomes(S, abc, b)
  BY <1>7, <1>12, <1>13 DEF Joins
<1>15. ColoredLevelString(level, color) \in Seq(S) /\ Becomes(S, ColoredLevelString(level, color), b)
  BY <1>2, <1>6, <1>10, <1>14
<1> QED BY <1>15 DEF S, b

-----------------------------------------------------------------------------
(***************************************************************************)
(* Lines of the log: both programs, with a file or without.                *)
(***************************************************************************)
\* What stands before a message.
Before(window, debug, levelText) == IF window /\ ~debug THEN Short ELSE Long(levelText)

FieldsAre(window, debug, level, path) ==
    Fields(IF window /\ ~debug THEN LOG_STIME ELSE LOG_ALL, level, ~window, path) \o <<Blank>>
      = Before(window, debug, ColoredLevelString(level, ~window))

\* That stands before a message which was meant to.
LEMMA BeforeIs ==
  ASSUME NEW window \in BOOLEAN, NEW debug \in BOOLEAN, NEW level \in Levels, NEW path,
         FileName(path) = <<"file">>
  PROVE  FieldsAre(window, debug, level, path)
<1>1. ColoredLevelString(level, ~window) \in Seq(Tokens)
  BY LevelBecomes
<1>2. CASE window /\ ~debug
  BY <1>2, ShortIs, Zenon DEF Before, FieldsAre
<1>3. CASE ~(window /\ ~debug)
  BY <1>1, <1>3, LongIs, Zenon DEF Before, FieldsAre
<1> QED BY <1>2, <1>3

\* Without the colours of the level it is that with the plain level.
LEMMA BeforeBecomes ==
  ASSUME NEW window \in BOOLEAN, NEW debug \in BOOLEAN, NEW level \in Levels
  PROVE  Becomes(Tokens, Before(window, debug, ColoredLevelString(level, ~window)),
                 Before(window, debug, <<LevelString[level]>>))
<1> DEFINE S == Tokens
           c == ColoredLevelString(level, ~window)
           p == <<LevelString[level]>>
<1>1. Becomes(S, c, p)
  BY LevelBecomes
<1>2. ESC # "[" /\ ESC # "]" /\ ESC # "date" /\ ESC # "time" /\ ESC # "file" /\ ESC # "line" /\ ESC # "function"
  BY DEF ESC
<1>3. ESC # Blank
  BY Zenon DEF ESC, Blank
<1>4. "endless" \in S
  BY TokensAre
<1>5. LineHead \in Seq(S) /\ \A k \in 1..Len(LineHead) : LineHead[k] # ESC
  BY <1>2, TokensAre DEF LineHead
<1>6. LineFoot \in Seq(S) /\ \A k \in 1..Len(LineFoot) : LineFoot[k] # ESC
  BY <1>2, <1>3, TokensAre DEF LineFoot
<1>7. Short \in Seq(S) /\ \A k \in 1..Len(Short) : Short[k] # ESC
  BY <1>2, <1>3, TokensAre DEF Short
<1> HIDE DEF S, c, p
<1>8. Becomes(S, LineHead, LineHead) /\ Becomes(S, LineFoot, LineFoot) /\ Becomes(S, Short, Short)
  BY <1>4, <1>5, <1>6, <1>7, NoColours
<1>9. CASE window /\ ~debug
  BY <1>8, <1>9, Zenon DEF Before, S
<1>10. CASE ~(window /\ ~debug)
  <2> DEFINE x == LineHead \o c
             y == LineHead \o p
  <2>1. Becomes(S, x, y)
    BY <1>1, <1>4, <1>8, BecomesJoined, Zenon
  <2>2. Long(c) = x \o LineFoot /\ Long(p) = y \o LineFoot
    BY Zenon DEF Long
  <2> HIDE DEF x, y
  <2>3. Becomes(S, x \o LineFoot, y \o LineFoot)
    BY <1>4, <1>8, <2>1, BecomesJoined, Zenon
  <2>4. Becomes(S, Long(c), Long(p))
    BY <2>2, <2>3
  <2> QED BY <1>10, <2>4, Zenon DEF Before, S, c, p
<1> QED BY <1>9, <1>10

\* The logger that a program has set up.
Set(window, debug, toFile) ==
    SetLogFile(IF window THEN WindowLogger(debug) ELSE TerminalLogger(debug), toFile)

\* It has the level, the colour, the fields and the outputs of its program.
LEMMA LoggerIs ==
  ASSUME NEW window \in BOOLEAN, NEW debug \in BOOLEAN, NEW toFile \in BOOLEAN
  PROVE  /\ Set(window, debug, toFile).level = IF debug THEN 1 ELSE 2
         /\ Set(window, debug, toFile).color = ~window
         /\ Set(window, debug, toFile).mask = IF window /\ ~debug THEN LOG_STIME ELSE LOG_ALL
         /\ Set(window, debug, toFile).toFile = toFile
         /\ Set(window, debug, toFile).out = IF window THEN {"cerr", "display"} ELSE {"cerr"}
BY DEF Set, SetLogFile, WindowLogger, TerminalLogger, SetLogLevel, SetMask, SetColor, SetOutStream,
       NewLogger, GuiBuf

\* What is logged, and what was meant to be.
Logged(window, debug, toFile, level, path, parts) ==
    LogStream(Set(window, debug, toFile), level, path, parts)

ToLog(window, debug, toFile, level, message, kept) ==
    IF level = 1 /\ ~debug THEN Nothing
    ELSE [line |-> Before(window, debug, ColoredLevelString(level, ~window)) \o Cut(message),
          out  |-> IF window THEN {"cerr", "display"} ELSE {"cerr"},
          file |-> IF toFile THEN Before(window, debug, <<LevelString[level]>>) \o Cut(kept) ELSE <<>>]

\* What is logged is what was meant to be.
LEMMA LogIs ==
  ASSUME NEW window \in BOOLEAN, NEW debug \in BOOLEAN, NEW toFile \in BOOLEAN, NEW level \in Levels,
         NEW path, FileName(path) = <<"file">>, NEW n \in Nat, NEW parts \in [1..n -> MessageParts],
         Len(FlattenSeq(parts)) <= MaxMessage \/ \A i \in 1..n : parts[i][1] # ESC
  PROVE  Logged(window, debug, toFile, level, path, parts)
           = ToLog(window, debug, toFile, level, FlattenSeq(parts),
                   FlattenSeq([i \in 1..n |-> Uncoloured(parts[i])]))
<1> DEFINE lg == Set(window, debug, toFile)
           t == FlattenSeq(parts)
           r == FlattenSeq([i \in 1..n |-> Uncoloured(parts[i])])
           b == Before(window, debug, ColoredLevelString(level, ~window))
           p == Before(window, debug, <<LevelString[level]>>)
           f == Fields(lg.mask, level, lg.color, path)
           sp == <<Blank>>
           line == f \o sp \o Cut(t)
<1>1. Becomes(Tokens, Cut(t), Cut(r))
  BY MessageBecomes
<1>2. Becomes(Tokens, b, p)
  BY BeforeBecomes
<1>3. lg.level = (IF debug THEN 1 ELSE 2) /\ lg.toFile = toFile
      /\ lg.out = IF window THEN {"cerr", "display"} ELSE {"cerr"}
  BY LoggerIs
<1>4. level < lg.level <=> level = 1 /\ ~debug
  <2>1. level \in Nat /\ level >= 1
    BY DEF Levels
  <2> HIDE DEF lg
  <2> QED BY <1>3, <2>1
<1>5. f \o sp = b
  <2>1. lg.color = ~window /\ lg.mask = IF window /\ ~debug THEN LOG_STIME ELSE LOG_ALL
    BY LoggerIs
  <2> HIDE DEF lg
  <2>2. f = Fields(IF window /\ ~debug THEN LOG_STIME ELSE LOG_ALL, level, ~window, path)
    BY <2>1, Zenon
  <2>3. FieldsAre(window, debug, level, path)
    BY BeforeIs, Zenon
  <2> HIDE DEF f
  <2> QED BY <2>2, <2>3, Zenon DEF FieldsAre
<1>6. CASE level < lg.level
  <2>1. Logged(window, debug, toFile, level, path, parts) = Nothing
    BY <1>6, Zenon DEF Logged, LogStream, Log
  <2> QED BY <1>4, <1>6, <2>1, Zenon DEF ToLog
<1>7. CASE ~(level < lg.level)
  <2>1. level >= lg.level
    <3>1. level \in Nat /\ lg.level \in Nat
      BY <1>3 DEF Levels
    <3> HIDE DEF lg
    <3> QED BY <1>7, <3>1
  <2>2. Logged(window, debug, toFile, level, path, parts) =
          [line |-> line, out |-> lg.out, file |-> IF lg.toFile THEN Plain(line) ELSE <<>>]
    BY <1>7, <2>1, Zenon DEF Logged, LogStream, Log, Blank
  <2>3. "endless" \in Tokens
    BY TokensAre
  <2> HIDE DEF lg, t, r, b, p, f, sp
  <2>4. line = b \o Cut(t)
    BY <1>5
  <2>5. Becomes(Tokens, b \o Cut(t), p \o Cut(r))
    BY <1>1, <1>2, <2>3, BecomesJoined, Zenon
  <2> HIDE DEF line
  <2>6. Plain(line) = p \o Cut(r)
    <3>1. Becomes(Tokens, line, p \o Cut(r))
      BY <2>4, <2>5
    <3> QED BY <2>3, <3>1, BecomesIs, Zenon
  <2>7. ToLog(window, debug, toFile, level, t, r) =
          [line |-> b \o Cut(t), out |-> IF window THEN {"cerr", "display"} ELSE {"cerr"},
           file |-> IF toFile THEN p \o Cut(r) ELSE <<>>]
    BY <1>4, <1>7, Zenon DEF ToLog, b, p
  <2>8. Logged(window, debug, toFile, level, path, parts) = ToLog(window, debug, toFile, level, t, r)
    BY <1>3, <2>2, <2>4, <2>6, <2>7
  <2> QED BY <2>8, Zenon DEF t, r
<1> QED BY <1>6, <1>7

\* A line of the log is right.
LEMMA LineLogged ==
  ASSUME WriteLog
  PROVE  TextRight'
<1> DEFINE Dirs == {<<>>, <<"dir", "/", "m", "/">>, <<"dir", "\\">>}
<1>1. PICK window \in BOOLEAN, debug \in BOOLEAN, toFile \in BOOLEAN, level \in Levels,
          dir \in Dirs, parts \in Upto(MessageParts, MaxText) :
        /\ Len(FlattenSeq(parts)) <= MaxMessage \/ \A i \in DOMAIN parts : parts[i][1] # ESC
        /\ Made("log", Logged(window, debug, toFile, level, dir \o <<"file">>, parts),
                ToLog(window, debug, toFile, level, FlattenSeq(parts),
                      FlattenSeq([i \in DOMAIN parts |-> Uncoloured(parts[i])])))
  BY Zenon DEF WriteLog, Logged, Set, ToLog, Before, Short, Long, LineHead, LineFoot, Blank, MessageParts, Uncoloured
<1>2. PICK n \in 0..MaxText : parts \in [1..n -> MessageParts]
  BY <1>1, UptoHas
<1>3. n \in Nat /\ DOMAIN parts = 1..n
  BY <1>2, TextAssumption
<1>4. FileName(dir \o <<"file">>) = <<"file">>
  BY FileNameIs
<1>5. Logged(window, debug, toFile, level, dir \o <<"file">>, parts)
        = ToLog(window, debug, toFile, level, FlattenSeq(parts),
                FlattenSeq([i \in 1..n |-> Uncoloured(parts[i])]))
  BY <1>1, <1>2, <1>3, <1>4, LogIs
<1>6. [i \in DOMAIN parts |-> Uncoloured(parts[i])] = [i \in 1..n |-> Uncoloured(parts[i])]
  BY <1>3
<1> DEFINE got == Logged(window, debug, toFile, level, dir \o <<"file">>, parts)
<1>7. Made("log", got, got)
  BY <1>1, <1>5, <1>6, Zenon
<1> HIDE DEF got
<1> QED BY <1>7 DEF Made, TextRight

-----------------------------------------------------------------------------
(***************************************************************************)
(* All of them.                                                            *)
(***************************************************************************)
\* What was put into a text comes out of it (bisect, split, trim, clearSlash,
\* renderTemplate, BrowserInfo, OsInfo, on_start, listClients, Logger::log).
THEOREM TextsAreRight == TextSpec => []TextRight
<1>1. TextInit => TextRight
  BY DEF TextInit, TextRight, NoText
<1>2. TextRight /\ [TextNext]_text => TextRight'
  <2> SUFFICES ASSUME TextRight, [TextNext]_text PROVE TextRight'
    OBVIOUS
  <2>1. CASE UNCHANGED text
    BY <2>1 DEF TextRight
  <2>2. CASE TextNext
    <3>1. SplitParts \/ SplitQuery \/ ClearPath \/ RenderParts \/ NameBrowser \/ ShowAddresses
          \/ ShowClients \/ WriteLog
      BY <2>2, Zenon DEF TextNext
    <3>2. ASSUME SplitParts PROVE TextRight'
      BY <3>2, PartsSplit, TextAssumption, Zenon
    <3>3. ASSUME SplitQuery PROVE TextRight'
      BY <3>3, QuerySplit, TextAssumption, Zenon
    <3>4. ASSUME ClearPath PROVE TextRight'
      BY <3>4, PathCleared, TextAssumption, Zenon
    <3>5. ASSUME RenderParts PROVE TextRight'
      BY <3>5, TemplateShown, Zenon
    <3>6. ASSUME NameBrowser PROVE TextRight'
      BY <3>6, BrowserNamed, Zenon
    <3>7. ASSUME ShowAddresses PROVE TextRight'
      BY <3>7, AddressesShown, Zenon
    <3>8. ASSUME ShowClients PROVE TextRight'
      BY <3>8, ClientsShown, Zenon
    <3>9. ASSUME WriteLog PROVE TextRight'
      BY <3>9, LineLogged, Zenon
    <3> QED BY <3>1, <3>2, <3>3, <3>4, <3>5, <3>6, <3>7, <3>8, <3>9
  <2> QED BY <2>1, <2>2
<1> QED BY <1>1, <1>2, PTL DEF TextSpec
=============================================================================
