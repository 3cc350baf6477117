--------------------------- MODULE SequenceLemmas ---------------------------
(***************************************************************************)
(* Facts about numbers, recursive functions and sequences that the proofs  *)
(* about texts need.                                                       *)
(*                                                                         *)
(* The argument: of every set of numbers one is the least, since the subsets *)
(* of a finite set are well founded.  So a set that has 0 and with each    *)
(* number the next one has them all, and a function whose value at one place *)
(* is made of that at another one of a smaller measure exists.             *)
(***************************************************************************)
EXTENDS Integers, Sequences, SequencesExt, FiniteSetsExt, FiniteSetTheorems,
        SequenceTheorems, TLAPS

\* Every set of numbers has a least one.
LEMMA LeastNumber ==
  ASSUME NEW T \in SUBSET Nat, T # {}
  PROVE  \E n \in T : \A m \in T : n <= m
<1>1. PICK k \in T : TRUE
  OBVIOUS
<1> DEFINE S == 0..k
           R == StrictSubsetOrdering(S)
           F == {0..n : n \in {j \in T : j <= k}}
<1>2. k \in Nat /\ IsFiniteSet(S)
  BY <1>1, FS_Interval
<1>3. IsWellFoundedOn(R, SUBSET S)
  <2>1. FiniteSubsetsOf(S) = SUBSET S
    BY <1>2, FS_FiniteSubsetsOfFinite, Zenon
  <2> QED BY <2>1, FS_StrictSubsetOrderingWellFounded, Zenon
<1>4. F \subseteq SUBSET S /\ F # {}
  BY <1>1, <1>2
<1>5. \A x, y \in SUBSET S : x \subseteq y /\ x # y => <<x, y>> \in R
  BY DEF StrictSubsetOrdering
<1>6. PICK x \in F : \A y \in F : ~ (<<y, x>> \in R)
  <2> HIDE DEF F, R, S
  <2> QED BY <1>3, <1>4, WFMin, Zenon
<1>7. PICK n \in T : n <= k /\ x = 0..n
  BY <1>6
<1>8. ASSUME NEW m \in T PROVE n <= m
  <2>1. SUFFICES ASSUME m < n PROVE FALSE
    OBVIOUS
  <2>2. m \in Nat /\ n \in Nat /\ m <= k
    BY <1>2, <1>7, <2>1
  <2>3. 0..m \in F /\ 0..m \subseteq 0..n /\ n \in 0..n /\ n \notin 0..m
    BY <2>1, <2>2
  <2>4. 0..m \in SUBSET S /\ 0..n \in SUBSET S
    BY <1>2, <1>7, <2>2
  <2> HIDE DEF F, R, S
  <2> QED BY <1>5, <1>6, <1>7, <2>3, <2>4
<1> QED BY <1>8

\* A set of numbers with 0 and the successors of its elements has them all.
LEMMA Induction ==
  ASSUME NEW T, 0 \in T, \A n \in Nat : n \in T => n + 1 \in T
  PROVE  \A n \in Nat : n \in T
<1> SUFFICES ASSUME NEW k \in Nat, k \notin T PROVE FALSE
  OBVIOUS
<1> DEFINE U == {n \in Nat : n \notin T}
<1>1. PICK n \in U : \A m \in U : n <= m
  BY LeastNumber
<1>2. n # 0 /\ n - 1 \in Nat
  BY <1>1
<1>3. n - 1 \in T
  BY <1>1, <1>2
<1> QED BY <1>1, <1>2, <1>3

\* The least element of a set of numbers.
LEMMA MinIs ==
  ASSUME NEW T \in SUBSET Nat, NEW e \in T, \A i \in T : e <= i
  PROVE  Min(T) = e
<1>1. \E i \in T : \A j \in T : i <= j
  OBVIOUS
<1>2. Min(T) \in T /\ \A i \in T : Min(T) <= i
  BY <1>1, Zenon DEF Min
<1> DEFINE m == Min(T)
<1>3. m \in Nat /\ e \in Nat /\ m <= e /\ e <= m
  BY <1>2
<1> HIDE DEF m
<1>4. m = e
  BY <1>3
<1> QED BY <1>4 DEF m

\* The greatest of some numbers.
LEMMA MaxIsGreatest ==
  ASSUME NEW n \in Nat, NEW T \in SUBSET (1..n), T # {}
  PROVE  Max(T) \in T /\ \A i \in T : i <= Max(T)
<1> DEFINE U == {k \in Nat : \E i \in T : i = n - k}
<1>1. U \in SUBSET Nat /\ U # {}
  <2>1. PICK i \in T : TRUE
    OBVIOUS
  <2>2. n - i \in Nat /\ i = n - (n - i)
    OBVIOUS
  <2>3. n - i \in U
    BY <2>1, <2>2
  <2> QED BY <2>3
<1>2. PICK k \in U : \A l \in U : k <= l
  <2> HIDE DEF U
  <2> QED BY <1>1, LeastNumber
<1>3. PICK i \in T : i = n - k
  BY <1>2
<1>4. \A j \in T : j <= i
  <2> SUFFICES ASSUME NEW j \in T PROVE j <= i
    OBVIOUS
  <2>1. n - j \in Nat /\ j = n - (n - j)
    OBVIOUS
  <2>2. n - j \in U
    BY <2>1
  <2>3. k \in Nat /\ k <= n - j
    BY <1>2, <2>2
  <2> QED BY <1>3, <2>3
<1>5. \E x \in T : \A y \in T : x >= y
  BY <1>3, <1>4
<1>6. Max(T) \in T /\ \A y \in T : Max(T) >= y
  BY <1>5, Zenon DEF Max
<1> DEFINE x == Max(T)
<1>7. x \in T /\ \A y \in T : x >= y
  BY <1>6
<1> HIDE DEF x
<1>9. \A y \in T : y \in Nat
  OBVIOUS
<1>8. \A y \in T : y <= x
  BY <1>7, <1>9
<1> QED BY <1>7, <1>8 DEF x

\* The value of f at i is h of its value at next[i], if that has a smaller measure.
Recursive(f, D, m, next, base, h) ==
    \A i \in D : f[i] = IF m[next[i]] < m[i] THEN h[<<i, f[next[i]]>>] ELSE base[i]

\* There is such a function.
LEMMA Recursion ==
  ASSUME NEW D, NEW S, NEW m \in [D -> Nat], NEW next \in [D -> D], NEW base \in [D -> S],
         NEW h \in [D \X S -> S]
  PROVE  \E f \in [D -> S] : Recursive(f, D, m, next, base, h)
<1> DEFINE Eq(f, i) == f[i] = IF m[next[i]] < m[i] THEN h[<<i, f[next[i]]>>] ELSE base[i]
           Below(f, n) == \A i \in D : m[i] < n => Eq(f, i)
           T == {n \in Nat : \E f \in [D -> S] : Below(f, n)}
<1>1. 0 \in T
  <2>1. base \in [D -> S] /\ Below(base, 0)
    OBVIOUS
  <2> QED BY <2>1
<1>2. ASSUME NEW n \in Nat, n \in T PROVE n + 1 \in T
  <2>1. PICK f \in [D -> S] : Below(f, n)
    BY <1>2
  <2> DEFINE g == [i \in D |-> IF m[next[i]] < m[i] THEN h[<<i, f[next[i]]>>] ELSE base[i]]
  <2>2. g \in [D -> S]
    OBVIOUS
  <2>3. ASSUME NEW i \in D, m[i] < n + 1 PROVE Eq(g, i)
    <3>1. CASE m[next[i]] < m[i]
      <4>1. next[i] \in D /\ m[next[i]] < n /\ m[i] \in Nat /\ m[next[i]] \in Nat
        BY <2>3, <3>1
      <4>2. g[next[i]] = f[next[i]]
        BY <2>1, <4>1
      <4> QED BY <3>1, <4>2
    <3>2. CASE ~ (m[next[i]] < m[i])
      BY <3>2
    <3> QED BY <3>1, <3>2
  <2>4. n + 1 \in Nat /\ Below(g, n + 1)
    BY <2>3
  <2> QED BY <2>2, <2>4
<1>3. \A n \in Nat : \E f \in [D -> S] : Below(f, n)
  <2> HIDE DEF T
  <2>1. \A n \in Nat : n \in T
    BY <1>1, <1>2, Induction
  <2> QED BY <2>1 DEF T
<1>4. ASSUME NEW f \in [D -> S], NEW g \in [D -> S], NEW k \in Nat, Below(f, k), Below(g, k)
      PROVE  \A i \in D : m[i] < k => f[i] = g[i]
  <2> DEFINE U == {n \in Nat : n <= k => \A i \in D : m[i] < n => f[i] = g[i]}
  <2>1. 0 \in U
    OBVIOUS
  <2>2. ASSUME NEW n \in Nat, n \in U PROVE n + 1 \in U
    <3>1. SUFFICES ASSUME n + 1 <= k, NEW i \in D, m[i] < n + 1 PROVE f[i] = g[i]
      OBVIOUS
    <3>2. \A j \in D : m[j] < n => f[j] = g[j]
      BY <2>2, <3>1
    <3>3. m[i] \in Nat /\ m[i] < k /\ next[i] \in D /\ m[next[i]] \in Nat
      BY <3>1
    <3>4. m[next[i]] < m[i] => f[next[i]] = g[next[i]]
      BY <3>1, <3>2, <3>3
    <3>5. Eq(f, i) /\ Eq(g, i)
      BY <1>4, <3>3
    <3> QED BY <3>4, <3>5
  <2> HIDE DEF U
  <2>3. k \in U
    BY <2>1, <2>2, Induction
  <2> QED BY <2>3 DEF U
<1> HIDE DEF T
<1> DEFINE f(n) == CHOOSE g \in [D -> S] : Below(g, n)
           F == [i \in D |-> f(m[i] + 1)[i]]
<1>5. ASSUME NEW n \in Nat PROVE f(n) \in [D -> S] /\ Below(f(n), n)
  <2> HIDE DEF Below
  <2> QED BY <1>3
<1> HIDE DEF f
<1>6. ASSUME NEW n \in Nat, NEW k \in Nat, n <= k PROVE \A i \in D : m[i] < n => f(n)[i] = f(k)[i]
  <2>1. f(n) \in [D -> S] /\ Below(f(n), n) /\ f(k) \in [D -> S] /\ Below(f(k), k)
    BY <1>5
  <2>2. Below(f(k), n)
    <3> SUFFICES ASSUME NEW i \in D, m[i] < n PROVE Eq(f(k), i)
      OBVIOUS
    <3>1. m[i] \in Nat /\ m[i] < k
      BY <1>6
    <3> QED BY <2>1, <3>1
  <2> HIDE DEF Below
  <2> QED BY <2>1, <2>2, <1>4
<1>7. F \in [D -> S]
  BY <1>5
<1>8. ASSUME NEW i \in D PROVE Eq(F, i)
  <2> DEFINE k == m[i] + 1
  <2>1. m[i] \in Nat /\ next[i] \in D /\ m[next[i]] \in Nat /\ k \in Nat /\ m[i] < k
    OBVIOUS
  <2>2. F[i] = f(k)[i] /\ F[next[i]] = f(m[next[i]] + 1)[next[i]]
    BY <2>1
  <2>3. Eq(f(k), i)
    BY <1>5, <2>1
  <2>4. CASE m[next[i]] < m[i]
    <3>1. m[next[i]] + 1 <= k /\ m[next[i]] < m[next[i]] + 1 /\ m[next[i]] + 1 \in Nat
      BY <2>1, <2>4
    <3>2. f(m[next[i]] + 1)[next[i]] = f(k)[next[i]]
      BY <1>6, <2>1, <3>1
    <3> HIDE DEF F
    <3> QED BY <2>2, <2>3, <2>4, <3>2
  <2>5. CASE ~ (m[next[i]] < m[i])
    <3> HIDE DEF F
    <3> QED BY <2>2, <2>3, <2>5
  <2> QED BY <2>4, <2>5
<1> HIDE DEF F
<1> QED BY <1>7, <1>8 DEF Recursive

\* A sequence of whatever there is.
IsList(s) == \E A : s \in Seq(A)

\* The places of a sequence.
LEMMA ListPlaces ==
  ASSUME NEW s, IsList(s)
  PROVE  DOMAIN s = 1..Len(s)
BY DEF IsList

\* A sequence over more.
LEMMA SeqOverMore ==
  ASSUME NEW A, NEW B, A \subseteq B, NEW s \in Seq(A)
  PROVE  s \in Seq(B)
OBVIOUS

\* One message more.
LEMMA OneMore ==
  ASSUME NEW s, IsList(s), NEW m
  PROVE  /\ IsList(Append(s, m)) /\ Len(s) \in Nat /\ Len(Append(s, m)) = Len(s) + 1
         /\ Append(s, m)[Len(s) + 1] = m
         /\ \A i \in 1..Len(s) : Append(s, m)[i] = s[i]
<1>1. PICK A : s \in Seq(A)
  BY DEF IsList
<1> DEFINE W == A \cup {m}
           v == Append(s, m)
<1>2. s \in Seq(W) /\ m \in W
  <2>1. A \subseteq W /\ m \in W
    OBVIOUS
  <2> HIDE DEF W
  <2> QED BY <1>1, <2>1
<1> HIDE DEF W
<1>3. /\ v \in Seq(W) /\ Len(s) \in Nat /\ Len(v) = Len(s) + 1 /\ v[Len(s) + 1] = m
      /\ \A i \in 1..Len(s) : v[i] = s[i]
  BY <1>2
<1> QED BY <1>3, Zenon DEF IsList

\* w has the words of u and behind them those of v.
IsConcat(W, u, v, w) ==
    /\ w \in Seq(W) /\ Len(w) = Len(u) + Len(v)
    /\ \A i \in 1..Len(u) : w[i] = u[i]
    /\ \A i \in 1..Len(v) : w[Len(u) + i] = v[i]

\* Places in two sequences, one behind the other.
LEMMA ConcatPlaces ==
  ASSUME NEW W, NEW u \in Seq(W), NEW v \in Seq(W)
  PROVE  IsConcat(W, u, v, u \o v)
<1>1. /\ Len(u) \in Nat /\ Len(v) \in Nat /\ Len(u \o v) = Len(u) + Len(v)
      /\ \A i \in 1..(Len(u) + Len(v)) :
            (u \o v)[i] = IF i <= Len(u) THEN u[i] ELSE v[i - Len(u)]
  BY ConcatProperties, LenProperties
<1>2. u \o v \in Seq(W)
  BY ConcatProperties
<1>3. ASSUME NEW i \in 1..Len(v) PROVE (u \o v)[Len(u) + i] = v[i]
  <2>1. Len(u) + i \in 1..(Len(u) + Len(v)) /\ ~ (Len(u) + i <= Len(u)) /\ (Len(u) + i) - Len(u) = i
    BY <1>1
  <2> QED BY <1>1, <2>1
<1>4. \A i \in 1..Len(u) : (u \o v)[i] = u[i]
  BY <1>1
<1> QED BY <1>1, <1>2, <1>3, <1>4 DEF IsConcat

\* What FlattenSeq computes.
LEMMA FlattenFcn ==
  ASSUME NEW S, NEW s \in Seq(Seq(S)), s # <<>>
  PROVE  \E f \in [1..Len(s) -> Seq(S)] :
           /\ FlattenSeq(s) = f[Len(s)]
           /\ \A i \in 1..Len(s) : f[i] = IF i = 1 THEN s[1] ELSE f[i - 1] \o s[i]
<1> DEFINE D == 1..Len(s)
           V == Seq(S)
           m == [i \in D |-> i]
           next == [i \in D |-> IF i = 1 THEN 1 ELSE i - 1]
           base == [i \in D |-> s[i]]
           h == [x \in D \X V |-> x[2] \o s[x[1]]]
           Is(f) == f = [i \in D |-> IF i = 1 THEN s[i] ELSE f[i - 1] \o s[i]]
<1>1. Len(s) \in Nat \ {0} /\ \A i \in D : s[i] \in V
  OBVIOUS
<1>2. m \in [D -> Nat] /\ next \in [D -> D] /\ base \in [D -> V] /\ h \in [D \X V -> V]
  <2>1. h \in [D \X V -> V]
    BY <1>1
  <2> QED BY <1>1, <2>1
<1>3. PICK f \in [D -> V] : Recursive(f, D, m, next, base, h)
  <2> HIDE DEF D, V, m, next, base, h
  <2>1. \E f \in [D -> V] : Recursive(f, D, m, next, base, h)
    BY <1>2, Recursion, Zenon
  <2> QED BY <2>1
<1>4. \A i \in D : f[i] = IF i = 1 THEN s[i] ELSE f[i - 1] \o s[i]
  <2> SUFFICES ASSUME NEW i \in D PROVE f[i] = IF i = 1 THEN s[i] ELSE f[i - 1] \o s[i]
    OBVIOUS
  <2>0. f[i] = IF m[next[i]] < m[i] THEN h[<<i, f[next[i]]>>] ELSE base[i]
    BY <1>3 DEF Recursive
  <2>1. CASE i = 1
    BY <2>0, <2>1
  <2>2. CASE i # 1
    <3>1. next[i] = i - 1 /\ i - 1 \in D
      BY <1>1, <2>2
    <3>2. m[next[i]] < m[i]
      BY <1>1, <3>1
    <3>4. <<i, f[i - 1]>> \in D \X V
      <4>1. f[i - 1] \in V
        BY <1>3, <3>1
      <4> HIDE DEF V, D
      <4> QED BY <4>1
    <3>3. f[i] = h[<<i, f[i - 1]>>]
      BY <2>0, <3>1, <3>2
    <3> QED BY <2>2, <3>3, <3>4
  <2> QED BY <2>1, <2>2
<1>5. Is(f)
  <2>1. f = [i \in D |-> f[i]]
    BY <1>3
  <2> HIDE DEF D
  <2> QED BY <1>4, <2>1
<1>6. Is(CHOOSE g : Is(g))
  <2> HIDE DEF Is
  <2> QED BY <1>5
<1> DEFINE g == CHOOSE g : Is(g)
<1>7. FlattenSeq(s) = g[Len(s)]
  BY <1>1 DEF FlattenSeq
<1>8. g = [i \in D |-> IF i = 1 THEN s[i] ELSE g[i - 1] \o s[i]]
  BY <1>6
<1> HIDE DEF g
<1>9. \A i \in D : g[i] \in V
  <2> DEFINE T == {n \in Nat : n + 1 \in D => g[n + 1] \in V}
  <2>1. 0 \in T
    BY <1>1, <1>8
  <2>2. ASSUME NEW n \in Nat, n \in T PROVE n + 1 \in T
    <3>1. SUFFICES ASSUME n + 1 + 1 \in D PROVE g[n + 1 + 1] \in V
      OBVIOUS
    <3>2. n + 1 \in D /\ g[n + 1] \in V
      BY <1>1, <2>2, <3>1
    <3>3. g[n + 1 + 1] = g[n + 1] \o s[n + 1 + 1]
      <4>1. n + 1 + 1 # 1 /\ (n + 1 + 1) - 1 = n + 1
        OBVIOUS
      <4> QED BY <1>8, <3>1, <4>1
    <3> QED BY <1>1, <3>1, <3>2, <3>3
  <2> HIDE DEF T
  <2>3. \A n \in Nat : n \in T
    BY <2>1, <2>2, Induction
  <2> SUFFICES ASSUME NEW i \in D PROVE g[i] \in V
    OBVIOUS
  <2>4. i - 1 \in Nat /\ i - 1 + 1 = i
    BY <1>1
  <2> QED BY <2>3, <2>4 DEF T
<1>10. g \in [D -> V] /\ \A i \in D : g[i] = IF i = 1 THEN s[1] ELSE g[i - 1] \o s[i]
  BY <1>8, <1>9
<1> QED BY <1>7, <1>10

\* FlattenSeq puts the sequences one behind the other.
LEMMA FlattenEmpty == FlattenSeq(<<>>) = <<>>
BY DEF FlattenSeq

\* A pair behind a sequence.
LEMMA ConcatPair ==
  ASSUME NEW S, NEW u \in Seq(S), NEW v \in Seq(S), Len(v) = 2
  PROVE  /\ Len(u \o v) = Len(u) + 2
         /\ \A i \in 1..Len(u) : (u \o v)[i] = u[i]
         /\ (u \o v)[Len(u) + 1] = v[1] /\ (u \o v)[Len(u) + 2] = v[2]
<1>1. /\ Len(u) \in Nat /\ Len(u \o v) = Len(u) + Len(v)
      /\ \A i \in 1..(Len(u) + Len(v)) :
            (u \o v)[i] = IF i <= Len(u) THEN u[i] ELSE v[i - Len(u)]
  BY ConcatProperties, LenProperties
<1>2. /\ Len(u) + 1 \in 1..(Len(u) + Len(v)) /\ Len(u) + 2 \in 1..(Len(u) + Len(v))
      /\ (Len(u) + 1) - Len(u) = 1 /\ (Len(u) + 2) - Len(u) = 2
  BY <1>1
<1>3. (u \o v)[Len(u) + 1] = v[1] /\ (u \o v)[Len(u) + 2] = v[2]
  BY <1>1, <1>2
<1> QED BY <1>1, <1>3

\* Pairs, one behind the other.
ArePairs(S, n, p, b) ==
    /\ b \in Seq(S) /\ Len(b) = 2 * n
    /\ \A i \in 1..n : b[2 * i - 1] = p[i][1] /\ b[2 * i] = p[i][2]

LEMMA FlattenPairs ==
  ASSUME NEW S, NEW n \in Nat, NEW p \in [1..n -> S \X S]
  PROVE  ArePairs(S, n, p, FlattenSeq(p))
<1> SUFFICES /\ FlattenSeq(p) \in Seq(S) /\ Len(FlattenSeq(p)) = 2 * n
             /\ \A i \in 1..n : /\ FlattenSeq(p)[2 * i - 1] = p[i][1]
                                /\ FlattenSeq(p)[2 * i] = p[i][2]
  BY DEF ArePairs
<1>1. p \in Seq(Seq(S)) /\ Len(p) = n /\ \A i \in 1..n : p[i] \in Seq(S) /\ Len(p[i]) = 2
  <2>1. \A i \in 1..n : p[i] \in Seq(S) /\ Len(p[i]) = 2
    <3> SUFFICES ASSUME NEW i \in 1..n PROVE p[i] \in Seq(S) /\ Len(p[i]) = 2
      OBVIOUS
    <3>1. PICK a \in S, b \in S : p[i] = <<a, b>>
      OBVIOUS
    <3> QED BY <3>1
  <2>2. p \in [1..n -> Seq(S)]
    BY <2>1
  <2> QED BY <2>1, <2>2
<1>2. CASE n = 0
  <2>1. p = <<>>
    BY <1>1, <1>2
  <2>2. FlattenSeq(p) = <<>>
    BY <2>1, FlattenEmpty
  <2> QED BY <1>2, <2>2
<1>3. CASE n # 0
  <2>1. PICK f \in [1..n -> Seq(S)] :
          /\ FlattenSeq(p) = f[n]
          /\ \A i \in 1..n : f[i] = IF i = 1 THEN p[1] ELSE f[i - 1] \o p[i]
    <3>1. p # <<>>
      BY <1>1, <1>3
    <3>2. \E f \in [1..Len(p) -> Seq(S)] :
            /\ FlattenSeq(p) = f[Len(p)]
            /\ \A i \in 1..Len(p) : f[i] = IF i = 1 THEN p[1] ELSE f[i - 1] \o p[i]
      BY <1>1, <3>1, FlattenFcn, Zenon
    <3>3. Len(p) = n
      BY <1>1, Zenon
    <3> QED BY <3>2, <3>3, Zenon
  <2> DEFINE Is(k) == /\ Len(f[k]) = 2 * k
                      /\ \A i \in 1..k : f[k][2 * i - 1] = p[i][1] /\ f[k][2 * i] = p[i][2]
             T == {k \in Nat : k + 1 <= n => Is(k + 1)}
  <2>2. 0 \in T
    BY <1>1, <1>3, <2>1
  <2>3. ASSUME NEW k \in Nat, k \in T PROVE k + 1 \in T
    <3>1. SUFFICES ASSUME k + 1 + 1 <= n PROVE Is(k + 1 + 1)
      OBVIOUS
    <3> DEFINE u == f[k + 1]
               v == p[k + 1 + 1]
    <3>2. u \in Seq(S) /\ Is(k + 1)
      BY <2>1, <2>3, <3>1
    <3>3. v \in Seq(S) /\ Len(v) = 2 /\ k + 1 + 1 \in 1..n
      BY <1>1, <3>1
    <3>4. f[k + 1 + 1] = u \o v
      <4>1. k + 1 + 1 # 1 /\ (k + 1 + 1) - 1 = k + 1
        OBVIOUS
      <4> QED BY <2>1, <3>3, <4>1
    <3>5. Len(u) = 2 * (k + 1) /\ Len(u \o v) = 2 * (k + 1 + 1)
      <4>1. Len(u) = 2 * (k + 1)
        BY <3>2
      <4>2. u \in Seq(S) /\ v \in Seq(S) /\ Len(v) = 2
        BY <3>2, <3>3
      <4> HIDE DEF u, v, Is
      <4>3. Len(u \o v) = Len(u) + 2
        BY <4>2, ConcatPair, Zenon
      <4> QED BY <4>1, <4>2, <4>3
    <3>6. ASSUME NEW i \in 1..(k + 1 + 1) PROVE (u \o v)[2 * i - 1] = p[i][1] /\ (u \o v)[2 * i] = p[i][2]
      <4>1. CASE i \in 1..(k + 1)
        <5>1. 2 * i - 1 \in 1..Len(u) /\ 2 * i \in 1..Len(u)
          BY <3>5, <4>1
        <5>2. u[2 * i - 1] = p[i][1] /\ u[2 * i] = p[i][2]
          BY <3>2, <4>1
        <5> HIDE DEF u, v
        <5> QED BY <3>2, <3>3, <5>1, <5>2
      <4>2. CASE i = k + 1 + 1
        <5>1. 2 * i - 1 = Len(u) + 1 /\ 2 * i = Len(u) + 2
          BY <3>5, <4>2
        <5>2. p[i] = v /\ u \in Seq(S) /\ v \in Seq(S) /\ Len(u) \in Nat /\ Len(v) = 2
          BY <3>2, <3>3, <4>2
        <5> HIDE DEF u, v, Is
        <5>3. (u \o v)[Len(u) + 1] = v[1] /\ (u \o v)[Len(u) + 2] = v[2]
          BY <5>2, ConcatPair, Zenon
        <5> QED BY <5>1, <5>2, <5>3
      <4>3. i \in 1..(k + 1) \/ i = k + 1 + 1
        OBVIOUS
      <4> QED BY <4>1, <4>2, <4>3
    <3> QED BY <3>4, <3>5, <3>6
  <2> HIDE DEF T
  <2>4. \A k \in Nat : k \in T
    BY <2>2, <2>3, Induction
  <2>5. n - 1 \in Nat /\ (n - 1) + 1 = n
    BY <1>3
  <2>6. Is(n)
    <3>1. n - 1 \in T
      BY <2>4, <2>5
    <3>2. Is((n - 1) + 1)
      BY <2>5, <3>1 DEF T
    <3> HIDE DEF Is
    <3> QED BY <2>5, <3>2
  <2> QED BY <1>3, <2>1, <2>6
<1> QED BY <1>2, <1>3

\* SetToSeq lists every element of a finite set once.
LEMMA SetToSeqLists ==
  ASSUME NEW T, IsFiniteSet(T)
  PROVE  /\ Cardinality(T) \in Nat
         /\ SetToSeq(T) \in [1..Cardinality(T) -> T]
         /\ \A i, j \in 1..Cardinality(T) : SetToSeq(T)[i] = SetToSeq(T)[j] => i = j
         /\ \A x \in T : \E i \in 1..Cardinality(T) : SetToSeq(T)[i] = x
<1> DEFINE n == Cardinality(T)
           D == 1..n
           f == SetToSeq(T)
           R == Range(f)
<1>1. n \in Nat /\ ExistsBijection(D, T)
  BY FS_CardinalityType, Zenon
<1>2. f \in [D -> T] /\ IsInjective(f)
  <2>1. PICK g \in [D -> T] : IsInjective(g)
    BY <1>1 DEF ExistsBijection, Bijection, Injection
  <2> QED BY <2>1 DEF SetToSeq
<1> HIDE DEF f
<1>3. f \in Bijection(D, R)
  <2>1. f \in [D -> R] /\ \A t \in R : \E s \in D : f[s] = t
    BY <1>2 DEF Range
  <2> QED BY <1>2, <2>1 DEF Bijection, Injection, Surjection
<1>4. IsFiniteSet(D) /\ Cardinality(D) = n
  <2>1. 1 \in Int /\ n \in Int
    BY <1>1
  <2> HIDE DEF n
  <2> QED BY <1>1, <2>1, FS_Interval
<1>5. Cardinality(R) = n
  <2>1. ExistsBijection(D, R)
    BY <1>3 DEF ExistsBijection
  <2> HIDE DEF D, R, n
  <2> QED BY <1>4, <2>1, FS_Bijection
<1>6. R = T
  <2>1. R \in SUBSET T
    BY <1>2 DEF Range
  <2> HIDE DEF R
  <2> QED BY <1>5, <2>1, FS_Subset
<1>7. \A i, j \in D : f[i] = f[j] => i = j
  BY <1>2 DEF IsInjective
<1>8. \A x \in T : \E i \in D : f[i] = x
  BY <1>2, <1>6 DEF Range
<1> QED BY <1>1, <1>2, <1>7, <1>8 DEF f

-----------------------------------------------------------------------------
(***************************************************************************)
(* Sequences that are put together, and the places of their elements.      *)
(***************************************************************************)
\* A function whose value at each number is made of that at a greater one.
IsOnward(f, n, next, base, h) ==
    \A i \in 1..n : f[i] = IF i < next[i] /\ next[i] <= n THEN h[<<i, f[next[i]]>>] ELSE base[i]

\* There is such a function.
LEMMA Onward ==
  ASSUME NEW n \in Nat, NEW S, NEW next \in [1..n -> Nat], NEW base \in [1..n -> S],
         NEW h \in [(1..n) \X S -> S]
  PROVE  \E f \in [1..n -> S] : IsOnward(f, n, next, base, h)
<1> DEFINE D == 1..n
           m == [i \in D |-> n - i]
           on == [i \in D |-> IF i < next[i] /\ next[i] <= n THEN next[i] ELSE i]
<1>1. m \in [D -> Nat] /\ on \in [D -> D]
  OBVIOUS
<1>2. PICK f \in [D -> S] : Recursive(f, D, m, on, base, h)
  <2>1. base \in [D -> S] /\ h \in [D \X S -> S]
    OBVIOUS
  <2> HIDE DEF D, m, on
  <2> QED BY <1>1, <2>1, Recursion, Zenon
<1>3. ASSUME NEW i \in D
      PROVE  f[i] = IF i < next[i] /\ next[i] <= n THEN h[<<i, f[next[i]]>>] ELSE base[i]
  <2>1. f[i] = IF m[on[i]] < m[i] THEN h[<<i, f[on[i]]>>] ELSE base[i]
    BY <1>2, Zenon DEF Recursive
  <2>2. CASE i < next[i] /\ next[i] <= n
    <3>1. on[i] = next[i] /\ m[on[i]] < m[i]
      BY <2>2
    <3> HIDE DEF m, on
    <3> QED BY <2>1, <2>2, <3>1, Zenon
  <2>3. CASE ~(i < next[i] /\ next[i] <= n)
    <3>1. ~(m[on[i]] < m[i])
      BY <2>3
    <3> HIDE DEF m, on
    <3> QED BY <2>1, <2>3, <3>1, Zenon
  <2> QED BY <2>2, <2>3
<1>4. IsOnward(f, n, next, base, h)
  BY <1>3 DEF IsOnward
<1> QED BY <1>2, <1>4

\* What holds at a number if it holds at all greater ones.
LEMMA Backward ==
  ASSUME NEW n \in Nat, NEW T, \A i \in 1..n : (\A k \in (i + 1)..n : k \in T) => i \in T
  PROVE  \A i \in 1..n : i \in T
<1> DEFINE U == {d \in Nat : \A i \in 1..n : n - d < i => i \in T}
<1>1. 0 \in U
  OBVIOUS
<1>2. ASSUME NEW d \in Nat, d \in U PROVE d + 1 \in U
  <2> SUFFICES ASSUME NEW i \in 1..n, n - (d + 1) < i PROVE i \in T
    OBVIOUS
  <2>1. \A k \in (i + 1)..n : k \in 1..n /\ n - d < k
    OBVIOUS
  <2>2. \A k \in (i + 1)..n : k \in T
    BY <1>2, <2>1
  <2> QED BY <2>2
<1> HIDE DEF U
<1>3. \A d \in Nat : d \in U
  BY <1>1, <1>2, Induction
<1>4. n \in U
  BY <1>3
<1> SUFFICES ASSUME NEW i \in 1..n PROVE i \in T
  OBVIOUS
<1>5. n - n < i
  OBVIOUS
<1> QED BY <1>4, <1>5 DEF U

\* g has behind each place what the sequences from there on are together.
IsBehind(S, n, s, g) ==
    /\ g \in [1..(n + 1) -> Seq(S)] /\ g[n + 1] = <<>>
    /\ \A i \in 1..n : g[i] = s[i] \o g[i + 1]

\* Then it has all of them together at its beginning.
LEMMA FlattenBehind ==
  ASSUME NEW S, NEW n \in Nat, NEW s \in [1..n -> Seq(S)], NEW g, IsBehind(S, n, s, g)
  PROVE  FlattenSeq(s) = g[1]
<1>1. s \in Seq(Seq(S)) /\ Len(s) = n
  OBVIOUS
<1>2. CASE n = 0
  <2>1. s = <<>>
    BY <1>1, <1>2
  <2>2. FlattenSeq(s) = <<>>
    BY <2>1, FlattenEmpty
  <2> QED BY <1>2, <2>2 DEF IsBehind
<1>3. CASE n # 0
  <2>1. s # <<>>
    BY <1>1, <1>3
  <2>2. PICK f \in [1..n -> Seq(S)] :
          /\ FlattenSeq(s) = f[n]
          /\ \A i \in 1..n : f[i] = IF i = 1 THEN s[1] ELSE f[i - 1] \o s[i]
    <3>1. \E f \in [1..Len(s) -> Seq(S)] :
            /\ FlattenSeq(s) = f[Len(s)]
            /\ \A i \in 1..Len(s) : f[i] = IF i = 1 THEN s[1] ELSE f[i - 1] \o s[i]
      BY <1>1, <2>1, FlattenFcn, Zenon
    <3> QED BY <1>1, <3>1
  <2>3. /\ g \in [1..(n + 1) -> Seq(S)] /\ g[n + 1] = <<>>
        /\ \A i \in 1..n : g[i] = s[i] \o g[i + 1]
    BY DEF IsBehind
  <2>a. (\A i \in 1..n : f[i] \in Seq(S) /\ s[i] \in Seq(S)) /\ \A i \in 1..(n + 1) : g[i] \in Seq(S)
    BY <2>2, <2>3
  <2> DEFINE Is(k) == f[k] \o g[k + 1] = g[1]
             T == {k \in Nat : k + 1 <= n => Is(k + 1)}
  <2>4. Is(1)
    <3>1. 1 \in 1..n
      BY <1>3
    <3> QED BY <2>2, <2>3, <3>1, Zenon
  <2>5. ASSUME NEW k \in 1..n, k + 1 \in 1..n, Is(k) PROVE Is(k + 1)
    <3> DEFINE j == k + 1
    <3>2. j \in 1..n /\ j + 1 \in 1..(n + 1) /\ j # 1 /\ j - 1 = k
      BY <2>5
    <3>3. f[k] \o g[j] = g[1]
      BY <2>5
    <3> HIDE DEF j
    <3>4. f[j] = f[k] \o s[j] /\ g[j] = s[j] \o g[j + 1]
      BY <2>2, <2>3, <3>2, Zenon
    <3>5. f[k] \in Seq(S) /\ s[j] \in Seq(S) /\ g[j + 1] \in Seq(S)
      BY <2>a, <3>2, Zenon
    <3>6. (f[k] \o s[j]) \o g[j + 1] = f[k] \o (s[j] \o g[j + 1])
      <4> DEFINE x == f[k]
                 y == s[j]
                 z == g[j + 1]
      <4>1. x \in Seq(S) /\ y \in Seq(S) /\ z \in Seq(S)
        BY <3>5
      <4> HIDE DEF x, y, z
      <4>2. (x \o y) \o z = x \o (y \o z)
        BY <4>1, ConcatAssociative
      <4> QED BY <4>2 DEF x, y, z
    <3>7. f[j] \o g[j + 1] = g[1]
      BY <3>3, <3>4, <3>6, Zenon
    <3> QED BY <3>7, Zenon DEF j
  <2> HIDE DEF Is
  <2>6. \A k \in Nat : k \in T
    <3>1. 0 \in T
      BY <2>4
    <3>2. ASSUME NEW k \in Nat, k \in T PROVE k + 1 \in T
      <4> SUFFICES ASSUME k + 1 + 1 <= n PROVE Is(k + 1 + 1)
        OBVIOUS
      <4>1. k + 1 \in 1..n /\ k + 1 + 1 \in 1..n /\ Is(k + 1)
        BY <3>2
      <4> QED BY <2>5, <4>1, Zenon
    <3> HIDE DEF T
    <3> QED BY <3>1, <3>2, Induction
  <2>7. f[n] \o g[n + 1] = g[1]
    <3>1. n - 1 \in Nat /\ (n - 1) + 1 = n
      BY <1>3
    <3>2. n - 1 \in T
      BY <2>6, <3>1
    <3>3. Is(n)
      BY <3>1, <3>2
    <3> QED BY <3>3 DEF Is
  <2>8. f[n] \in Seq(S)
    BY <1>3, <2>2
  <2>9. f[n] \o <<>> = f[n]
    BY <2>8, ConcatEmptySeq
  <2> QED BY <2>2, <2>3, <2>7, <2>9
<1> QED BY <1>2, <1>3

\* The words of each sequence stand in b behind off.
LaidOut(S, n, s, b, off) ==
    /\ b \in Seq(S) /\ off \in [1..(n + 1) -> Nat] /\ off[1] = 0 /\ Len(b) = off[n + 1]
    /\ \A i \in 1..n : /\ off[i + 1] = off[i] + Len(s[i])
                       /\ \A k \in 1..Len(s[i]) : b[off[i] + k] = s[i][k]

\* Sequences that are put together have their places.
LEMMA FlattenPlaces ==
  ASSUME NEW S, NEW n \in Nat, NEW s \in [1..n -> Seq(S)]
  PROVE  \E off : LaidOut(S, n, s, FlattenSeq(s), off)
<1>1. s \in Seq(Seq(S)) /\ Len(s) = n /\ \A i \in 1..n : s[i] \in Seq(S) /\ Len(s[i]) \in Nat
  OBVIOUS
<1>2. CASE n = 0
  <2> DEFINE off == [i \in 1..1 |-> 0]
  <2>1. s = <<>>
    BY <1>1, <1>2
  <2>2. FlattenSeq(s) = <<>>
    BY <2>1, FlattenEmpty
  <2>3. LaidOut(S, n, s, FlattenSeq(s), off)
    BY <1>2, <2>2 DEF LaidOut
  <2> QED BY <2>3
<1>3. CASE n # 0
  <2>1. s # <<>>
    BY <1>1, <1>3
  <2>2. PICK f \in [1..n -> Seq(S)] :
          /\ FlattenSeq(s) = f[n]
          /\ \A i \in 1..n : f[i] = IF i = 1 THEN s[1] ELSE f[i - 1] \o s[i]
    <3>1. \E f \in [1..Len(s) -> Seq(S)] :
            /\ FlattenSeq(s) = f[Len(s)]
            /\ \A i \in 1..Len(s) : f[i] = IF i = 1 THEN s[1] ELSE f[i - 1] \o s[i]
      BY <1>1, <2>1, FlattenFcn, Zenon
    <3> QED BY <1>1, <3>1
  <2> DEFINE off == [i \in 1..(n + 1) |-> IF i = 1 THEN 0 ELSE Len(f[i - 1])]
  <2>3. \A i \in 1..n : f[i] \in Seq(S) /\ Len(f[i]) \in Nat
    BY <2>2
  <2>4. ASSUME NEW i \in 1..n, i # 1 PROVE IsConcat(S, f[i - 1], s[i], f[i])
    <3>1. i - 1 \in 1..n /\ f[i] = f[i - 1] \o s[i]
      BY <2>2, <2>4
    <3> QED BY <1>1, <2>3, <3>1, ConcatPlaces
  <2>5. off \in [1..(n + 1) -> Nat] /\ off[1] = 0 /\ off[n + 1] = Len(f[n])
    <3>1. \A i \in 1..(n + 1) : i # 1 => i - 1 \in 1..n
      OBVIOUS
    <3>2. n + 1 # 1 /\ (n + 1) - 1 = n /\ n + 1 \in 1..(n + 1) /\ 1 \in 1..(n + 1)
      BY <1>3
    <3> QED BY <2>3, <3>1, <3>2
  <2>6. ASSUME NEW i \in 1..n
        PROVE  /\ off[i + 1] = Len(f[i]) /\ off[i + 1] = off[i] + Len(s[i])
               /\ \A k \in 1..Len(s[i]) : f[i][off[i] + k] = s[i][k]
    <3>1. i + 1 \in 1..(n + 1) /\ i + 1 # 1 /\ (i + 1) - 1 = i /\ i \in 1..(n + 1)
      OBVIOUS
    <3>2. off[i + 1] = Len(f[i])
      BY <3>1
    <3>3. CASE i = 1
      BY <1>1, <2>2, <3>2, <3>3
    <3>4. CASE i # 1
      <4>1. off[i] = Len(f[i - 1])
        BY <3>1, <3>4
      <4>2. IsConcat(S, f[i - 1], s[i], f[i])
        BY <2>4, <3>4
      <4> QED BY <3>2, <4>1, <4>2 DEF IsConcat
    <3> QED BY <3>3, <3>4, <3>2
  <2>7. ASSUME NEW i \in 1..n
        PROVE  \A p \in 1..Len(f[i]) : f[n][p] = f[i][p]
    <3> DEFINE T == {d \in Nat : i + d <= n => /\ Len(f[i]) <= Len(f[i + d])
                                               /\ \A p \in 1..Len(f[i]) : f[i + d][p] = f[i][p]}
    <3>1. 0 \in T
      BY <2>3
    <3>2. ASSUME NEW d \in Nat, d \in T PROVE d + 1 \in T
      <4> SUFFICES ASSUME i + (d + 1) <= n
                   PROVE  /\ Len(f[i]) <= Len(f[i + (d + 1)])
                          /\ \A p \in 1..Len(f[i]) : f[i + (d + 1)][p] = f[i][p]
        OBVIOUS
      <4> DEFINE j == i + (d + 1)
      <4>1. j \in 1..n /\ j # 1 /\ j - 1 = i + d /\ j - 1 \in 1..n
        OBVIOUS
      <4>2. Len(f[i]) <= Len(f[j - 1]) /\ \A p \in 1..Len(f[i]) : f[j - 1][p] = f[i][p]
        BY <3>2, <4>1
      <4> HIDE DEF j
      <4>3. IsConcat(S, f[j - 1], s[j], f[j])
        BY <2>4, <4>1
      <4>4. Len(f[j - 1]) \in Nat /\ Len(s[j]) \in Nat /\ Len(f[i]) \in Nat
        BY <1>1, <2>3, <4>1
      <4>5. Len(f[j]) = Len(f[j - 1]) + Len(s[j]) /\ \A p \in 1..Len(f[j - 1]) : f[j][p] = f[j - 1][p]
        BY <4>3, Zenon DEF IsConcat
      <4>6. Len(f[i]) <= Len(f[j])
        <5> DEFINE x == Len(f[i])
                   y == Len(f[j - 1])
                   z == Len(s[j])
        <5>1. x <= y /\ x \in Nat /\ y \in Nat /\ z \in Nat /\ Len(f[j]) = y + z
          BY <4>2, <4>4, <4>5, Zenon
        <5> HIDE DEF x, y, z
        <5>2. x <= Len(f[j])
          BY <5>1
        <5> QED BY <5>2 DEF x
      <4>7. ASSUME NEW p \in 1..Len(f[i]) PROVE f[j][p] = f[i][p]
        <5>1. p \in 1..Len(f[j - 1])
          BY <4>2, <4>4
        <5> QED BY <4>2, <4>5, <5>1, Zenon
      <4> QED BY <4>6, <4>7 DEF j
    <3> HIDE DEF T
    <3>3. \A d \in Nat : d \in T
      BY <3>1, <3>2, Induction
    <3>4. n - i \in Nat /\ i + (n - i) = n
      OBVIOUS
    <3>5. n - i \in T
      BY <3>3, <3>4
    <3> QED BY <3>4, <3>5 DEF T
  <2>8. ASSUME NEW i \in 1..n, NEW k \in 1..Len(s[i]) PROVE f[n][off[i] + k] = s[i][k]
    <3> HIDE DEF off
    <3>1. Len(f[i]) = off[i] + Len(s[i]) /\ f[i][off[i] + k] = s[i][k]
      BY <2>6
    <3>2. off[i] \in Nat /\ Len(s[i]) \in Nat
      BY <1>1, <2>5
    <3>3. off[i] + k \in 1..Len(f[i])
      BY <3>1, <3>2
    <3> QED BY <2>7, <3>1, <3>3
  <2>9. f[n] \in Seq(S)
    BY <1>3, <2>3
  <2> HIDE DEF off
  <2>10. LaidOut(S, n, s, f[n], off)
    BY <2>5, <2>6, <2>8, <2>9 DEF LaidOut
  <2> QED BY <2>2, <2>10
<1> QED BY <1>2, <1>3

\* The places do not decrease, and there are no others.
LEMMA PlacesGrow ==
  ASSUME NEW S, NEW n \in Nat, NEW s \in [1..n -> Seq(S)], NEW b, NEW off, LaidOut(S, n, s, b, off),
         NEW i \in 1..(n + 1), NEW j \in i..(n + 1)
  PROVE  off[i] <= off[j]
<1> DEFINE T == {d \in Nat : i + d <= n + 1 => off[i] <= off[i + d]}
<1>1. off \in [1..(n + 1) -> Nat] /\ \A a \in 1..n : off[a + 1] = off[a] + Len(s[a]) /\ Len(s[a]) \in Nat
  <2>1. \A a \in 1..n : Len(s[a]) \in Nat
    OBVIOUS
  <2> QED BY <2>1 DEF LaidOut
<1>2. 0 \in T
  BY <1>1
<1>3. ASSUME NEW d \in Nat, d \in T PROVE d + 1 \in T
  <2> SUFFICES ASSUME i + (d + 1) <= n + 1 PROVE off[i] <= off[i + (d + 1)]
    OBVIOUS
  <2> DEFINE a == i + d
  <2>1. a \in 1..n /\ a + 1 = i + (d + 1) /\ off[i] <= off[a]
    BY <1>3
  <2> HIDE DEF a
  <2>2. off[a + 1] = off[a] + Len(s[a]) /\ Len(s[a]) \in Nat /\ off[a] \in Nat /\ off[i] \in Nat
    BY <1>1, <2>1
  <2> QED BY <2>1, <2>2
<1> HIDE DEF T
<1>4. \A d \in Nat : d \in T
  BY <1>2, <1>3, Induction
<1>5. j - i \in Nat /\ i + (j - i) = j
  OBVIOUS
<1>6. j - i \in T
  BY <1>4, <1>5
<1> QED BY <1>5, <1>6 DEF T

HasPlace(n, s, off, p) == \E i \in 1..n : \E k \in 1..Len(s[i]) : p = off[i] + k

\* Each place belongs to one of the sequences.
LEMMA EachPlace ==
  ASSUME NEW S, NEW n \in Nat, NEW s \in [1..n -> Seq(S)], NEW b, NEW off, LaidOut(S, n, s, b, off),
         NEW p \in 1..Len(b)
  PROVE  HasPlace(n, s, off, p)
<1> DEFINE T == {i \in 1..(n + 1) : p <= off[i]}
<1>1. off \in [1..(n + 1) -> Nat] /\ \A a \in 1..n : off[a + 1] = off[a] + Len(s[a]) /\ Len(s[a]) \in Nat
  <2>1. \A a \in 1..n : Len(s[a]) \in Nat
    OBVIOUS
  <2> QED BY <2>1 DEF LaidOut
<1>2. off[1] = 0 /\ Len(b) = off[n + 1] /\ off[n + 1] \in Nat
  <2>1. n + 1 \in 1..(n + 1)
    OBVIOUS
  <2> QED BY <1>1, <2>1 DEF LaidOut
<1>3. T \in SUBSET Nat /\ n + 1 \in T
  BY <1>2
<1>4. PICK j \in T : \A i \in T : j <= i
  <2> HIDE DEF T
  <2> QED BY <1>3, LeastNumber
<1>5. j # 1 /\ j - 1 \in 1..n /\ (j - 1) + 1 = j /\ j - 1 \notin T
  BY <1>2, <1>4
<1>6. off[j - 1] < p /\ p <= off[j - 1] + Len(s[j - 1]) /\ Len(s[j - 1]) \in Nat /\ off[j - 1] \in Nat
  BY <1>1, <1>4, <1>5
<1>7. p - off[j - 1] \in 1..Len(s[j - 1]) /\ p = off[j - 1] + (p - off[j - 1])
  BY <1>6
<1> QED BY <1>5, <1>7 DEF HasPlace

\* A part of a text, from its places.
LEMMA SubSeqIs ==
  ASSUME NEW S, NEW s \in Seq(S), NEW p \in Seq(S), NEW i \in Nat, i + Len(p) <= Len(s),
         \A k \in 1..Len(p) : s[i + k] = p[k]
  PROVE  SubSeq(s, i + 1, i + Len(p)) = p
<1> DEFINE n == Len(p)
           r == SubSeq(s, i + 1, i + n)
<1>1. n \in Nat /\ Len(s) \in Nat
  OBVIOUS
<1>2. Len(r) = n /\ r \in Seq(S) /\ \A k \in 1..n : r[k] = s[i + k]
  <2>1. i + 1 \in Int /\ i + n \in Int /\ \A k \in (i + 1)..(i + n) : s[k] \in S
    BY <1>1
  <2>2. /\ r \in Seq(S)
        /\ Len(r) = IF i + 1 <= i + n THEN (i + n) - (i + 1) + 1 ELSE 0
        /\ \A k \in 1..((i + n) - (i + 1) + 1) : r[k] = s[(i + 1) + k - 1]
    <3> HIDE DEF n
    <3> QED BY <2>1, SubSeqProperties
  <2>3. (i + n) - (i + 1) + 1 = n /\ Len(r) = n
    <3>1. (i + n) - (i + 1) + 1 = n
      BY <1>1
    <3> HIDE DEF n, r
    <3> QED BY <1>1, <2>2, <3>1
  <2>4. \A k \in 1..n : (i + 1) + k - 1 = i + k
    BY <1>1
  <2> HIDE DEF n, r
  <2> QED BY <2>2, <2>3, <2>4
<1> HIDE DEF r
<1>3. \A k \in 1..n : r[k] = p[k]
  BY <1>2
<1>4. r = p
  BY <1>2, <1>3, SeqEqual
<1> QED BY <1>4 DEF r

\* A part behind a separator.
LEMMA BehindC ==
  ASSUME NEW S, NEW c \in S, NEW p \in Seq(S)
  PROVE  /\ <<c>> \o p \in Seq(S) /\ Len(<<c>> \o p) = Len(p) + 1 /\ Len(p) \in Nat
         /\ (<<c>> \o p)[1] = c /\ \A k \in 1..Len(p) : (<<c>> \o p)[k + 1] = p[k]
<1> DEFINE u == <<c>>
<1>1. u \in Seq(S) /\ Len(u) = 1 /\ u[1] = c /\ Len(p) \in Nat
  OBVIOUS
<1>2. IsConcat(S, u, p, u \o p)
  BY <1>1, ConcatPlaces
<1> HIDE DEF u
<1> DEFINE y == u \o p
<1>3. y \in Seq(S) /\ Len(y) = 1 + Len(p) /\ (\A i \in 1..1 : y[i] = u[i]) /\ \A i \in 1..Len(p) : y[1 + i] = p[i]
  BY <1>1, <1>2 DEF IsConcat
<1> HIDE DEF y
<1>4. y \in Seq(S) /\ Len(y) = Len(p) + 1 /\ y[1] = c /\ \A i \in 1..Len(p) : y[i + 1] = p[i]
  <2>1. Len(y) = Len(p) + 1 /\ y[1] = c
    BY <1>1, <1>3
  <2>2. \A i \in 1..Len(p) : 1 + i = i + 1
    OBVIOUS
  <2> QED BY <1>3, <2>1, <2>2
<1> QED BY <1>1, <1>4 DEF y, u

\* A function whose value at each number is made of that before.
IsForward(f, n, base, h) == f[0] = base /\ \A i \in 1..n : f[i] = h[<<i, f[i - 1]>>]

\* There is such a function.
LEMMA Forward ==
  ASSUME NEW n \in Nat, NEW S, NEW base \in S, NEW h \in [(1..n) \X S -> S]
  PROVE  \E f \in [0..n -> S] : IsForward(f, n, base, h)
<1> DEFINE D == 0..n
           m == [i \in D |-> i]
           next == [i \in D |-> IF i = 0 THEN 0 ELSE i - 1]
           b == [i \in D |-> base]
           g == [x \in D \X S |-> IF x[1] = 0 THEN base ELSE h[x]]
<1>1. m \in [D -> Nat] /\ next \in [D -> D] /\ b \in [D -> S] /\ g \in [D \X S -> S]
  <2>1. m \in [D -> Nat] /\ next \in [D -> D] /\ b \in [D -> S]
    OBVIOUS
  <2>2. ASSUME NEW x \in D \X S PROVE (IF x[1] = 0 THEN base ELSE h[x]) \in S
    <3>1. CASE x[1] = 0
      BY <3>1
    <3>2. CASE x[1] # 0
      <4>1. x \in (1..n) \X S
        BY <3>2
      <4> QED BY <3>2, <4>1
    <3> QED BY <3>1, <3>2
  <2>3. g \in [D \X S -> S]
    <3> HIDE DEF D
    <3> QED BY <2>2
  <2> QED BY <2>1, <2>3
<1>2. PICK f \in [D -> S] : Recursive(f, D, m, next, b, g)
  <2> HIDE DEF D, m, next, b, g
  <2> QED BY <1>1, Recursion, Zenon
<1>3. ASSUME NEW i \in D
      PROVE  f[i] = IF m[next[i]] < m[i] THEN g[<<i, f[next[i]]>>] ELSE b[i]
  BY <1>2, Zenon DEF Recursive
<1>4. f[0] = base
  <2>1. 0 \in D /\ ~(m[next[0]] < m[0]) /\ b[0] = base
    OBVIOUS
  <2> HIDE DEF D, m, next, b, g
  <2> QED BY <1>3, <2>1, Zenon
<1>5. ASSUME NEW i \in 1..n PROVE f[i] = h[<<i, f[i - 1]>>]
  <2>1. i \in D /\ i - 1 \in D /\ next[i] = i - 1 /\ m[next[i]] < m[i] /\ i # 0
    OBVIOUS
  <2>2. f[i - 1] \in S
    BY <1>2, <2>1
  <2> DEFINE x == <<i, f[i - 1]>>
  <2>3. g[x] = h[x]
    BY <2>1, <2>2
  <2>4. f[i] = g[x]
    <3> HIDE DEF D, m, next, b, g
    <3> QED BY <1>3, <2>1, Zenon
  <2> HIDE DEF x
  <2>5. f[i] = h[x]
    BY <2>3, <2>4, Zenon
  <2> QED BY <2>5 DEF x
<1>6. IsForward(f, n, base, h)
  <2> HIDE DEF D, m, next, b, g
  <2> QED BY <1>4, <1>5 DEF IsForward
<1> QED BY <1>2, <1>6

\* Sequences are concatenated in any order.
LEMMA Associate ==
  ASSUME NEW S, NEW x \in Seq(S), NEW y \in Seq(S), NEW z \in Seq(S)
  PROVE  (x \o y) \o z = x \o (y \o z) /\ x \o y \in Seq(S)
BY ConcatAssociative, ConcatProperties

Joins(w, x, y) == w = x \o y

\* What is joined behind may as well be joined before.
LEMMA Regroup ==
  ASSUME NEW S, NEW x \in Seq(S), NEW y \in Seq(S), NEW z \in Seq(S),
         NEW u, Joins(u, x, y), NEW v, Joins(v, y, z), NEW w, Joins(w, x, v)
  PROVE  Joins(w, u, z)
<1>1. (x \o y) \o z = x \o (y \o z)
  BY ConcatAssociative
<1> QED BY <1>1 DEF Joins

\* The same, for what is joined before and behind.
LEMMA RegroupBoth ==
  ASSUME NEW S, NEW x \in Seq(S), NEW y \in Seq(S), NEW z \in Seq(S),
         NEW u, Joins(u, x, y), NEW v, Joins(v, y, z), NEW a, Joins(a, u, z)
  PROVE  Joins(a, x, v)
<1>1. (x \o y) \o z = x \o (y \o z)
  BY ConcatAssociative
<1> QED BY <1>1 DEF Joins

\* What has the words of both is both joined.
LEMMA JoinsIs ==
  ASSUME NEW S, NEW u \in Seq(S), NEW v \in Seq(S), NEW w, IsConcat(S, u, v, w)
  PROVE  Joins(w, u, v)
<1> DEFINE z == u \o v
<1>1. IsConcat(S, u, v, z)
  BY ConcatPlaces
<1> HIDE DEF z
<1>2. Len(u) \in Nat /\ Len(v) \in Nat
  OBVIOUS
<1>3. w \in Seq(S) /\ z \in Seq(S) /\ Len(w) = Len(z)
  BY <1>1 DEF IsConcat
<1>4. ASSUME NEW k \in 1..Len(z) PROVE w[k] = z[k]
  <2>1. CASE k \in 1..Len(u)
    BY <1>1, <2>1 DEF IsConcat
  <2>2. CASE k \notin 1..Len(u)
    <3>1. k - Len(u) \in 1..Len(v) /\ Len(u) + (k - Len(u)) = k
      BY <1>1, <1>2, <2>2 DEF IsConcat
    <3>2. w[Len(u) + (k - Len(u))] = v[k - Len(u)] /\ z[Len(u) + (k - Len(u))] = v[k - Len(u)]
      BY <1>1, <3>1 DEF IsConcat
    <3> QED BY <3>1, <3>2
  <2> QED BY <2>1, <2>2
<1>5. w = z
  BY <1>3, <1>4, SeqEqual
<1> QED BY <1>5 DEF Joins, z

\* Nothing is added by nothing.
LEMMA NoneBehind ==
  ASSUME NEW S, NEW x \in Seq(S)
  PROVE  x \o <<>> = x
BY ConcatEmptySeq

\* What is put before a text, taken away again.
LEMMA TakenAway ==
  ASSUME NEW S, NEW c \in S, NEW p \in Seq(S), NEW t, t = <<c>> \o p
  PROVE  SubSeq(t, 2, Len(t)) = p
<1> DEFINE n == Len(p)
<1>1. t \in Seq(S) /\ Len(t) = n + 1 /\ n \in Nat /\ \A k \in 1..n : t[k + 1] = p[k]
  BY BehindC
<1>2. 1 + n <= Len(t) /\ \A k \in 1..n : t[1 + k] = p[k]
  <2> HIDE DEF n
  <2>1. \A k \in 1..n : 1 + k = k + 1
    BY <1>1
  <2> QED BY <1>1, <2>1
<1>3. SubSeq(t, 1 + 1, 1 + n) = p
  BY <1>1, <1>2, SubSeqIs
<1>4. 1 + 1 = 2 /\ 1 + n = Len(t)
  <2> HIDE DEF n
  <2> QED BY <1>1
<1> QED BY <1>3, <1>4

\* g has at each place what the sequences up to there are together.
Sums(S, s, g) ==
    /\ FlattenSeq(s) = g[Len(s)]
    /\ \A i \in 1..Len(s) : g[i] = IF i = 1 THEN s[1] ELSE g[i - 1] \o s[i]

\* There is such a function.
LEMMA FlattenSums ==
  ASSUME NEW S, NEW s \in Seq(Seq(S)), s # <<>>
  PROVE  \E g \in [1..Len(s) -> Seq(S)] : Sums(S, s, g)
BY FlattenFcn, Zenon DEF Sums

\* Items that are put behind an opening, with a comma before each but the first.
Lists(f, n, open, comma, item) ==
    /\ f[0] = open
    /\ \A i \in 1..n : f[i] = (IF i = 1 THEN f[i - 1] ELSE f[i - 1] \o comma) \o item[i]

ListStep(open, comma, f, g, h) == f = open \o h /\ g = comma \o h

IsQuoted(q, n, comma, item) == q = FlattenSeq([i \in 1..n |-> comma \o item[i]])

IsListed(x, open, q) == x = open \o SubSeq(q, 2, Len(q))

\* They are those with a comma before each, without the first comma.
LEMMA ListedAs ==
  ASSUME NEW S, NEW n \in Nat, NEW o \in S, NEW c \in S, NEW item \in [1..n -> Seq(S)],
         NEW f, Lists(f, n, <<o>>, <<c>>, item), NEW q, IsQuoted(q, n, <<c>>, item)
  PROVE  IsListed(f[n], <<o>>, q)
<1> DEFINE V == Seq(S)
           open == <<o>>
           comma == <<c>>
           s == [i \in 1..n |-> comma \o item[i]]
<1>1. open \in V /\ comma \in V /\ \A i \in 1..n : item[i] \in V /\ comma \o item[i] \in V
  <2>1. open \in V /\ comma \in V /\ \A i \in 1..n : item[i] \in V
    OBVIOUS
  <2> HIDE DEF open, comma
  <2> QED BY <2>1, Associate
<1>2. CASE n = 0
  <2>1. f[n] = open
    BY <1>2, Zenon DEF Lists
  <2>2. q = <<>>
    <3>1. s \in [1..n -> V]
      <4> HIDE DEF V, comma
      <4> QED BY <1>1
    <3>2. q = FlattenSeq(s)
      BY Zenon DEF IsQuoted
    <3> HIDE DEF s
    <3>3. s = <<>>
      BY <1>2, <3>1
    <3> QED BY <3>2, <3>3, FlattenEmpty
  <2>3. SubSeq(q, 2, Len(q)) = <<>>
    BY <2>2
  <2>4. open \o <<>> = open
    BY <1>1, NoneBehind
  <2> QED BY <2>1, <2>3, <2>4 DEF IsListed
<1>3. CASE n # 0
  <2>1. s \in Seq(Seq(S)) /\ s # <<>> /\ Len(s) = n /\ \A i \in 1..n : s[i] = comma \o item[i]
    <3> HIDE DEF comma
    <3>1. s \in [1..n -> Seq(S)] /\ \A i \in 1..n : s[i] = comma \o item[i]
      BY <1>1
    <3> HIDE DEF s
    <3>2. s \in Seq(Seq(S)) /\ Len(s) = n
      BY <3>1
    <3> QED BY <1>3, <3>1, <3>2
  <2>2. q = FlattenSeq(s)
    BY Zenon DEF IsQuoted
  <2> HIDE DEF s
  <2>3. PICK g \in [1..n -> Seq(S)] :
          q = g[n] /\ \A i \in 1..n : g[i] = IF i = 1 THEN s[1] ELSE g[i - 1] \o s[i]
    <3>1. PICK g \in [1..Len(s) -> Seq(S)] : Sums(S, s, g)
      BY <2>1, FlattenSums, Zenon
    <3> QED BY <2>1, <2>2, <3>1 DEF Sums
  <2> DEFINE T == {d \in Nat : d + 1 <= n =>
                      \E h \in V : ListStep(open, comma, f[d + 1], g[d + 1], h)}
  <2>4. f[0] = open /\ \A i \in 1..n : f[i] = (IF i = 1 THEN f[i - 1] ELSE f[i - 1] \o comma) \o item[i]
    BY Zenon DEF Lists
  <2> HIDE DEF V, open, comma
  <2>5. 0 \in T
    <3>1. 1 \in 1..n /\ 1 - 1 = 0 /\ 0 + 1 = 1 /\ 0 \in Nat
      BY <1>3
    <3>2. f[1] = (IF 1 = 1 THEN f[1 - 1] ELSE f[1 - 1] \o comma) \o item[1]
      BY <2>4, <3>1
    <3>3. f[1] = open \o item[1]
      BY <2>4, <3>1, <3>2
    <3>4. g[1] = IF 1 = 1 THEN s[1] ELSE g[1 - 1] \o s[1]
      BY <2>3, <3>1
    <3>5. g[1] = comma \o item[1]
      BY <2>1, <3>1, <3>4
    <3>6. ListStep(open, comma, f[1], g[1], item[1]) /\ item[1] \in V
      BY <1>1, <3>1, <3>3, <3>5 DEF ListStep
    <3> QED BY <3>1, <3>6
  <2>6. ASSUME NEW d \in Nat, d \in T PROVE d + 1 \in T
    <3> SUFFICES ASSUME d + 1 + 1 <= n
                 PROVE  \E h \in V : ListStep(open, comma, f[d + 1 + 1], g[d + 1 + 1], h)
      OBVIOUS
    <3> DEFINE i == d + 1
               j == d + 1 + 1
    <3>1. i \in 1..n /\ j \in 1..n /\ j # 1 /\ j - 1 = i /\ i <= n
      OBVIOUS
    <3>2. PICK h \in V : ListStep(open, comma, f[i], g[i], h)
      BY <2>6, <3>1
    <3> HIDE DEF i, j
    <3>3. f[j] = (f[i] \o comma) \o item[j] /\ g[j] = g[i] \o (comma \o item[j])
      <4>1. f[j] = (IF j = 1 THEN f[j - 1] ELSE f[j - 1] \o comma) \o item[j]
        BY <2>4, <3>1, Zenon
      <4>2. g[j] = IF j = 1 THEN s[1] ELSE g[j - 1] \o s[j]
        BY <2>3, <3>1, Zenon
      <4>3. s[j] = comma \o item[j]
        BY <2>1, <3>1, Zenon
      <4> QED BY <3>1, <4>1, <4>2, <4>3
    <3> DEFINE y == comma \o item[j]
               z == h \o y
    <3>4. item[j] \in V /\ y \in V /\ open \in V /\ comma \in V
      BY <1>1, <3>1
    <3>5. f[i] = open \o h /\ g[i] = comma \o h
      BY <3>2, Zenon DEF ListStep
    <3>a. \A a, b, e \in V : (a \o b) \o e = a \o (b \o e) /\ a \o b \in V
      BY Associate, Zenon DEF V
    <3>6. f[i] \o y = open \o z /\ g[i] \o y = comma \o z /\ z \in V /\ open \o h \in V
      <4> HIDE DEF y
      <4>1. z = h \o y
        OBVIOUS
      <4> HIDE DEF z
      <4>2. z \in V /\ open \o h \in V
        BY <3>a, <3>4, <4>1, Zenon
      <4>3. open \in Seq(S) /\ comma \in Seq(S) /\ h \in Seq(S) /\ y \in Seq(S)
        BY <3>4, Zenon DEF V
      <4>4. Joins(f[i], open, h) /\ Joins(g[i], comma, h) /\ Joins(z, h, y)
        BY <3>5, <4>1, Zenon DEF Joins
      <4>5. Joins(open \o z, open, z) /\ Joins(comma \o z, comma, z)
        BY Zenon DEF Joins
      <4>6. Joins(open \o z, f[i], y) /\ Joins(comma \o z, g[i], y)
        BY <4>3, <4>4, <4>5, Regroup, Zenon
      <4> QED BY <4>2, <4>6, Zenon DEF Joins
    <3>7. (f[i] \o comma) \o item[j] = f[i] \o y
      <4>1. f[i] \in Seq(S) /\ comma \in Seq(S) /\ item[j] \in Seq(S)
        BY <3>4, <3>5, <3>6, Zenon DEF V
      <4>2. Joins(f[i] \o comma, f[i], comma) /\ Joins(y, comma, item[j])
        BY Zenon DEF Joins
      <4> HIDE DEF y
      <4>3. Joins(f[i] \o y, f[i], y)
        BY Zenon DEF Joins
      <4>4. Joins(f[i] \o y, f[i] \o comma, item[j])
        BY <4>1, <4>2, <4>3, Regroup, Zenon
      <4> QED BY <4>4, Zenon DEF Joins
    <3> HIDE DEF y, z
    <3>8. f[j] = open \o z /\ g[j] = comma \o z
      <4>1. f[j] = f[i] \o y
        BY <3>3, <3>7
      <4>2. g[j] = g[i] \o y
        BY <3>3 DEF y
      <4> QED BY <3>6, <4>1, <4>2
    <3>10. ListStep(open, comma, f[j], g[j], z)
      BY <3>8, Zenon DEF ListStep
    <3> QED BY <3>6, <3>10 DEF j
  <2>7. PICK h \in V : ListStep(open, comma, f[n], g[n], h)
    <3> HIDE DEF T
    <3>1. \A d \in Nat : d \in T
      BY <2>5, <2>6, Induction
    <3>2. n - 1 \in Nat /\ (n - 1) + 1 = n
      BY <1>3
    <3>3. n - 1 \in T
      BY <3>1, <3>2
    <3> QED BY <3>2, <3>3 DEF T
  <2>8. f[n] = open \o h /\ q = comma \o h
    BY <2>3, <2>7, Zenon DEF ListStep
  <2>9. SubSeq(q, 2, Len(q)) = h
    BY <2>8, TakenAway DEF V, comma
  <2>10. f[n] = open \o SubSeq(q, 2, Len(q))
    BY <2>8, <2>9, Zenon
  <2> QED BY <2>10 DEF open, IsListed
<1> QED BY <1>2, <1>3

\* A text of three words.
LEMMA Three ==
  ASSUME NEW S, NEW a \in S, NEW b \in S, NEW c \in S
  PROVE  <<a, b, c>> \in Seq(S)
OBVIOUS

\* A text of one word.
LEMMA One ==
  ASSUME NEW S, NEW a \in S
  PROVE  <<a>> \in Seq(S)
OBVIOUS

\* A part of a text is a text.
LEMMA Within ==
  ASSUME NEW S, NEW t \in Seq(S), NEW i \in Nat \ {0}, NEW j \in Int, j <= Len(t)
  PROVE  SubSeq(t, i, j) \in Seq(S)
<1>1. i \in Int /\ \A k \in i..j : t[k] \in S
  OBVIOUS
<1> QED BY <1>1, SubSeqProperties

\* A part of a text, from two.
LEMMA SubSeqSplit ==
  ASSUME NEW S, NEW t \in Seq(S), NEW i \in Nat \ {0}, NEW j \in Nat, NEW k \in Nat,
         i <= j, j <= k + 1, k <= Len(t)
  PROVE  Joins(SubSeq(t, i, k), SubSeq(t, i, j - 1), SubSeq(t, j, k))
<1> DEFINE x == SubSeq(t, i, j - 1)
           y == SubSeq(t, j, k)
           z == SubSeq(t, i, k)
<1>1. Len(t) \in Nat /\ j # 0
  OBVIOUS
<1>2. x \in Seq(S) /\ Len(x) = j - i /\ \A m \in 1..(j - i) : x[m] = t[i + m - 1]
  <2>1. i \in Int /\ j - 1 \in Int /\ \A m \in i..(j - 1) : t[m] \in S
    BY <1>1
  <2>2. /\ SubSeq(t, i, j - 1) \in Seq(S)
        /\ Len(SubSeq(t, i, j - 1)) = IF i <= j - 1 THEN (j - 1) - i + 1 ELSE 0
        /\ \A m \in 1..((j - 1) - i + 1) : SubSeq(t, i, j - 1)[m] = t[i + m - 1]
    BY <2>1, SubSeqProperties
  <2>3. (j - 1) - i + 1 = j - i
    OBVIOUS
  <2> HIDE DEF x
  <2>4. Len(x) = IF i <= j - 1 THEN j - i ELSE 0
    BY <2>2, <2>3 DEF x
  <2>5. Len(x) = j - i
    BY <2>4
  <2> QED BY <2>2, <2>3, <2>5 DEF x
<1>3. y \in Seq(S) /\ Len(y) = k - j + 1 /\ \A m \in 1..(k - j + 1) : y[m] = t[j + m - 1]
  <2>1. j \in Int /\ k \in Int /\ \A m \in j..k : t[m] \in S
    BY <1>1
  <2>2. /\ SubSeq(t, j, k) \in Seq(S)
        /\ Len(SubSeq(t, j, k)) = IF j <= k THEN k - j + 1 ELSE 0
        /\ \A m \in 1..(k - j + 1) : SubSeq(t, j, k)[m] = t[j + m - 1]
    BY <2>1, SubSeqProperties
  <2> HIDE DEF y
  <2>4. Len(y) = IF j <= k THEN k - j + 1 ELSE 0
    BY <2>2 DEF y
  <2>5. Len(y) = k - j + 1
    BY <2>4
  <2> QED BY <2>2, <2>5 DEF y
<1>4. z \in Seq(S) /\ Len(z) = k - i + 1 /\ \A m \in 1..(k - i + 1) : z[m] = t[i + m - 1]
  <2>1. i \in Int /\ k \in Int /\ \A m \in i..k : t[m] \in S
    BY <1>1
  <2>2. /\ SubSeq(t, i, k) \in Seq(S)
        /\ Len(SubSeq(t, i, k)) = IF i <= k THEN k - i + 1 ELSE 0
        /\ \A m \in 1..(k - i + 1) : SubSeq(t, i, k)[m] = t[i + m - 1]
    BY <2>1, SubSeqProperties
  <2> HIDE DEF z
  <2>4. Len(z) = IF i <= k THEN k - i + 1 ELSE 0
    BY <2>2 DEF z
  <2>5. Len(z) = k - i + 1
    BY <2>4
  <2> QED BY <2>2, <2>5 DEF z
<1> HIDE DEF x, y, z
<1> DEFINE w == x \o y
<1>5. IsConcat(S, x, y, w)
  BY <1>2, <1>3, ConcatPlaces
<1> HIDE DEF w
<1>6. w \in Seq(S) /\ Len(w) = k - i + 1
  BY <1>2, <1>3, <1>5 DEF IsConcat
<1>7. ASSUME NEW m \in 1..(k - i + 1) PROVE w[m] = t[i + m - 1]
  <2>1. CASE m <= j - i
    <3>1. m \in 1..Len(x) /\ m \in 1..(j - i)
      BY <1>2, <2>1
    <3> QED BY <1>2, <1>5, <3>1 DEF IsConcat
  <2>2. CASE ~(m <= j - i)
    <3> DEFINE e == m - (j - i)
    <3>1. e \in 1..Len(y) /\ e \in 1..(k - j + 1) /\ Len(x) + e = m /\ j + e - 1 = i + m - 1
      BY <1>2, <1>3, <2>2
    <3> HIDE DEF e
    <3>2. w[Len(x) + e] = y[e] /\ y[e] = t[j + e - 1]
      BY <1>3, <1>5, <3>1 DEF IsConcat
    <3> QED BY <3>1, <3>2
  <2> QED BY <2>1, <2>2
<1>8. z = w
  BY <1>4, <1>6, <1>7, SeqEqual
<1> QED BY <1>8 DEF Joins, x, y, z, w

\* A text is its words, one behind the other.
LEMMA FlattenWords ==
  ASSUME NEW S, NEW x \in Seq(S)
  PROVE  FlattenSeq([i \in 1..Len(x) |-> <<x[i]>>]) = x
<1> DEFINE n == Len(x)
           s == [i \in 1..n |-> <<x[i]>>]
           g == [i \in 1..(n + 1) |-> SubSeq(x, i, n)]
<1>1. n \in Nat /\ \A i \in 1..n : x[i] \in S
  OBVIOUS
<1>2. s \in [1..n -> Seq(S)]
  BY <1>1
<1>3. g \in [1..(n + 1) -> Seq(S)]
  <2>1. \A i \in 1..(n + 1) : i \in Nat \ {0} /\ n \in Int /\ n <= n
    BY <1>1
  <2>2. \A i \in 1..(n + 1) : SubSeq(x, i, n) \in Seq(S)
    BY <2>1, Within
  <2> HIDE DEF n
  <2> QED BY <2>2
<1>4. g[n + 1] = <<>>
  <2> DEFINE k == n + 1
             e == SubSeq(x, k, n)
  <2>1. k \in Int /\ n \in Int /\ (\A m \in k..n : x[m] \in S) /\ ~(k <= n) /\ k \in 1..(n + 1)
    BY <1>1
  <2>2. e \in Seq(S) /\ Len(e) = IF k <= n THEN n - k + 1 ELSE 0
    <3> HIDE DEF k, n
    <3> QED BY <2>1, SubSeqProperties
  <2>3. g[k] = e
    <3> HIDE DEF k, n
    <3> QED BY <2>1
  <2> HIDE DEF e, g
  <2>4. Len(e) = 0
    <3> HIDE DEF k, n
    <3> QED BY <2>1, <2>2
  <2>5. e = <<>>
    BY <2>2, <2>4
  <2> QED BY <2>3, <2>5
<1>5. ASSUME NEW i \in 1..n PROVE g[i] = s[i] \o g[i + 1]
  <2> DEFINE p == <<x[i]>>
             j == i + 1
             k == i - 1
  <2>1. i \in Nat \ {0} /\ j \in Nat /\ n \in Nat /\ i <= j /\ j <= n + 1 /\ n <= Len(x) /\ j - 1 = i
        /\ k \in Nat /\ k + 1 = i /\ i \in 1..(n + 1) /\ j \in 1..(n + 1)
    BY <1>1
  <2>2. p \in Seq(S) /\ Len(p) = 1 /\ p[1] = x[i]
    BY <1>1
  <2> HIDE DEF j, k, p
  <2>3. Joins(SubSeq(x, i, n), SubSeq(x, i, j - 1), SubSeq(x, j, n))
    <3> HIDE DEF n
    <3> QED BY <2>1, SubSeqSplit
  <2>4. SubSeq(x, k + 1, k + Len(p)) = p
    <3>1. k + Len(p) <= Len(x) /\ \A m \in 1..Len(p) : x[k + m] = p[m]
      BY <2>1, <2>2
    <3> QED BY <2>1, <2>2, <3>1, SubSeqIs
  <2>5. SubSeq(x, i, j - 1) = p
    <3>1. k + Len(p) = i
      BY <2>1, <2>2
    <3> QED BY <2>1, <2>4, <3>1
  <2>6. SubSeq(x, i, n) = p \o SubSeq(x, j, n)
    BY <2>3, <2>5 DEF Joins
  <2>7. s[i] = p /\ g[i] = SubSeq(x, i, n) /\ g[j] = SubSeq(x, j, n)
    <3> HIDE DEF n
    <3> QED BY <2>1 DEF p
  <2> HIDE DEF s, g
  <2>8. g[i] = s[i] \o g[j]
    BY <2>6, <2>7
  <2> QED BY <2>8 DEF j
<1> HIDE DEF n, s, g
<1>6. IsBehind(S, n, s, g)
  BY <1>3, <1>4, <1>5 DEF IsBehind
<1>7. FlattenSeq(s) = g[1]
  BY <1>1, <1>2, <1>6, FlattenBehind
<1>8. g[1] = x
  <2>1. g[1] = SubSeq(x, 1, n)
    <3>1. 1 \in 1..(n + 1)
      BY <1>1
    <3> QED BY <3>1 DEF g
  <2>2. SubSeq(x, 0 + 1, 0 + Len(x)) = x
    <3>1. \A k \in 1..Len(x) : x[0 + k] = x[k]
      OBVIOUS
    <3>2. 0 + Len(x) <= Len(x)
      OBVIOUS
    <3> QED BY <3>1, <3>2, SubSeqIs
  <2> QED BY <2>1, <2>2 DEF n
<1> QED BY <1>7, <1>8 DEF n, s
=============================================================================
