--------------------------- MODULE Inbound_proofs ---------------------------
(***************************************************************************)
(* Proofs about Inbound, for any urls that spell clear paths and any number *)
(* of messages.                                                            *)
(*                                                                         *)
(* The argument: clearSlash has, behind each character, the part of the path *)
(* that was spelled so far.  Headers are written as pairs in some order, so *)
(* that each is found at an even place before the first empty line.  Of a  *)
(* visitor that waits for each answer (Patient) one message at most was not *)
(* read, at most its first piece was (Flow): what is parsed is that message, *)
(* and what the buffer has of older answers is not sent.                   *)
(***************************************************************************)
EXTENDS Inbound, SequenceLemmas

-----------------------------------------------------------------------------
(***************************************************************************)
(* Urls: clearSlash, bisect.                                               *)
(***************************************************************************)

\* One step of clearSlash.
Cleared(res, ch) == IF res # <<>> /\ Last(res) = "/" /\ ch = "/" THEN res ELSE Append(res, ch)

\* What clearSlash computes before it looks at the end.
LEMMA ClearFcn ==
  ASSUME NEW S, NEW url \in Seq(S)
  PROVE  \E f \in [0..Len(url) -> Seq(S)] :
           /\ f[0] = <<>>
           /\ \A i \in 1..Len(url) : f[i] = Cleared(f[i - 1], url[i])
           /\ ClearSlash(url) = IF Len(f[Len(url)]) > 1 /\ Last(f[Len(url)]) = "/"
                                THEN Front(f[Len(url)]) ELSE f[Len(url)]
<1> DEFINE n == Len(url)
           D == SUBSET (1..n)
           V == Seq(S)
           m == [s \in D |-> IF s = {} THEN 0 ELSE Max(s)]
           next == [s \in D |-> IF s = {} THEN {} ELSE s \ {Max(s)}]
           base == [s \in D |-> <<>>]
           h == [x \in D \X V |-> IF x[1] = {} THEN <<>> ELSE Cleared(x[2], url[Max(x[1])])]
           Is(g) == g = [s \in SUBSET (DOMAIN url) |-> IF s = {} THEN <<>>
                                     ELSE LET x == Max(s) IN Cleared(g[s \ {x}], url[x])]
<1>1. n \in Nat /\ \A i \in 1..n : url[i] \in S
  OBVIOUS
<1>2. \A s \in D : s # {} => Max(s) \in s /\ Max(s) \in 1..n /\ \A i \in s : i <= Max(s)
  <2> HIDE DEF n
  <2> QED BY <1>1, MaxIsGreatest
<1>3. \A v \in V, x \in S : Cleared(v, x) \in V
  BY DEF Cleared
<1>4. next \in [D -> D] /\ m \in [D -> Nat] /\ base \in [D -> V]
  <2>1. \A s \in D : (IF s = {} THEN {} ELSE s \ {Max(s)}) \in D
    OBVIOUS
  <2>2. \A s \in D : (IF s = {} THEN 0 ELSE Max(s)) \in Nat
    <3>1. \A i \in 1..n : i \in Nat
      BY <1>1
    <3> QED BY <1>2, <3>1
  <2>3. <<>> \in V
    OBVIOUS
  <2> HIDE DEF D, V
  <2> QED BY <2>1, <2>2, <2>3
<1>5. h \in [D \X V -> V]
  <2>1. ASSUME NEW s \in D, NEW v \in V
        PROVE  (IF s = {} THEN <<>> ELSE Cleared(v, url[Max(s)])) \in V
    <3>1. CASE s = {}
      BY <3>1
    <3>2. CASE s # {}
      BY <1>1, <1>2, <1>3, <3>2
    <3> QED BY <3>1, <3>2
  <2> HIDE DEF D, V
  <2> QED BY <2>1
<1>6. PICK g0 \in [D -> V] : Recursive(g0, D, m, next, base, h)
  <2> HIDE DEF D, V, m, next, base, h
  <2> QED BY <1>4, <1>5, Recursion, Zenon
<1>7. ASSUME NEW s \in D
      PROVE  g0[s] = IF s = {} THEN <<>> ELSE Cleared(g0[s \ {Max(s)}], url[Max(s)])
  <2>1. g0[s] = IF m[next[s]] < m[s] THEN h[<<s, g0[next[s]]>>] ELSE base[s]
    BY <1>6 DEF Recursive
  <2>2. CASE s = {}
    <3>1. next[s] = {} /\ m[s] = 0 /\ base[s] = <<>>
      BY <2>2
    <3>2. ~ (m[next[s]] < m[s])
      BY <2>2, <3>1
    <3> HIDE DEF m, next, base, h, D, V
    <3> QED BY <2>1, <2>2, <3>1, <3>2
  <2>3. CASE s # {}
    <3> DEFINE t == s \ {Max(s)}
    <3>1. next[s] = t /\ m[s] = Max(s) /\ t \in D
      BY <2>3
    <3>2. m[t] < m[s]
      <4>1. CASE t = {}
        <5>1. m[t] = 0
          BY <3>1, <4>1
        <5>2. Max(s) \in 1..n
          BY <1>2, <2>3
        <5> HIDE DEF m
        <5> QED BY <1>1, <3>1, <5>1, <5>2
      <4>2. CASE t # {}
        <5>1. m[t] = Max(t)
          BY <3>1, <4>2
        <5>2. Max(t) \in t /\ Max(s) \in 1..n /\ Max(t) \in 1..n /\ Max(t) <= Max(s)
          BY <1>2, <2>3, <3>1, <4>2
        <5>3. Max(t) # Max(s)
          BY <5>2
        <5> DEFINE a == Max(t)
                   b == Max(s)
        <5>4. a \in 1..n /\ b \in 1..n /\ a <= b /\ a # b
          BY <5>2, <5>3
        <5> HIDE DEF a, b
        <5>5. a < b
          BY <1>1, <5>4
        <5> QED BY <3>1, <5>1, <5>5, Zenon DEF a, b
      <4> QED BY <4>1, <4>2
    <3>3. h[<<s, g0[t]>>] = Cleared(g0[t], url[Max(s)])
      <4>1. <<s, g0[t]>> \in D \X V
        <5>1. g0[t] \in V
          BY <1>6, <3>1
        <5> HIDE DEF D, V
        <5> QED BY <5>1
      <4> QED BY <2>3, <4>1
    <3> HIDE DEF m, next, base, h, D, V
    <3> QED BY <2>1, <2>3, <3>1, <3>2, <3>3
  <2> QED BY <2>2, <2>3
<1>10. DOMAIN url = 1..n
  OBVIOUS
<1>8. Is(g0)
  <2>1. g0 = [s \in D |-> g0[s]]
    BY <1>6
  <2>2. D = SUBSET (DOMAIN url)
    BY <1>10
  <2> HIDE DEF D
  <2> QED BY <1>7, <2>1, <2>2
<1>9. Is(CHOOSE g : Is(g))
  <2> HIDE DEF Is
  <2> QED BY <1>8
<1> DEFINE g == CHOOSE g : Is(g)
<1>11. ClearSlash(url) =
         IF Len(g[DOMAIN url]) > 1 /\ Last(g[DOMAIN url]) = "/" THEN Front(g[DOMAIN url])
         ELSE g[DOMAIN url]
  BY DEF ClearSlash, FoldLeft, MapThenFoldSet, Cleared
<1>12. \A s \in D : g[s] = IF s = {} THEN <<>> ELSE Cleared(g[s \ {Max(s)}], url[Max(s)])
  <2>1. g = [s \in D |-> IF s = {} THEN <<>>
                         ELSE LET x == Max(s) IN Cleared(g[s \ {x}], url[x])]
    <3>1. D = SUBSET (DOMAIN url)
      BY <1>10
    <3> HIDE DEF D, g
    <3> QED BY <1>9, <3>1 DEF g
  <2> HIDE DEF D, g
  <2> QED BY <2>1
<1> HIDE DEF g
<1> DEFINE f == [i \in 0..n |-> g[1..i]]
<1>13. f[0] = <<>>
  <2>1. 1..0 = {} /\ 0 \in 0..n
    BY <1>1
  <2>2. {} \in D
    OBVIOUS
  <2> HIDE DEF D
  <2>3. g[{}] = <<>>
    BY <1>12, <2>2
  <2> QED BY <2>1, <2>3
<1>14. ASSUME NEW i \in 1..n PROVE f[i] = Cleared(f[i - 1], url[i])
  <2>1. /\ 1..i \in D /\ 1..i # {} /\ i \in 1..i /\ \A j \in 1..i : i >= j
        /\ i \in 0..n /\ i - 1 \in 0..n /\ (1..i) \ {i} = 1..(i - 1)
    BY <1>1
  <2>2. Max(1..i) = i
    <3>1. Max(1..i) \in 1..i /\ \A j \in 1..i : j <= Max(1..i)
      BY <1>2, <2>1
    <3> QED BY <2>1, <3>1
  <2>3. g[1..i] = Cleared(g[(1..i) \ {Max(1..i)}], url[Max(1..i)])
    <3> HIDE DEF D
    <3> QED BY <1>12, <2>1
  <2>4. f[i] = g[1..i] /\ f[i - 1] = g[1..(i - 1)]
    BY <2>1
  <2> HIDE DEF f
  <2> QED BY <2>1, <2>2, <2>3, <2>4
<1>15. f \in [0..n -> V]
  <2> DEFINE T == {k \in Nat : k <= n => f[k] \in V}
  <2>1. 0 \in T
    <3>1. <<>> \in V
      OBVIOUS
    <3> HIDE DEF f, V
    <3> QED BY <1>13, <3>1
  <2>2. ASSUME NEW k \in Nat, k \in T PROVE k + 1 \in T
    <3>1. SUFFICES ASSUME k + 1 <= n PROVE f[k + 1] \in V
      OBVIOUS
    <3>2. k + 1 \in 1..n /\ (k + 1) - 1 = k /\ f[k] \in V
      BY <1>1, <2>2, <3>1
    <3> HIDE DEF f, V
    <3> QED BY <1>1, <1>3, <1>14, <3>2
  <2> HIDE DEF T
  <2>3. \A k \in Nat : k \in T
    BY <2>1, <2>2, Induction
  <2>4. ASSUME NEW k \in 0..n PROVE f[k] \in V
    <3>1. k \in Nat /\ k <= n
      BY <1>1
    <3>2. k \in T
      BY <2>3, <3>1
    <3> QED BY <3>1, <3>2 DEF T
  <2>5. f = [i \in 0..n |-> f[i]]
    OBVIOUS
  <2> HIDE DEF f, V
  <2> QED BY <2>4, <2>5
<1>16. f[n] = g[DOMAIN url]
  BY <1>1, <1>10
<1> HIDE DEF f
<1>17. ClearSlash(url) = IF Len(f[n]) > 1 /\ Last(f[n]) = "/" THEN Front(f[n]) ELSE f[n]
  BY <1>11, <1>16, Zenon
<1> QED BY <1>13, <1>14, <1>15, <1>17

\* The path itself, or with a slash at its end.
WithSlash(path) == IF Len(path) = 1 THEN path ELSE Append(path, "/")

\* at takes the places of u to those of whole that they spell.
Repeats(u, path, at) ==
    /\ at \in [1..Len(u) -> 1..Len(WithSlash(path))]
    /\ at[1] = 1 /\ at[Len(u)] >= Len(path)
    /\ \A i \in 1..Len(u) : u[i] = WithSlash(path)[at[i]]
    /\ \A i \in 2..Len(u) : at[i] = at[i - 1] + 1 \/ (at[i] = at[i - 1] /\ u[i] = "/")

\* What is whole.
LEMMA WholeIs ==
  ASSUME NEW S, NEW path \in Seq(S), "/" \in S, IsClear(path)
  PROVE  /\ WithSlash(path) \in Seq(S) /\ Len(path) \in Nat \ {0}
         /\ WithSlash(path)[1] = "/"
         /\ \A i \in 2..Len(WithSlash(path)) : WithSlash(path)[i] = "/" => WithSlash(path)[i - 1] # "/"
         /\ \/ Len(WithSlash(path)) = Len(path) /\ Len(path) = 1
            \/ Len(WithSlash(path)) = Len(path) + 1 /\ Len(path) > 1 /\ WithSlash(path)[Len(path) + 1] = "/"
         /\ \A i \in 1..Len(path) : WithSlash(path)[i] = path[i]
<1>1. Len(path) \in Nat \ {0} /\ path[1] = "/"
  BY DEF IsClear
<1> DEFINE w == WithSlash(path)
<1>2. CASE Len(path) = 1
  <2>1. w = path
    BY <1>2 DEF WithSlash
  <2>2. \A i \in 2..Len(path) : FALSE
    BY <1>2
  <2> HIDE DEF w
  <2> QED BY <1>1, <1>2, <2>1, <2>2 DEF w
<1>3. CASE Len(path) # 1
  <2>1. w = Append(path, "/")
    BY <1>3 DEF WithSlash
  <2>2. w \in Seq(S) /\ Len(w) = Len(path) + 1 /\ w[Len(path) + 1] = "/"
    BY <2>1
  <2>3. \A i \in 1..Len(path) : w[i] = path[i]
    BY <2>1
  <2> HIDE DEF w
  <2>4. ASSUME NEW i \in 2..Len(w), w[i] = "/" PROVE w[i - 1] # "/"
    <3>1. i - 1 \in 1..Len(path) /\ (i \in 2..Len(path) \/ i = Len(path) + 1)
      BY <1>1, <2>2
    <3>2. w[i - 1] = path[i - 1]
      BY <2>3, <3>1
    <3>3. CASE i \in 2..Len(path)
      <4>1. path[i] = "/"
        BY <1>1, <2>3, <2>4, <3>3
      <4>2. path[i - 1] # "/"
        BY <3>3, <4>1 DEF IsClear
      <4> QED BY <3>2, <4>2
    <3>4. CASE i = Len(path) + 1
      <4> DEFINE l == Len(path)
      <4>0. l \in Nat \ {0} /\ l # 1 /\ i = l + 1
        BY <1>1, <1>3, <3>4
      <4> HIDE DEF l
      <4>3. i - 1 = l /\ l \in 2..l
        BY <4>0
      <4>1. i - 1 = Len(path) /\ Len(path) \in 2..Len(path)
        BY <4>3 DEF l
      <4>2. path[Len(path)] # "/"
        <5>1. ~ (Len(path) < Len(path))
          BY <1>1
        <5> QED BY <4>1, <5>1 DEF IsClear
      <4> QED BY <3>2, <4>1, <4>2
    <3> QED BY <3>1, <3>3, <3>4
  <2>5. Len(path) > 1 /\ 1 \in 1..Len(path)
    BY <1>1, <1>3
  <2>6. w[1] = "/"
    BY <1>1, <2>3, <2>5
  <2> QED BY <1>1, <2>2, <2>3, <2>4, <2>5, <2>6 DEF w
<1> QED BY <1>2, <1>3

\* clearSlash gives the path that is spelled.
LEMMA Clear ==
  ASSUME NEW S, NEW path \in Seq(S), "/" \in S, IsClear(path),
         NEW u \in Seq(S), u # <<>>, NEW at, Repeats(u, path, at)
  PROVE  ClearSlash(u) = path
<1> DEFINE w == WithSlash(path)
           n == Len(u)
           k == Len(path)
<1>1. /\ w \in Seq(S) /\ k \in Nat \ {0}
      /\ w[1] = "/"
      /\ \A i \in 2..Len(w) : w[i] = "/" => w[i - 1] # "/"
      /\ \/ Len(w) = k /\ k = 1
         \/ Len(w) = k + 1 /\ k > 1 /\ w[k + 1] = "/"
      /\ \A i \in 1..k : w[i] = path[i]
  BY WholeIs, Zenon
<1>2. n \in Nat \ {0}
  OBVIOUS
<1>3. /\ at \in [1..n -> 1..Len(w)] /\ at[1] = 1 /\ at[n] >= k
      /\ \A i \in 1..n : u[i] = w[at[i]]
      /\ \A i \in 2..n : at[i] = at[i - 1] + 1 \/ (at[i] = at[i - 1] /\ u[i] = "/")
  BY Zenon DEF Repeats
<1>4. PICK f \in [0..n -> Seq(S)] :
        /\ f[0] = <<>>
        /\ \A i \in 1..n : f[i] = Cleared(f[i - 1], u[i])
        /\ ClearSlash(u) = IF Len(f[n]) > 1 /\ Last(f[n]) = "/" THEN Front(f[n]) ELSE f[n]
  BY ClearFcn, Zenon
<1> DEFINE part(i) == SubSeq(w, 1, at[i])
           T == {i \in Nat : i + 1 <= n => f[i + 1] = part(i + 1)}
<1> HIDE DEF w, k
<1>5. ASSUME NEW i \in 1..n
      PROVE  /\ part(i) \in Seq(S) /\ Len(part(i)) = at[i] /\ at[i] \in 1..Len(w)
             /\ \A j \in 1..at[i] : part(i)[j] = w[j]
             /\ Last(part(i)) = w[at[i]] /\ part(i) # <<>>
  <2> DEFINE m == at[i]
  <2>1. m \in 1..Len(w) /\ Len(w) \in Nat
    <3>1. Len(w) \in Nat
      BY <1>1
    <3>2. at \in [1..n -> 1..Len(w)]
      BY <1>3
    <3> HIDE DEF n
    <3> QED BY <3>1, <3>2
  <2> HIDE DEF m
  <2>2. SubSeq(w, 1, m) \in Seq(S) /\ Len(SubSeq(w, 1, m)) = m /\ \A j \in 1..m : SubSeq(w, 1, m)[j] = w[j]
    BY <1>1, <2>1
  <2>3. Last(SubSeq(w, 1, m)) = w[m] /\ SubSeq(w, 1, m) # <<>>
    BY <2>1, <2>2 DEF Last
  <2> QED BY <2>1, <2>2, <2>3 DEF m
<1>6. 0 \in T
  <2>1. f[1] = Cleared(f[0], u[1])
    <3>1. 1 \in 1..n /\ 1 - 1 = 0
      BY <1>2
    <3> QED BY <1>4, <3>1
  <2>2. u[1] = "/" /\ 1 \in 1..n
    BY <1>1, <1>2, <1>3
  <2>3. f[1] = Append(<<>>, "/")
    BY <1>4, <2>1, <2>2, Zenon DEF Cleared
  <2>4. part(1) \in Seq(S) /\ Len(part(1)) = 1 /\ part(1)[1] = "/"
    <3>1. Len(part(1)) = 1 /\ part(1) \in Seq(S) /\ 1 \in 1..at[1] /\ \A j \in 1..at[1] : part(1)[j] = w[j]
      BY <1>3, <1>5, <2>2
    <3> QED BY <1>1, <3>1
  <2> DEFINE p == part(1)
  <2> HIDE DEF p
  <2> DEFINE q == Append(<<>>, "/")
  <2>6. q \in Seq(S) /\ Len(q) = 1 /\ q[1] = "/"
    OBVIOUS
  <2>8. p \in Seq(S) /\ Len(p) = 1 /\ p[1] = "/"
    BY <2>4 DEF p
  <2>9. f[1] = q
    BY <2>3
  <2> HIDE DEF q
  <2>5. p = q
    BY <2>6, <2>8
  <2>7. f[0 + 1] = part(0 + 1)
    <3> HIDE DEF part
    <3>1. 0 + 1 = 1
      OBVIOUS
    <3> QED BY <2>5, <2>9, <3>1, Zenon DEF p
  <2> HIDE DEF part
  <2> QED BY <2>7
<1>7. ASSUME NEW i \in Nat, i \in T PROVE i + 1 \in T
  <2>1. SUFFICES ASSUME (i + 1) + 1 <= n PROVE f[(i + 1) + 1] = part((i + 1) + 1)
    OBVIOUS
  <2> DEFINE a == i + 1
             b == (i + 1) + 1
  <2>2. a \in 1..n /\ b \in 1..n /\ b - 1 = a /\ b \in 2..n
    BY <1>2, <2>1
  <2>3. f[a] = part(a)
    <3>1. i + 1 <= n
      BY <1>2, <2>1
    <3> QED BY <1>7, <3>1
  <2>4. f[b] = Cleared(f[a], u[b])
    <3>1. f[b] = Cleared(f[b - 1], u[b])
      BY <1>4, <2>2
    <3> QED BY <2>2, <3>1
  <2>5. at[b] = at[a] + 1 \/ (at[b] = at[a] /\ u[b] = "/")
    <3>1. at[b] = at[b - 1] + 1 \/ (at[b] = at[b - 1] /\ u[b] = "/")
      BY <1>3, <2>2
    <3> QED BY <2>2, <3>1
  <2>6. u[b] = w[at[b]] /\ u[a] = w[at[a]]
    BY <1>3, <2>2
  <2>7. /\ Last(part(a)) = w[at[a]] /\ part(a) # <<>> /\ at[a] \in 1..Len(w) /\ at[b] \in 1..Len(w)
        /\ part(a) \in Seq(S) /\ part(b) \in Seq(S) /\ Len(part(a)) = at[a] /\ Len(part(b)) = at[b]
        /\ \A j \in 1..at[a] : part(a)[j] = w[j]
        /\ \A j \in 1..at[b] : part(b)[j] = w[j]
    BY <1>5, <2>2
  <2> HIDE DEF a, b, part
  <2>8. CASE at[b] = at[a] /\ u[b] = "/"
    <3>1. Last(part(a)) = "/"
      BY <2>6, <2>7, <2>8
    <3>2. f[b] = part(a)
      BY <2>3, <2>4, <2>7, <2>8, <3>1, Zenon DEF Cleared
    <3>3. part(a) = part(b)
      BY <2>8 DEF part
    <3> QED BY <3>2, <3>3 DEF a, b
  <2>9. CASE at[b] = at[a] + 1
    <3> DEFINE c == at[a]
               d == at[b]
    <3>1. c \in 1..Len(w) /\ d \in 1..Len(w) /\ d = c + 1 /\ Len(w) \in Nat
      BY <1>1, <2>7, <2>9
    <3>2. d \in 2..Len(w) /\ d - 1 = c
      <4> HIDE DEF c, d
      <4> QED BY <3>1
    <3>3. ~ (w[c] = "/" /\ w[d] = "/")
      <4> HIDE DEF c, d
      <4> QED BY <1>1, <3>2
    <3>4. ~ (Last(part(a)) = "/" /\ u[b] = "/")
      BY <2>6, <2>7, <3>3
    <3>5. f[b] = Append(part(a), w[d])
      BY <2>3, <2>4, <2>6, <3>4, Zenon DEF Cleared
    <3> DEFINE q == Append(part(a), w[d])
    <3>6. part(a) \in Seq(S) /\ Len(part(a)) = c /\ w[d] \in S
      <4>1. w[d] \in S
        <5> HIDE DEF d
        <5> QED BY <1>1, <3>1
      <4> QED BY <2>7, <4>1
    <3>7. Len(part(b)) = d /\ part(b) \in Seq(S) /\ \A j \in 1..d : part(b)[j] = w[j]
      BY <2>7
    <3>8. \A j \in 1..c : part(a)[j] = w[j]
      BY <2>7
    <3> HIDE DEF c, d
    <3>9. q \in Seq(S) /\ Len(q) = d /\ q[d] = w[d] /\ \A j \in 1..c : q[j] = w[j]
      BY <3>1, <3>6, <3>8
    <3> HIDE DEF q
    <3>10. \A j \in 1..d : q[j] = part(b)[j]
      BY <3>1, <3>7, <3>9
    <3>11. q = part(b)
      BY <3>1, <3>7, <3>9, <3>10
    <3> QED BY <3>5, <3>11 DEF q, a, b
  <2> QED BY <2>5, <2>8, <2>9
<1>8. f[n] = part(n)
  <2> HIDE DEF T, part
  <2>1. \A i \in Nat : i \in T
    BY <1>6, <1>7, Induction
  <2>2. n - 1 \in Nat /\ (n - 1) + 1 = n /\ n <= n
    BY <1>2
  <2>3. n - 1 \in T
    BY <2>1, <2>2
  <2> HIDE DEF n
  <2> QED BY <2>2, <2>3 DEF T
<1> DEFINE r == part(n)
           l == at[n]
<1>9. /\ r \in Seq(S) /\ Len(r) = l /\ l \in 1..Len(w)
      /\ \A j \in 1..l : r[j] = w[j]
      /\ Last(r) = w[l] /\ l >= k
  <2>1. n \in 1..n
    BY <1>2
  <2> QED BY <1>3, <1>5, <2>1
<1>10. ClearSlash(u) = IF Len(r) > 1 /\ Last(r) = "/" THEN Front(r) ELSE r
  <2> HIDE DEF r
  <2> QED BY <1>4, <1>8, Zenon DEF r
<1>11. path \in Seq(S) /\ Len(path) = k
  BY DEF k
<1> HIDE DEF r, l, n
<1>12. CASE l = k
  <2>1. r = path
    <3>1. \A j \in 1..k : r[j] = path[j]
      BY <1>1, <1>9, <1>12
    <3> QED BY <1>9, <1>11, <1>12, <3>1
  <2>2. ~ (Len(r) > 1 /\ Last(r) = "/")
    <3>1. SUFFICES ASSUME k > 1 PROVE path[k] # "/"
      BY <1>9, <1>11, <2>1, <1>12, <1>1 DEF Last
    <3>2. k \in 2..k /\ ~ (k < k)
      BY <1>1, <3>1
    <3> QED BY <1>11, <3>2 DEF IsClear
  <2> QED BY <1>10, <2>1, <2>2, Zenon
<1>13. CASE l # k
  <2>1. l = k + 1 /\ Len(w) = k + 1 /\ k > 1 /\ w[k + 1] = "/"
    BY <1>1, <1>9, <1>13
  <2>2. Len(r) = k + 1 /\ Len(r) > 1 /\ Last(r) = "/"
    BY <1>1, <1>9, <2>1
  <2>3. ClearSlash(u) = Front(r)
    BY <1>10, <2>2, Zenon
  <2>4. Front(r) = SubSeq(r, 1, Len(r) - 1)
    BY DEF Front
  <2>5. Len(r) - 1 = k
    BY <1>1, <2>2
  <2>6. Front(r) = SubSeq(r, 1, k)
    BY <2>4, <2>5
  <2> DEFINE q == SubSeq(r, 1, k)
  <2>7. q \in Seq(S) /\ Len(q) = k /\ \A j \in 1..k : q[j] = r[j]
    BY <1>1, <1>9, <2>2
  <2> HIDE DEF q
  <2>8. \A j \in 1..k : q[j] = path[j]
    BY <1>1, <1>9, <2>1, <2>7
  <2>9. q = path
    BY <1>11, <2>7, <2>8
  <2> QED BY <2>3, <2>6, <2>9 DEF q
<1> QED BY <1>12, <1>13

\* bisect finds what stands before the first c.
LEMMA Bisected ==
  ASSUME NEW S, NEW s \in Seq(S), NEW c, NEW n \in 1..Len(s),
         n = Len(s) \/ s[n + 1] = c, \A i \in 1..n : s[i] # c
  PROVE  Bisect(s, c)[1] = SubSeq(s, 1, n)
<1> DEFINE I == {i \in 1..Len(s) : s[i] = c}
           i == SelectInSeq(s, LAMBDA x : x = c)
<1>1. Len(s) \in Nat /\ n \in Nat /\ n # 0
  OBVIOUS
<1>2. i = IF I # {} THEN Min(I) ELSE 0
  BY Zenon DEF SelectInSeq
<1>3. Bisect(s, c)[1] = IF i = 0 THEN s ELSE SubSeq(s, 1, i - 1)
  <2>1. Bisect(s, c) = IF i = 0 THEN <<s, <<>>>> ELSE <<SubSeq(s, 1, i - 1), SubSeq(s, i + 1, Len(s))>>
    BY Zenon DEF Bisect
  <2> DEFINE a == SubSeq(s, 1, i - 1)
             b == SubSeq(s, i + 1, Len(s))
             none == <<>>
  <2>2. Bisect(s, c) = IF i = 0 THEN <<s, none>> ELSE <<a, b>>
    BY <2>1
  <2>3. <<s, none>>[1] = s /\ <<a, b>>[1] = a
    <3> HIDE DEF a, b, none
    <3> QED OBVIOUS
  <2> HIDE DEF i, a, b, none
  <2>4. Bisect(s, c)[1] = IF i = 0 THEN s ELSE a
    BY <2>2, <2>3, Zenon
  <2> QED BY <2>4 DEF a
<1>4. CASE n = Len(s)
  <2>1. I = {}
    BY <1>4
  <2>2. i = 0
    BY <1>2, <2>1, Zenon
  <2>3. SubSeq(s, 1, Len(s)) = s
    OBVIOUS
  <2> HIDE DEF i
  <2> QED BY <1>3, <1>4, <2>2, <2>3
<1>5. CASE n # Len(s)
  <2>1. n + 1 \in 1..Len(s) /\ s[n + 1] = c
    BY <1>1, <1>5
  <2>2. I \in SUBSET Nat /\ n + 1 \in I /\ \A j \in I : n + 1 <= j
    BY <1>1, <2>1
  <2>3. Min(I) = n + 1
    <3> HIDE DEF I
    <3> QED BY <2>2, MinIs
  <2>4. i = n + 1
    <3> HIDE DEF I
    <3> QED BY <1>2, <2>2, <2>3, Zenon
  <2> HIDE DEF i, I
  <2>5. i # 0 /\ i - 1 = n
    BY <1>1, <2>4
  <2> QED BY <1>3, <2>5
<1> QED BY <1>4, <1>5

\* Each url leads to the path it is meant for.
LEMMA UrlsAreMeant ==
  ASSUME NEW url \in Urls
  PROVE  PathOf(url[1]) = url[2]
<1> DEFINE spelled == url[1]
           path == url[2]
           S == STRING \cup {"/"}
<1>1. spelled \in Seq(S) /\ path \in Seq(S) /\ "/" \in S
  <2>1. spelled \in Seq(STRING) /\ path \in Seq(STRING)
    BY InboundAssumption
  <2>2. STRING \subseteq S /\ "/" \in S
    OBVIOUS
  <2> HIDE DEF spelled, path, S
  <2> QED BY <2>1, <2>2, SeqOverMore, Zenon
<1>2. IsClear(path) /\ Spells(spelled, path)
  BY InboundAssumption, Zenon
<1> HIDE DEF spelled, path, S
<1>3. PICK n \in 1..Len(spelled) :
        /\ n = Len(spelled) \/ spelled[n + 1] = "?"
        /\ \A i \in 1..n : spelled[i] # "?"
        /\ \E at \in [1..n -> 1..Len(WithSlash(path))] :
             /\ at[1] = 1 /\ at[n] >= Len(path)
             /\ \A i \in 1..n : spelled[i] = WithSlash(path)[at[i]]
             /\ \A i \in 2..n : at[i] = at[i - 1] + 1 \/ (at[i] = at[i - 1] /\ spelled[i] = "/")
  BY <1>2, Zenon DEF Spells, WithSlash
<1>4. PICK at \in [1..n -> 1..Len(WithSlash(path))] :
             /\ at[1] = 1 /\ at[n] >= Len(path)
             /\ \A i \in 1..n : spelled[i] = WithSlash(path)[at[i]]
             /\ \A i \in 2..n : at[i] = at[i - 1] + 1 \/ (at[i] = at[i - 1] /\ spelled[i] = "/")
  BY <1>3, Zenon
<1> DEFINE u == SubSeq(spelled, 1, n)
<1>5. Bisect(spelled, "?")[1] = u
  <2> DEFINE c == "?"
  <2>1. n = Len(spelled) \/ spelled[n + 1] = c
    BY <1>3, Zenon
  <2>2. \A i \in 1..n : spelled[i] # c
    BY <1>3, Zenon
  <2> HIDE DEF c
  <2>3. Bisect(spelled, c)[1] = SubSeq(spelled, 1, n)
    BY <1>1, <2>1, <2>2, Bisected
  <2> QED BY <2>3, Zenon DEF c
<1>6. u \in Seq(S) /\ Len(u) = n /\ u # <<>> /\ \A i \in 1..n : u[i] = spelled[i]
  <2>1. n \in 1..Len(spelled) /\ Len(spelled) \in Nat /\ spelled \in Seq(S)
    BY <1>1
  <2> QED BY <2>1
<1> HIDE DEF u
<1>7. Repeats(u, path, at)
  <2>1. \A i \in 2..n : i \in 1..n
    OBVIOUS
  <2> QED BY <1>4, <1>6, <2>1, Zenon DEF Repeats
<1>8. ClearSlash(u) = path
  BY <1>1, <1>2, <1>6, <1>7, Clear, Zenon
<1> QED BY <1>5, <1>8, Zenon DEF PathOf, spelled, path

\* A path that is clear stays as it is.
LEMMA ClearStays ==
  ASSUME NEW S, NEW path \in Seq(S), "/" \in S, IsClear(path)
  PROVE  ClearSlash(path) = path
<1> DEFINE n == Len(path)
           at == [i \in 1..n |-> i]
           w == WithSlash(path)
<1>1. /\ w \in Seq(S) /\ n \in Nat \ {0}
      /\ (Len(w) = n /\ n = 1) \/ (Len(w) = n + 1 /\ n > 1)
      /\ \A i \in 1..n : w[i] = path[i]
  BY WholeIs, Zenon
<1>2. \A i \in 1..n : i \in 1..Len(w)
  BY <1>1
<1>3. at \in [1..n -> 1..Len(w)]
  <2> HIDE DEF n, w
  <2> QED BY <1>2
<1>4. at[1] = 1 /\ at[n] = n /\ n >= n
  BY <1>1
<1>5. \A i \in 1..n : path[i] = w[at[i]]
  BY <1>1
<1>6. \A i \in 2..n : at[i] = at[i - 1] + 1
  BY <1>1
<1>7. Repeats(path, path, at)
  <2> HIDE DEF at
  <2> QED BY <1>3, <1>4, <1>5, <1>6, Zenon DEF Repeats
<1>8. path # <<>>
  BY <1>1
<1> HIDE DEF at
<1> QED BY <1>7, <1>8, Clear, Zenon

\* The paths of the two routes are clear.
LEMMA WsRoutesAre == WsRoutes = {<<"/", "stream">>, <<"/", "ws", "test">>}
<1> DEFINE stream == <<"/", "stream">>
           test == <<"/", "ws", "test">>
           S == {"/", "stream", "ws", "test"}
<1>1. stream \in Seq(S) /\ "/" \in S /\ Len(stream) = 2 /\ stream[1] = "/" /\ stream[2] # "/"
  OBVIOUS
<1>2. test \in Seq(S) /\ Len(test) = 3 /\ test[1] = "/" /\ test[2] # "/" /\ test[3] # "/"
  OBVIOUS
<1> HIDE DEF stream, test, S
<1>3. IsClear(stream)
  <2>1. \A i \in 2..2 : stream[i] # "/"
    BY <1>1
  <2> QED BY <1>1, <2>1 DEF IsClear
<1>4. IsClear(test)
  <2>1. \A i \in 2..3 : i = 2 \/ i = 3
    OBVIOUS
  <2>2. \A i \in 2..3 : test[i] # "/"
    BY <1>2, <2>1
  <2> QED BY <1>2, <2>2 DEF IsClear
<1>5. ClearSlash(stream) = stream /\ ClearSlash(test) = test
  BY <1>1, <1>2, <1>3, <1>4, ClearStays, Zenon
<1>6. WsRoutes = {AddWsRoute(path) : path \in {stream, test}}
  BY DEF WsRoutes, stream, test
<1>7. WsRoutes = {stream, test}
  BY <1>5, <1>6 DEF AddWsRoute
<1> QED BY <1>7 DEF stream, test

-----------------------------------------------------------------------------
(***************************************************************************)
(* Responses, as they are written and read: Response, str, sendHttpResponse. *)
(***************************************************************************)

\* The headers of a response as they are written.
Block(H) == FlattenSeq(SetToSeq({<<key, H[key]>> : key \in DOMAIN H}))

\* Each name is followed by its value.
LEMMA HeadersListed ==
  ASSUME NEW H, IsFiniteSet(DOMAIN H)
  PROVE  \E n \in Nat :
           /\ Block(H) \in Seq((DOMAIN H) \cup {H[key] : key \in DOMAIN H}) /\ Len(Block(H)) = 2 * n
           /\ \A i \in 1..n : /\ Block(H)[2 * i - 1] \in DOMAIN H
                              /\ Block(H)[2 * i] = H[Block(H)[2 * i - 1]]
           /\ \A key \in DOMAIN H : \E i \in 1..n : Block(H)[2 * i - 1] = key
<1> DEFINE K == DOMAIN H
           T == {<<key, H[key]>> : key \in K}
           S == K \cup {H[key] : key \in K}
           n == Cardinality(T)
           p == SetToSeq(T)
           g == [key \in K |-> <<key, H[key]>>]
<1>1. IsFiniteSet(T)
  <2>1. g \in Surjection(K, T)
    <3>1. g \in [K -> T] /\ \A t \in T : \E k \in K : g[k] = t
      OBVIOUS
    <3> QED BY <3>1 DEF Surjection
  <2> HIDE DEF g, K, T
  <2> QED BY <2>1, FS_Surjection DEF K
<1>2. /\ n \in Nat /\ p \in [1..n -> T]
      /\ \A x \in T : \E i \in 1..n : p[i] = x
  <2> HIDE DEF T
  <2> QED BY <1>1, SetToSeqLists
<1> HIDE DEF n, p
<1>3. p \in [1..n -> S \X S]
  BY <1>2
<1>4. /\ FlattenSeq(p) \in Seq(S) /\ Len(FlattenSeq(p)) = 2 * n
      /\ \A i \in 1..n : FlattenSeq(p)[2 * i - 1] = p[i][1] /\ FlattenSeq(p)[2 * i] = p[i][2]
  <2>1. n \in Nat
    BY <1>2
  <2> HIDE DEF S, T, K, g
  <2>2. ArePairs(S, n, p, FlattenSeq(p))
    BY <1>3, <2>1, FlattenPairs, Zenon
  <2> QED BY <2>2, Zenon DEF ArePairs
<1>5. Block(H) = FlattenSeq(p)
  BY DEF Block, p
<1>6. \A i \in 1..n : p[i][1] \in K /\ p[i][2] = H[p[i][1]]
  BY <1>2
<1>7. \A key \in K : \E i \in 1..n : p[i][1] = key
  <2> SUFFICES ASSUME NEW key \in K PROVE \E i \in 1..n : p[i][1] = key
    OBVIOUS
  <2>1. <<key, H[key]>> \in T
    OBVIOUS
  <2>2. PICK i \in 1..n : p[i] = <<key, H[key]>>
    <3> HIDE DEF T
    <3> QED BY <1>2, <2>1
  <2> QED BY <2>2
<1>8. n \in Nat
  BY <1>2
<1> DEFINE b == FlattenSeq(p)
<1>9. \A i \in 1..n : b[2 * i - 1] \in K /\ b[2 * i] = H[b[2 * i - 1]]
  <2> HIDE DEF K
  <2> QED BY <1>4, <1>6
<1>10. \A key \in K : \E i \in 1..n : b[2 * i - 1] = key
  <2> HIDE DEF K
  <2> QED BY <1>4, <1>7
<1>11. b \in Seq(S) /\ Len(b) = 2 * n /\ Block(H) = b
  BY <1>4, <1>5
<1> HIDE DEF b
<1> QED BY <1>8, <1>9, <1>10, <1>11, Zenon

\* Even numbers behind four.
LEMMA EvenPlaces ==
  ASSUME NEW n \in Nat
  PROVE  /\ (4 + 2 * n) % 2 = 0 /\ (2 + 2 * n) % 2 = 0
         /\ \A i \in Nat : 4 <= i /\ i < 4 + 2 * n /\ i % 2 = 0 =>
                \E j \in 1..n : i = 2 + 2 * j /\ i + 1 = 3 + 2 * j
<1>1. (4 + 2 * n) % 2 = 0 /\ (2 + 2 * n) % 2 = 0
  OBVIOUS
<1>2. ASSUME NEW i \in Nat, 4 <= i, i < 4 + 2 * n, i % 2 = 0
      PROVE  \E j \in 1..n : i = 2 + 2 * j /\ i + 1 = 3 + 2 * j
  <2> DEFINE j == (i - 2) \div 2
  <2>1. j \in 1..n /\ i = 2 + 2 * j /\ i + 1 = 3 + 2 * j
    BY <1>2
  <2> HIDE DEF j
  <2> QED BY <2>1
<1> QED BY <1>1, <1>2

\* n lines of H behind the first one, and an empty line.
LinesOf(H, data, n) ==
    /\ "" \notin DOMAIN H /\ "Content-Type" \in DOMAIN H
    /\ data[4 + 2 * n] = EmptyLine
    /\ \A i \in 1..n : data[2 + 2 * i] \in DOMAIN H /\ data[3 + 2 * i] = H[data[2 + 2 * i]]
    /\ \A key \in DOMAIN H : \E i \in 1..n : data[2 + 2 * i] = key

\* What is understood of n lines of headers.
LEMMA UnderstoodLines ==
  ASSUME NEW H, NEW data, NEW n \in Nat, NEW L \in Nat, L = Len(data), 4 + 2 * n <= L,
         LinesOf(H, data, n)
  PROVE  Understood(data) =
           Answer(data[2], H["Content-Type"],
                  IF "Content-Length" \notin DOMAIN H THEN "unknown"
                  ELSE IF H["Content-Length"] = ToString(L - (4 + 2 * n)) THEN "right"
                  ELSE "wrong")
<1> DEFINE e == 4 + 2 * n
           E == {i \in 4..L : i % 2 = 0 /\ data[i] = EmptyLine}
           of(end, key) == {i \in 4..(end - 1) : i % 2 = 0 /\ data[i] = key}
           value(end, key) == data[(CHOOSE i \in of(end, key) : TRUE) + 1]
           length(end) == IF of(end, "Content-Length") = {} THEN "unknown"
                     ELSE IF value(end, "Content-Length") = ToString(L - end) THEN "right"
                     ELSE "wrong"
           K == DOMAIN H
<1>1. e \in Nat /\ 4 <= e /\ e <= L /\ e % 2 = 0
  BY EvenPlaces
<1>0. EmptyLine \notin K
  BY DEF LinesOf, EmptyLine
<1>2. ASSUME NEW i \in 4..(e - 1), i % 2 = 0
      PROVE  data[i] \in K /\ data[i + 1] = H[data[i]]
  <2>1. i \in Nat /\ 4 <= i /\ i < 4 + 2 * n
    BY <1>1
  <2>2. PICK j \in 1..n : i = 2 + 2 * j /\ i + 1 = 3 + 2 * j
    BY <1>2, <2>1, EvenPlaces
  <2>3. data[2 + 2 * j] \in DOMAIN H /\ data[3 + 2 * j] = H[data[2 + 2 * j]]
    BY DEF LinesOf
  <2> QED BY <2>2, <2>3
<1>3. e \in E /\ \A i \in E : e <= i
  <2>1. e \in E
    <3>1. e \in 4..L /\ e % 2 = 0
      BY <1>1
    <3>2. data[e] = EmptyLine
      BY DEF LinesOf
    <3> HIDE DEF e
    <3> QED BY <3>1, <3>2
  <2>2. ASSUME NEW i \in E PROVE e <= i
    <3>1. i \in Nat /\ i \in 4..L /\ i % 2 = 0 /\ data[i] = EmptyLine
      OBVIOUS
    <3> HIDE DEF E, e, K
    <3>2. SUFFICES ASSUME i < e PROVE FALSE
      BY <1>1, <3>1
    <3>3. i \in 4..(e - 1)
      BY <1>1, <3>1, <3>2
    <3> QED BY <1>0, <1>2, <3>1, <3>3
  <2> QED BY <2>1, <2>2
<1>4. Min(E) = e
  <2>1. E \subseteq Nat
    OBVIOUS
  <2> HIDE DEF E, e
  <2> QED BY <1>3, <2>1, MinIs
<1>5. ASSUME NEW key \in K PROVE of(e, key) # {} /\ value(e, key) = H[key]
  <2>1. PICK i \in 1..n : data[2 + 2 * i] = key
    BY DEF LinesOf
  <2>2. 2 + 2 * i \in of(e, key)
    <3>1. 2 + 2 * i \in 4..(e - 1)
      OBVIOUS
    <3>2. (2 + 2 * i) % 2 = 0
      BY EvenPlaces
    <3> HIDE DEF e
    <3> QED BY <2>1, <3>1, <3>2
  <2> DEFINE k == CHOOSE k \in of(e, key) : TRUE
  <2>3. k \in of(e, key)
    <3> HIDE DEF of
    <3> QED BY <2>2
  <2> HIDE DEF k
  <2>4. k \in 4..(e - 1) /\ k % 2 = 0 /\ data[k] = key
    BY <2>3
  <2>5. data[k + 1] = H[key]
    <3> HIDE DEF e, K
    <3> QED BY <1>2, <2>4
  <2> QED BY <2>2, <2>5 DEF k
<1>6. ASSUME NEW key, key \notin K PROVE of(e, key) = {}
  <2> HIDE DEF e, K
  <2> QED BY <1>2, <1>6
<1>7. Understood(data) = Answer(data[2], value(e, "Content-Type"), length(e))
  <2>1. Understood(data) = Answer(data[2], value(Min(E), "Content-Type"), length(Min(E)))
    BY Zenon DEF Understood
  <2> HIDE DEF value, length, E, e
  <2> QED BY <1>4, <2>1
<1>10. "Content-Type" \in K
  BY DEF LinesOf
<1>8. value(e, "Content-Type") = H["Content-Type"]
  <2> HIDE DEF value, of, e, K
  <2> QED BY <1>5, <1>10
<1>9. length(e) = IF "Content-Length" \notin K THEN "unknown"
                  ELSE IF H["Content-Length"] = ToString(L - e) THEN "right" ELSE "wrong"
  <2>1. CASE "Content-Length" \in K
    <3>1. of(e, "Content-Length") # {} /\ value(e, "Content-Length") = H["Content-Length"]
      <4> HIDE DEF value, of, e, K
      <4> QED BY <1>5, <2>1
    <3> HIDE DEF value, of, e, K
    <3> QED BY <2>1, <3>1
  <2>2. CASE "Content-Length" \notin K
    <3>1. of(e, "Content-Length") = {}
      <4> HIDE DEF value, of, e, K
      <4> QED BY <1>6, <2>2
    <3> HIDE DEF value, of, e, K
    <3> QED BY <2>2, <3>1
  <2> QED BY <2>1, <2>2
<1> HIDE DEF of, value, length
<1> QED BY <1>7, <1>8, <1>9

\* s has three words a, then b, then c, and m more.
Join(a, b, c, m, s) ==
    /\ Len(s) = 4 + Len(b) + m
    /\ \A i \in 1..3 : s[i] = a[i]
    /\ \A i \in 1..Len(b) : s[3 + i] = b[i]
    /\ s[4 + Len(b)] = c[1]

\* Three words, headers, one word, and the rest.
LEMMA ResponseJoined ==
  ASSUME NEW W, NEW a \in Seq(W), Len(a) = 3, NEW b \in Seq(W), NEW c \in Seq(W), Len(c) = 1,
         NEW d \in Seq(W), NEW e \in Seq(W)
  PROVE  Join(a, b, c, Len(d) + Len(e), (((a \o b) \o c) \o d) \o e)
<1> DEFINE p == a \o b
           q == p \o c
           r == q \o d
           s == r \o e
<1>0. Len(b) \in Nat /\ Len(c) \in Nat /\ Len(d) \in Nat /\ Len(e) \in Nat
  BY LenProperties
<1>1. IsConcat(W, a, b, p)
  BY ConcatPlaces, Zenon
<1>2. p \in Seq(W)
  BY <1>1 DEF IsConcat
<1> HIDE DEF p
<1>3. IsConcat(W, p, c, q)
  BY <1>2, ConcatPlaces, Zenon
<1>4. q \in Seq(W)
  BY <1>3 DEF IsConcat
<1> HIDE DEF q
<1>5. IsConcat(W, q, d, r)
  BY <1>4, ConcatPlaces, Zenon
<1>6. r \in Seq(W)
  BY <1>5 DEF IsConcat
<1> HIDE DEF r
<1>7. IsConcat(W, r, e, s)
  BY <1>6, ConcatPlaces, Zenon
<1> HIDE DEF s
<1>8. /\ Len(p) = 3 + Len(b)
      /\ \A i \in 1..3 : p[i] = a[i]
      /\ \A i \in 1..Len(b) : p[3 + i] = b[i]
  BY <1>1 DEF IsConcat
<1>9. Len(q) = 4 + Len(b) /\ \A i \in 1..(3 + Len(b)) : q[i] = p[i]
  BY <1>0, <1>3, <1>8 DEF IsConcat
<1>10. q[4 + Len(b)] = c[1]
  <2>1. 1 \in 1..Len(c) /\ Len(p) + 1 = 4 + Len(b)
    BY <1>0, <1>8
  <2> QED BY <1>3, <2>1 DEF IsConcat
<1>11. Len(r) = 4 + Len(b) + Len(d) /\ \A i \in 1..(4 + Len(b)) : r[i] = q[i]
  BY <1>0, <1>5, <1>9 DEF IsConcat
<1>12. Len(s) = 4 + Len(b) + (Len(d) + Len(e)) /\ \A i \in 1..(4 + Len(b)) : s[i] = r[i]
  <2>1. Len(s) = Len(r) + Len(e) /\ \A i \in 1..Len(r) : s[i] = r[i]
    BY <1>7 DEF IsConcat
  <2>2. \A i \in 1..(4 + Len(b)) : i \in 1..Len(r)
    BY <1>0, <1>11
  <2> QED BY <1>0, <1>11, <2>1, <2>2
<1>13. ASSUME NEW i \in 1..3 PROVE s[i] = a[i]
  <2>1. i \in 1..(3 + Len(b)) /\ i \in 1..(4 + Len(b))
    BY <1>0
  <2> QED BY <1>8, <1>9, <1>11, <1>12, <2>1
<1>14. ASSUME NEW i \in 1..Len(b) PROVE s[3 + i] = b[i]
  <2>1. 3 + i \in 1..(3 + Len(b)) /\ 3 + i \in 1..(4 + Len(b))
    BY <1>0
  <2> QED BY <1>8, <1>9, <1>11, <1>12, <2>1
<1>15. s[4 + Len(b)] = c[1]
  <2>1. 4 + Len(b) \in 1..(4 + Len(b))
    BY <1>0
  <2> QED BY <1>10, <1>11, <1>12, <2>1
<1>16. Join(a, b, c, Len(d) + Len(e), s)
  BY <1>12, <1>13, <1>14, <1>15 DEF Join
<1> QED BY <1>16, Zenon DEF p, q, r, s

\* Headers that can be written, with a type.
Writable(H) == IsFiniteSet(DOMAIN H) /\ "" \notin DOMAIN H /\ "Content-Type" \in DOMAIN H

\* A response that can be written.
IsResponse(r) ==
    IsList(r.body) /\ Writable(r.headers)

\* The length that is understood of a response that has n words behind its headers.
LengthOf(H, n) ==
    IF "Content-Length" \notin DOMAIN H THEN "unknown"
    ELSE IF H["Content-Length"] = ToString(n) THEN "right" ELSE "wrong"

\* What is understood of a response is what it says.
LEMMA StrUnderstood ==
  ASSUME NEW r, IsResponse(r), NEW produced, IsList(produced)
  PROVE  Understood(Str(r) \o produced) =
           Answer(r.status, r.headers["Content-Type"],
                  LengthOf(r.headers, Len(r.body) + Len(produced)))
<1> DEFINE H == r.headers
           a == <<"HTTP/1.1", r.status, r.text>>
           b == Block(H)
           c == <<EmptyLine>>
           d == r.body
           data == (((a \o b) \o c) \o d) \o produced
           K == DOMAIN H
<1>1. Str(r) \o produced = data
  BY Zenon DEF Str, Block
<1>2. IsFiniteSet(K) /\ "" \notin K /\ "Content-Type" \in K
  BY DEF IsResponse, Writable
<1>3. PICK n \in Nat :
        /\ b \in Seq(K \cup {H[key] : key \in K}) /\ Len(b) = 2 * n
        /\ \A i \in 1..n : b[2 * i - 1] \in K /\ b[2 * i] = H[b[2 * i - 1]]
        /\ \A key \in K : \E i \in 1..n : b[2 * i - 1] = key
  <2> HIDE DEF b
  <2> QED BY <1>2, HeadersListed, Zenon DEF b
<1> DEFINE B == K \cup {H[key] : key \in K}
<1>12. PICK A : d \in Seq(A)
  BY DEF IsResponse, IsList
<1>13. PICK C : produced \in Seq(C)
  BY DEF IsList
<1> DEFINE W == ({"HTTP/1.1", EmptyLine, r.status, r.text} \cup B) \cup (A \cup C)
<1>4. b \in Seq(W) /\ d \in Seq(W) /\ produced \in Seq(W)
  <2>1. B \subseteq W /\ A \subseteq W /\ C \subseteq W
    OBVIOUS
  <2> HIDE DEF W, B, d
  <2>2. b \in Seq(W)
    <3>1. b \in Seq(B)
      BY <1>3 DEF B
    <3> HIDE DEF b
    <3> QED BY <2>1, <3>1
  <2>3. d \in Seq(W)
    BY <1>12, <2>1
  <2>4. produced \in Seq(W)
    BY <1>13, <2>1
  <2> QED BY <2>2, <2>3, <2>4
<1>5. /\ a \in Seq(W) /\ Len(a) = 3 /\ a[2] = r.status
      /\ c \in Seq(W) /\ Len(c) = 1 /\ c[1] = EmptyLine
  <2>1. "HTTP/1.1" \in W /\ EmptyLine \in W /\ r.status \in W /\ r.text \in W
    OBVIOUS
  <2> HIDE DEF W
  <2> QED BY <2>1
<1>16. Join(a, b, c, Len(d) + Len(produced), data)
  <2> HIDE DEF a, b, c, d, W
  <2> QED BY <1>4, <1>5, ResponseJoined, Zenon
<1> HIDE DEF data
<1>6. /\ Len(data) = 4 + Len(b) + (Len(d) + Len(produced))
      /\ \A i \in 1..3 : data[i] = a[i]
      /\ \A i \in 1..Len(b) : data[3 + i] = b[i]
      /\ data[4 + Len(b)] = c[1]
  BY <1>16, Zenon DEF Join
<1>7. data[2] = r.status
  <2>1. 2 \in 1..3
    OBVIOUS
  <2>2. data[2] = a[2]
    BY <1>6, <2>1, Zenon
  <2> QED BY <1>5, <2>2, Zenon
<1> DEFINE L == Len(data)
<1>8. L \in Nat /\ 4 + 2 * n <= L /\ L - (4 + 2 * n) = Len(d) + Len(produced)
  <2>1. Len(d) \in Nat /\ Len(produced) \in Nat /\ Len(b) = 2 * n /\ L = 4 + Len(b) + (Len(d) + Len(produced))
    BY <1>3, <1>5, <1>6, LenProperties
  <2> HIDE DEF b, d, L
  <2> QED BY <2>1
<1> HIDE DEF a, b, c, data
<1>9. LinesOf(H, data, n)
  <2>1. data[4 + 2 * n] = EmptyLine
    BY <1>3, <1>5, <1>6
  <2>2. ASSUME NEW i \in 1..n
        PROVE  data[2 + 2 * i] = b[2 * i - 1] /\ data[3 + 2 * i] = b[2 * i]
    <3>1. /\ 2 * i - 1 \in 1..Len(b) /\ 2 * i \in 1..Len(b)
          /\ 3 + (2 * i - 1) = 2 + 2 * i
      BY <1>3
    <3>2. data[3 + (2 * i - 1)] = b[2 * i - 1] /\ data[3 + 2 * i] = b[2 * i]
      BY <1>6, <3>1
    <3> QED BY <3>1, <3>2
  <2>3. \A i \in 1..n : data[2 + 2 * i] \in K /\ data[3 + 2 * i] = H[data[2 + 2 * i]]
    <3> HIDE DEF K, H
    <3> QED BY <1>3, <2>2
  <2>4. \A key \in K : \E i \in 1..n : data[2 + 2 * i] = key
    <3> HIDE DEF K, H
    <3> QED BY <1>3, <2>2
  <2> HIDE DEF H
  <2> QED BY <1>2, <2>1, <2>3, <2>4, Zenon DEF LinesOf, EmptyLine
<1>10. Understood(data) =
           Answer(data[2], H["Content-Type"],
                  IF "Content-Length" \notin DOMAIN H THEN "unknown"
                  ELSE IF H["Content-Length"] = ToString(L - (4 + 2 * n)) THEN "right"
                  ELSE "wrong")
  <2>1. L \in Nat /\ L = Len(data) /\ 4 + 2 * n <= L
    BY <1>8
  <2> HIDE DEF H, L
  <2> QED BY <1>9, <2>1, UnderstoodLines, Zenon
<1> HIDE DEF H, L
<1>11. Understood(data) = Answer(r.status, H["Content-Type"], LengthOf(H, Len(d) + Len(produced)))
  BY <1>7, <1>8, <1>10, Zenon DEF LengthOf
<1> QED BY <1>1, <1>11, Zenon DEF H, data

\* A response by its parts.
Rec(status, text, type, headers, body, repeat, request) ==
    [status |-> status, text |-> text, type |-> type, headers |-> headers, body |-> body,
     repeat |-> repeat, request |-> request]

\* A header among others.
With(H, key, value) == [k \in {key} \cup DOMAIN H |-> IF k = key THEN value ELSE H[k]]

\* What setStatus does to a response, and the other setters.
LEMMA StatusIsSet ==
  ASSUME NEW s, NEW t, NEW ty, NEW H, NEW b, NEW p, NEW q, NEW x
  PROVE  SetStatus(Rec(s, t, ty, H, b, p, q), x) = Rec(x, GetStatusText(x), ty, H, b, p, q)
<1> DEFINE r == Rec(s, t, ty, H, b, p, q)
           y == GetStatusText(x)
<1> HIDE DEF y
<1>1. [r EXCEPT !.status = x, !.text = y] = Rec(x, y, ty, H, b, p, q)
  <2>1. [r EXCEPT !.status = x] = Rec(x, t, ty, H, b, p, q)
    BY DEF Rec
  <2>2. [Rec(x, t, ty, H, b, p, q) EXCEPT !.text = y] = Rec(x, y, ty, H, b, p, q)
    BY DEF Rec
  <2> HIDE DEF r
  <2>3. [r EXCEPT !.status = x, !.text = y] = [[r EXCEPT !.status = x] EXCEPT !.text = y]
    OBVIOUS
  <2> QED BY <2>1, <2>2, <2>3, Zenon
<1> HIDE DEF r
<1> QED BY <1>1, Zenon DEF SetStatus, y, r

\* A header is put among the others.
LEMMA HeaderIsSet ==
  ASSUME NEW s, NEW t, NEW ty, NEW H, NEW b, NEW p, NEW q, NEW k, NEW v
  PROVE  SetHeader(Rec(s, t, ty, H, b, p, q), k, v) = Rec(s, t, ty, With(H, k, v), b, p, q)
BY DEF SetHeader, Rec, With

\* The type is a header, too.
LEMMA TypeIsSet ==
  ASSUME NEW s, NEW t, NEW ty, NEW H, NEW b, NEW p, NEW q, NEW x
  PROVE  SetContentType(Rec(s, t, ty, H, b, p, q), x) = Rec(s, t, x, With(H, "Content-Type", x), b, p, q)
<1>1. [Rec(s, t, ty, H, b, p, q) EXCEPT !.type = x] = Rec(s, t, x, H, b, p, q)
  BY DEF Rec
<1> QED BY <1>1, HeaderIsSet DEF SetContentType

\* The body.
LEMMA BodyIsSet ==
  ASSUME NEW s, NEW t, NEW ty, NEW H, NEW b, NEW p, NEW q, NEW x
  PROVE  SetBody(Rec(s, t, ty, H, b, p, q), x) = Rec(s, t, ty, H, x, p, q)
BY DEF SetBody, Rec

\* The headers of a constructor.
LEMMA HeadersAreSet ==
  ASSUME NEW s, NEW t, NEW ty, NEW H, NEW b, NEW p, NEW q, NEW x
  PROVE  [Rec(s, t, ty, H, b, p, q) EXCEPT !.headers = x] = Rec(s, t, ty, x, b, p, q)
BY DEF Rec

\* markRepeat.
LEMMA RepeatIsSet ==
  ASSUME NEW s, NEW t, NEW ty, NEW H, NEW b, NEW p, NEW q
  PROVE  MarkRepeat(Rec(s, t, ty, H, b, p, q)) = Rec(s, t, ty, H, b, TRUE, q)
<1>1. \A x : [Rec(s, t, ty, H, b, p, q) EXCEPT !.repeat = x] = Rec(s, t, ty, H, b, x, q)
  BY DEF Rec
<1> QED BY <1>1, Zenon DEF MarkRepeat

\* The request.
LEMMA RequestIsSet ==
  ASSUME NEW s, NEW t, NEW ty, NEW H, NEW b, NEW p, NEW q, NEW x
  PROVE  NewResponse(Rec(s, t, ty, H, b, p, q), x) = Rec(s, t, ty, H, b, p, x)
BY DEF NewResponse, Rec

\* Its names, their values.
LEMMA Headers ==
  ASSUME NEW k, NEW v, NEW H
  PROVE  /\ DOMAIN With(H, k, v) = {k} \cup DOMAIN H
         /\ With(H, k, v)[k] = v
         /\ \A x \in DOMAIN H : x # k => With(H, k, v)[x] = H[x]
         /\ IsFiniteSet(DOMAIN H) => IsFiniteSet(DOMAIN With(H, k, v))
<1>1. DOMAIN With(H, k, v) = {k} \cup DOMAIN H
  BY DEF With
<1>2. With(H, k, v)[k] = v
  BY DEF With
<1>3. \A x \in DOMAIN H : x # k => With(H, k, v)[x] = H[x]
  BY DEF With
<1>4. IsFiniteSet(DOMAIN H) => IsFiniteSet(DOMAIN H \cup {k})
  BY FS_AddElement
<1>5. DOMAIN H \cup {k} = {k} \cup DOMAIN H
  OBVIOUS
<1> QED BY <1>1, <1>2, <1>3, <1>4, <1>5, Zenon

\* The headers of a response that is constructed.
Constructed(body, type, headers) ==
    LET typed == IF type = "" THEN headers ELSE With(headers, "Content-Type", type)
        named == With(typed, "Server", "deskshare-http-server")
    IN  IF body = <<>> THEN named ELSE With(named, "Content-Length", ToString(Len(body)))

\* A response is made of what it is given.
LEMMA ResponseIs ==
  ASSUME NEW body, NEW type, NEW status, NEW headers
  PROVE  Response(body, type, status, headers) =
           Rec(status, GetStatusText(status), type, Constructed(body, type, headers), body,
               FALSE, <<>>)
<1> DEFINE text == GetStatusText(status)
           no == FALSE
           blank == ""
           none == <<>>
           R(ty, H, b) == Rec(status, text, ty, H, b, no, none)
           resp == SetBody([SetStatus(NoResponse, status) EXCEPT !.headers = headers], body)
           typed == IF type = "" THEN resp ELSE SetContentType(resp, type)
           H1 == IF type = "" THEN headers ELSE With(headers, "Content-Type", type)
           named == SetHeader(typed, "Server", "deskshare-http-server")
           H2 == With(H1, "Server", "deskshare-http-server")
           length == ToString(Len(body))
<1>1. SetStatus(NoResponse, status) = R(blank, none, none)
  <2>1. NoResponse = Rec(blank, blank, blank, none, none, no, none)
    BY Zenon DEF NoResponse, Rec
  <2> HIDE DEF no, blank, none
  <2> QED BY <2>1, StatusIsSet
<1> HIDE DEF no, blank, none, text, length
<1>2. [SetStatus(NoResponse, status) EXCEPT !.headers = headers] = R(blank, headers, none)
  BY <1>1, HeadersAreSet
<1>3. resp = R(blank, headers, body)
  BY <1>2, BodyIsSet
<1> HIDE DEF resp
<1>11. SetContentType(resp, type) = R(type, With(headers, "Content-Type", type), body)
  BY <1>3, TypeIsSet
<1>4. typed = R(type, H1, body)
  <2>1. CASE type = ""
    BY <1>3, <2>1, Zenon DEF blank
  <2>2. CASE type # ""
    <3>1. typed = SetContentType(resp, type) /\ H1 = With(headers, "Content-Type", type)
      BY <2>2, Zenon
    <3> QED BY <1>11, <3>1, Zenon
  <2> QED BY <2>1, <2>2
<1> HIDE DEF typed, H1
<1>5. named = R(type, H2, body)
  BY <1>4, HeaderIsSet
<1> HIDE DEF named, H2
<1>6. SetHeader(named, "Content-Length", length) = R(type, With(H2, "Content-Length", length), body)
  BY <1>5, HeaderIsSet
<1>7. Response(body, type, status, headers) =
        IF body = <<>> THEN named ELSE SetHeader(named, "Content-Length", length)
  BY Zenon DEF Response, resp, typed, named, length
<1>8. Constructed(body, type, headers) =
        IF body = <<>> THEN H2 ELSE With(H2, "Content-Length", length)
  BY Zenon DEF Constructed, H1, H2, length
<1>9. CASE body = <<>>
  BY <1>5, <1>7, <1>8, <1>9, Zenon DEF text, no, none
<1>10. CASE body # <<>>
  BY <1>6, <1>7, <1>8, <1>10, Zenon DEF text, no, none
<1> QED BY <1>9, <1>10

\* The length that is understood of an answer.
WrittenLength(H, repeat, m, n) ==
    IF repeat \/ "Content-Length" \in DOMAIN H THEN LengthOf(H, m + n)
    ELSE IF ToString(n) = ToString(m + n) THEN "right" ELSE "wrong"

\* a is what is understood of a response.
ReadAs(r, produced, a) == Understood(Written(r, produced)) = a

\* What is understood of what is written.
LEMMA WrittenUnderstood ==
  ASSUME NEW s, NEW t, NEW ty, NEW H, NEW b, NEW p, NEW q, NEW produced,
         IsList(b), IsList(produced), Writable(H)
  PROVE  ReadAs(Rec(s, t, ty, H, b, p, q), produced,
                Answer(s, H["Content-Type"], WrittenLength(H, p, Len(b), Len(produced))))
<1> DEFINE r == Rec(s, t, ty, H, b, p, q)
           length == ToString(Len(produced))
           G == With(H, "Content-Length", length)
           u == Rec(s, t, ty, G, b, p, q)
           announced == p \/ "Content-Length" \in DOMAIN H
<1>1. r.repeat = p /\ r.headers = H /\ r.status = s /\ r.body = b
  BY Zenon DEF Rec
<1>2. u.headers = G /\ u.status = s /\ u.body = b
  BY Zenon DEF Rec
<1>3. SizedBy(r, produced) = IF announced THEN r ELSE u
  <2>1. SetHeader(r, "Content-Length", length) = u
    <3> HIDE DEF length
    <3> QED BY HeaderIsSet
  <2> HIDE DEF r, u, length
  <2> QED BY <1>1, <2>1, Zenon DEF SizedBy, length
<1>4. IsResponse(r)
  <2> HIDE DEF r
  <2> QED BY <1>1, Zenon DEF IsResponse
<1>5. /\ Writable(G)
      /\ G["Content-Type"] = H["Content-Type"] /\ "Content-Length" \in DOMAIN G
      /\ G["Content-Length"] = length
  <2> HIDE DEF length
  <2>1. DOMAIN G = {"Content-Length"} \cup DOMAIN H /\ G["Content-Length"] = length
    BY Headers, Zenon
  <2>2. \A x \in DOMAIN H : x # "Content-Length" => G[x] = H[x]
    BY DEF With
  <2>3. IsFiniteSet(DOMAIN H) => IsFiniteSet(DOMAIN G)
    BY Headers, Zenon
  <2> HIDE DEF G
  <2> QED BY <2>1, <2>2, <2>3 DEF Writable
<1> HIDE DEF G
<1>6. IsResponse(u)
  <2> HIDE DEF u
  <2> QED BY <1>2, <1>5, Zenon DEF IsResponse
<1> DEFINE m == Len(b)
           n == Len(produced)
<1>7. CASE announced
  <2>1. Written(r, produced) = Str(r) \o produced
    BY <1>3, <1>7, Zenon DEF Written
  <2>2. Understood(Str(r) \o produced) = Answer(s, H["Content-Type"], LengthOf(H, m + n))
    <3> HIDE DEF r
    <3> QED BY <1>1, <1>4, StrUnderstood, Zenon
  <2>3. WrittenLength(H, p, m, n) = LengthOf(H, m + n)
    <3> HIDE DEF m, n
    <3> QED BY <1>7, Zenon DEF WrittenLength
  <2> QED BY <2>1, <2>2, <2>3, Zenon DEF ReadAs
<1>8. CASE ~ announced
  <2>1. Written(r, produced) = Str(u) \o produced
    BY <1>3, <1>8, Zenon DEF Written
  <2>2. Understood(Str(u) \o produced) = Answer(s, G["Content-Type"], LengthOf(G, m + n))
    <3> HIDE DEF u
    <3> QED BY <1>2, <1>6, StrUnderstood, Zenon
  <2>3. LengthOf(G, m + n) = IF length = ToString(m + n) THEN "right" ELSE "wrong"
    <3> HIDE DEF m, n, length
    <3> QED BY <1>5, Zenon DEF LengthOf
  <2>4. WrittenLength(H, p, m, n) = LengthOf(G, m + n)
    <3> HIDE DEF m
    <3> QED BY <1>8, <2>3, Zenon DEF WrittenLength
  <2> QED BY <1>5, <2>1, <2>2, <2>4, Zenon DEF ReadAs
<1> QED BY <1>7, <1>8

-----------------------------------------------------------------------------
(***************************************************************************)
(* Pages, pictures, errors: addRoute, getMimeType, sendErrorResponse.      *)
(***************************************************************************)

\* The text of a page.
LEMMA PageTextIs ==
  ASSUME NEW path, IsList(path)
  PROVE  IsList(PageText(path)) /\ PageText(path) # <<>> /\ Len(PageText(path)) \in Nat
<1>1. PICK A : path \in Seq(A)
  BY DEF IsList
<1>2. path \in Seq(A \cup {"text"}) /\ <<"text">> \in Seq(A \cup {"text"}) /\ Len(<<"text">>) = 1
  BY <1>1
<1>3. IsConcat(A \cup {"text"}, path, <<"text">>, path \o <<"text">>)
  BY <1>2, ConcatPlaces, Zenon
<1>4. path \o <<"text">> \in Seq(A \cup {"text"}) /\ Len(path \o <<"text">>) = Len(path) + 1
  BY <1>2, <1>3 DEF IsConcat
<1>5. Len(path) \in Nat
  BY <1>1
<1> QED BY <1>4, <1>5 DEF IsList, PageText

\* A page has its length.
LEMMA StaticAnswer ==
  ASSUME NEW path, NEW m, IsList(path)
  PROVE  Understood(Written(NewResponse(AddRoute(path, Response(PageText(path), "", "200", <<>>)), m),
                            <<>>)) =
           Answer("200", MimeType(path), "right")
<1> DEFINE body == PageText(path)
           none == <<>>
           blank == ""
           no == FALSE
           ok == "200"
           text == GetStatusText(ok)
           H1 == With(none, "Server", "deskshare-http-server")
           length == ToString(Len(body))
           H2 == With(H1, "Content-Length", length)
           mime == MimeType(path)
           H3 == With(H2, "Content-Type", mime)
           resp == Response(body, blank, ok, none)
<1>1. IsList(body) /\ body # none /\ Len(body) \in Nat
  BY PageTextIs, Zenon
<1>2. resp = Rec(ok, text, blank, H2, body, no, none)
  <2>1. Constructed(body, blank, none) = H2
    BY <1>1, Zenon DEF Constructed
  <2> HIDE DEF body, no, ok, H2
  <2> QED BY <2>1, ResponseIs, Zenon DEF no
<1>3. resp.type = blank
  <2> HIDE DEF resp
  <2> QED BY <1>2, Zenon DEF Rec
<1> HIDE DEF none, blank, no, ok, text, length, mime, H1, H2, body, resp
<1>4. SetContentType(resp, mime) = Rec(ok, text, mime, H3, body, no, none)
  BY <1>2, TypeIsSet
<1>5. AddRoute(path, resp) = Rec(ok, text, mime, H3, body, no, none)
  BY <1>3, <1>4, Zenon DEF AddRoute, blank, mime
<1>6. NewResponse(AddRoute(path, resp), m) = Rec(ok, text, mime, H3, body, no, m)
  BY <1>5, RequestIsSet
<1>7. /\ DOMAIN H3 = {"Content-Type", "Content-Length", "Server"}
      /\ H3["Content-Type"] = mime /\ H3["Content-Length"] = length
  <2>1. DOMAIN H1 = {"Server"}
    BY DEF H1, With, none
  <2>2. DOMAIN H2 = {"Content-Length", "Server"} /\ H2["Content-Length"] = length
    BY <2>1 DEF H2, With
  <2>3. H3["Content-Type"] = mime /\ DOMAIN H3 = {"Content-Type"} \cup DOMAIN H2
    BY Headers, Zenon
  <2>4. H3["Content-Length"] = H2["Content-Length"]
    BY <2>2 DEF With
  <2> QED BY <2>2, <2>3, <2>4
<1> HIDE DEF H3
<1>8. Writable(H3)
  <2>1. IsFiniteSet(DOMAIN none)
    <3>1. DOMAIN none = {}
      BY DEF none
    <3> QED BY <3>1, FS_EmptySet, Zenon
  <2>2. IsFiniteSet(DOMAIN H3)
    BY <2>1, Headers, Zenon DEF H1, H2, H3
  <2> QED BY <1>7, <2>2 DEF Writable
<1>9. IsList(none) /\ Len(none) = 0
  <2>1. <<>> \in Seq({})
    OBVIOUS
  <2> QED BY <2>1 DEF IsList, none
<1>10. ReadAs(Rec(ok, text, mime, H3, body, no, m), none,
         Answer(ok, H3["Content-Type"], WrittenLength(H3, no, Len(body), Len(none))))
  BY <1>1, <1>8, <1>9, WrittenUnderstood, Zenon
<1>11. WrittenLength(H3, no, Len(body), Len(none)) = "right"
  <2>1. Len(body) + Len(none) = Len(body)
    BY <1>1, <1>9
  <2>2. "Content-Length" \in DOMAIN H3
    BY <1>7
  <2> QED BY <1>7, <2>1, <2>2, Zenon DEF WrittenLength, LengthOf, length
<1> QED BY <1>6, <1>7, <1>10, <1>11, Zenon DEF none, blank, ok, mime, resp, body, ReadAs

\* Headers of a response whose body is produced.
Bare(H) ==
    /\ IsFiniteSet(DOMAIN H)
    /\ "" \notin DOMAIN H /\ "Content-Type" \notin DOMAIN H /\ "Content-Length" \notin DOMAIN H

Named(type) == type # ""

\* How an answer is read whose body is produced.
ProducedAs(type, status, H, produced, m) ==
    /\ Understood(Written(NewResponse(Response(<<>>, type, status, H), m), produced)) =
         Answer(status, type, "right")
    /\ Understood(Written(NewResponse(MarkRepeat(Response(<<>>, type, status, H)), m), produced)) =
         Answer(status, type, "unknown")

\* What is produced has its length, unless it is repeated.
LEMMA ProducedAnswer ==
  ASSUME NEW type, Named(type), NEW status, NEW H, Bare(H), NEW produced, IsList(produced),
         Len(produced) \in Nat, NEW m
  PROVE  ProducedAs(type, status, H, produced, m)
<1> DEFINE none == <<>>
           no == FALSE
           yes == TRUE
           text == GetStatusText(status)
           H1 == With(H, "Content-Type", type)
           H2 == With(H1, "Server", "deskshare-http-server")
           resp == Response(none, type, status, H)
<1>1. resp = Rec(status, text, type, H2, none, no, none)
  <2>1. Constructed(none, type, H) = H2
    BY Zenon DEF Constructed, Named
  <2> HIDE DEF no, H2, none
  <2> QED BY <2>1, ResponseIs, Zenon DEF no, none
<1>3. Writable(H2) /\ H2["Content-Type"] = type /\ "Content-Length" \notin DOMAIN H2
  <2>1. DOMAIN H1 = {"Content-Type"} \cup DOMAIN H /\ H1["Content-Type"] = type
    BY Headers, Zenon
  <2>2. IsFiniteSet(DOMAIN H1)
    BY Headers, Zenon DEF Bare
  <2> HIDE DEF H1
  <2>3. DOMAIN H2 = {"Server"} \cup DOMAIN H1
    BY Headers, Zenon
  <2>4. IsFiniteSet(DOMAIN H2)
    BY <2>2, Headers, Zenon
  <2>5. H2["Content-Type"] = H1["Content-Type"]
    BY <2>1 DEF With
  <2> HIDE DEF H2
  <2> QED BY <2>1, <2>3, <2>4, <2>5 DEF Writable, Bare
<1> HIDE DEF none, no, yes, text, H2, resp
<1>4. IsList(none) /\ Len(none) = 0
  <2>1. <<>> \in Seq({})
    OBVIOUS
  <2> QED BY <2>1 DEF IsList, none
<1>5. NewResponse(resp, m) = Rec(status, text, type, H2, none, no, m)
  BY <1>1, RequestIsSet
<1>6. MarkRepeat(resp) = Rec(status, text, type, H2, none, yes, none)
  BY <1>1, RepeatIsSet, Zenon DEF yes
<1>7. NewResponse(MarkRepeat(resp), m) = Rec(status, text, type, H2, none, yes, m)
  BY <1>6, RequestIsSet
<1>8. \A p : ReadAs(Rec(status, text, type, H2, none, p, m), produced,
               Answer(status, H2["Content-Type"], WrittenLength(H2, p, Len(none), Len(produced))))
  BY <1>3, <1>4, WrittenUnderstood, Zenon
<1>9. Len(none) + Len(produced) = Len(produced)
  BY <1>4
<1>10. WrittenLength(H2, no, Len(none), Len(produced)) = "right"
  BY <1>3, <1>9, Zenon DEF WrittenLength, no
<1>11. WrittenLength(H2, yes, Len(none), Len(produced)) = "unknown"
  BY <1>3, Zenon DEF WrittenLength, LengthOf, yes
<1>12. Understood(Written(NewResponse(resp, m), produced)) = Answer(status, type, "right")
  BY <1>3, <1>5, <1>8, <1>10, Zenon DEF ReadAs
<1>13. Understood(Written(NewResponse(MarkRepeat(resp), m), produced)) = Answer(status, type, "unknown")
  BY <1>3, <1>7, <1>8, <1>11, Zenon DEF ReadAs
<1> QED BY <1>12, <1>13, Zenon DEF resp, none, ProducedAs

\* An error has its status and some length.
LEMMA ErrorIs ==
  ASSUME NEW status
  PROVE  \E length \in {"right", "wrong"} : ErrorAnswer(status) = Answer(status, "text/html", length)
<1> DEFINE none == <<>>
           blank == ""
           no == FALSE
           text == GetStatusText(status)
           html == "text/html"
           H == With(none, "Content-Type", html)
           body == <<"<h1>", status, text, "</h1>">>
           resp == Rec(status, text, blank, H, body, no, none)
<1>1. NoResponse = Rec(blank, blank, blank, none, none, no, none)
  BY Zenon DEF NoResponse, Rec
<1>2. IsList(body) /\ IsList(none)
  <2>1. none \in Seq({}) /\ body \in Seq({"<h1>", status, text, "</h1>"})
    OBVIOUS
  <2> HIDE DEF body, none
  <2> QED BY <2>1 DEF IsList
<1>3. DOMAIN H = {"Content-Type"} /\ H["Content-Type"] = html
  BY DEF With
<1> HIDE DEF none, blank, no, text, html, H, body
<1>4. SetStatus(NoResponse, status) = Rec(status, text, blank, none, none, no, none)
  BY <1>1, StatusIsSet DEF text
<1>5. SetHeader(SetStatus(NoResponse, status), "Content-Type", html) =
        Rec(status, text, blank, H, none, no, none)
  BY <1>4, HeaderIsSet DEF H
<1>6. SetBody(SetHeader(SetStatus(NoResponse, status), "Content-Type", html), body) = resp
  BY <1>5, BodyIsSet
<1>7. ErrorResponse(status) = resp
  <2> HIDE DEF resp
  <2> QED BY <1>6, Zenon DEF ErrorResponse, html, body, text
<1>8. Writable(H)
  <2>1. IsFiniteSet({"Content-Type"})
    BY FS_EmptySet, FS_AddElement
  <2> QED BY <1>3, <2>1 DEF Writable
<1>9. ReadAs(resp, none,
        Answer(status, H["Content-Type"], WrittenLength(H, no, Len(body), Len(none))))
  BY <1>2, <1>8, WrittenUnderstood, Zenon
<1>10. WrittenLength(H, no, Len(body), Len(none)) \in {"right", "wrong"}
  <2>1. "Content-Length" \notin DOMAIN H
    BY <1>3
  <2> DEFINE w == WrittenLength(H, no, Len(body), Len(none))
  <2>2. w = IF ToString(Len(none)) = ToString(Len(body) + Len(none)) THEN "right" ELSE "wrong"
    BY <2>1, Zenon DEF WrittenLength, no
  <2>3. w = "right" \/ w = "wrong"
    BY <2>2, Zenon
  <2> QED BY <2>3, Zenon
<1> HIDE DEF resp
<1> QED BY <1>3, <1>7, <1>9, <1>10, Zenon DEF ErrorAnswer, html, none, ReadAs

\* The dots of a path.
Dots(path) == {i \in 1..Len(path) : path[i] = "."}

\* A path without a dot, and one whose last but one word is the only dot.
LEMMA MimeIs ==
  ASSUME NEW path
  PROVE  /\ Dots(path) = {} => MimeType(path) = "text/html"
         /\ \A n \in Nat : n # 0 /\ n + 1 = Len(path) /\ Dots(path) = {n} /\ path[Len(path)] \in DOMAIN MimeTypes =>
                MimeType(path) = MimeTypes[path[Len(path)]]
<1> DEFINE dot == SelectLastInSeq(path, LAMBDA x : x = ".")
<1>1. dot = IF Dots(path) # {} THEN Max(Dots(path)) ELSE 0
  BY Zenon DEF SelectLastInSeq, Dots
<1>2. MimeType(path) =
        IF dot = 0 THEN "text/html"
        ELSE IF dot + 1 = Len(path) /\ path[Len(path)] \in DOMAIN MimeTypes
             THEN MimeTypes[path[Len(path)]]
        ELSE "application/octet-stream"
  BY Zenon DEF MimeType
<1> HIDE DEF dot
<1>3. Dots(path) = {} => MimeType(path) = "text/html"
  BY <1>1, <1>2, Zenon
<1>4. ASSUME NEW n \in Nat, n # 0, n + 1 = Len(path), Dots(path) = {n},
             path[Len(path)] \in DOMAIN MimeTypes
      PROVE  MimeType(path) = MimeTypes[path[Len(path)]]
  <2>1. Max({n}) = n
    BY DEF Max
  <2>2. dot = n
    BY <1>1, <1>4, <2>1
  <2> QED BY <1>2, <1>4, <2>2, Zenon
<1> QED BY <1>3, <1>4

\* Paths are told apart by their words.
LEMMA PathsDiffer ==
  /\ \A n : <<"/">> # <<"/", n>>
  /\ \A n, e : <<"/">> # File(n, e)
  /\ \A n, m, e : <<"/", n>> # File(m, e)
  /\ \A n, m : <<"/", n>> = <<"/", m>> => n = m
  /\ \A n, e, m, f : File(n, e) = File(m, f) => n = m /\ e = f
BY DEF File

\* The type that a page needs.
LEMMA NeededIs ==
  /\ DOMAIN Needed = StaticPages \cup {<<"/", "info">>, <<"/", "mjpeg">>}
  /\ \A n \in {"video", "raw", "info"} : Needed[<<"/", n>>] = "text/html"
  /\ Needed[<<"/">>] = "text/html" /\ Needed[<<"/", "mjpeg">>] = "multipart/x-mixed-replace"
  /\ \A n \in {"player", "jmuxer", "mjpeg"} : Needed[File(n, "js")] = "application/javascript"
  /\ Needed[File("player", "css")] = "text/css" /\ Needed[File("favicon", "ico")] = "image/x-icon"
<1>1. DOMAIN Needed = StaticPages \cup {<<"/", "info">>, <<"/", "mjpeg">>}
  BY DEF Needed, StaticPages, Page, Scripts
<1> DEFINE D == Scripts \cup {<<"/">>, Page("video"), Page("raw"), Page("info"), Page("mjpeg"),
                              File("player", "css"), File("favicon", "ico")}
           type(path) == CASE path \in Scripts -> "application/javascript"
                           [] path = File("player", "css") -> "text/css"
                           [] path = File("favicon", "ico") -> "image/x-icon"
                           [] path = Page("mjpeg") -> "multipart/x-mixed-replace"
                           [] OTHER -> "text/html"
<1>2. \A path \in D : Needed[path] = type(path)
  BY Zenon DEF Needed
<1>3. ASSUME NEW n \in {"video", "raw", "info"} PROVE Needed[<<"/", n>>] = "text/html"
  <2>1. <<"/", n>> \in D
    BY DEF Page
  <2>2. /\ <<"/", n>> \notin Scripts /\ <<"/", n>> # File("player", "css")
        /\ <<"/", n>> # File("favicon", "ico") /\ <<"/", n>> # Page("mjpeg")
    BY PathsDiffer DEF Scripts, Page
  <2>3. type(<<"/", n>>) = "text/html"
    BY <2>2, Zenon
  <2> QED BY <1>2, <2>1, <2>3, Zenon
<1>4. Needed[<<"/">>] = "text/html"
  <2>2. /\ <<"/">> \notin Scripts /\ <<"/">> # File("player", "css")
        /\ <<"/">> # File("favicon", "ico") /\ <<"/">> # Page("mjpeg")
    BY PathsDiffer DEF Scripts, Page
  <2>3. type(<<"/">>) = "text/html"
    BY <2>2, Zenon
  <2> QED BY <1>2, <2>3, Zenon
<1>5. Needed[<<"/", "mjpeg">>] = "multipart/x-mixed-replace"
  <2>2. /\ <<"/", "mjpeg">> \notin Scripts /\ <<"/", "mjpeg">> # File("player", "css")
        /\ <<"/", "mjpeg">> # File("favicon", "ico") /\ <<"/", "mjpeg">> = Page("mjpeg")
    BY PathsDiffer DEF Scripts, Page
  <2>3. type(<<"/", "mjpeg">>) = "multipart/x-mixed-replace"
    BY <2>2, Zenon
  <2> QED BY <1>2, <2>2, <2>3, Zenon
<1>6. ASSUME NEW n \in {"player", "jmuxer", "mjpeg"}
      PROVE  Needed[File(n, "js")] = "application/javascript"
  <2>1. File(n, "js") \in Scripts /\ File(n, "js") \in D
    BY DEF Scripts
  <2>2. type(File(n, "js")) = "application/javascript"
    BY <2>1, PathsDiffer DEF Page
  <2> QED BY <1>2, <2>1, <2>2, Zenon
<1>7. Needed[File("player", "css")] = "text/css"
  <2>1. File("player", "css") \notin Scripts
    BY PathsDiffer DEF Scripts
  <2>2. File("player", "css") # File("favicon", "ico") /\ File("player", "css") # Page("mjpeg")
    BY PathsDiffer DEF Page
  <2>3. type(File("player", "css")) = "text/css"
    BY <2>1, <2>2
  <2> QED BY <1>2, <2>3, Zenon
<1>8. Needed[File("favicon", "ico")] = "image/x-icon"
  <2>1. File("favicon", "ico") \notin Scripts
    BY PathsDiffer DEF Scripts
  <2>2. File("player", "css") # File("favicon", "ico") /\ File("favicon", "ico") # Page("mjpeg")
    BY PathsDiffer DEF Page
  <2>3. type(File("favicon", "ico")) = "image/x-icon"
    BY <2>1, <2>2
  <2> QED BY <1>2, <2>3, Zenon
<1> QED BY <1>1, <1>3, <1>4, <1>5, <1>6, <1>7, <1>8, Zenon

\* The types of the pages.
LEMMA MimeOfPages ==
  \A path \in StaticPages : IsList(path) /\ MimeType(path) = Needed[path] /\ path \in DOMAIN Needed
<1>1. ASSUME NEW name PROVE IsList(<<"/", name>>)
  <2>1. <<"/", name>> \in Seq({"/", name})
    OBVIOUS
  <2> QED BY <2>1 DEF IsList
<1>2. ASSUME NEW name, NEW ending PROVE IsList(File(name, ending))
  <2>1. File(name, ending) \in Seq({"/", name, ".", ending})
    BY DEF File
  <2> QED BY <2>1 DEF IsList
<1>3. IsList(<<"/">>)
  <2>1. <<"/">> \in Seq({"/"})
    OBVIOUS
  <2> QED BY <2>1 DEF IsList
<1>4. ASSUME NEW name, name # "."
      PROVE  MimeType(<<"/", name>>) = "text/html"
  <2>1. Dots(<<"/", name>>) = {}
    BY <1>4 DEF Dots
  <2> QED BY <2>1, MimeIs, Zenon
<1>5. MimeType(<<"/">>) = "text/html"
  <2>1. Dots(<<"/">>) = {}
    BY DEF Dots
  <2> QED BY <2>1, MimeIs, Zenon
<1>6. ASSUME NEW name, NEW ending, name # ".", ending # ".", ending \in DOMAIN MimeTypes
      PROVE  MimeType(File(name, ending)) = MimeTypes[ending]
  <2> DEFINE path == File(name, ending)
  <2>1. Len(path) = 4 /\ path[1] = "/" /\ path[2] = name /\ path[3] = "." /\ path[4] = ending
    BY DEF File
  <2> HIDE DEF path
  <2>2. Dots(path) = {3}
    BY <1>6, <2>1 DEF Dots
  <2>3. 3 \in Nat /\ 3 # 0 /\ 3 + 1 = 4
    OBVIOUS
  <2>4. path[Len(path)] = ending
    BY <2>1, Zenon
  <2>5. MimeType(path) = MimeTypes[path[Len(path)]]
    BY <1>6, <2>1, <2>2, <2>3, MimeIs
  <2> QED BY <2>4, <2>5, Zenon DEF path
<1>7. /\ {"js", "css", "ico"} \subseteq DOMAIN MimeTypes
      /\ MimeTypes["js"] = "application/javascript" /\ MimeTypes["css"] = "text/css"
      /\ MimeTypes["ico"] = "image/x-icon"
  BY DEF MimeTypes
<1>8. ASSUME NEW n \in {"video", "raw"}
      PROVE  IsList(<<"/", n>>) /\ MimeType(<<"/", n>>) = Needed[<<"/", n>>]
  <2>1. n # "." /\ n \in {"video", "raw", "info"}
    OBVIOUS
  <2> QED BY <1>1, <1>4, <2>1, NeededIs, Zenon
<1>9. ASSUME NEW n \in {"player", "jmuxer", "mjpeg"}
      PROVE  IsList(File(n, "js")) /\ MimeType(File(n, "js")) = Needed[File(n, "js")]
  <2>1. n # "." /\ "js" # "." /\ "js" \in DOMAIN MimeTypes
    BY <1>7
  <2>2. MimeType(File(n, "js")) = "application/javascript"
    BY <1>6, <1>7, <2>1, Zenon
  <2> QED BY <1>2, <2>2, NeededIs, Zenon
<1>10. MimeType(File("player", "css")) = "text/css" /\ MimeType(File("favicon", "ico")) = "image/x-icon"
  <2>1. "player" # "." /\ "css" # "." /\ "favicon" # "." /\ "ico" # "."
    OBVIOUS
  <2>2. "css" \in DOMAIN MimeTypes /\ "ico" \in DOMAIN MimeTypes
    BY <1>7
  <2> QED BY <1>6, <1>7, <2>1, <2>2, Zenon
<1>11. \A path \in StaticPages : IsList(path) /\ MimeType(path) = Needed[path]
  <2> SUFFICES ASSUME NEW path \in StaticPages
               PROVE  IsList(path) /\ MimeType(path) = Needed[path]
    OBVIOUS
  <2>1. \/ path = <<"/">>
        \/ \E n \in {"video", "raw"} : path = <<"/", n>>
        \/ \E n \in {"player", "jmuxer", "mjpeg"} : path = File(n, "js")
        \/ path = File("player", "css")
        \/ path = File("favicon", "ico")
    BY Zenon DEF StaticPages
  <2> QED BY <1>2, <1>3, <1>5, <1>8, <1>9, <1>10, <2>1, NeededIs, Zenon
<1> QED BY <1>11, NeededIs, Zenon

-----------------------------------------------------------------------------
(***************************************************************************)
(* The answers to requests and to frames, each as it should be.            *)
(***************************************************************************)

\* Fits, of a message.
Suits(a, m, i) ==
    LET path == m.url[2]
    IN  IF m.frame = "PING" THEN a.type \in {"", "PONG"}
        ELSE IF m.frame # ""
             THEN a.status \in (IF m.frame = "TEXT" THEN {"PONG", "Received"} ELSE {"1000"})
        ELSE IF IsUpgrade(m)
             THEN IF m.method = "GET" /\ m.hasKey /\ path \in {Page("stream"), <<"/", "ws", "test">>}
                  THEN a = Handshake(i) ELSE a.type = "CLOSE"
        ELSE IF m.first = "bad" THEN a.status = "400"
        ELSE IF m.method = "GET" /\ path \in DOMAIN Needed
             THEN a.status = "200" /\ a.type = Needed[path]
        ELSE a.status = IF m.method = "OPTIONS" /\ path = Page("mjpeg") THEN "204" ELSE "404"

\* The lengths that AnswersFit allows.
Readable(a) ==
    /\ a.length = "wrong" => a.status \in {"400", "404"}
    /\ a.length = "unknown" => a.type = "multipart/x-mixed-replace"

\* What requests have.
LEMMA RequestHas ==
  ASSUME NEW m \in Requests
  PROVE  /\ m.frame = ""
         /\ \/ m.first = "bad" /\ m.connection = "keep-alive"
            \/ /\ m.first = "good" /\ m.url \in Urls /\ m.method \in {"GET", "OPTIONS", "POST"}
               /\ m.connection \in {"keep-alive", "Upgrade", "keep-alive, Upgrade"}
<1>1. CASE m = Garbled
  BY <1>1 DEF Garbled, Http
<1>2. CASE m # Garbled
  BY <1>2 DEF Requests
<1> QED BY <1>1, <1>2

\* What a page is answered with.
LEMMA RouteAnswer ==
  ASSUME NEW m, NEW path \in DOMAIN Needed
  PROVE  \E length \in {"right", "unknown"} :
           /\ Understood(Written(NewResponse(Routes("GET")[path], m), Produced("GET", path))) =
                Answer("200", Needed[path], length)
           /\ length = "unknown" => Needed[path] = "multipart/x-mixed-replace"
<1> DEFINE info == <<"/", "info">>
           mjpeg == <<"/", "mjpeg">>
           D == StaticPages \cup {info, mjpeg}
           route(p) == CASE p = info -> Response(<<>>, "text/html", "200", <<>>)
                         [] p = mjpeg ->
                              MarkRepeat(Response(<<>>, "multipart/x-mixed-replace", "200", AnyOrigin))
                         [] OTHER -> AddRoute(p, Response(PageText(p), "", "200", <<>>))
<1>1. \A p \in D : Routes("GET")[p] = route(p)
  BY Zenon DEF Routes
<1>2. DOMAIN Needed = D
  BY NeededIs, Zenon
<1>3. info # mjpeg /\ info \notin StaticPages /\ mjpeg \notin StaticPages
  BY PathsDiffer DEF StaticPages
<1>4. CASE path \in StaticPages
  <2>1. path # info /\ path # mjpeg
    BY <1>3, <1>4, Zenon
  <2>2. route(path) = AddRoute(path, Response(PageText(path), "", "200", <<>>))
    BY <2>1, Zenon
  <2>3. Produced("GET", path) = <<>>
    BY <2>1, Zenon DEF Produced
  <2>4. IsList(path) /\ MimeType(path) = Needed[path]
    BY <1>4, MimeOfPages, Zenon
  <2> HIDE DEF route
  <2>5. Understood(Written(NewResponse(Routes("GET")[path], m), Produced("GET", path))) =
          Answer("200", Needed[path], "right")
    <3>1. Routes("GET")[path] = AddRoute(path, Response(PageText(path), "", "200", <<>>))
      BY <1>1, <1>4, <2>2, Zenon
    <3> QED BY <2>3, <2>4, <3>1, StaticAnswer, Zenon
  <2> QED BY <2>5, Zenon
<1>5. CASE path = info
  <2>1. route(info) = Response(<<>>, "text/html", "200", <<>>)
    BY Zenon
  <2> DEFINE produced == PageText(info)
             none == <<>>
             html == "text/html"
  <2>2. Produced("GET", info) = produced
    BY Zenon DEF Produced
  <2>3. IsList(produced) /\ Len(produced) \in Nat
    <3>1. info \in Seq({"/", "info"})
      OBVIOUS
    <3>2. IsList(info)
      BY <3>1, Zenon DEF IsList
    <3> QED BY <3>2, PageTextIs, Zenon
  <2>4. Bare(none) /\ Named(html)
    <3>1. DOMAIN none = {}
      OBVIOUS
    <3>2. html # ""
      OBVIOUS
    <3> QED BY <3>1, <3>2, FS_EmptySet, Zenon DEF Bare, Named
  <2>5. Understood(Written(NewResponse(Response(<<>>, "text/html", "200", none), m), produced)) =
          Answer("200", "text/html", "right")
    <3> HIDE DEF produced, none, html
    <3>1. ProducedAs(html, "200", none, produced, m)
      BY <2>3, <2>4, ProducedAnswer, Zenon
    <3> QED BY <3>1, Zenon DEF ProducedAs, none, html
  <2>6. Needed[info] = "text/html" /\ info \in D
    BY NeededIs, Zenon
  <2> HIDE DEF route, produced
  <2> QED BY <1>1, <1>5, <2>1, <2>2, <2>5, <2>6, Zenon
<1>6. CASE path = mjpeg
  <2> DEFINE type == "multipart/x-mixed-replace"
             produced == <<"--jpegframe", "picture">>
  <2>1. route(mjpeg) = MarkRepeat(Response(<<>>, type, "200", AnyOrigin))
    BY <1>3, Zenon
  <2>2. Produced("GET", mjpeg) = produced
    BY <1>3, Zenon DEF Produced
  <2>3. IsList(produced) /\ Len(produced) \in Nat
    <3>1. produced \in Seq({"--jpegframe", "picture"}) /\ Len(produced) = 2
      OBVIOUS
    <3> HIDE DEF produced
    <3> QED BY <3>1 DEF IsList
  <2>4. Bare(AnyOrigin) /\ Named(type)
    <3>1. DOMAIN AnyOrigin = {"Access-Control-Allow-Origin"}
      BY DEF AnyOrigin
    <3>2. IsFiniteSet({"Access-Control-Allow-Origin"})
      BY FS_EmptySet, FS_AddElement
    <3>3. type # ""
      OBVIOUS
    <3>4. Bare(AnyOrigin)
      BY <3>1, <3>2 DEF Bare
    <3> QED BY <3>3, <3>4, Zenon DEF Named
  <2>5. Understood(Written(NewResponse(MarkRepeat(Response(<<>>, type, "200", AnyOrigin)), m), produced)) =
          Answer("200", type, "unknown")
    <3> HIDE DEF produced, type
    <3>1. ProducedAs(type, "200", AnyOrigin, produced, m)
      BY <2>3, <2>4, ProducedAnswer, Zenon
    <3> QED BY <3>1, Zenon DEF ProducedAs
  <2>6. Needed[mjpeg] = type /\ mjpeg \in D
    BY NeededIs, Zenon
  <2> HIDE DEF route, produced
  <2> QED BY <1>1, <1>6, <2>1, <2>2, <2>5, <2>6, Zenon
<1> QED BY <1>2, <1>4, <1>5, <1>6, Zenon

\* What the browser gets that asks whether it may load the pictures.
LEMMA OptionsAnswer ==
  ASSUME NEW m
  PROVE  Understood(Written(NewResponse(Routes("OPTIONS")[<<"/", "mjpeg">>], m),
                            Produced("OPTIONS", <<"/", "mjpeg">>))) =
           Answer("204", "text/plain", "right")
<1> DEFINE mjpeg == <<"/", "mjpeg">>
           type == "text/plain"
           none == <<>>
<1>1. Routes("OPTIONS")[mjpeg] = Response(<<>>, type, "204", AnyOrigin)
  BY Zenon DEF Routes
<1>2. Produced("OPTIONS", mjpeg) = none
  <2>1. mjpeg # <<"/", "info">> /\ "OPTIONS" # "GET"
    BY PathsDiffer
  <2> QED BY <2>1, Zenon DEF Produced
<1>3. Bare(AnyOrigin) /\ Named(type)
  <2>1. DOMAIN AnyOrigin = {"Access-Control-Allow-Origin"}
    BY DEF AnyOrigin
  <2>2. IsFiniteSet({"Access-Control-Allow-Origin"})
    BY FS_EmptySet, FS_AddElement
  <2>3. type # ""
    OBVIOUS
  <2>4. Bare(AnyOrigin)
    BY <2>1, <2>2 DEF Bare
  <2> QED BY <2>3, <2>4, Zenon DEF Named
<1>4. IsList(none) /\ Len(none) \in Nat
  <2>1. none \in Seq({}) /\ Len(none) = 0
    OBVIOUS
  <2> HIDE DEF none
  <2> QED BY <2>1 DEF IsList
<1>5. Understood(Written(NewResponse(Response(<<>>, type, "204", AnyOrigin), m), none)) =
        Answer("204", type, "right")
  <2> HIDE DEF type, none
  <2>1. ProducedAs(type, "204", AnyOrigin, none, m)
    BY <1>3, <1>4, ProducedAnswer, Zenon
  <2> QED BY <2>1, Zenon DEF ProducedAs, none
<1> QED BY <1>1, <1>2, <1>5, Zenon

\* An error is no handshake.
LEMMA ErrorHas ==
  ASSUME NEW s \in {"400", "404"}
  PROVE  /\ ErrorAnswer(s).status = s /\ Readable(ErrorAnswer(s)) /\ ErrorAnswer(s).status # "101"
<1>1. PICK length \in {"right", "wrong"} : ErrorAnswer(s) = Answer(s, "text/html", length)
  BY ErrorIs, Zenon
<1>2. ErrorAnswer(s).status = s /\ ErrorAnswer(s).length = length
  BY <1>1 DEF Answer
<1>3. s # "101" /\ length # "unknown"
  OBVIOUS
<1> QED BY <1>2, <1>3, Zenon DEF Readable

\* A request that asks for no WebSocket gets what it should.
LEMMA HttpSuits ==
  ASSUME NEW m \in Requests, ~ IsUpgrade(m), NEW i
  PROVE  Suits(HttpAnswer(m), m, i) /\ Readable(HttpAnswer(m)) /\ HttpAnswer(m).status # "101"
<1> DEFINE a == HttpAnswer(m)
           path == PathOf(m.url[1])
<1>1. m.frame = "" /\ ~ (m.frame = "PING") /\ ~ (m.frame # "")
  BY RequestHas, Zenon
<1>2. CASE m.first = "bad"
  <2>1. a = ErrorAnswer("400")
    BY <1>2, Zenon DEF HttpAnswer
  <2>2. a.status = "400" /\ Readable(a) /\ a.status # "101"
    BY <2>1, ErrorHas
  <2> HIDE DEF a
  <2>3. Suits(a, m, i)
    BY <1>1, <1>2, <2>2, Zenon DEF Suits
  <2> QED BY <2>2, <2>3, Zenon DEF a
<1>3. CASE ~ (m.first = "bad")
  <2>1. m.url \in Urls /\ m.method \in {"GET", "OPTIONS", "POST"}
    BY <1>3, RequestHas, Zenon
  <2>2. path = m.url[2]
    BY <2>1, UrlsAreMeant, Zenon
  <2> DEFINE status == IF m.method = "OPTIONS" /\ path = Page("mjpeg") THEN "204" ELSE "404"
             page == m.method = "GET" /\ path \in DOMAIN Needed
  <2>3. /\ DOMAIN Routes("GET") = DOMAIN Needed
        /\ DOMAIN Routes("OPTIONS") = {<<"/", "mjpeg">>}
        /\ DOMAIN Routes("POST") = {}
    <3>1. DOMAIN Routes("GET") = DOMAIN Needed
      BY NeededIs, Zenon DEF Routes
    <3>2. DOMAIN Routes("OPTIONS") = {<<"/", "mjpeg">>}
      BY DEF Routes
    <3>3. DOMAIN Routes("POST") = {}
      BY DEF Routes
    <3> QED BY <3>1, <3>2, <3>3
  <2>4. a = IF path \notin DOMAIN Routes(m.method) THEN ErrorAnswer("404")
            ELSE Understood(Written(NewResponse(Routes(m.method)[path], m), Produced(m.method, path)))
    BY <1>3, Zenon DEF HttpAnswer
  <2> HIDE DEF path, a
  <2>5. CASE page
    <3>1. PICK length \in {"right", "unknown"} :
            a = Answer("200", Needed[path], length)
            /\ (length = "unknown" => Needed[path] = "multipart/x-mixed-replace")
      BY <2>3, <2>4, <2>5, RouteAnswer, Zenon
    <3>2. a.status = "200" /\ a.type = Needed[path] /\ a.length = length
      BY <3>1, Zenon DEF Answer
    <3>3. length # "wrong" /\ "200" # "101"
      OBVIOUS
    <3>4. Readable(a)
      BY <3>1, <3>2, <3>3, Zenon DEF Readable
    <3>5. Suits(a, m, i)
      BY <1>1, <1>3, <2>2, <2>5, <3>2, Zenon DEF Suits
    <3> QED BY <3>2, <3>3, <3>4, <3>5, Zenon DEF a
  <2>6. CASE ~ page
    <3>1. a.status = status /\ Readable(a) /\ a.status # "101"
      <4>1. CASE m.method = "OPTIONS" /\ path = <<"/", "mjpeg">>
        <5>1. a = Answer("204", "text/plain", "right")
          <6>1. path \in DOMAIN Routes(m.method)
            BY <2>3, <4>1
          <6> QED BY <2>4, <4>1, <6>1, OptionsAnswer, Zenon
        <5>2. a.status = "204" /\ a.length = "right"
          BY <5>1, Zenon DEF Answer
        <5>3. "right" # "wrong" /\ "right" # "unknown" /\ "204" # "101"
          OBVIOUS
        <5>4. status = "204"
          BY <4>1, Zenon DEF Page
        <5> QED BY <5>2, <5>3, <5>4, Zenon DEF Readable
      <4>2. CASE ~ (m.method = "OPTIONS" /\ path = <<"/", "mjpeg">>)
        <5>1. path \notin DOMAIN Routes(m.method)
          BY <2>1, <2>3, <2>6, <4>2
        <5>2. a = ErrorAnswer("404")
          BY <2>4, <5>1, Zenon
        <5>3. status = "404"
          BY <4>2, Zenon DEF Page
        <5> QED BY <5>2, <5>3, ErrorHas
      <4> QED BY <4>1, <4>2
    <3>2. Suits(a, m, i)
      BY <1>1, <1>3, <2>2, <2>6, <3>1, Zenon DEF Suits
    <3> QED BY <3>1, <3>2, Zenon DEF a
  <2> QED BY <2>5, <2>6
<1> QED BY <1>2, <1>3

\* How a frame is read that is sent.
LEMMA FrameRead ==
  ASSUME NEW type, NEW words, NEW A, words \in Seq(A), words # <<>>
  PROVE  /\ IsList(Framed(type, words)) /\ Len(Framed(type, words)) \in Nat
         /\ UnderstoodFrame(Framed(type, words)) = Answer(words[1], type, "right")
<1> DEFINE n == Len(words)
           length == ToString(n)
           W == A \cup {type, length}
           head == <<type, length>>
           data == head \o words
<1>1. head \in Seq(W) /\ Len(head) = 2 /\ head[1] = type /\ head[2] = length
  <2> HIDE DEF length
  <2> QED OBVIOUS
<1>2. words \in Seq(W) /\ n \in Nat /\ n # 0
  <2>1. A \subseteq W
    OBVIOUS
  <2> HIDE DEF W
  <2> QED BY <2>1
<1>3. IsConcat(W, head, words, data)
  <2> HIDE DEF head, W
  <2> QED BY <1>1, <1>2, ConcatPlaces, Zenon
<1>4. Framed(type, words) = data
  BY Zenon DEF Framed
<1> HIDE DEF head, W, data, length
<1>5. data \in Seq(W) /\ Len(data) = 2 + n /\ data[1] = type /\ data[2] = length /\ data[3] = words[1]
  <2>1. data \in Seq(W) /\ Len(data) = 2 + n
    BY <1>1, <1>3 DEF IsConcat
  <2>2. 1 \in 1..2 /\ 2 \in 1..2 /\ 1 \in 1..n /\ 2 + 1 = 3
    BY <1>2
  <2>3. data[1] = head[1] /\ data[2] = head[2]
    BY <1>1, <1>3, <2>2 DEF IsConcat
  <2>4. data[2 + 1] = words[1]
    BY <1>1, <1>3, <2>2 DEF IsConcat
  <2> QED BY <1>1, <2>1, <2>2, <2>3, <2>4
<1>6. data # <<>> /\ Len(data) - 2 = n /\ Len(data) \in Nat
  BY <1>2, <1>5
<1> HIDE DEF n
<1>7. UnderstoodFrame(data) = Answer(words[1], type, "right")
  BY <1>5, <1>6, Zenon DEF UnderstoodFrame, length
<1> QED BY <1>4, <1>5, <1>6, <1>7, Zenon DEF IsList

\* What is sent is what was put into the buffer last.
LEMMA SentIs ==
  ASSUME NEW b, IsList(b.data), NEW d, IsList(d)
  PROVE  Sent(Filled(b, d)) = d /\ IsList(Filled(b, d).data)
<1>1. PICK A, C : b.data \in Seq(A) /\ d \in Seq(C)
  BY DEF IsList
<1> DEFINE W == (A \cup C) \cup {"NUL"}
           old == b.data
           kept == SubSeq(old, Len(d) + 2, Len(old))
           nul == <<"NUL">>
           full == IF Len(old) <= Len(d) THEN d ELSE d \o nul \o kept
<1>2. old \in Seq(W) /\ d \in Seq(W)
  <2>1. A \subseteq W /\ C \subseteq W
    OBVIOUS
  <2> HIDE DEF W
  <2> QED BY <1>1, <2>1
<1>3. nul \in Seq(W) /\ Len(nul) = 1
  <2>1. "NUL" \in W
    OBVIOUS
  <2> HIDE DEF W
  <2> QED BY <2>1
<1> HIDE DEF W, nul, old
<1>4. kept \in Seq(W)
  BY <1>2
<1> HIDE DEF kept
<1>5. full \in Seq(W) /\ Len(d) \in Nat /\ Len(full) >= Len(d) /\ \A i \in 1..Len(d) : full[i] = d[i]
  <2>1. CASE Len(old) <= Len(d)
    BY <1>2, <2>1
  <2>2. CASE ~ (Len(old) <= Len(d))
    <3> DEFINE dn == d \o nul
               all == dn \o kept
    <3>1. IsConcat(W, d, nul, dn)
      BY <1>2, <1>3, ConcatPlaces, Zenon
    <3>2. dn \in Seq(W)
      BY <3>1, Zenon DEF IsConcat
    <3> HIDE DEF dn
    <3>3. IsConcat(W, dn, kept, all)
      BY <1>4, <3>2, ConcatPlaces, Zenon
    <3>4. full = all
      BY <2>2 DEF dn
    <3> HIDE DEF all, full
    <3>5. /\ all \in Seq(W) /\ Len(all) = Len(dn) + Len(kept) /\ Len(dn) = Len(d) + 1
          /\ Len(d) \in Nat /\ Len(kept) \in Nat
          /\ \A i \in 1..Len(dn) : all[i] = dn[i]
          /\ \A i \in 1..Len(d) : dn[i] = d[i]
      BY <1>2, <1>3, <1>4, <3>1, <3>3 DEF IsConcat
    <3>6. \A i \in 1..Len(d) : i \in 1..Len(dn)
      BY <3>5
    <3> QED BY <3>4, <3>5, <3>6
  <2> QED BY <2>1, <2>2
<1>6. Filled(b, d) = [data |-> full, len |-> Len(d)]
  BY Zenon DEF Filled, kept, nul, old
<1> HIDE DEF full
<1>7. Filled(b, d).data = full /\ Filled(b, d).len = Len(d)
  BY <1>6
<1>8. Sent(Filled(b, d)) = SubSeq(full, 1, Len(d))
  BY <1>7, Zenon DEF Sent
<1> DEFINE q == SubSeq(full, 1, Len(d))
<1>9. q \in Seq(W) /\ Len(q) = Len(d) /\ \A i \in 1..Len(d) : q[i] = full[i]
  BY <1>5
<1> HIDE DEF q
<1>10. q = d
  BY <1>2, <1>5, <1>9
<1> QED BY <1>5, <1>7, <1>8, <1>10, Zenon DEF q, IsList

\* The parts of an answer.
LEMMA AnswerHas ==
  ASSUME NEW status, NEW type, NEW length
  PROVE  /\ Answer(status, type, length).status = status
         /\ Answer(status, type, length).type = type
         /\ Answer(status, type, length).length = length
BY DEF Answer

\* The frames that the two routes answer with.
WsPaths == {<<"/", "stream">>, <<"/", "ws", "test">>}

\* A frame gets the answer it should.
LEMMA WsSuits ==
  ASSUME NEW path \in WsPaths, NEW m, m.frame \in {"TEXT", "PING"}, NEW i
  PROVE  /\ IsList(WsAnswer(path, m.frame))
         /\ Suits(UnderstoodFrame(WsAnswer(path, m.frame)), m, i)
         /\ Readable(UnderstoodFrame(WsAnswer(path, m.frame)))
<1> DEFINE a == UnderstoodFrame(WsAnswer(path, m.frame))
           stream == <<"/", "stream">>
<1>0. "TEXT" # "PING" /\ "TEXT" # "" /\ "right" # "wrong" /\ "right" # "unknown"
  OBVIOUS
<1>1. \A type, words : words \in Seq({"PONG", "Received", "text", "time", "day"}) /\ words # <<>> =>
          /\ IsList(Framed(type, words))
          /\ UnderstoodFrame(Framed(type, words)) = Answer(words[1], type, "right")
  BY FrameRead, Zenon
<1>2. CASE m.frame = "TEXT"
  <2> DEFINE words == IF path = stream THEN <<"PONG">> ELSE <<"Received", "text">>
             type == "TEXT"
  <2>1. WsAnswer(path, m.frame) = Framed(type, words)
    BY <1>2 DEF WsAnswer
  <2>2. /\ words \in Seq({"PONG", "Received", "text", "time", "day"}) /\ words # <<>>
        /\ words[1] \in {"PONG", "Received"}
    <3>1. CASE path = stream
      <4>1. words = <<"PONG">>
        BY <3>1
      <4> HIDE DEF words
      <4> QED BY <4>1
    <3>2. CASE path # stream
      <4>1. words = <<"Received", "text">>
        BY <3>2
      <4> HIDE DEF words
      <4> QED BY <4>1
    <3> QED BY <3>1, <3>2
  <2> HIDE DEF words, type
  <2>3. IsList(WsAnswer(path, m.frame)) /\ a = Answer(words[1], type, "right")
    BY <1>1, <2>1, <2>2, Zenon
  <2> HIDE DEF a
  <2>4. a.status = words[1] /\ a.length = "right"
    BY <2>3, AnswerHas
  <2>5. Suits(a, m, i)
    BY <1>0, <1>2, <2>2, <2>4, Zenon DEF Suits
  <2>6. Readable(a)
    BY <1>0, <2>4, Zenon DEF Readable
  <2> QED BY <2>3, <2>5, <2>6, Zenon DEF a
<1>3. CASE m.frame = "PING"
  <2>1. CASE path = stream
    <3>1. WsAnswer(path, m.frame) = <<>>
      BY <1>0, <1>3, <2>1 DEF WsAnswer
    <3> DEFINE blank == ""
    <3>2. a = Answer("nothing", blank, "right")
      BY <3>1, Zenon DEF UnderstoodFrame
    <3> HIDE DEF a, blank
    <3>6. a.type = blank /\ a.length = "right"
      BY <3>2, AnswerHas
    <3>3. a.type = "" /\ a.length = "right"
      BY <3>6, Zenon DEF blank
    <3>4. <<>> \in Seq({})
      OBVIOUS
    <3>5. Suits(a, m, i) /\ Readable(a)
      BY <1>0, <1>3, <3>3, Zenon DEF Suits, Readable
    <3> QED BY <3>1, <3>4, <3>5, Zenon DEF a, IsList
  <2>2. CASE path # stream
    <3> DEFINE words == <<"PONG", "time", "day">>
               type == "PONG"
    <3>1. WsAnswer(path, m.frame) = Framed(type, words)
      BY <1>0, <1>3, <2>2 DEF WsAnswer
    <3>2. words \in Seq({"PONG", "Received", "text", "time", "day"}) /\ words # <<>>
      OBVIOUS
    <3> HIDE DEF words
    <3>3. IsList(WsAnswer(path, m.frame)) /\ a = Answer(words[1], type, "right")
      BY <1>1, <3>1, <3>2, Zenon
    <3> HIDE DEF a
    <3>4. a.type = "PONG" /\ a.length = "right"
      BY <3>3, AnswerHas
    <3>5. Suits(a, m, i) /\ Readable(a)
      BY <1>0, <1>3, <3>4, Zenon DEF Suits, Readable
    <3> QED BY <3>3, <3>5, Zenon DEF a
  <2> QED BY <2>1, <2>2
<1> QED BY <1>2, <1>3

\* The answers that close a WebSocket, and the one that opens it.
LEMMA CloseIs ==
  ASSUME NEW code \in DOMAIN WsErrorCode
  PROVE  /\ CloseAnswer(code).type = "CLOSE" /\ Readable(CloseAnswer(code))
         /\ CloseAnswer(code).status # "101"
<1>1. /\ CloseAnswer(code).type = "CLOSE" /\ CloseAnswer(code).length = "right"
      /\ CloseAnswer(code).status = WsErrorCode[code]
  BY Zenon DEF CloseAnswer, Answer
<1>2. WsErrorCode[code] # "101"
  BY DEF WsErrorCode
<1>3. "right" # "wrong" /\ "right" # "unknown"
  OBVIOUS
<1> QED BY <1>1, <1>2, <1>3, Zenon DEF Readable

\* A request for a WebSocket gets what it should.
LEMMA UpgradeSuits ==
  ASSUME NEW k, sent[k] \in Requests, sent[k].connection = "Upgrade"
  PROVE  /\ Suits(UpgradeAnswer(k), sent[k], k) /\ Readable(UpgradeAnswer(k))
         /\ UpgradeAnswer(k).status = "101" => PathOf(sent[k].url[1]) \in WsPaths
<1> DEFINE m == sent[k]
           a == UpgradeAnswer(k)
           path == PathOf(m.url[1])
           served == m.method = "GET" /\ m.hasKey /\ path \in WsPaths
<1>1. "Upgrade" # "keep-alive"
  OBVIOUS
<1>2. /\ ~ (m.frame = "PING") /\ ~ (m.frame # "") /\ IsUpgrade(m)
      /\ m.first = "good" /\ m.url \in Urls
  <2>1. m.frame = "" /\ "" # "PING"
    BY RequestHas, Zenon
  <2>2. IsUpgrade(m)
    BY Zenon DEF IsUpgrade
  <2>3. m.first = "good" /\ m.url \in Urls
    BY <1>1, RequestHas, Zenon
  <2> QED BY <2>1, <2>2, <2>3, Zenon
<1>3. path = m.url[2]
  BY <1>2, UrlsAreMeant, Zenon
<1>4. "good" # "bad" /\ "right" # "wrong" /\ "right" # "unknown"
  OBVIOUS
<1>5. WsRoutes = WsPaths
  BY WsRoutesAre, Zenon DEF WsPaths
<1>6. CASE served
  <2>1. a = Handshake(k)
    <3>1. ~ (m.first = "bad" \/ m.method # "GET") /\ m.hasKey
      BY <1>2, <1>4, <1>6
    <3>2. path \in WsRoutes
      BY <1>5, <1>6
    <3> HIDE DEF path
    <3> QED BY <3>1, <3>2, Zenon DEF UpgradeAnswer, path
  <2> HIDE DEF a
  <2>2. a.length = "right"
    BY <2>1, Zenon DEF Handshake
  <2>3. Suits(a, m, k)
    BY <1>2, <1>3, <1>6, <2>1, Zenon DEF Suits, WsPaths, Page
  <2> QED BY <1>4, <1>6, <2>2, <2>3, Zenon DEF Readable, a
<1>7. CASE ~ served
  <2>1. \E code \in DOMAIN WsErrorCode : a = CloseAnswer(code)
    <3>1. /\ "PROTOCOL_ERROR" \in DOMAIN WsErrorCode /\ "AUTH_FAILED" \in DOMAIN WsErrorCode
          /\ "RESOURCE_NOT_FOUND" \in DOMAIN WsErrorCode
      BY DEF WsErrorCode
    <3> QED BY <1>2, <1>5, <1>7, <3>1, Zenon DEF UpgradeAnswer
  <2>2. a.type = "CLOSE" /\ Readable(a) /\ a.status # "101"
    BY <2>1, CloseIs, Zenon
  <2> HIDE DEF a
  <2>3. Suits(a, m, k)
    BY <1>2, <1>3, <1>7, <2>2, Zenon DEF Suits, WsPaths, Page
  <2> QED BY <2>2, <2>3, Zenon DEF a
<1> QED BY <1>6, <1>7

-----------------------------------------------------------------------------
(***************************************************************************)
(* What has come, and what was answered.                                   *)
(***************************************************************************)

\* The pieces of a message, and each of them.
Pieces(k) == <<<<k, 1>>, <<k, 2>>>>

Start(k) == <<<<k, 1>>>>

Rest(k) == <<<<k, 2>>>>

\* How pieces are read, one after the other or both at once.
LEMMA PiecesRead ==
  ASSUME NEW k
  PROVE  /\ <<>> \o Pieces(k) = Pieces(k)
         /\ Len(Pieces(k)) = 2 /\ Len(Rest(k)) = 1 /\ Len(Start(k)) = 1
         /\ <<>> \o SubSeq(Pieces(k), 1, 1) = Start(k) /\ SubSeq(Pieces(k), 1 + 1, 2) = Rest(k)
         /\ <<>> \o SubSeq(Pieces(k), 1, 2) = Pieces(k) /\ SubSeq(Pieces(k), 2 + 1, 2) = <<>>
         /\ Start(k) \o SubSeq(Rest(k), 1, 1) = Pieces(k) /\ SubSeq(Rest(k), 1 + 1, 1) = <<>>
<1> DEFINE S == {<<k, 1>>, <<k, 2>>}
           none == <<>>
           p == Pieces(k)
           s == Start(k)
           r == Rest(k)
           x == <<k, 1>>
           y == <<k, 2>>
<1>1. p \in Seq(S) /\ Len(p) = 2 /\ p[1] = x /\ p[2] = y
  <2> HIDE DEF x, y
  <2>1. p = <<x, y>> /\ S = {x, y}
    BY DEF Pieces, x, y
  <2> HIDE DEF p, S
  <2> QED BY <2>1
<1>2. s \in Seq(S) /\ Len(s) = 1 /\ s[1] = x
  <2> HIDE DEF x, y
  <2>1. s = <<x>> /\ S = {x, y}
    BY DEF Start, x, y
  <2> HIDE DEF s, S
  <2> QED BY <2>1
<1>3. r \in Seq(S) /\ Len(r) = 1 /\ r[1] = y
  <2> HIDE DEF x, y
  <2>1. r = <<y>> /\ S = {x, y}
    BY DEF Rest, x, y
  <2> HIDE DEF r, S
  <2> QED BY <2>1
<1>4. none \in Seq(S) /\ Len(none) = 0
  OBVIOUS
<1> HIDE DEF S, none, p, s, r, x, y
<1>5. none \o p = p
  BY <1>1, <1>4 DEF none
<1>6. SubSeq(p, 1, 1) = s /\ none \o s = s
  BY <1>1, <1>2 DEF none
<1>7. SubSeq(p, 2, 2) = r
  <2> DEFINE q == SubSeq(p, 2, 2)
  <2>1. q \in Seq(S) /\ Len(q) = 1 /\ q[1] = p[2]
    BY <1>1
  <2> HIDE DEF q
  <2>2. q = r
    BY <1>1, <1>3, <2>1
  <2> QED BY <2>2 DEF q
<1>8. SubSeq(p, 1, 2) = p /\ SubSeq(p, 3, 2) = none /\ SubSeq(r, 1, 1) = r /\ SubSeq(r, 2, 1) = none
  BY <1>1, <1>3 DEF none
<1>9. s \o r = p
  <2> DEFINE q == s \o r
  <2>3. IsConcat(S, s, r, q)
    BY <1>2, <1>3, ConcatPlaces, Zenon
  <2> HIDE DEF q
  <2>1. q \in Seq(S) /\ Len(q) = 2 /\ q[1] = s[1] /\ q[2] = r[1]
    <3>1. 1 \in 1..1 /\ 1 + 1 = 2
      OBVIOUS
    <3>2. q \in Seq(S) /\ Len(q) = 1 + 1 /\ q[1] = s[1] /\ q[1 + 1] = r[1]
      BY <1>2, <1>3, <2>3, <3>1 DEF IsConcat
    <3> QED BY <3>1, <3>2
  <2>2. q = p
    BY <1>1, <1>2, <1>3, <2>1
  <2> QED BY <2>2 DEF q
<1>10. 1 + 1 = 2 /\ 2 + 1 = 3
  OBVIOUS
<1> QED BY <1>1, <1>2, <1>3, <1>5, <1>6, <1>7, <1>8, <1>9, <1>10 DEF p, s, r, none

\* What is found in the pieces of a message.
LEMMA PiecesHave ==
  ASSUME NEW k
  PROVE  /\ ~ HasEmptyLine(Start(k)) /\ HasEmptyLine(Pieces(k)) /\ Whole(Pieces(k))
         /\ Pieces(k)[1][1] = k /\ Pieces(k)[1][2] = 1 /\ Pieces(k)[2][2] = 2
         /\ Start(k)[1][2] = 1
         /\ IsWebsocket(Pieces(k)) <=> sent[k].connection = "Upgrade"
<1> DEFINE x == <<k, 1>>
           y == <<k, 2>>
           p == Pieces(k)
           s == Start(k)
<1>1. x[1] = k /\ x[2] = 1 /\ y[1] = k /\ y[2] = 2
  OBVIOUS
<1> HIDE DEF x, y
<1>2. p = <<x, y>> /\ s = <<x>>
  BY DEF x, y, Pieces, Start
<1> HIDE DEF p, s
<1>3. /\ DOMAIN p = {1, 2} /\ Len(p) = 2 /\ p[1] = x /\ p[2] = y
      /\ DOMAIN s = {1} /\ s[1] = x
  BY <1>2
<1>4. ~ HasEmptyLine(s) /\ HasEmptyLine(p)
  BY <1>1, <1>3 DEF HasEmptyLine
<1>5. Whole(p)
  BY <1>1, <1>3 DEF Whole
<1>6. IsWebsocket(p) <=> sent[k].connection = "Upgrade"
  BY <1>1, <1>3 DEF IsWebsocket
<1> QED BY <1>1, <1>3, <1>4, <1>5, <1>6 DEF p, s

\* What the answers should be.
AnswersSuit(w, s) == IsList(w) /\ \A i \in 1..Len(w) : Suits(w[i], s[i], i) /\ Readable(w[i])

\* One answer more.
LEMMA AnswerAdded ==
  ASSUME NEW w, NEW s, AnswersSuit(w, s), NEW a, NEW k, k = Len(w) + 1,
         Suits(a, s[k], k), Readable(a)
  PROVE  AnswersSuit(Append(w, a), s) /\ Len(Append(w, a)) = k
<1>1. PICK A : w \in Seq(A)
  BY DEF AnswersSuit, IsList
<1> DEFINE W == A \cup {a}
           v == Append(w, a)
<1>2. w \in Seq(W) /\ a \in W
  <2>1. A \subseteq W /\ a \in W
    OBVIOUS
  <2> HIDE DEF W
  <2> QED BY <1>1, <2>1
<1> HIDE DEF W
<1>3. /\ v \in Seq(W) /\ Len(v) = k /\ v[k] = a /\ Len(w) \in Nat
      /\ \A i \in 1..Len(w) : v[i] = w[i]
  BY <1>2
<1> HIDE DEF v
<1>4. ASSUME NEW i \in 1..k PROVE Suits(v[i], s[i], i) /\ Readable(v[i])
  <2>1. i \in 1..Len(w) \/ i = k
    BY <1>3
  <2>2. CASE i \in 1..Len(w)
    <3>1. Suits(w[i], s[i], i) /\ Readable(w[i]) /\ v[i] = w[i]
      BY <1>3, <2>2 DEF AnswersSuit
    <3> QED BY <3>1, Zenon
  <2>3. CASE i = k
    BY <1>3, <2>3, Zenon
  <2> QED BY <2>1, <2>2, <2>3
<1>5. AnswersSuit(v, s)
  BY <1>3, <1>4, Zenon DEF AnswersSuit, IsList
<1> QED BY <1>3, <1>5, Zenon DEF v

\* The answers are those of messages that were sent.
LEMMA StillSuit ==
  ASSUME NEW w, NEW s, NEW v, AnswersSuit(w, s), \A i \in 1..Len(w) : v[i] = s[i]
  PROVE  AnswersSuit(w, v)
<1>1. ASSUME NEW i \in 1..Len(w) PROVE Suits(w[i], v[i], i) /\ Readable(w[i])
  BY Zenon DEF AnswersSuit
<1> QED BY <1>1, Zenon DEF AnswersSuit

\* A visitor that lets each message be handled before the next one.
Patient ==
    ~hurried /\ ~cut /\ \A i \in 1..Len(sent) : sent[i].connection # "keep-alive, Upgrade"

\* Each message that was read has its answer, and one at most was not read.
Idle == wire = <<>> /\ request_data = <<>> /\ Len(answers) = Len(sent)

Pending(k) ==
    /\ k = Len(answers) + 1
    /\ \/ wire = Pieces(k) /\ request_data = <<>>
       \/ wire = Rest(k) /\ request_data = Start(k) /\ ws_req = <<>>
    /\ sent[k] \in (IF ws_req = <<>> THEN Requests ELSE WsMessages)

Flow ==
    /\ AnswersSuit(answers, sent)
    /\ ws_req = <<>> \/ ws_req \in WsPaths
    /\ IsList(buffer.data)
    /\ Idle \/ Pending(Len(sent))

InboundInv == IsList(sent) /\ (Patient => Flow)

\* Messages are requests or frames.
LEMMA MessageHas ==
  ASSUME NEW m \in Requests \cup WsMessages
  PROVE  /\ m.frame = "" => m \in Requests
         /\ m.frame # "" => m \in WsMessages /\ m.frame \in {"TEXT", "PING", "CLOSE"}
<1>1. CASE m \in Requests
  <2>1. m.frame = ""
    BY <1>1, RequestHas, Zenon
  <2> QED BY <1>1, <2>1, Zenon
<1>2. CASE m \in WsMessages
  <2>1. PICK type \in {"TEXT", "PING", "CLOSE"} : m = WsMessage(type)
    BY <1>2, Zenon DEF WsMessages
  <2>2. m.frame = type
    BY <2>1 DEF WsMessage, Http
  <2>3. type # ""
    OBVIOUS
  <2> QED BY <1>2, <2>2, <2>3, Zenon
<1> QED BY <1>1, <1>2

\* At the start nothing has come.
LEMMA InboundStarts == InboundInit => InboundInv
<1>1. SUFFICES ASSUME InboundInit PROVE IsList(sent) /\ Flow
  BY DEF InboundInv
<1>2. /\ sent = <<>> /\ wire = <<>> /\ request_data = <<>> /\ ws_req = <<>>
      /\ buffer = NoBuffer /\ answers = <<>>
  BY <1>1 DEF InboundInit
<1> DEFINE none == <<>>
<1>3. none \in Seq({}) /\ Len(none) = 0 /\ 1..0 = {}
  OBVIOUS
<1>4. buffer.data = none
  BY <1>2 DEF NoBuffer
<1> HIDE DEF none
<1>5. IsList(none)
  BY <1>3, Zenon DEF IsList
<1>6. AnswersSuit(none, none)
  BY <1>3, <1>5 DEF AnswersSuit
<1> QED BY <1>2, <1>4, <1>5, <1>6, Zenon DEF Flow, Idle, none

\* A message is sent once the one before it was handled.
LEMMA SendKeeps ==
  ASSUME NEW m \in Requests \cup WsMessages, InboundInv, SendMessage(m)
  PROVE  InboundInv'
<1> DEFINE k == Len(sent) + 1
<1>1. /\ sent' = Append(sent, m)
      /\ wire' = wire \o Pieces(k)
      /\ hurried' = (hurried \/ Len(answers) < Len(sent)) /\ cut' = cut
      /\ request_data' = request_data /\ ws_req' = ws_req /\ buffer' = buffer /\ answers' = answers
      /\ IF ws_req # <<>> THEN m.frame # "" ELSE m.frame = ""
  BY DEF SendMessage, Pieces
<1>2. /\ IsList(sent') /\ Len(sent') = k /\ sent'[k] = m /\ Len(sent) \in Nat
      /\ \A i \in 1..Len(sent) : sent'[i] = sent[i]
  <2>1. IsList(sent)
    BY DEF InboundInv
  <2> QED BY <1>1, <2>1, OneMore, Zenon
<1>3. SUFFICES ASSUME Patient' PROVE Flow'
  BY <1>2, Zenon DEF InboundInv
<1>4. ~ hurried /\ ~ cut /\ ~ (Len(answers) < Len(sent))
  BY <1>1, <1>3, Zenon DEF Patient
<1>5. Patient
  <2>1. ASSUME NEW i \in 1..Len(sent) PROVE sent[i].connection # "keep-alive, Upgrade"
    <3>1. i \in 1..Len(sent') /\ sent'[i] = sent[i]
      <4>1. i \in 1..k
        BY <1>2
      <4> QED BY <1>2, <4>1, Zenon
    <3> QED BY <1>3, <3>1, Zenon DEF Patient
  <2> QED BY <1>4, <2>1, Zenon DEF Patient
<1>6. Flow
  BY <1>5, Zenon DEF InboundInv
<1>7. Idle
  <2>1. SUFFICES ASSUME Len(sent) = Len(answers) + 1 PROVE FALSE
    BY <1>6, Zenon DEF Flow, Pending
  <2>2. Len(answers) \in Nat
    BY <1>6 DEF Flow, AnswersSuit, IsList
  <2> DEFINE x == Len(answers)
             y == Len(sent)
  <2>3. x \in Nat /\ y = x + 1 /\ ~ (x < y)
    BY <1>4, <2>1, <2>2
  <2> HIDE DEF x, y
  <2> QED BY <2>3
<1>8. AnswersSuit(answers', sent')
  <2>1. AnswersSuit(answers, sent) /\ Len(answers) = Len(sent)
    BY <1>6, <1>7, Zenon DEF Flow, Idle
  <2> QED BY <1>1, <1>2, <2>1, StillSuit, Zenon
<1>9. m \in (IF ws_req' = <<>> THEN Requests ELSE WsMessages)
  BY <1>1, MessageHas, Zenon
<1>10. wire' = Pieces(k)
  <2>1. wire = <<>>
    BY <1>7, Zenon DEF Idle
  <2> QED BY <1>1, <2>1, PiecesRead, Zenon
<1>11. Pending(Len(sent))'
  <2>1. k = Len(answers') + 1 /\ request_data' = <<>>
    BY <1>1, <1>7, Zenon DEF Idle
  <2>2. Len(sent') = k
    BY <1>2, Zenon
  <2> HIDE DEF k
  <2> QED BY <1>2, <1>9, <1>10, <2>1, <2>2, Zenon DEF Pending
<1> QED BY <1>1, <1>6, <1>8, <1>11, Zenon DEF Flow

\* What is made of a message that has come.
LEMMA HandledIs ==
  ASSUME NEW k, sent[k] \in Requests, sent[k].connection # "keep-alive, Upgrade",
         NEW a \in Handled(Pieces(k))
  PROVE  /\ Suits(a, sent[k], k) /\ Readable(a)
         /\ a.status = "101" => PathOf(sent[k].url[1]) \in WsPaths
<1> DEFINE m == sent[k]
<1>1. /\ Whole(Pieces(k)) /\ Pieces(k)[1][1] = k
      /\ IsWebsocket(Pieces(k)) <=> m.connection = "Upgrade"
  BY PiecesHave, Zenon
<1>2. CASE m.connection = "Upgrade"
  <2>1. a = UpgradeAnswer(k)
    BY <1>1, <1>2, Zenon DEF Handled
  <2> QED BY <1>2, <2>1, UpgradeSuits, Zenon
<1>3. CASE m.connection # "Upgrade"
  <2>1. a = HttpAnswer(m)
    BY <1>1, <1>3, Zenon DEF Handled
  <2>2. ~ IsUpgrade(m)
    BY <1>3, Zenon DEF IsUpgrade
  <2> QED BY <2>1, <2>2, HttpSuits, Zenon
<1> QED BY <1>2, <1>3

\* A request is read, in one piece or in two.
LEMMA RequestKeeps ==
  ASSUME NEW n \in 1..(2 * MaxSent), InboundInv, OnReadRequest(n)
  PROVE  InboundInv'
<1> DEFINE data == request_data \o SubSeq(wire, 1, n)
           k == Len(sent)
<1>1. /\ ws_req = <<>> /\ n \in 1..Len(wire)
      /\ wire' = SubSeq(wire, n + 1, Len(wire))
      /\ sent' = sent /\ buffer' = buffer /\ hurried' = hurried /\ cut' = cut
  BY Zenon DEF OnReadRequest
<1>2. IF HasEmptyLine(data)
      THEN \E a \in Handled(data) :
              /\ answers' = Append(answers, a) /\ request_data' = <<>>
              /\ ws_req' = IF a.status = "101" THEN PathOf(sent[data[1][1]].url[1]) ELSE <<>>
      ELSE request_data' = data /\ answers' = answers /\ ws_req' = ws_req
  BY Zenon DEF OnReadRequest, Forgets
<1>3. IsList(sent')
  BY <1>1, Zenon DEF InboundInv
<1>4. SUFFICES ASSUME Patient' PROVE Flow'
  BY <1>3, Zenon DEF InboundInv
<1>5. Patient
  BY <1>1, <1>4, Zenon DEF Patient
<1>6. Flow
  BY <1>5, Zenon DEF InboundInv
<1>7. Pending(k)
  <2>1. SUFFICES ASSUME wire = <<>> PROVE FALSE
    BY <1>6, Zenon DEF Flow, Idle
  <2>2. Len(wire) = 0
    BY <2>1
  <2>3. 1..0 = {}
    OBVIOUS
  <2> QED BY <1>1, <2>2, <2>3, Zenon
<1>8. sent[k] \in Requests /\ k = Len(answers) + 1
  BY <1>1, <1>7, Zenon DEF Pending
<1> HIDE DEF k, data
<1>9. ASSUME data = Pieces(k), wire' = <<>> PROVE Flow'
  <2>a. HasEmptyLine(data) /\ data[1][1] = k
    BY <1>9, PiecesHave, Zenon
  <2>b. PICK a \in Handled(data) :
          /\ answers' = Append(answers, a) /\ request_data' = <<>>
          /\ ws_req' = IF a.status = "101" THEN PathOf(sent[data[1][1]].url[1]) ELSE <<>>
    BY <1>2, <2>a, Zenon
  <2>1. /\ a \in Handled(Pieces(k)) /\ answers' = Append(answers, a) /\ request_data' = <<>>
        /\ ws_req' = IF a.status = "101" THEN PathOf(sent[k].url[1]) ELSE <<>>
    BY <1>9, <2>a, <2>b, Zenon
  <2>2. sent[k].connection # "keep-alive, Upgrade"
    <3>1. k \in 1..Len(sent)
      <4>1. Len(answers) \in Nat
        BY <1>6 DEF Flow, AnswersSuit, IsList
      <4>2. k \in 1..k
        BY <1>8, <4>1
      <4> QED BY <4>2 DEF k
    <3> QED BY <1>5, <3>1, Zenon DEF Patient
  <2>3. /\ Suits(a, sent[k], k) /\ Readable(a)
        /\ a.status = "101" => PathOf(sent[k].url[1]) \in WsPaths
    BY <1>8, <2>1, <2>2, HandledIs, Zenon
  <2>4. AnswersSuit(answers', sent') /\ Len(answers') = Len(sent')
    <3>1. AnswersSuit(Append(answers, a), sent) /\ Len(Append(answers, a)) = k
      BY <1>6, <1>8, <2>3, AnswerAdded, Zenon DEF Flow
    <3> QED BY <1>1, <2>1, <3>1, Zenon DEF k
  <2>5. ws_req' = <<>> \/ ws_req' \in WsPaths
    BY <2>1, <2>3, Zenon
  <2>6. Idle'
    BY <1>9, <2>1, <2>4, Zenon DEF Idle
  <2> QED BY <1>1, <1>6, <2>4, <2>5, <2>6, Zenon DEF Flow
<1>10. ASSUME data = Start(k), wire' = Rest(k) PROVE Flow'
  <2>1. request_data' = Start(k) /\ answers' = answers /\ ws_req' = ws_req
    BY <1>2, <1>10, PiecesHave, Zenon
  <2>2. Pending(Len(sent))'
    BY <1>1, <1>8, <1>10, <2>1, Zenon DEF Pending, k
  <2> QED BY <1>1, <1>6, <2>1, <2>2, Zenon DEF Flow
<1>11. CASE wire = Pieces(k) /\ request_data = <<>>
  <2>1. n = 1 \/ n = 2
    <3>1. n \in 1..2
      BY <1>1, <1>11, PiecesRead, Zenon
    <3> QED BY <3>1
  <2>2. CASE n = 1
    <3>1. data = Start(k) /\ wire' = Rest(k)
      BY <1>1, <1>11, <2>2, PiecesRead, Zenon DEF data
    <3> QED BY <1>10, <3>1, Zenon
  <2>3. CASE n = 2
    <3>1. data = Pieces(k) /\ wire' = <<>>
      BY <1>1, <1>11, <2>3, PiecesRead, Zenon DEF data
    <3> QED BY <1>9, <3>1, Zenon
  <2> QED BY <2>1, <2>2, <2>3
<1>12. CASE wire = Rest(k) /\ request_data = Start(k)
  <2>1. n = 1
    <3>1. n \in 1..1
      BY <1>1, <1>12, PiecesRead, Zenon
    <3> QED BY <3>1
  <2>2. data = Pieces(k) /\ wire' = <<>>
    BY <1>1, <1>12, <2>1, PiecesRead, Zenon DEF data
  <2> QED BY <1>9, <2>2, Zenon
<1> QED BY <1>7, <1>11, <1>12, Zenon DEF Pending

\* A frame that comes in one piece is answered.
LEMMA FrameKeeps ==
  ASSUME NEW n \in 1..(2 * MaxSent), InboundInv, OnReadWsFrame(n)
  PROVE  InboundInv'
<1> DEFINE data == request_data \o SubSeq(wire, 1, n)
           k == Len(sent)
           m == sent[k]
<1>1. /\ ws_req # <<>> /\ n \in 1..Len(wire)
      /\ wire' = SubSeq(wire, n + 1, Len(wire)) /\ request_data' = <<>>
      /\ cut' = (cut \/ data[Len(data)][2] = 1)
      /\ sent' = sent /\ ws_req' = ws_req /\ hurried' = hurried
  BY Zenon DEF OnReadWsFrame
<1>2. PICK type \in TypesRead(data) :
        IF type = "CLOSE"
        THEN answers' = Append(answers, CloseAnswer("NORMAL_CLOSURE")) /\ buffer' = buffer
        ELSE /\ buffer' = Filled(buffer, WsAnswer(ws_req, type))
             /\ answers' = Append(answers, UnderstoodFrame(Sent(buffer')))
  BY Zenon DEF OnReadWsFrame
<1>3. IsList(sent')
  BY <1>1, Zenon DEF InboundInv
<1>4. SUFFICES ASSUME Patient' PROVE Flow'
  BY <1>3, Zenon DEF InboundInv
<1>5. Patient /\ data[Len(data)][2] # 1
  <2> HIDE DEF data
  <2> QED BY <1>1, <1>4, Zenon DEF Patient
<1>6. Flow
  BY <1>5, Zenon DEF InboundInv
<1>7. Pending(k)
  <2>1. SUFFICES ASSUME wire = <<>> PROVE FALSE
    BY <1>6, Zenon DEF Flow, Idle
  <2>2. Len(wire) = 0
    BY <2>1
  <2>3. 1..0 = {}
    OBVIOUS
  <2> QED BY <1>1, <2>2, <2>3, Zenon
<1> HIDE DEF k
<1>8. k = Len(answers) + 1 /\ wire = Pieces(k) /\ request_data = <<>> /\ m \in WsMessages
  BY <1>1, <1>7, Zenon DEF Pending
<1>9. n = 2
  <2>1. SUFFICES ASSUME n = 1 PROVE FALSE
    <3>1. n \in 1..2
      BY <1>1, <1>8, PiecesRead, Zenon
    <3> QED BY <3>1
  <2>2. data = Start(k)
    BY <1>8, <2>1, PiecesRead, Zenon
  <2> HIDE DEF data
  <2>3. data[Len(data)][2] = 1
    BY <2>2, PiecesRead, PiecesHave, Zenon
  <2> QED BY <1>5, <2>3, Zenon
<1>10. data = Pieces(k) /\ wire' = <<>>
  BY <1>1, <1>8, <1>9, PiecesRead, Zenon
<1> HIDE DEF data
<1>11. type = m.frame
  <2>1. data[1][1] = k /\ ~ (data[1][2] = 2) /\ ~ (Len(data) = 1)
    <3>1. data[1][1] = k /\ data[1][2] = 1 /\ Len(data) = 2
      BY <1>10, PiecesHave, PiecesRead, Zenon
    <3> QED BY <3>1
  <2> QED BY <1>2, <2>1, Zenon DEF TypesRead
<1>12. m.frame \in {"TEXT", "PING", "CLOSE"} /\ ws_req \in WsPaths
  <2>1. m.frame # ""
    <3>1. m \in Requests \cup WsMessages
      BY <1>8, Zenon
    <3>2. PICK t \in {"TEXT", "PING", "CLOSE"} : m = WsMessage(t)
      BY <1>8, Zenon DEF WsMessages
    <3>3. m.frame = t
      BY <3>2 DEF WsMessage, Http
    <3>4. t # ""
      OBVIOUS
    <3> QED BY <3>3, <3>4, Zenon
  <2>2. m \in Requests \cup WsMessages
    BY <1>8, Zenon
  <2> QED BY <1>1, <1>6, <2>1, <2>2, MessageHas, Zenon DEF Flow
<1> DEFINE code == "NORMAL_CLOSURE"
           a == IF type = "CLOSE" THEN CloseAnswer(code)
                ELSE UnderstoodFrame(WsAnswer(ws_req, type))
<1>13. /\ answers' = Append(answers, a) /\ IsList(buffer'.data)
       /\ Suits(a, m, k) /\ Readable(a)
  <2>1. CASE type = "CLOSE"
    <3>1. a = CloseAnswer(code)
      BY <2>1, Zenon
    <3>2. answers' = Append(answers, a) /\ buffer' = buffer
      BY <1>2, <2>1, <3>1, Zenon
    <3>3. code \in DOMAIN WsErrorCode /\ WsErrorCode[code] = "1000"
      BY DEF WsErrorCode
    <3> HIDE DEF a, code
    <3>4. a.status = "1000" /\ Readable(a)
      BY <3>1, <3>3, CloseIs, AnswerHas DEF CloseAnswer
    <3>5. m.frame = "CLOSE" /\ "CLOSE" # "PING" /\ "CLOSE" # "" /\ "CLOSE" # "TEXT"
      BY <1>11, <2>1
    <3>6. Suits(a, m, k)
      BY <3>4, <3>5, Zenon DEF Suits
    <3> QED BY <1>6, <3>2, <3>4, <3>6, Zenon DEF Flow, a, code
  <2>2. CASE type # "CLOSE"
    <3>1. m.frame \in {"TEXT", "PING"} /\ type = m.frame
      BY <1>11, <1>12, <2>2
    <3> DEFINE d == WsAnswer(ws_req, type)
    <3>2. a = UnderstoodFrame(d)
      BY <2>2, Zenon
    <3>3. buffer' = Filled(buffer, d) /\ answers' = Append(answers, UnderstoodFrame(Sent(buffer')))
      BY <1>2, <2>2, Zenon
    <3>4. IsList(d) /\ Suits(UnderstoodFrame(d), m, k) /\ Readable(UnderstoodFrame(d))
      <4> DEFINE e == WsAnswer(ws_req, m.frame)
      <4>1. IsList(e) /\ Suits(UnderstoodFrame(e), m, k) /\ Readable(UnderstoodFrame(e))
        <5>1. ws_req \in WsPaths
          BY <1>12
        <5>2. m.frame \in {"TEXT", "PING"}
          BY <3>1
        <5> HIDE DEF m
        <5> QED BY <5>1, <5>2, WsSuits
      <4>2. d = e
        BY <3>1, Zenon
      <4> HIDE DEF d, e
      <4> QED BY <4>1, <4>2, Zenon
    <3> HIDE DEF d, a
    <3>5. Sent(Filled(buffer, d)) = d /\ IsList(Filled(buffer, d).data)
      BY <1>6, <3>4, SentIs, Zenon DEF Flow
    <3> QED BY <3>2, <3>3, <3>4, <3>5, Zenon DEF a
  <2> QED BY <2>1, <2>2
<1> HIDE DEF a
<1>14. AnswersSuit(answers', sent') /\ Len(answers') = Len(sent')
  <2>1. AnswersSuit(Append(answers, a), sent) /\ Len(Append(answers, a)) = k
    BY <1>6, <1>8, <1>13, AnswerAdded, Zenon DEF Flow
  <2> QED BY <1>1, <1>13, <2>1, Zenon DEF k
<1>15. Idle'
  BY <1>1, <1>10, <1>14, Zenon DEF Idle
<1> QED BY <1>1, <1>6, <1>13, <1>14, <1>15, Zenon DEF Flow

\* Each step keeps the invariant ...
LEMMA InboundKeeps == InboundInv /\ [InboundNext]_inboundVars => InboundInv'
<1> SUFFICES ASSUME InboundInv, [InboundNext]_inboundVars PROVE InboundInv'
  OBVIOUS
<1>1. ASSUME NEW m \in Requests \cup WsMessages, SendMessage(m) PROVE InboundInv'
  BY <1>1, SendKeeps
<1>2. ASSUME NEW n \in 1..(2 * MaxSent), OnReadRequest(n) PROVE InboundInv'
  BY <1>2, RequestKeeps
<1>3. ASSUME NEW n \in 1..(2 * MaxSent), OnReadWsFrame(n) PROVE InboundInv'
  BY <1>3, FrameKeeps
<1>4. CASE UNCHANGED inboundVars
  BY <1>4, Zenon DEF inboundVars, InboundInv, Patient, Flow, Idle, Pending
<1> QED BY <1>1, <1>2, <1>3, <1>4, Zenon DEF InboundNext

\* ... which says what AnswersFit says.
LEMMA InboundFits == InboundInv => AnswersFit
<1> SUFFICES ASSUME InboundInv,
                    ~ hurried /\ ~ cut,
                    \A i \in DOMAIN sent : sent[i].connection # "keep-alive, Upgrade"
             PROVE  /\ wire = <<>> => Len(answers) = Len(sent)
                    /\ \A i \in DOMAIN answers : Fits(answers[i], i)
                    /\ \A i \in DOMAIN answers :
                          /\ answers[i].length = "wrong" => answers[i].status \in {"400", "404"}
                          /\ answers[i].length = "unknown" =>
                               answers[i].type = "multipart/x-mixed-replace"
  BY Zenon DEF AnswersFit
<1>1. DOMAIN sent = 1..Len(sent)
  BY ListPlaces, Zenon DEF InboundInv
<1>2. Patient
  BY <1>1, Zenon DEF Patient
<1>3. Flow
  BY <1>2, Zenon DEF InboundInv
<1>4. AnswersSuit(answers, sent)
  BY <1>3, Zenon DEF Flow
<1>5. DOMAIN answers = 1..Len(answers)
  BY <1>4, ListPlaces, Zenon DEF AnswersSuit
<1>6. wire = <<>> => Len(answers) = Len(sent)
  <2>1. SUFFICES ASSUME wire = <<>>, Pending(Len(sent)) PROVE FALSE
    BY <1>3, Zenon DEF Flow, Idle
  <2>2. \A k : Pieces(k) # <<>> /\ Rest(k) # <<>>
    BY DEF Pieces, Rest
  <2> QED BY <2>1, <2>2, Zenon DEF Pending
<1>7. \A i \in DOMAIN answers : Suits(answers[i], sent[i], i) /\ Readable(answers[i])
  BY <1>4, <1>5, Zenon DEF AnswersSuit
<1>8. \A i \in DOMAIN answers : Fits(answers[i], i)
  BY <1>7, Zenon DEF Suits, Fits
<1>9. ASSUME NEW i \in DOMAIN answers
      PROVE  /\ answers[i].length = "wrong" => answers[i].status \in {"400", "404"}
             /\ answers[i].length = "unknown" => answers[i].type = "multipart/x-mixed-replace"
  BY <1>7, Zenon DEF Readable
<1> QED BY <1>6, <1>8, <1>9, Zenon

(***************************************************************************)
(* A visitor that waits for each answer gets the answer to every message, in *)
(* order, however TCP cuts requests: the page, picture, error or handshake *)
(* that it asked for, with its type and a length by which it can be read,  *)
(* whatever stands in the buffer of a WebSocket (on_read, parseHttpRequest, *)
(* clearSlash, initStreamRoutes, str, set_http_write_buf).                 *)
(***************************************************************************)
THEOREM VisitorsAreAnswered == InboundSpec => []AnswersFit
<1>1. InboundInit => InboundInv
  BY InboundStarts
<1>2. InboundInv /\ [InboundNext]_inboundVars => InboundInv'
  BY InboundKeeps
<1>3. InboundInv => AnswersFit
  BY InboundFits
<1> QED BY <1>1, <1>2, <1>3, PTL DEF InboundSpec

=============================================================================
