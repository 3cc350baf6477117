----------------------------- MODULE Parts_proofs ----------------------------
(***************************************************************************)
(* Proofs about the frames of WebSockets, the encoder, the options, the    *)
(* player, the frame rates and the picture in the window, for any payloads,*)
(* settings and texts, any number of sockets and frames, and screens of    *)
(* any size; and about Parts: a behaviour of the whole is one of each      *)
(* part, so that what is proved of a part, here or of its messages and     *)
(* texts, holds in the whole.                                              *)
(***************************************************************************)
EXTENDS Parts, Text_proofs

-----------------------------------------------------------------------------
(***************************************************************************)
(* Frames (WsFrame), for payloads of any length of 64 bits and any masks.  *)
(*                                                                         *)
(* The argument: dividing by 256 again and again and multiplying back is   *)
(* nothing, for the two and for the eight bytes of a length; the header is *)
(* two bytes and those; and what is unmasked was masked with the same      *)
(* byte.  The recursive functions of BigEndian and Value have two and      *)
(* eight steps, so that each is written out once and shown to be the one   *)
(* that was chosen.                                                        *)
(***************************************************************************)
Byte == 0..255

\* Division by 256.
LEMMA Divided ==
  ASSUME NEW x \in Nat
  PROVE  x \div 256 \in Nat /\ x % 256 \in Byte /\ x = (x \div 256) * 256 + (x % 256)
BY DEF Byte

\* The two bytes of a number ...
LEMMA TwoBytes ==
  ASSUME NEW x \in Nat
  PROVE  BigEndian(x, 2) = [i \in 1..2 |-> IF i = 1 THEN (x \div 256) % 256 ELSE x % 256]
<1> DEFINE Is(f) == f = [k \in 0..2 |-> IF k = 0 THEN x ELSE f[k - 1] \div 256]
           g == [k \in 0..2 |-> IF k = 0 THEN x ELSE IF k = 1 THEN x \div 256 ELSE (x \div 256) \div 256]
           rest == CHOOSE f : Is(f)
<1>1. Is(g)
  <2>1. \A k \in 0..2 : k = 0 \/ k = 1 \/ k = 2
        OBVIOUS
  <2>2. g[0] = x /\ g[1] = x \div 256 /\ g[2] = (x \div 256) \div 256
        OBVIOUS
  <2>3. \A k \in 0..2 : g[k] = IF k = 0 THEN x ELSE g[k - 1] \div 256
        BY <2>1, <2>2
  <2> QED BY <2>3
<1>2. Is(rest)
      BY <1>1, Zenon
<1>3. BigEndian(x, 2) = [i \in 1..2 |-> rest[2 - i] % 256]
      BY DEF BigEndian
<1> HIDE DEF rest
<1>4. rest[0] = x /\ rest[1] = x \div 256
      BY <1>2
<1>5. \A i \in 1..2 : rest[2 - i] % 256 = IF i = 1 THEN (x \div 256) % 256 ELSE x % 256
      BY <1>4
<1> QED BY <1>3, <1>5

\* ... and what two bytes mean.
LEMMA TwoMean ==
  ASSUME NEW b \in [1..2 -> Byte]
  PROVE  Value(b) = b[1] * 256 + b[2]
<1> DEFINE Is(f) == f = [i \in 0..2 |-> IF i = 0 THEN 0 ELSE f[i - 1] * 256 + b[i]]
           g == [i \in 0..2 |-> IF i = 0 THEN 0 ELSE IF i = 1 THEN b[1] ELSE b[1] * 256 + b[2]]
           upTo == CHOOSE f : Is(f)
<1>0. Len(b) = 2 /\ b[1] \in Nat /\ b[2] \in Nat
      BY DEF Byte
<1>1. Is(g)
  <2>1. \A i \in 0..2 : i = 0 \/ i = 1 \/ i = 2
        OBVIOUS
  <2>2. g[0] = 0 /\ g[1] = b[1] /\ g[2] = b[1] * 256 + b[2]
        OBVIOUS
  <2>3. \A i \in 0..2 : g[i] = IF i = 0 THEN 0 ELSE g[i - 1] * 256 + b[i]
        BY <1>0, <2>1, <2>2
  <2> QED BY <2>3
<1>2. Is(upTo)
      BY <1>1, Zenon
<1>3. Value(b) = upTo[2]
      BY <1>0 DEF Value
<1> HIDE DEF upTo
<1>4. upTo[0] = 0 /\ upTo[1] = upTo[0] * 256 + b[1] /\ upTo[2] = upTo[1] * 256 + b[2]
      BY <1>2
<1> QED BY <1>0, <1>3, <1>4

\* Eight bytes are made by dividing ...
LEMMA EightBytes ==
  ASSUME NEW x \in Nat
  PROVE  \E r \in [0..8 -> Nat] :
            /\ r[0] = x /\ \A k \in 1..8 : r[k] = r[k - 1] \div 256
            /\ BigEndian(x, 8) = [i \in 1..8 |-> r[8 - i] % 256]
<1> DEFINE Is(f) == f = [k \in 0..8 |-> IF k = 0 THEN x ELSE f[k - 1] \div 256]
           rest == CHOOSE f : Is(f)
           q1 == x \div 256
           q2 == q1 \div 256
           q3 == q2 \div 256
           q4 == q3 \div 256
           q5 == q4 \div 256
           q6 == q5 \div 256
           q7 == q6 \div 256
           q8 == q7 \div 256
           g == [k \in 0..8 |-> IF k = 0 THEN x ELSE IF k = 1 THEN q1 ELSE IF k = 2 THEN q2 ELSE IF k = 3 THEN q3 ELSE IF k = 4 THEN q4 ELSE IF k = 5 THEN q5 ELSE IF k = 6 THEN q6 ELSE IF k = 7 THEN q7 ELSE q8]
<1>0. /\ q1 \in Nat
      /\ q2 \in Nat
      /\ q3 \in Nat
      /\ q4 \in Nat
      /\ q5 \in Nat
      /\ q6 \in Nat
      /\ q7 \in Nat
      /\ q8 \in Nat
      OBVIOUS
<1>1. Is(g)
  <2>1. /\ q1 = x \div 256
        /\ q2 = q1 \div 256
        /\ q3 = q2 \div 256
        /\ q4 = q3 \div 256
        /\ q5 = q4 \div 256
        /\ q6 = q5 \div 256
        /\ q7 = q6 \div 256
        /\ q8 = q7 \div 256
        OBVIOUS
  <2> HIDE DEF q1, q2, q3, q4, q5, q6, q7, q8
  <2>2. /\ g[0] = x
        /\ g[1] = q1
        /\ g[2] = q2
        /\ g[3] = q3
        /\ g[4] = q4
        /\ g[5] = q5
        /\ g[6] = q6
        /\ g[7] = q7
        /\ g[8] = q8
        OBVIOUS
  <2>3. \A k \in 0..8 : k = 0 \/ k = 1 \/ k = 2 \/ k = 3 \/ k = 4 \/ k = 5 \/ k = 6 \/ k = 7 \/ k = 8
        OBVIOUS
  <2> HIDE DEF g
  <2>4. \A k \in 0..8 : g[k] = IF k = 0 THEN x ELSE g[k - 1] \div 256
    <3> DEFINE d(n) == n \div 256
    <3>1. \A k \in 0..8 : k - 1 \in Int /\ (k = 0 \/ k - 1 \in 0..7)
          OBVIOUS
    <3>2. /\ q1 = d(x) /\ q2 = d(q1) /\ q3 = d(q2) /\ q4 = d(q3) /\ q5 = d(q4) /\ q6 = d(q5)
          /\ q7 = d(q6) /\ q8 = d(q7)
          BY <2>1
    <3> HIDE DEF d
    <3>3. g[0] = x /\ \A k \in 1..8 : g[k] = d(g[k - 1])
          BY <2>2, <2>3, <3>1, <3>2
    <3>4. \A k \in 0..8 : g[k] = IF k = 0 THEN x ELSE d(g[k - 1])
          BY <3>3
    <3> QED BY <3>4 DEF d
  <2> QED BY <2>4 DEF g
<1>2. Is(rest)
      BY <1>1, Zenon
<1>3. BigEndian(x, 8) = [i \in 1..8 |-> rest[8 - i] % 256]
      BY DEF BigEndian
<1> HIDE DEF rest
<1>4. rest[0] = x /\ \A k \in 1..8 : rest[k] = rest[k - 1] \div 256
      BY <1>2
<1>5. rest \in [0..8 -> Nat]
  <2>1. /\ rest[0] \in Nat
        /\ rest[1] \in Nat
        /\ rest[2] \in Nat
        /\ rest[3] \in Nat
        /\ rest[4] \in Nat
        /\ rest[5] \in Nat
        /\ rest[6] \in Nat
        /\ rest[7] \in Nat
        /\ rest[8] \in Nat
    <3>0. \A n \in Nat : n \div 256 \in Nat
          OBVIOUS
    <3> QED BY <1>4, <3>0
  <2>2. \A k \in 0..8 : k = 0 \/ k = 1 \/ k = 2 \/ k = 3 \/ k = 4 \/ k = 5 \/ k = 6 \/ k = 7 \/ k = 8
        OBVIOUS
  <2>3. \A k \in 0..8 : rest[k] \in Nat
        BY <2>1, <2>2
  <2> QED BY <1>2, <2>3
<1> QED BY <1>3, <1>4, <1>5

\* ... and mean what they are multiplied to.
LEMMA EightMean ==
  ASSUME NEW b \in [1..8 -> Byte]
  PROVE  \E u \in [0..8 -> Nat] :
            /\ u[0] = 0 /\ \A i \in 1..8 : u[i] = u[i - 1] * 256 + b[i]
            /\ Value(b) = u[8]
<1> DEFINE Is(f) == f = [i \in 0..8 |-> IF i = 0 THEN 0 ELSE f[i - 1] * 256 + b[i]]
           upTo == CHOOSE f : Is(f)
           v0 == 0
           v1 == v0 * 256 + b[1]
           v2 == v1 * 256 + b[2]
           v3 == v2 * 256 + b[3]
           v4 == v3 * 256 + b[4]
           v5 == v4 * 256 + b[5]
           v6 == v5 * 256 + b[6]
           v7 == v6 * 256 + b[7]
           v8 == v7 * 256 + b[8]
           g == [i \in 0..8 |-> IF i = 0 THEN v0 ELSE IF i = 1 THEN v1 ELSE IF i = 2 THEN v2 ELSE IF i = 3 THEN v3 ELSE IF i = 4 THEN v4 ELSE IF i = 5 THEN v5 ELSE IF i = 6 THEN v6 ELSE IF i = 7 THEN v7 ELSE v8]
<1>a. Len(b) = 8 /\ \A i \in 1..8 : b[i] \in Nat
      BY DEF Byte
<1>1. Is(g)
  <2>1. /\ v0 = 0
        /\ v1 = v0 * 256 + b[1]
        /\ v2 = v1 * 256 + b[2]
        /\ v3 = v2 * 256 + b[3]
        /\ v4 = v3 * 256 + b[4]
        /\ v5 = v4 * 256 + b[5]
        /\ v6 = v5 * 256 + b[6]
        /\ v7 = v6 * 256 + b[7]
        /\ v8 = v7 * 256 + b[8]
        OBVIOUS
  <2> HIDE DEF v0, v1, v2, v3, v4, v5, v6, v7, v8
  <2>2. /\ g[0] = v0
        /\ g[1] = v1
        /\ g[2] = v2
        /\ g[3] = v3
        /\ g[4] = v4
        /\ g[5] = v5
        /\ g[6] = v6
        /\ g[7] = v7
        /\ g[8] = v8
        OBVIOUS
  <2>3. \A i \in 0..8 : i = 0 \/ i = 1 \/ i = 2 \/ i = 3 \/ i = 4 \/ i = 5 \/ i = 6 \/ i = 7 \/ i = 8
        OBVIOUS
  <2> HIDE DEF g
  <2>4. \A i \in 0..8 : g[i] = IF i = 0 THEN 0 ELSE g[i - 1] * 256 + b[i]
        BY <2>1, <2>2, <2>3
  <2> QED BY <2>4 DEF g
<1>2. Is(upTo)
      BY <1>1, Zenon
<1>3. Value(b) = upTo[8]
      BY <1>a DEF Value
<1> HIDE DEF upTo
<1>4. upTo[0] = 0 /\ \A i \in 1..8 : upTo[i] = upTo[i - 1] * 256 + b[i]
      BY <1>2
<1>5. upTo \in [0..8 -> Nat]
  <2>1. /\ upTo[0] \in Nat
        /\ upTo[1] \in Nat
        /\ upTo[2] \in Nat
        /\ upTo[3] \in Nat
        /\ upTo[4] \in Nat
        /\ upTo[5] \in Nat
        /\ upTo[6] \in Nat
        /\ upTo[7] \in Nat
        /\ upTo[8] \in Nat
    <3>0. \A n, m \in Nat : n * 256 + m \in Nat
          OBVIOUS
    <3> QED BY <1>a, <1>4, <3>0
  <2>2. \A k \in 0..8 : k = 0 \/ k = 1 \/ k = 2 \/ k = 3 \/ k = 4 \/ k = 5 \/ k = 6 \/ k = 7 \/ k = 8
        OBVIOUS
  <2>3. \A k \in 0..8 : upTo[k] \in Nat
        BY <2>1, <2>2
  <2> QED BY <1>2, <2>3
<1> QED BY <1>3, <1>4, <1>5

\* 2^64.
Size64 == 18446744073709551616

\* A number below it is what its eight bytes mean.
LEMMA EightAre ==
  ASSUME NEW x \in Nat, x < Size64
  PROVE  BigEndian(x, 8) \in [1..8 -> Byte] /\ Value(BigEndian(x, 8)) = x
<1> DEFINE b == BigEndian(x, 8)
<1>1. PICK r \in [0..8 -> Nat] :
            /\ r[0] = x /\ \A k \in 1..8 : r[k] = r[k - 1] \div 256
            /\ b = [i \in 1..8 |-> r[8 - i] % 256]
      BY EightBytes
<1>2. b \in [1..8 -> Byte]
  <2>1. \A i \in 1..8 : 8 - i \in 0..8
        OBVIOUS
  <2>2. \A i \in 1..8 : r[8 - i] % 256 \in Byte
        BY <2>1, Divided
  <2> QED BY <1>1, <2>2
<1> HIDE DEF b
<1>3. PICK u \in [0..8 -> Nat] :
            /\ u[0] = 0 /\ \A i \in 1..8 : u[i] = u[i - 1] * 256 + b[i]
            /\ Value(b) = u[8]
      BY <1>2, EightMean
<1>4. r[8] = 0
  <2>0. \A n, m \in Nat : n < m * 256 => n \div 256 < m
        OBVIOUS
  <2>1. r[1] \in Nat /\ r[1] < 72057594037927936
        BY <1>1, <2>0 DEF Size64
  <2>2. r[2] \in Nat /\ r[2] < 281474976710656
        BY <1>1, <2>0, <2>1
  <2>3. r[3] \in Nat /\ r[3] < 1099511627776
        BY <1>1, <2>0, <2>2
  <2>4. r[4] \in Nat /\ r[4] < 4294967296
        BY <1>1, <2>0, <2>3
  <2>5. r[5] \in Nat /\ r[5] < 16777216
        BY <1>1, <2>0, <2>4
  <2>6. r[6] \in Nat /\ r[6] < 65536
        BY <1>1, <2>0, <2>5
  <2>7. r[7] \in Nat /\ r[7] < 256
        BY <1>1, <2>0, <2>6
  <2>8. r[8] \in Nat /\ r[8] < 1
        BY <1>1, <2>0, <2>7
  <2> QED BY <2>8
<1>5. \A i \in 1..8 : u[i - 1] = r[8 - i + 1] => u[i] = r[8 - i]
  <2> SUFFICES ASSUME NEW i \in 1..8, u[i - 1] = r[8 - i + 1] PROVE u[i] = r[8 - i]
      OBVIOUS
  <2>1. 8 - i + 1 \in 1..8 /\ 8 - i \in 0..8 /\ i - 1 \in 0..8 /\ 8 - i + 1 - 1 = 8 - i
        OBVIOUS
  <2>2. r[8 - i + 1] = r[8 - i] \div 256
        BY <1>1, <2>1
  <2>3. b[i] = r[8 - i] % 256
        BY <1>1
  <2>4. r[8 - i] \in Nat
        BY <2>1
  <2>5. r[8 - i] = r[8 - i + 1] * 256 + b[i]
        BY <2>2, <2>3, <2>4, Divided
  <2> QED BY <1>3, <2>5
<1>6. u[1] = r[7] /\ u[2] = r[6] /\ u[3] = r[5] /\ u[4] = r[4]
      BY <1>3, <1>4, <1>5
<1>7. u[5] = r[3] /\ u[6] = r[2] /\ u[7] = r[1] /\ u[8] = r[0]
      BY <1>5, <1>6
<1> QED BY <1>1, <1>2, <1>3, <1>7 DEF b

\* A number below 2^16 is what its two bytes mean.
LEMMA TwoAre ==
  ASSUME NEW x \in Nat, x <= 65535
  PROVE  BigEndian(x, 2) \in [1..2 -> Byte] /\ Value(BigEndian(x, 2)) = x
<1> DEFINE b == BigEndian(x, 2)
<1>1. x \div 256 \in Nat /\ x \div 256 < 256 /\ x % 256 \in Byte
      BY DEF Byte
<1>2. (x \div 256) % 256 = x \div 256
      BY <1>1
<1>3. b = [i \in 1..2 |-> IF i = 1 THEN (x \div 256) % 256 ELSE x % 256]
      BY TwoBytes
<1>4. b[1] = x \div 256 /\ b[2] = x % 256
      BY <1>2, <1>3
<1>5. x \div 256 \in Byte
      BY <1>1 DEF Byte
<1>6. b \in [1..2 -> Byte]
      BY <1>1, <1>2, <1>3, <1>5
<1> HIDE DEF b
<1>7. Value(b) = b[1] * 256 + b[2]
      BY <1>6, TwoMean
<1>8. x = (x \div 256) * 256 + (x % 256)
      BY Divided
<1> QED BY <1>4, <1>6, <1>7, <1>8 DEF b

-----------------------------------------------------------------------------
(***************************************************************************)
(* Sequences of numbers.                                                   *)
(***************************************************************************)
\* A function is a sequence ...
LEMMA OfBytes ==
  ASSUME NEW n \in Nat, NEW f \in [1..n -> Int]
  PROVE  f \in Seq(Int) /\ Len(f) = n
<1>1. f \in Seq(Int)
      BY SeqDef
<1> QED BY <1>1, LenProperties

\* ... and so is one number.
LEMMA OfOne ==
  ASSUME NEW a \in Int
  PROVE  <<a>> \in Seq(Int) /\ Len(<<a>>) = 1 /\ <<a>>[1] = a
OBVIOUS

\* What is appended follows.
LEMMA Appended ==
  ASSUME NEW s \in Seq(Int), NEW t \in Seq(Int)
  PROVE  /\ s \o t \in Seq(Int) /\ Len(s \o t) = Len(s) + Len(t)
         /\ \A i \in 1..Len(s) : (s \o t)[i] = s[i]
         /\ \A i \in 1..Len(t) : (s \o t)[Len(s) + i] = t[i]
<1>1. Len(s) \in Nat /\ Len(t) \in Nat
      BY LenProperties
<1>2. /\ s \o t \in Seq(Int) /\ Len(s \o t) = Len(s) + Len(t)
      /\ \A i \in 1..Len(s) + Len(t) : (s \o t)[i] = IF i <= Len(s) THEN s[i] ELSE t[i - Len(s)]
      BY ConcatProperties
<1>3. \A i \in 1..Len(s) : i \in 1..Len(s) + Len(t) /\ i <= Len(s)
      BY <1>1
<1>4. \A i \in 1..Len(t) : /\ Len(s) + i \in 1..Len(s) + Len(t) /\ ~(Len(s) + i <= Len(s))
                           /\ Len(s) + i - Len(s) = i
      BY <1>1
<1> QED BY <1>2, <1>3, <1>4

\* What follows m elements.
LEMMA Followed ==
  ASSUME NEW s \in Seq(Int), NEW n \in Nat, NEW m \in Nat, NEW b \in [1..n -> Int],
         Len(s) = m + n, \A i \in 1..n : s[m + i] = b[i]
  PROVE  SubSeq(s, m + 1, Len(s)) = b
<1> DEFINE t == SubSeq(s, m + 1, Len(s))
<1>1. \A i \in m + 1..Len(s) : s[i] \in Int
      BY ElementOfSeq
<1>2. /\ t \in Seq(Int) /\ Len(t) = IF m + 1 <= Len(s) THEN Len(s) - (m + 1) + 1 ELSE 0
      /\ \A i \in 1..Len(s) - (m + 1) + 1 : t[i] = s[m + 1 + i - 1]
      BY <1>1, SubSeqProperties
<1> HIDE DEF t
<1>3. Len(t) = n
      BY <1>2
<1>4. \A i \in 1..n : t[i] = b[i]
      BY <1>2
<1>5. b \in Seq(Int) /\ Len(b) = n
      BY OfBytes
<1>6. t = b
      BY <1>2, <1>3, <1>4, <1>5, SeqEqual
<1> QED BY <1>6 DEF t

-----------------------------------------------------------------------------
(***************************************************************************)
(* What the server packs.                                                  *)
(***************************************************************************)
FrameTypes == {"NIL", "TEXT", "BINARY", "CLOSE", "PING", "PONG"}

\* Opcodes are short.
LEMMA Opcodes ==
  /\ \A type \in FrameTypes : Opcode[type] \in 0..10
  /\ Received \subseteq FrameTypes
BY DEF Opcode, FrameTypes, Received

\* What a browser takes from the header of a payload.
LEMMA HeaderDecodes ==
  ASSUME NEW type \in FrameTypes, NEW len \in Nat, len < Size64
  PROVE  Meaning(Header(type, len)) =
             [final |-> TRUE, opcode |-> Opcode[type], masked |-> FALSE, len |-> len,
              size |-> Len(Header(type, len))]
<1> DEFINE h == Header(type, len)
<1>1. ASSUME NEW field \in 0..127, NEW n \in Nat, NEW b \in [1..n -> Byte],
             h = <<128 + Opcode[type]>> \o (<<field>> \o b),
             len = IF field <= 125 THEN field ELSE Value(b),
             n + 2 = IF field <= 125 THEN 2 ELSE IF field = 126 THEN 4 ELSE 10
      PROVE  Meaning(h) = [final |-> TRUE, opcode |-> Opcode[type], masked |-> FALSE,
                           len |-> len, size |-> Len(h)]
  <2> HIDE DEF h
  <2>1. /\ Len(h) = n + 2 /\ h[2] = field /\ h[1] \div 128 = 1 /\ h[1] % 128 = Opcode[type]
        /\ SubSeq(h, 3, Len(h)) = b
    <3> DEFINE op == Opcode[type]
               s == <<field>> \o b
    <3>1. op \in 0..10
          BY Opcodes
    <3>2. /\ 128 + op \in Int /\ (128 + op) \div 128 = 1 /\ (128 + op) % 128 = op /\ field \in Int
          BY <3>1
    <3>3. b \in [1..n -> Int] /\ b \in Seq(Int) /\ Len(b) = n
      <4>0. Byte \subseteq Int
            BY DEF Byte
      <4>1. b \in [1..n -> Int]
            BY <4>0
      <4> QED BY <4>1, OfBytes
    <3>4. /\ s \in Seq(Int) /\ Len(s) = 1 + n /\ s[1] = field
          /\ \A i \in 1..n : s[1 + i] = b[i]
          BY <3>2, <3>3, OfOne, Appended
    <3> HIDE DEF op, s
    <3>5. /\ h \in Seq(Int) /\ Len(h) = 1 + (1 + n) /\ h[1] = 128 + op
          /\ \A i \in 1..1 + n : h[1 + i] = s[i]
      <4>1. h = <<128 + op>> \o s
            BY <1>1 DEF op, s
      <4>2. <<128 + op>> \in Seq(Int) /\ Len(<<128 + op>>) = 1 /\ <<128 + op>>[1] = 128 + op
            BY <3>2, OfOne
      <4>3. /\ <<128 + op>> \o s \in Seq(Int) /\ Len(<<128 + op>> \o s) = 1 + (1 + n)
            /\ \A i \in 1..1 : (<<128 + op>> \o s)[i] = <<128 + op>>[i]
            /\ \A i \in 1..1 + n : (<<128 + op>> \o s)[1 + i] = s[i]
            BY <3>4, <4>2, Appended
      <4> QED BY <4>1, <4>2, <4>3
    <3>6. h[2] = field
          BY <3>4, <3>5
    <3>7. \A i \in 1..n : h[2 + i] = b[i]
      <4>1. \A i \in 1..n : 1 + i \in 1..1 + n /\ 1 + (1 + i) = 2 + i
            OBVIOUS
      <4> QED BY <3>4, <3>5, <4>1
    <3>8. SubSeq(h, 2 + 1, Len(h)) = b
          BY <3>3, <3>5, <3>7, Followed
    <3> QED BY <3>2, <3>5, <3>6, <3>8 DEF op
  <2>2. field % 128 = field /\ ~(field >= 128)
        OBVIOUS
  <2>3. (h[1] \div 128 = 1) = TRUE /\ (h[2] >= 128) = FALSE
        BY <2>1, <2>2
  <2>4. Meaning(h) = [final |-> h[1] \div 128 = 1, opcode |-> h[1] % 128, masked |-> h[2] >= 128,
                      len |-> IF field <= 125 THEN field ELSE Value(b),
                      size |-> IF field <= 125 THEN 2 ELSE IF field = 126 THEN 4 ELSE 10]
    <3>1. h[2] % 128 = field /\ Len(h) = n + 2 /\ SubSeq(h, 3, Len(h)) = b
          BY <2>1, <2>2
    <3> QED BY <3>1, Zenon DEF Meaning
  <2>5. /\ len = IF field <= 125 THEN field ELSE Value(b)
        /\ Len(h) = IF field <= 125 THEN 2 ELSE IF field = 126 THEN 4 ELSE 10
        BY <1>1, <2>1
  <2>6. h[1] % 128 = Opcode[type]
        BY <2>1
  <2> QED BY <2>3, <2>4, <2>5, <2>6, Zenon
<1>2. CASE len <= 125
  <2> DEFINE b == [i \in 1..0 |-> 0]
  <2>1. b \in [1..0 -> Byte] /\ b = << >>
        OBVIOUS
  <2>2. <<len>> \o << >> = <<len>>
        BY OfOne, ConcatEmptySeq
  <2>3. h = <<128 + Opcode[type]>> \o (<<len>> \o b)
        BY <1>2, <2>1, <2>2 DEF Header, MaxShort
  <2>4. len \in 0..127
        BY <1>2
  <2> HIDE DEF b, h
  <2>5. 0 \in Nat /\ 0 + 2 = IF len <= 125 THEN 2 ELSE IF len = 126 THEN 4 ELSE 10
        BY <1>2
  <2> QED BY <1>1, <1>2, <2>1, <2>3, <2>4, <2>5 DEF h
<1>3. CASE len > 125 /\ len <= 65535
  <2> DEFINE b == BigEndian(len, 2)
  <2>1. b \in [1..2 -> Byte] /\ Value(b) = len
        BY <1>3, TwoAre
  <2>2. h = <<128 + Opcode[type]>> \o (<<126>> \o b)
        BY <1>3 DEF Header, MaxShort, MaxMiddle
  <2> HIDE DEF b, h
  <2>3. /\ 126 \in 0..127 /\ 2 \in Nat
        /\ 2 + 2 = IF 126 <= 125 THEN 2 ELSE IF 126 = 126 THEN 4 ELSE 10
        OBVIOUS
  <2>4. len = IF 126 <= 125 THEN 126 ELSE Value(b)
        BY <2>1
  <2> QED BY <1>1, <2>1, <2>2, <2>3, <2>4, Zenon DEF h
<1>4. CASE len > 65535
  <2> DEFINE b == BigEndian(len, 8)
             field == 127
             n == 8
  <2>1. b \in [1..n -> Byte] /\ Value(b) = len
        BY EightAre
  <2>2. h = <<128 + Opcode[type]>> \o (<<field>> \o b)
        BY <1>4 DEF Header, MaxShort, MaxMiddle
  <2>3. /\ field \in 0..127 /\ n \in Nat
        /\ n + 2 = IF field <= 125 THEN 2 ELSE IF field = 126 THEN 4 ELSE 10
        OBVIOUS
  <2>4. len = IF field <= 125 THEN field ELSE Value(b)
        BY <2>1
  <2> HIDE DEF b, h, field, n
  <2> QED BY <1>1, <2>1, <2>2, <2>3, <2>4, Zenon DEF h
<1> QED BY <1>2, <1>3, <1>4

-----------------------------------------------------------------------------
(***************************************************************************)
(* What the server reads.                                                  *)
(***************************************************************************)
\* The first byte tells the type.
LEMMA TypeRead ==
  ASSUME NEW type \in Received
  PROVE  TypeOf(128 + Opcode[type]) = type
<1>1. Opcode[type] \in 1..10
      BY DEF Opcode, Received
<1>2. (128 + Opcode[type]) % 16 = Opcode[type] /\ Opcode[type] # 0
      BY <1>1
<1>3. \A t \in Received : Opcode[t] = Opcode[type] <=> t = type
      BY DEF Opcode, Received
<1>4. {t \in Received : Opcode[t] = (128 + Opcode[type]) % 16} = {type}
      BY <1>2, <1>3
<1>5. (CHOOSE t \in {type} : TRUE) = type /\ {type} # {}
      OBVIOUS
<1> QED BY <1>2, <1>4, <1>5 DEF TypeOf

\* A masked frame of at most 125 bytes is a frame when all of it is there.
LEMMA UnpackShort ==
  ASSUME NEW type \in Received, NEW len \in 0..125, NEW data, Len(data) \in Nat, Len(data) >= 2,
         data[1] = 128 + Opcode[type], data[2] = 128 + len
  PROVE  Unpacked(data) = IF Len(data) >= 6 + len
                          THEN [type |-> type, masked |-> TRUE, header |-> 6, len |-> len]
                          ELSE [type |-> "UNKNOWN"]
<1>1. /\ data[2] % 128 = len /\ (data[2] >= 128) = TRUE /\ len # 126 /\ len # 127
      /\ ~(Len(data) < 2)
      OBVIOUS
<1>2. TypeOf(data[1]) = type /\ type # "UNKNOWN"
      BY TypeRead DEF Received
<1>3. HasAll(Len(data), TRUE, 6, len) = (Len(data) >= 6 + len)
      BY DEF HasAll
<1>4. 2 + (IF len = 126 THEN 2 ELSE 0) + (IF TRUE THEN 4 ELSE 0) = 6
      BY <1>1
<1>5. Unpacked(data) =
        IF ~HasAll(Len(data), TRUE, 6, len) THEN [type |-> "UNKNOWN"]
        ELSE [type |-> type, masked |-> TRUE, header |-> 6, len |-> len]
      BY <1>1, <1>2, <1>4 DEF Unpacked
<1> QED BY <1>3, <1>5

\* One byte is none.
LEMMA UnpackNothing ==
  ASSUME NEW data, Len(data) \in Nat, Len(data) < 2
  PROVE  Unpacked(data) = [type |-> "UNKNOWN"]
BY DEF Unpacked

\* The frame a browser makes of at most 125 bytes.
AreBytesOf(wired, type, len, mask) ==
    /\ wired \in Seq(Int) /\ Len(wired) = 6 + len
    /\ wired[1] = 128 + Opcode[type] /\ wired[2] = 128 + len
    /\ \A j \in 1..4 : wired[2 + j] = mask[j]
    /\ \A i \in 1..len : wired[6 + i] = (Payload(len)[i] + mask[1 + ((i - 1) % 4)]) % 2

LEMMA BrowserBytes ==
  ASSUME NEW type \in Received, NEW len \in 0..125, NEW mask \in [1..4 -> {0, 1}]
  PROVE  AreBytesOf(BrowserFrame(type, len, mask), type, len, mask)
<1> DEFINE body == [i \in 1..len |-> (Payload(len)[i] + mask[1 + ((i - 1) % 4)]) % 2]
           a == <<128 + Opcode[type]>>
           c == <<128 + len>>
           wired == ((a \o c) \o mask) \o body
<1>0. len <= 125
      OBVIOUS
<1>1. BrowserFrame(type, len, mask) = wired
      BY <1>0 DEF BrowserFrame
<1>2. Opcode[type] \in Int /\ len \in Int /\ len \in Nat
      BY DEF Opcode, Received
<1>3. a \in Seq(Int) /\ Len(a) = 1 /\ a[1] = 128 + Opcode[type]
      BY <1>2, OfOne
<1>4. c \in Seq(Int) /\ Len(c) = 1 /\ c[1] = 128 + len
      BY <1>2, OfOne
<1>5. mask \in Seq(Int) /\ Len(mask) = 4
  <2>1. mask \in [1..4 -> Int]
        OBVIOUS
  <2> QED BY <2>1, OfBytes
<1>6. body \in Seq(Int) /\ Len(body) = len
  <2>1. \A i \in 1..len : Payload(len)[i] \in {0, 1}
        BY DEF Payload
  <2>2. \A i \in 1..len : 1 + ((i - 1) % 4) \in 1..4
        OBVIOUS
  <2>3. \A i \in 1..len : mask[1 + ((i - 1) % 4)] \in {0, 1}
        BY <2>2
  <2>4. \A m, n \in {0, 1} : (m + n) % 2 \in Int
        OBVIOUS
  <2>5. body \in [1..len -> Int]
        BY <2>1, <2>3, <2>4
  <2> QED BY <1>2, <2>5, OfBytes
<1>7. \A i \in 1..len : body[i] = (Payload(len)[i] + mask[1 + ((i - 1) % 4)]) % 2
      OBVIOUS
<1> HIDE DEF a, c, body
<1>8. /\ a \o c \in Seq(Int) /\ Len(a \o c) = 2
      /\ (a \o c)[1] = 128 + Opcode[type] /\ (a \o c)[2] = 128 + len
  <2>1. /\ a \o c \in Seq(Int) /\ Len(a \o c) = Len(a) + Len(c)
        /\ \A i \in 1..Len(a) : (a \o c)[i] = a[i]
        /\ \A i \in 1..Len(c) : (a \o c)[Len(a) + i] = c[i]
        BY <1>3, <1>4, Appended
  <2>2. 1 \in 1..Len(a) /\ 1 \in 1..Len(c) /\ Len(a) + 1 = 2
        BY <1>3, <1>4
  <2> QED BY <1>3, <1>4, <2>1, <2>2
<1> DEFINE d == a \o c
           e == d \o mask
<1>9. /\ e \in Seq(Int) /\ Len(e) = 6
      /\ e[1] = 128 + Opcode[type] /\ e[2] = 128 + len /\ \A j \in 1..4 : e[2 + j] = mask[j]
  <2> HIDE DEF d
  <2>1. d \in Seq(Int) /\ Len(d) = 2 /\ d[1] = 128 + Opcode[type] /\ d[2] = 128 + len
        BY <1>8 DEF d
  <2>2. /\ e \in Seq(Int) /\ Len(e) = Len(d) + Len(mask)
        /\ \A i \in 1..Len(d) : e[i] = d[i]
        /\ \A i \in 1..Len(mask) : e[Len(d) + i] = mask[i]
        BY <1>5, <2>1, Appended
  <2>3. 1 \in 1..Len(d) /\ 2 \in 1..Len(d)
        BY <2>1
  <2> HIDE DEF e
  <2>4. e[1] = d[1] /\ e[2] = d[2]
        BY <2>2, <2>3
  <2>5. \A j \in 1..4 : e[2 + j] = mask[j]
        BY <1>5, <2>1, <2>2
  <2>6. e \in Seq(Int) /\ Len(e) = 6
        BY <1>5, <2>1, <2>2
  <2> QED BY <2>1, <2>4, <2>5, <2>6
<1> HIDE DEF e
<1>10. /\ e \o body \in Seq(Int) /\ Len(e \o body) = Len(e) + Len(body)
       /\ \A i \in 1..Len(e) : (e \o body)[i] = e[i]
       /\ \A i \in 1..Len(body) : (e \o body)[Len(e) + i] = body[i]
       BY <1>6, <1>9, Appended
<1>11. wired = e \o body
       BY DEF e, d
<1> HIDE DEF wired
<1>12. /\ wired \in Seq(Int) /\ Len(wired) = 6 + len
       /\ \A i \in 1..6 : wired[i] = e[i]
       /\ \A i \in 1..len : wired[6 + i] = body[i]
       BY <1>6, <1>9, <1>10, <1>11
<1>13. wired[1] = 128 + Opcode[type] /\ wired[2] = 128 + len /\ \A j \in 1..4 : wired[2 + j] = mask[j]
  <2>1. 1 \in 1..6 /\ 2 \in 1..6 /\ \A j \in 1..4 : 2 + j \in 1..6
        OBVIOUS
  <2> QED BY <1>9, <1>12, <2>1
<1> QED BY <1>1, <1>7, <1>12, <1>13 DEF AreBytesOf

\* What has come of a frame, and of the next.
HasArrived(data, wired, came, more) ==
    Len(data) = came + more /\ \A i \in 1..came : data[i] = wired[i]

LEMMA Arrived ==
  ASSUME NEW wired \in Seq(Int), NEW came \in 0..Len(wired), NEW more \in 0..1
  PROVE  HasArrived(SubSeq(wired, 1, came) \o [i \in 1..more |-> 129], wired, came, more)
<1> DEFINE s == SubSeq(wired, 1, came)
           t == [i \in 1..more |-> 129]
           data == s \o t
<1>0. Len(wired) \in Nat /\ came \in Nat /\ more \in Nat /\ 1 \in Int
      BY LenProperties
<1>1. \A i \in 1..came : wired[i] \in Int
  <2>1. \A i \in 1..came : i \in 1..Len(wired)
        BY <1>0
  <2> QED BY <2>1, ElementOfSeq
<1>2. /\ s \in Seq(Int) /\ Len(s) = IF 1 <= came THEN came - 1 + 1 ELSE 0
      /\ \A i \in 1..came - 1 + 1 : s[i] = wired[1 + i - 1]
      BY <1>0, <1>1, SubSeqProperties
<1>3. t \in Seq(Int) /\ Len(t) = more
  <2>1. t \in [1..more -> Int]
        OBVIOUS
  <2> QED BY <1>0, <2>1, OfBytes
<1> HIDE DEF s, t, data
<1>4. Len(s) = came /\ \A i \in 1..came : s[i] = wired[i]
      BY <1>0, <1>2
<1>5. Len(data) = Len(s) + Len(t) /\ \A i \in 1..Len(s) : data[i] = s[i]
      BY <1>2, <1>3, Appended DEF data
<1>6. Len(data) = came + more /\ \A i \in 1..came : data[i] = wired[i]
      BY <1>3, <1>4, <1>5
<1> QED BY <1>6 DEF HasArrived, data, s, t

\* Exclusive or twice is nothing.
LEMMA Twice == \A p, m \in {0, 1} : (((p + m) % 2) + m) % 2 = p
OBVIOUS

\* What is parsed of a browser's frame of at most 125 bytes.
LEMMA ShortParsed ==
  ASSUME NEW type \in Received, NEW len \in 0..125, NEW mask \in [1..4 -> {0, 1}],
         NEW came \in 0..Len(BrowserFrame(type, len, mask)), NEW more \in 0..1,
         more = 0 \/ came = Len(BrowserFrame(type, len, mask))
  PROVE  LET wired == BrowserFrame(type, len, mask)
             data == SubSeq(wired, 1, came) \o [i \in 1..more |-> 129]
         IN  Parsed(data) = IF came = Len(wired)
                            THEN [type |-> type, payload |-> Payload(len)]
                            ELSE [type |-> "UNKNOWN", payload |-> <<>>]
<1> DEFINE wired == BrowserFrame(type, len, mask)
           data == SubSeq(wired, 1, came) \o [i \in 1..more |-> 129]
<1>1. /\ wired \in Seq(Int) /\ Len(wired) = 6 + len
      /\ wired[1] = 128 + Opcode[type] /\ wired[2] = 128 + len
      /\ \A j \in 1..4 : wired[2 + j] = mask[j]
      /\ \A i \in 1..len : wired[6 + i] = (Payload(len)[i] + mask[1 + ((i - 1) % 4)]) % 2
  <2>1. AreBytesOf(wired, type, len, mask)
        BY BrowserBytes, Zenon
  <2> HIDE DEF wired
  <2> QED BY <2>1, Zenon DEF AreBytesOf
<1> HIDE DEF wired
<1>2. came \in 0..Len(wired) /\ (more = 0 \/ came = Len(wired))
      BY DEF wired
<1>3. Len(data) = came + more /\ \A i \in 1..came : data[i] = wired[i]
  <2>1. HasArrived(data, wired, came, more)
        BY <1>1, <1>2, Arrived, Zenon
  <2> HIDE DEF data
  <2> QED BY <2>1, Zenon DEF HasArrived
<1> HIDE DEF data
<1>4. came \in Nat /\ len \in Nat /\ Len(data) \in Nat
      BY <1>1, <1>2, <1>3
<1>5. type # "UNKNOWN"
      BY DEF Received
<1>6. CASE came < 2
  <2>1. Len(data) < 2 /\ came # Len(wired)
        BY <1>1, <1>2, <1>3, <1>4, <1>6
  <2>2. Unpacked(data) = [type |-> "UNKNOWN"]
        BY <1>4, <2>1, UnpackNothing
  <2>3. Parsed(data) = [type |-> "UNKNOWN", payload |-> <<>>]
        BY <2>2 DEF Parsed
  <2> QED BY <2>1, <2>3 DEF wired, data
<1>7. CASE came >= 2
  <2>1. Len(data) >= 2 /\ data[1] = 128 + Opcode[type] /\ data[2] = 128 + len
        BY <1>1, <1>2, <1>3, <1>4, <1>7
  <2>2. Unpacked(data) = IF Len(data) >= 6 + len
                         THEN [type |-> type, masked |-> TRUE, header |-> 6, len |-> len]
                         ELSE [type |-> "UNKNOWN"]
        BY <1>4, <2>1, UnpackShort
  <2>3. Len(data) >= 6 + len <=> came = Len(wired)
        BY <1>1, <1>2, <1>3, <1>4
  <2>4. CASE came # Len(wired)
    <3>1. Unpacked(data) = [type |-> "UNKNOWN"]
          BY <2>2, <2>3, <2>4
    <3>2. Parsed(data) = [type |-> "UNKNOWN", payload |-> <<>>]
          BY <3>1 DEF Parsed
    <3> QED BY <2>4, <3>2 DEF wired, data
  <2>5. CASE came = Len(wired)
    <3>1. Unpacked(data) = [type |-> type, masked |-> TRUE, header |-> 6, len |-> len]
          BY <2>2, <2>3, <2>5
    <3>2. ~(len < 0) /\ ~(Len(data) < 6 + len)
          BY <1>4, <2>3, <2>5
    <3>3. Parsed(data) = [type |-> type, payload |-> Unmasked(data, 6, len)]
          BY <1>5, <3>1, <3>2 DEF Parsed
    <3>4. ASSUME NEW i \in 1..len
          PROVE  (data[6 + i] + data[MaskByte(i)]) % 2 = Payload(len)[i]
      <4>1. 6 + i \in 1..came /\ 1 + ((i - 1) % 4) \in 1..4 /\ 2 + (1 + ((i - 1) % 4)) \in 1..came
        <5>1. i \in Int /\ 1 <= i /\ i <= len /\ (i - 1) % 4 \in 0..3
              BY <1>4
        <5>2. came = 6 + len
              BY <1>1, <2>5
        <5> HIDE DEF wired
        <5> QED BY <1>4, <5>1, <5>2
      <4>2. MaskByte(i) = 2 + (1 + ((i - 1) % 4))
            BY DEF MaskByte
      <4> DEFINE m == mask[1 + ((i - 1) % 4)]
                 p == Payload(len)[i]
      <4>3. data[6 + i] = (p + m) % 2 /\ data[MaskByte(i)] = m
        <5>1. data[6 + i] = wired[6 + i] /\ data[MaskByte(i)] = wired[2 + (1 + ((i - 1) % 4))]
              BY <1>3, <4>1, <4>2, Zenon
        <5> QED BY <1>1, <4>1, <5>1, Zenon DEF m, p
      <4>4. m \in {0, 1} /\ p \in {0, 1}
            BY <4>1 DEF Payload
      <4> HIDE DEF m, p
      <4>5. (((p + m) % 2) + m) % 2 = p
            BY <4>4, Twice
      <4> QED BY <4>3, <4>5 DEF p
    <3>5. Payload(len) = [i \in 1..len |-> Payload(len)[i]]
          BY DEF Payload
    <3>6. Unmasked(data, 6, len) = Payload(len)
      <4>1. Unmasked(data, 6, len) = [i \in 1..len |-> (data[6 + i] + data[MaskByte(i)]) % 2]
            BY DEF Unmasked
      <4> QED BY <3>4, <3>5, <4>1
    <3> QED BY <2>5, <3>3, <3>6 DEF wired, data
  <2> QED BY <2>4, <2>5
<1> QED BY <1>4, <1>6, <1>7

-----------------------------------------------------------------------------
(***************************************************************************)
(* The lengths of the code are of 64 bits (size_t).                        *)
(***************************************************************************)
Sized == \A n \in Lengths : n < Size64

\* What is packed is understood ...
LEMMA PackUnderstood ==
  ASSUME Sized, NEW type \in FrameTypes, NEW len \in Nat, len < Size64, type = "CLOSE" => len <= 125,
         frame' = [op |-> "pack", type |-> type, len |-> len, header |-> Header(type, len)]
  PROVE  FramesUnderstood'
<1>1. /\ frame'.op = "pack" /\ frame'.type = type /\ frame'.len = len
      /\ frame'.header = Header(type, len)
      OBVIOUS
<1>2. Meaning(Header(type, len)) =
          [final |-> TRUE, opcode |-> Opcode[type], masked |-> FALSE, len |-> len,
           size |-> Len(Header(type, len))]
      BY HeaderDecodes
<1>3. FramesDecode'
      BY <1>1, <1>2 DEF FramesDecode
<1>4. ShortFramesRead'
      BY <1>1 DEF ShortFramesRead
<1> QED BY <1>3, <1>4 DEF FramesUnderstood

\* ... and so is what is parsed.
LEMMA ParseUnderstood == ASSUME ParseAny PROVE FramesUnderstood'
<1>1. PICK type \in Received, len \in {n \in Lengths : n <= MaxParsed}, mask \in Masks :
         \E came \in 0..Len(BrowserFrame(type, len, mask)), more \in 0..1 :
            (more = 0 \/ came = Len(BrowserFrame(type, len, mask))) /\ Parse(type, len, mask, came, more)
      BY DEF ParseAny
<1>2. PICK came \in 0..Len(BrowserFrame(type, len, mask)), more \in 0..1 :
         (more = 0 \/ came = Len(BrowserFrame(type, len, mask))) /\ Parse(type, len, mask, came, more)
      BY <1>1
<1> DEFINE wired == BrowserFrame(type, len, mask)
           data == SubSeq(wired, 1, came) \o [i \in 1..more |-> 129]
<1>3. len \in Nat /\ mask \in [1..4 -> {0, 1}]
      BY FrameAssumption
<1>4. frame' = [op |-> "parse", type |-> type, len |-> len, whole |-> came = Len(wired),
                got |-> Parsed(data)]
      BY <1>2 DEF Parse
<1>5. len <= 125 => Parsed(data) = IF came = Len(wired)
                                   THEN [type |-> type, payload |-> Payload(len)]
                                   ELSE [type |-> "UNKNOWN", payload |-> <<>>]
  <2>1. len <= 125 => len \in 0..125
        BY <1>3
  <2> QED BY <1>2, <1>3, <2>1, ShortParsed
<1> HIDE DEF wired, data
<1>6. /\ frame'.op = "parse" /\ frame'.type = type /\ frame'.len = len
      /\ frame'.whole = (came = Len(wired)) /\ frame'.got = Parsed(data)
      BY <1>4
<1>7. FramesDecode'
      BY <1>6 DEF FramesDecode
<1>8. ShortFramesRead'
      BY <1>5, <1>6 DEF ShortFramesRead
<1> QED BY <1>7, <1>8 DEF FramesUnderstood

\* A connection starts without a frame.
LEMMA FrameInvInit == FrameInit => FramesUnderstood
BY DEF FrameInit, NoFrame, FramesUnderstood, FramesDecode, ShortFramesRead

\* Each step leaves a frame that is understood.
LEMMA FrameInvStep == ASSUME Sized PROVE FramesUnderstood /\ [FrameNext]_frame => FramesUnderstood'
<1> SUFFICES ASSUME FramesUnderstood, [FrameNext]_frame PROVE FramesUnderstood'
    OBVIOUS
<1>1. ASSUME NEW type \in {"TEXT", "BINARY", "PONG"}, NEW len \in Lengths, Pack(type, len)
      PROVE  FramesUnderstood'
  <2>1. type \in FrameTypes /\ type # "CLOSE"
        BY DEF FrameTypes
  <2>2. len \in Nat /\ len < Size64
        BY FrameAssumption DEF Sized
  <2> QED BY <1>1, <2>1, <2>2, PackUnderstood DEF Pack
<1>2. ASSUME NEW reason \in Lengths, PackClose(reason) PROVE FramesUnderstood'
  <2>1. CloseLength(reason) \in Nat /\ CloseLength(reason) <= 125
        BY FrameAssumption DEF CloseLength, MaxReason
  <2>2. CloseLength(reason) < Size64 /\ "CLOSE" \in FrameTypes
        BY <2>1 DEF Size64, FrameTypes
  <2> QED BY <1>2, <2>1, <2>2, PackUnderstood DEF PackClose
<1>3. CASE ParseAny
      BY <1>3, ParseUnderstood
<1>4. CASE UNCHANGED frame
      BY <1>4 DEF FramesUnderstood, FramesDecode, ShortFramesRead
<1> QED BY <1>1, <1>2, <1>3, <1>4 DEF FrameNext

\* A browser understands every frame the server packs, and the server every
\* frame of at most 125 bytes that a browser makes: for lengths of 64 bits and
\* any masks of the model (pack_frame, unpack_ws_header, parse_frame).
THEOREM FramesAreUnderstood == ASSUME Sized PROVE FrameSpec => []FramesUnderstood
  BY FrameInvInit, FrameInvStep, PTL DEF FrameSpec

-----------------------------------------------------------------------------
(***************************************************************************)
(* The encoder (FrameEncoder), for screens of any size and any settings.   *)
(*                                                                         *)
(* The argument: the key is one of the size and the settings it was last   *)
(* made of, which are also those of the encoder, unless that is closed or  *)
(* its settings were raced.  And two areas that have a key in common with  *)
(* the same settings are close: a float is off by one part in Mantissa at  *)
(* most, and a key is rounded three times on its way from the area.        *)
(***************************************************************************)
Size == Nat \X Nat

Positive(s) == s[1] > 0 /\ s[2] > 0
BothEven(s) == s[1] % 2 = 0 /\ s[2] % 2 = 0

\* The display whose pictures are passed on as they are.
Unscaled == system = "macOS" /\ halves <= 2

Types ==
    /\ EncoderTypeOK
    /\ system = "Windows" => halves = 0
    /\ system = "macOS" => halves \in {2, 3, 4}

\* A picture has an area, and the size that x264 asks for.
Captured ==
    /\ doing \in {"captured", "init", "encode"} => Positive(pixels)
    /\ doing \in {"captured", "init"} /\ ~Unscaled => BothEven(pixels)
    /\ encoder # Null /\ ~Unscaled => BothEven(encoder[1])

\* Whose key it is; there is none before the first initialisation, and for JPEGs.
Keyed ==
    /\ doing = "jpeg" => keyed = Null
    /\ keyed = Null => lastKey = 0 /\ encoder = Null
    /\ keyed # Null => lastKey \in Keys(keyed[1], keyed[2])
    /\ doing = "init" /\ ~raced => read = settings
    /\ doing = "encode" => lastKey \in Keys(pixels, read)
    /\ encoder = Null /\ keyed # Null => failed
    /\ encoder # Null => encoder[1] = keyed[1]
    /\ encoder # Null /\ doing # "init" /\ ~raced => encoder[2] = keyed[2]

EncoderInv == Types /\ Captured /\ Keyed /\ JpegFits

-----------------------------------------------------------------------------
(***************************************************************************)
(* The encoder: sizes.                                                     *)
(***************************************************************************)
\* Rounding up to an even number.
LEMMA EvenUp ==
  ASSUME NEW n \in Nat
  PROVE  Even(n) \in Nat /\ Even(n) % 2 = 0 /\ Even(n) >= n
  BY DEF Even

\* A display has two sides, and neither is one pixel.
LEMMA DisplaySides ==
  ASSUME Types
  PROVE  /\ display[1] \in Nat /\ display[1] >= 2 /\ display[2] \in Nat /\ display[2] >= 2
         /\ display = <<display[1], display[2]>>
<1>1. display \in (Nat \ {0, 1}) \X (Nat \ {0, 1})
      BY EncoderAssumption DEF Types, EncoderTypeOK
<1> QED BY <1>1

\* A side of a display stays positive when it is scaled, and becomes even.
LEMMA ScaledSides ==
  ASSUME Types, ~(system = "Windows"), NEW n \in Nat, n >= 2
  PROVE  ScaledSide(n) \in Nat /\ ScaledSide(n) % 2 = 0 /\ ScaledSide(n) > 0
<1>1. n \in Nat /\ n >= 2 /\ halves \in {2, 3, 4}
      BY EncoderAssumption DEF Types, EncoderTypeOK
<1>2. (n * 2) \div halves \in Nat /\ (n * 2) \div halves > 0
  <2>1. (n * 2) \div 2 \in Nat /\ (n * 2) \div 2 > 0
        BY <1>1
  <2>2. (n * 2) \div 3 \in Nat /\ (n * 2) \div 3 > 0
        BY <1>1
  <2>3. (n * 2) \div 4 \in Nat /\ (n * 2) \div 4 > 0
        BY <1>1
  <2> QED BY <1>1, <2>1, <2>2, <2>3
<1> DEFINE m == (n * 2) \div halves
<1>3. Even(m) \in Nat /\ Even(m) % 2 = 0 /\ Even(m) > 0
  <2>1. m \in Nat /\ m > 0
        BY <1>2
  <2> HIDE DEF m
  <2> QED BY <2>1, EvenUp
<1> QED BY <1>3 DEF ScaledSide

\* What either system captures.
LEMMA Pictures ==
  ASSUME Types
  PROVE  CapturedSize \in Size /\ Positive(CapturedSize) /\ (~Unscaled => BothEven(CapturedSize))
<1>1. /\ display[1] \in Nat /\ display[1] >= 2 /\ display[2] \in Nat /\ display[2] >= 2
      /\ display = <<display[1], display[2]>>
      BY DisplaySides
<1>2. display[1] \in Nat /\ display[1] > 0 /\ display[2] \in Nat /\ display[2] > 0
      BY <1>1, EncoderAssumption
<1>3. CASE system = "Windows"
  <2>1. CapturedSize = <<Even(display[1]), Even(display[2])>>
        BY <1>3 DEF Types, CapturedSize, SystemSize
  <2>2. /\ Even(display[1]) \in Nat /\ Even(display[1]) % 2 = 0 /\ Even(display[1]) > 0
        /\ Even(display[2]) \in Nat /\ Even(display[2]) % 2 = 0 /\ Even(display[2]) > 0
        BY <1>2, EvenUp
  <2> QED BY <2>1, <2>2 DEF Size, Positive, BothEven
<1>4. CASE system # "Windows" /\ halves > 2
  <2>1. CapturedSize = <<ScaledSide(display[1]), ScaledSide(display[2])>>
        BY <1>4 DEF CapturedSize, SystemSize
  <2>2. /\ ScaledSide(display[1]) \in Nat /\ ScaledSide(display[1]) % 2 = 0 /\ ScaledSide(display[1]) > 0
        /\ ScaledSide(display[2]) \in Nat /\ ScaledSide(display[2]) % 2 = 0 /\ ScaledSide(display[2]) > 0
        BY <1>1, <1>4, ScaledSides
  <2> QED BY <2>1, <2>2 DEF Size, Positive, BothEven
<1>5. CASE system # "Windows" /\ ~(halves > 2)
  <2>1. CapturedSize = display
        BY <1>5 DEF CapturedSize, SystemSize
  <2>2. Unscaled
    <3>1. system = "macOS" /\ halves \in {2, 3, 4}
          BY <1>5 DEF Types, EncoderTypeOK
    <3> QED BY <1>5, <3>1 DEF Unscaled
  <2> QED BY <1>1, <1>2, <2>1, <2>2 DEF Size, Positive
<1> QED BY <1>3, <1>4, <1>5

-----------------------------------------------------------------------------
(***************************************************************************)
(* The encoder: keys.                                                      *)
(***************************************************************************)
\* The settings of a key are positive.
LEMMA Factors ==
  ASSUME NEW set \in Settings
  PROVE  set[1] \in Nat /\ set[1] > 0 /\ set[2] \in Nat /\ set[2] > 0
<1>1. set[1] \in Qualities /\ set[2] \in Rates
      BY DEF Settings
<1>2. set[1] \in Nat \ {0} /\ set[2] \in Nat \ {0}
      BY <1>1, EncoderAssumption
<1> DEFINE q == set[1]
           r == set[2]
<1>3. q \in Nat /\ q > 0 /\ r \in Nat /\ r > 0
  <2> HIDE DEF q, r
  <2>1. q \in Nat \ {0} /\ r \in Nat \ {0}
        BY <1>2 DEF q, r
  <2> QED BY <2>1
<1> QED BY <1>3

\* Both sides of an inequality may be multiplied ...
LEMMA Times ==
  ASSUME NEW a \in Int, NEW b \in Int, NEW k \in Nat, a <= b
  PROVE  a * k \in Int /\ b * k \in Int /\ a * k <= b * k
  OBVIOUS

\* ... and a positive factor can be cancelled.
LEMMA Cancel ==
  ASSUME NEW a \in Int, NEW b \in Int, NEW k \in Nat, k > 0, a * k <= b * k
  PROVE  a <= b
<1>1. CASE a <= b
      BY <1>1
<1>2. CASE b < a
  <2>1. (b + 1) * k <= a * k
        BY <1>2, Times
  <2> QED BY <2>1
<1> QED BY <1>1, <1>2

\* The multiple of u that is nearest to n is off by half a u at most.
LEMMA Nearest ==
  ASSUME NEW n \in Nat, NEW u \in Nat \ {0}
  PROVE  /\ Rounded(n, u) \in Nat
         /\ 2 * (Rounded(n, u) - n) <= u /\ 2 * (n - Rounded(n, u)) <= u
         /\ u = 1 => Rounded(n, u) = n
<1> DEFINE q == n \div u
           m == n % u
<1>1. q \in Nat /\ m \in Nat /\ m < u /\ n = u * q + m
      OBVIOUS
<1>2. u * q \in Nat /\ u * (q + 1) \in Nat /\ u * (q + 1) = u * q + u
      BY <1>1
<1>3. \/ Rounded(n, u) = u * q /\ 2 * m <= u
      \/ Rounded(n, u) = u * (q + 1) /\ 2 * m >= u
      BY <1>1 DEF Rounded
<1> HIDE DEF q, m
<1> QED BY <1>1, <1>2, <1>3

\* A float is off by one part in Mantissa at most, and zero only for zero.
LEMMA FloatNear ==
  ASSUME NEW n \in Nat, NEW f \in Floats(n)
  PROVE  /\ f \in Nat
         /\ Mantissa * f <= (Mantissa + 1) * n /\ (Mantissa - 1) * n <= Mantissa * f
         /\ n > 0 => f > 0
<1>1. PICK u \in Units : f = Rounded(n, u) /\ (u = 1 \/ Mantissa * u <= 2 * n)
      BY DEF Floats, Spacing
<1>2. u \in Nat \ {0} /\ Mantissa \in Nat /\ Mantissa >= 32
      BY EncoderAssumption
<1>3. /\ f \in Nat /\ 2 * (f - n) <= u /\ 2 * (n - f) <= u /\ (u = 1 => f = n)
      BY <1>1, <1>2, Nearest
<1>4. CASE u = 1
  <2>1. f = n
        BY <1>3, <1>4
  <2> QED BY <1>2, <2>1
<1>5. CASE Mantissa * u <= 2 * n
  <2>1. Mantissa * (2 * (f - n)) <= Mantissa * u /\ Mantissa * (2 * (n - f)) <= Mantissa * u
        BY <1>2, <1>3
  <2>2. Mantissa * (f - n) <= n /\ Mantissa * (n - f) <= n
        BY <1>2, <1>3, <1>5, <2>1
  <2>3. Mantissa * f <= (Mantissa + 1) * n /\ (Mantissa - 1) * n <= Mantissa * f
        BY <1>2, <1>3, <2>2
  <2>4. ASSUME n > 0 PROVE f > 0
        BY <1>2, <1>3, <2>2, <2>4
  <2> QED BY <1>3, <2>3, <2>4
<1> QED BY <1>1, <1>4, <1>5

\* There is one float for a number at most, as powers of two are no nearer to
\* each other than by a factor of two.
LEMMA OneFloat ==
  ASSUME NEW n \in Nat, NEW f \in Floats(n), NEW g \in Floats(n)
  PROVE  f = g
<1>1. PICK u \in Units : f = Rounded(n, u) /\ n < Mantissa * u /\ (u = 1 \/ Mantissa * u <= 2 * n)
      BY DEF Floats, Spacing
<1>2. PICK v \in Units : g = Rounded(n, v) /\ n < Mantissa * v /\ (v = 1 \/ Mantissa * v <= 2 * n)
      BY DEF Floats, Spacing
<1>3. u \in Nat \ {0} /\ v \in Nat \ {0} /\ Mantissa \in Nat
      BY EncoderAssumption
<1>4. ~(u < v)
  <2> SUFFICES ASSUME u < v PROVE FALSE
      OBVIOUS
  <2>1. 2 * u <= v /\ Mantissa * v <= 2 * n
        BY <1>2, <1>3, EncoderAssumption
  <2>2. Mantissa * (2 * u) <= Mantissa * v
        BY <1>3, <2>1
  <2> QED BY <1>1, <1>3, <2>1, <2>2
<1>5. ~(v < u)
  <2> SUFFICES ASSUME v < u PROVE FALSE
      OBVIOUS
  <2>1. 2 * v <= u /\ Mantissa * u <= 2 * n
        BY <1>1, <1>3, EncoderAssumption
  <2>2. Mantissa * (2 * v) <= Mantissa * u
        BY <1>3, <2>1
  <2> QED BY <1>2, <1>3, <2>1, <2>2
<1>6. u = v
      BY <1>3, <1>4, <1>5
<1> QED BY <1>1, <1>2, <1>6

\* What one rounding does to a comparison: if x and y are rounded after they
\* were multiplied by k, what is known of the results is known of x and y, with
\* one part in Mantissa lost on either side.
LEMMA Stage ==
  ASSUME NEW U \in Nat, NEW V \in Nat, NEW x \in Nat, NEW y \in Nat, NEW k \in Nat, k > 0,
         NEW f \in Floats(x * k), NEW g \in Floats(y * k), U * f <= V * g
  PROVE  (U * (Mantissa - 1)) * x <= (V * (Mantissa + 1)) * y
<1> DEFINE M == Mantissa
<1>1. M \in Nat /\ M >= 32
      BY EncoderAssumption
<1>2. x * k \in Nat /\ y * k \in Nat
      OBVIOUS
<1>3. f \in Nat /\ g \in Nat /\ (M - 1) * (x * k) <= M * f /\ M * g <= (M + 1) * (y * k)
      BY <1>2, FloatNear
<1> HIDE DEF M
<1>4. ((M - 1) * (x * k)) * U <= (M * f) * U
      BY <1>1, <1>2, <1>3, Times
<1>5. (U * f) * M <= (V * g) * M
      BY <1>1, <1>3, Times
<1>6. (M * g) * V <= ((M + 1) * (y * k)) * V
      BY <1>1, <1>2, <1>3, Times
<1>7. (M * f) * U = (U * f) * M /\ (V * g) * M = (M * g) * V
      BY <1>1, <1>3
<1>8. ((M - 1) * (x * k)) * U <= ((M + 1) * (y * k)) * V
  <2> DEFINE a == ((M - 1) * (x * k)) * U
             b == (M * f) * U
             c == (M * g) * V
             d == ((M + 1) * (y * k)) * V
  <2>1. a \in Int /\ b \in Int /\ c \in Int /\ d \in Int
        BY <1>1, <1>3
  <2>2. a <= b /\ b <= c /\ c <= d
        BY <1>4, <1>5, <1>6, <1>7
  <2> HIDE DEF a, b, c, d
  <2>3. a <= d
        BY <2>1, <2>2
  <2> QED BY <2>3 DEF a, d
<1>9. ((U * (M - 1)) * x) * k <= ((V * (M + 1)) * y) * k
  <2>1. ((U * (M - 1)) * x) * k = ((M - 1) * (x * k)) * U
        BY <1>1
  <2>2. ((V * (M + 1)) * y) * k = ((M + 1) * (y * k)) * V
        BY <1>1
  <2> QED BY <1>8, <2>1, <2>2
<1>10. (U * (M - 1)) * x \in Int /\ (V * (M + 1)) * y \in Int
      BY <1>1
<1>11. (U * (M - 1)) * x <= (V * (M + 1)) * y
  <2> DEFINE a == (U * (M - 1)) * x
             b == (V * (M + 1)) * y
  <2>1. a \in Int /\ b \in Int /\ a * k <= b * k
        BY <1>9, <1>10
  <2> HIDE DEF a, b
  <2>2. a <= b
        BY <2>1, Cancel
  <2> QED BY <2>2 DEF a, b
<1> QED BY <1>11 DEF M

\* A key is a number, and positive for a picture that has an area.
LEMMA KeyType ==
  ASSUME NEW s \in Size, NEW set \in Settings, NEW key \in Keys(s, set)
  PROVE  key \in Nat /\ (Positive(s) => key > 0)
<1>1. s[1] \in Nat /\ s[2] \in Nat
      BY DEF Size
<1>2. set[1] \in Nat /\ set[1] > 0 /\ set[2] \in Nat /\ set[2] > 0
      BY Factors
<1>3. Area(s) \in Nat /\ (Positive(s) => Area(s) > 0)
      BY <1>1 DEF Area, Positive
<1>4. PICK p \in Product(Floats(Area(s)), {set[1]}), r \in Floats(set[2]) : key \in Floats(p * r)
      BY DEF Keys, Product
<1>5. PICK f \in Floats(Area(s)) : p \in Floats(f * set[1])
      BY <1>4 DEF Product
<1>6. f \in Nat /\ (Positive(s) => f > 0)
      BY <1>3, FloatNear
<1>7. f * set[1] \in Nat /\ (f > 0 => f * set[1] > 0)
      BY <1>2, <1>6
<1>8. p \in Nat /\ (Positive(s) => p > 0)
      BY <1>5, <1>6, <1>7, FloatNear
<1>9. r \in Nat /\ r > 0
      BY <1>2, <1>4, FloatNear
<1>10. p * r \in Nat /\ (p > 0 => p * r > 0)
      BY <1>8, <1>9
<1> QED BY <1>4, <1>8, <1>10, FloatNear

\* The last step of the comparison: three parts in Mantissa on either side are
\* less than seven on one.
LEMMA SevenParts ==
  ASSUME NEW a \in Nat, NEW b \in Nat, NEW M \in Nat, M >= 32,
         (((1 * (M - 1)) * (M - 1)) * (M - 1)) * a <= (((1 * (M + 1)) * (M + 1)) * (M + 1)) * b
  PROVE  M * a <= (M + 7) * b
<1> DEFINE U == ((M - 1) * (M - 1)) * (M - 1)
           V == ((M + 1) * (M + 1)) * (M + 1)
<1>1. U \in Nat /\ V \in Nat /\ U > 0 /\ U * a <= V * b
  <2>1. M - 1 \in Nat /\ M - 1 > 0 /\ (M - 1) * (M - 1) \in Nat /\ (M - 1) * (M - 1) > 0
        OBVIOUS
  <2>2. U \in Nat /\ U > 0 /\ V \in Nat
        BY <2>1
  <2> QED BY <2>2
<1>2. M * V <= (M + 7) * U
  <2> DEFINE N == M * M
  <2>1. N \in Nat /\ M * N \in Nat /\ M * N >= 32 * N /\ N >= 32 * M
        OBVIOUS
  <2>2. U = M * N - 3 * N + 3 * M - 1 /\ V = M * N + 3 * N + 3 * M + 1
        OBVIOUS
  <2>3. (M + 7) * U - M * V = M * N - 21 * N + 20 * M - M - 7
        OBVIOUS
  <2>4. M * N - 21 * N + 20 * M - M - 7 >= 0
    <3> HIDE DEF N
    <3> QED BY <2>1
  <2>5. (M + 7) * U \in Int /\ M * V \in Int
        BY <1>1
  <2> QED BY <2>3, <2>4, <2>5
<1> HIDE DEF U, V
<1>3. (U * a) * M <= (V * b) * M
      BY <1>1, Times
<1>4. (M * V) * b <= ((M + 7) * U) * b
      BY <1>1, <1>2, Times
<1>5. (M * a) * U <= ((M + 7) * b) * U
  <2>1. (U * a) * M = (M * a) * U /\ (V * b) * M = (M * V) * b
        BY <1>1
  <2>2. ((M + 7) * U) * b = ((M + 7) * b) * U
        BY <1>1
  <2>3. (M * a) * U \in Int /\ (M * V) * b \in Int /\ ((M + 7) * b) * U \in Int
        BY <1>1
  <2> QED BY <1>3, <1>4, <2>1, <2>2, <2>3
<1>6. M * a \in Int /\ (M + 7) * b \in Int
      OBVIOUS
<1> QED BY <1>1, <1>5, <1>6, Cancel

\* One direction of what a common key says of two areas.
LEMMA NotMuchLarger ==
  ASSUME NEW s \in Size, NEW t \in Size, NEW set \in Settings,
         NEW key \in Keys(s, set), key \in Keys(t, set)
  PROVE  Mantissa * Area(s) <= (Mantissa + 7) * Area(t)
<1>1. set[1] \in Nat /\ set[1] > 0 /\ set[2] \in Nat /\ set[2] > 0
      BY Factors
<1>2. Area(s) \in Nat /\ Area(t) \in Nat /\ Mantissa \in Nat /\ Mantissa >= 32
      BY EncoderAssumption DEF Size, Area
<1>3. PICK p \in Product(Floats(Area(s)), {set[1]}), r \in Floats(set[2]) : key \in Floats(p * r)
      BY DEF Keys, Product
<1>4. PICK f \in Floats(Area(s)) : p \in Floats(f * set[1])
      BY <1>3 DEF Product
<1>5. PICK q \in Product(Floats(Area(t)), {set[1]}), z \in Floats(set[2]) : key \in Floats(q * z)
      BY DEF Keys, Product
<1>6. PICK g \in Floats(Area(t)) : q \in Floats(g * set[1])
      BY <1>5 DEF Product
<1>7. f \in Nat /\ g \in Nat /\ f * set[1] \in Nat /\ g * set[1] \in Nat
      BY <1>1, <1>2, FloatNear
<1>8. p \in Nat /\ q \in Nat /\ r \in Nat /\ r > 0
      BY <1>1, <1>3, <1>4, <1>6, <1>7, FloatNear
<1>9. z = r
      BY <1>1, <1>3, <1>5, OneFloat
<1>10. key \in Nat
      BY <1>3, <1>8, FloatNear
<1> DEFINE L1 == 1 * (Mantissa - 1)
           R1 == 1 * (Mantissa + 1)
           L2 == L1 * (Mantissa - 1)
           R2 == R1 * (Mantissa + 1)
<1>11. L1 * p <= R1 * q
  <2>1. 1 * key <= 1 * key /\ key \in Floats(p * r) /\ key \in Floats(q * r)
        BY <1>3, <1>5, <1>9, <1>10
  <2> QED BY <1>8, <2>1, Stage
<1>12. L1 \in Nat /\ R1 \in Nat
      BY <1>2
<1>13. L2 * f <= R2 * g
  <2> HIDE DEF L1, R1
  <2> QED BY <1>1, <1>4, <1>6, <1>7, <1>11, <1>12, Stage
<1>14. L2 \in Nat /\ R2 \in Nat
      BY <1>2
<1>15. (L2 * (Mantissa - 1)) * Area(s) <= (R2 * (Mantissa + 1)) * Area(t)
  <2> DEFINE a == Area(s)
             b == Area(t)
             one == 1
  <2>1. one \in Nat /\ one > 0 /\ a \in Nat /\ b \in Nat /\ a * one = a /\ b * one = b
        BY <1>2
  <2>2. f \in Floats(a * one) /\ g \in Floats(b * one)
        BY <1>4, <1>6, <2>1
  <2> HIDE DEF L2, R2, a, b, one
  <2>3. (L2 * (Mantissa - 1)) * a <= (R2 * (Mantissa + 1)) * b
        BY <1>7, <1>13, <1>14, <2>1, <2>2, Stage
  <2> QED BY <2>3 DEF a, b
<1> QED BY <1>2, <1>15, SevenParts

\* With the same settings the same key is as good as the same area.
LEMMA SameKeyClose ==
  ASSUME NEW s \in Size, NEW t \in Size, NEW set \in Settings,
         NEW key \in Keys(s, set), key \in Keys(t, set)
  PROVE  Close(Area(s), Area(t))
  BY NotMuchLarger DEF Close

-----------------------------------------------------------------------------
(***************************************************************************)
(* The encoder: JPEGs.                                                     *)
(***************************************************************************)
\* Scaling down by a quotient of sides.
LEMMA Shrinks ==
  ASSUME NEW a \in Nat, NEW b \in Nat, NEW n \in Nat, b > 0, a <= b
  PROVE  (a * n) \div b \in Nat /\ (a * n) \div b <= n
<1>1. a * n \in Nat /\ a * n <= b * n
      OBVIOUS
<1> DEFINE q == (a * n) \div b
<1>2. q \in Nat /\ b * q <= a * n
      BY <1>1
<1>3. CASE q <= n
      BY <1>2, <1>3
<1>4. CASE q > n
  <2>1. b * q >= b * (n + 1)
        BY <1>2, <1>4
  <2>2. b * (n + 1) > b * n
        OBVIOUS
  <2> QED BY <1>1, <1>2, <2>1, <2>2
<1> QED BY <1>2, <1>3, <1>4

\* What is announced, and the picture that is made.
LEMMA Jpegs ==
  ASSUME Types
  PROVE  Announced \in Size /\ JpegSize \in Size /\ JpegSize[1] <= Announced[1]
<1>1. /\ display[1] \in Nat /\ display[1] >= 2 /\ display[2] \in Nat /\ display[2] >= 2
      /\ display = <<display[1], display[2]>>
      BY DisplaySides
<1>2. display[1] \in Nat /\ display[1] > 0 /\ display[2] \in Nat /\ display[2] > 0
      BY <1>1, EncoderAssumption
<1>3. CASE system = "Windows"
      BY <1>2, <1>3, EvenUp DEF Announced, JpegSize, SystemSize, Size
<1>4. CASE system # "Windows"
  <2>1. ScaledSide(display[1]) \in Nat /\ ScaledSide(display[2]) \in Nat
        BY <1>1, <1>4, ScaledSides
  <2>2. Announced = <<ScaledSide(display[1]), ScaledSide(display[2])>>
        BY <1>4 DEF Announced
  <2> DEFINE side == ScaledSide(display[1])
  <2>3. JpegSize = Bounded(display, side)
        BY <1>4, <2>2 DEF JpegSize
  <2>4. Bounded(display, side) \in Size /\ Bounded(display, side)[1] <= side
    <3>1. side \in Nat
          BY <2>1
    <3> HIDE DEF side
    <3>2. CASE display[1] <= side /\ display[2] <= side
          BY <1>1, <1>2, <3>1, <3>2 DEF Bounded, Size
    <3>3. CASE ~(display[1] <= side /\ display[2] <= side) /\ display[1] >= display[2]
      <4>1. (display[2] * side) \div display[1] \in Nat
            BY <1>2, <3>1, <3>3, Shrinks
      <4>2. Bounded(display, side) = <<side, (display[2] * side) \div display[1]>>
            BY <3>3 DEF Bounded
      <4> QED BY <3>1, <4>1, <4>2 DEF Size
    <3>4. CASE ~(display[1] <= side /\ display[2] <= side) /\ ~(display[1] >= display[2])
      <4>1. (display[1] * side) \div display[2] \in Nat /\ (display[1] * side) \div display[2] <= side
            BY <1>2, <3>1, <3>4, Shrinks
      <4>2. Bounded(display, side) = <<(display[1] * side) \div display[2], side>>
            BY <3>4 DEF Bounded
      <4> QED BY <3>1, <4>1, <4>2 DEF Size
    <3> QED BY <3>2, <3>3, <3>4
  <2> QED BY <2>1, <2>2, <2>3, <2>4 DEF Size
<1> QED BY <1>3, <1>4

-----------------------------------------------------------------------------
(***************************************************************************)
(* The encoder: its steps.                                                 *)
(***************************************************************************)
\* The first states, before anything was captured.
LEMMA EncoderInvInit == EncoderInit => EncoderInv
<1> SUFFICES ASSUME EncoderInit PROVE EncoderInv
    OBVIOUS
<1>1. failed \in BOOLEAN /\ raced \in BOOLEAN
      BY DEF EncoderInit
<1>2. /\ display \in Displays /\ settings \in Settings /\ read \in Settings
      /\ keyed = Null /\ encoder = Null /\ pictured = Null
      BY DEF EncoderInit
<1>3. /\ system \in {"macOS", "Windows"} /\ halves \in {0, 2, 3, 4}
      /\ system = "Windows" => halves = 0
      /\ system = "macOS" => halves \in {2, 3, 4}
      BY DEF EncoderInit
<1>4. doing \in {"jpeg", "idle"} /\ pixels \in Nat \X Nat /\ lastKey \in Nat /\ lastKey = 0
      BY DEF EncoderInit
<1>5. Types
      BY <1>1, <1>2, <1>3, <1>4 DEF Types, EncoderTypeOK
<1>6. Captured /\ Keyed /\ JpegFits
      BY <1>2, <1>4 DEF Captured, Keyed, JpegFits
<1> QED BY <1>5, <1>6 DEF EncoderInv

\* Every step keeps the types.
LEMMA TypesStep == Types /\ EncoderNext => Types'
<1> SUFFICES ASSUME Types, EncoderNext PROVE Types'
    OBVIOUS
<1> USE DEF Types, EncoderTypeOK
<1>1. CASE ChangeDisplay
      BY <1>1 DEF ChangeDisplay
<1>2. CASE Setup
  <2>1. settings' \in Settings /\ raced' \in BOOLEAN
        BY <1>2 DEF Setup
  <2> QED BY <1>2, <2>1 DEF Setup
<1>3. CASE CaptureBgra
  <2>1. pixels' \in Nat \X Nat
        BY <1>3, Pictures DEF CaptureBgra, SetSize, Size
  <2> QED BY <1>3, <2>1 DEF CaptureBgra, SetSize
<1>4. CASE Compare
  <2>1. doing' \in {"init", "encode"} /\ raced' \in BOOLEAN
        BY <1>4 DEF Compare
  <2> QED BY <1>4, <2>1 DEF Compare
<1>5. CASE InitEncoder
  <2>1. lastKey' \in Nat
        BY <1>5, KeyType DEF InitEncoder, Size
  <2>2. encoder' \in (Nat \X Nat) \X Settings /\ keyed' \in (Nat \X Nat) \X Settings
        BY <1>5 DEF InitEncoder, Opened
  <2> QED BY <1>5, <2>1, <2>2 DEF InitEncoder
<1>6. CASE InitFails
      BY <1>6 DEF InitFails
<1>7. CASE Encode
  <2>1. encoder \in (Nat \X Nat) \X Settings
        BY <1>7 DEF Encode
  <2>2. pictured' \in (Nat \X Nat) \cup {Null}
        BY <1>7, <2>1 DEF Encode
  <2> QED BY <1>7, <2>2 DEF Encode
<1>8. CASE CaptureJpeg
  <2>1. pixels' \in Nat \X Nat /\ pictured' \in Nat \X Nat
        BY <1>8, Jpegs DEF CaptureJpeg, SetSize, Size
  <2> QED BY <1>8, <2>1 DEF CaptureJpeg, SetSize
<1>9. CASE JpegFails
  <2>1. Displays \subseteq Nat \X Nat
        BY EncoderAssumption
  <2>2. pixels' \in Nat \X Nat
        BY <1>9, <2>1, Jpegs DEF JpegFails, Size
  <2> QED BY <1>9, <2>2 DEF JpegFails
<1> QED BY <1>1, <1>2, <1>3, <1>4, <1>5, <1>6, <1>7, <1>8, <1>9 DEF EncoderNext

\* The system and its scale stay.
LEMMA UnscaledKept == EncoderNext => Unscaled' = Unscaled
<1> SUFFICES ASSUME EncoderNext PROVE system' = system /\ halves' = halves
    BY DEF Unscaled
<1> QED BY DEF EncoderNext, ChangeDisplay, Setup, CaptureBgra, SetSize, Compare, InitEncoder, InitFails,
               Encode, CaptureJpeg, JpegFails

\* What is captured is what x264 is opened with.
LEMMA CapturedStep == Types /\ Captured /\ EncoderNext => Captured'
<1> SUFFICES ASSUME Types, Captured, EncoderNext PROVE Captured'
    OBVIOUS
<1>0. Unscaled' = Unscaled
      BY UnscaledKept
<1> USE <1>0 DEF Captured, Null
<1>1. CASE ChangeDisplay \/ Setup
      BY <1>1 DEF ChangeDisplay, Setup, Positive, BothEven
<1>2. CASE CaptureBgra
      BY <1>2, Pictures DEF CaptureBgra, SetSize, Positive, BothEven
<1>3. CASE Compare
      BY <1>3 DEF Compare, Positive, BothEven
<1>4. CASE InitEncoder
  <2>1. encoder'[1] = pixels /\ pixels' = pixels /\ doing' = "encode" /\ doing = "init"
        BY <1>4 DEF InitEncoder, Opened
  <2> QED BY <2>1 DEF Positive, BothEven
<1>5. CASE InitFails
      BY <1>5 DEF InitFails
<1>6. CASE Encode
      BY <1>6 DEF Encode, Positive, BothEven
<1>7. CASE CaptureJpeg \/ JpegFails
      BY <1>7 DEF CaptureJpeg, SetSize, JpegFails, Positive, BothEven
<1> QED BY <1>1, <1>2, <1>3, <1>4, <1>5, <1>6, <1>7 DEF EncoderNext

\* The key follows the encoder.
LEMMA KeyedStep == Types /\ Captured /\ Keyed /\ EncoderNext => Keyed'
<1> SUFFICES ASSUME Types, Captured, Keyed, EncoderNext PROVE Keyed'
    OBVIOUS
<1> USE DEF Keyed
<1>1. CASE ChangeDisplay \/ Setup \/ CaptureBgra \/ Encode \/ CaptureJpeg \/ JpegFails
  <2>1. UNCHANGED <<read, lastKey, keyed, encoder>> /\ (doing' = "encode" => UNCHANGED <<doing, pixels>>)
        BY <1>1 DEF ChangeDisplay, Setup, CaptureBgra, Encode, CaptureJpeg, JpegFails
  <2>2. ASSUME doing' = "init", ~raced' PROVE doing = "init" /\ ~raced /\ settings' = settings
    <3>1. CASE Setup
          BY <2>2, <3>1 DEF Setup
    <3>2. CASE ChangeDisplay
          BY <2>2, <3>2 DEF ChangeDisplay
    <3>3. ~(CaptureBgra \/ Encode \/ CaptureJpeg \/ JpegFails)
          BY <2>2 DEF CaptureBgra, Encode, CaptureJpeg, JpegFails
    <3> QED BY <1>1, <3>1, <3>2, <3>3
  <2>3. /\ doing' = "encode" => doing = "encode"
        /\ doing' = "jpeg" => doing = "jpeg"
        /\ keyed # Null => failed' = failed
        BY <1>1 DEF ChangeDisplay, Setup, CaptureBgra, Encode, CaptureJpeg, JpegFails
  <2>4. ASSUME doing' # "init", ~raced', encoder # Null PROVE doing # "init" /\ ~raced
    <3>1. doing # "init"
          BY <1>1, <2>4 DEF ChangeDisplay, Setup, CaptureBgra, Encode, CaptureJpeg, JpegFails
    <3>2. ~raced
          BY <1>1, <2>4 DEF ChangeDisplay, Setup, CaptureBgra, Encode, CaptureJpeg, JpegFails
    <3> QED BY <3>1, <3>2
  <2>5. Keys(keyed[1], keyed[2])' = Keys(keyed[1], keyed[2])
        BY <2>1 DEF Keys, Area, Product, Floats, Spacing, Rounded
  <2>6. ASSUME doing' = "encode" PROVE Keys(pixels, read)' = Keys(pixels, read)
    <3>1. UNCHANGED <<pixels, read>>
          BY <2>1, <2>6
    <3> QED BY <3>1 DEF Keys, Area, Product, Floats, Spacing, Rounded
  <2> QED BY <2>1, <2>2, <2>3, <2>4, <2>5, <2>6
<1>2. CASE Compare
  <2>1. doing = "captured" /\ read' = settings /\ UNCHANGED <<settings, pixels, lastKey, keyed, encoder, failed>>
        BY <1>2 DEF Compare
  <2>2. /\ Keys(keyed[1], keyed[2])' = Keys(keyed[1], keyed[2])
        /\ Keys(pixels, read)' = Keys(pixels, settings)
        BY <2>1 DEF Keys, Area, Product, Floats, Spacing, Rounded
  <2>3. CASE lastKey \notin Keys(pixels, settings)
    <3>1. doing' = "init" /\ raced' = FALSE
          BY <1>2, <2>3 DEF Compare
    <3> QED BY <2>1, <2>2, <3>1
  <2>4. CASE lastKey \in Keys(pixels, settings)
    <3>1. doing' = "encode" /\ raced' = raced
          BY <1>2, <2>4 DEF Compare
    <3>2. lastKey # 0
      <4>1. pixels \in Size /\ settings \in Settings /\ Positive(pixels)
            BY <2>1 DEF Types, EncoderTypeOK, Size, Captured
      <4>2. lastKey \in Nat /\ lastKey > 0
            BY <2>4, <4>1, KeyType
      <4> HIDE DEF Keyed
      <4> QED BY <4>2
    <3>3. keyed # Null
          BY <3>2
    <3> QED BY <2>1, <2>2, <2>4, <3>1, <3>3
  <2> QED BY <2>3, <2>4
<1>3. CASE InitEncoder
  <2>1. /\ doing = "init" /\ doing' = "encode" /\ raced' = raced
        /\ encoder' = <<pixels, settings>> /\ lastKey' \in Keys(pixels, read) /\ keyed' = <<pixels, read>>
        /\ UNCHANGED <<settings, pixels, read>>
        BY <1>3 DEF InitEncoder, Opened
  <2>2. /\ Keys(pixels, read)' = Keys(pixels, read)
        /\ Keys(keyed[1], keyed[2])' = Keys(pixels, read)
        BY <2>1 DEF Keys, Area, Product, Floats, Spacing, Rounded
  <2>3. encoder' # Null /\ keyed' # Null
        BY <2>1 DEF Null
  <2> QED BY <2>1, <2>2, <2>3
<1>4. CASE InitFails
  <2>1. doing' = "idle" /\ encoder' = Null /\ failed' = TRUE /\ UNCHANGED <<lastKey, keyed>>
        BY <1>4 DEF InitFails
  <2>2. Keys(keyed[1], keyed[2])' = Keys(keyed[1], keyed[2])
        BY <2>1 DEF Keys, Area, Product, Floats, Spacing, Rounded
  <2> QED BY <2>1, <2>2
<1> QED BY <1>1, <1>2, <1>3, <1>4 DEF EncoderNext

\* A JPEG is no wider than its announced size.
LEMMA JpegFitsStep == Types /\ JpegFits /\ EncoderNext => JpegFits'
<1> SUFFICES ASSUME Types, JpegFits, EncoderNext PROVE JpegFits'
    OBVIOUS
<1>1. CASE CaptureJpeg
      BY <1>1, Jpegs DEF CaptureJpeg, SetSize, JpegFits
<1>2. CASE JpegFails
      BY <1>2 DEF JpegFails, JpegFits
<1>3. CASE ChangeDisplay \/ Setup
      BY <1>3 DEF ChangeDisplay, Setup, JpegFits
<1>4. CASE CaptureBgra \/ Compare \/ InitEncoder \/ InitFails \/ Encode
  <2>1. doing' # "jpeg"
        BY <1>4 DEF CaptureBgra, SetSize, Compare, InitEncoder, InitFails, Encode
  <2> QED BY <2>1 DEF JpegFits
<1> QED BY <1>1, <1>2, <1>3, <1>4 DEF EncoderNext

\* Each step preserves the invariant.
LEMMA EncoderInvStep == EncoderInv /\ [EncoderNext]_encoderVars => EncoderInv'
<1> SUFFICES ASSUME EncoderInv, [EncoderNext]_encoderVars PROVE EncoderInv'
    OBVIOUS
<1>1. CASE EncoderNext
      BY <1>1, TypesStep, CapturedStep, KeyedStep, JpegFitsStep DEF EncoderInv
<1>2. CASE UNCHANGED encoderVars
  <2> USE <1>2 DEF encoderVars
  <2>1. Types'
        BY DEF EncoderInv, Types, EncoderTypeOK
  <2>2. Captured' /\ JpegFits'
        BY DEF EncoderInv, Captured, Positive, BothEven, Unscaled, JpegFits
  <2>3. Keyed'
    <3>1. /\ Keys(keyed[1], keyed[2])' = Keys(keyed[1], keyed[2])
          /\ Keys(pixels, read)' = Keys(pixels, read)
          BY DEF Keys, Area, Product, Floats, Spacing, Rounded
    <3> QED BY <3>1 DEF EncoderInv, Keyed
  <2> QED BY <2>1, <2>2, <2>3 DEF EncoderInv
<1> QED BY <1>1, <1>2

\* The pictures fit, as the same key with the same settings belongs to close areas.
LEMMA EncoderInvImplies == EncoderInv => PicturesFit
<1> SUFFICES ASSUME EncoderInv PROVE EncoderFits /\ JpegFits
    BY DEF PicturesFit
<1>1. ASSUME doing = "encode"
      PROVE  /\ keyed # Null
             /\ read = keyed[2] => Close(Area(keyed[1]), Area(pixels))
             /\ encoder = Null => failed
             /\ encoder # Null => encoder[1] = keyed[1] /\ (encoder[2] = keyed[2] \/ raced)
  <2>1. pixels \in Size /\ read \in Settings /\ Positive(pixels) /\ lastKey \in Keys(pixels, read)
        BY <1>1 DEF EncoderInv, Types, EncoderTypeOK, Captured, Keyed, Size
  <2>2. lastKey > 0
        BY <2>1, KeyType
  <2>3. keyed # Null
        BY <2>2 DEF EncoderInv, Keyed
  <2>4. lastKey \in Keys(keyed[1], keyed[2]) /\ keyed[1] \in Size
        BY <2>3 DEF EncoderInv, Types, EncoderTypeOK, Keyed, Size
  <2>5. ASSUME read = keyed[2] PROVE Close(Area(keyed[1]), Area(pixels))
        BY <2>1, <2>4, <2>5, SameKeyClose
  <2>6. /\ encoder = Null => failed
        /\ encoder # Null => encoder[1] = keyed[1] /\ (encoder[2] = keyed[2] \/ raced)
        BY <1>1, <2>3 DEF EncoderInv, Keyed
  <2> QED BY <2>3, <2>5, <2>6
<1>2. ASSUME encoder # Null, ~(system = "macOS" /\ halves <= 2)
      PROVE  encoder[1][1] % 2 = 0 /\ encoder[1][2] % 2 = 0
      BY <1>2 DEF EncoderInv, Captured, Unscaled, BothEven
<1>3. EncoderFits
      BY <1>1, <1>2 DEF EncoderFits
<1> QED BY <1>3 DEF EncoderInv

\* The type invariant of what the encoder and its frame keep.
THEOREM EncoderTyped == EncoderSpec => []EncoderTypeOK
<1>1. EncoderInv => EncoderTypeOK
      BY DEF EncoderInv, Types
<1> QED BY EncoderInvInit, EncoderInvStep, <1>1, PTL DEF EncoderSpec

\* What is encoded is what the encoder was opened for, for every precision of the
\* key, and a JPEG is no wider than announced (FrameH264::next, FrameJpeg::next).
THEOREM EncoderReads == EncoderSpec => []PicturesFit
  BY EncoderInvInit, EncoderInvStep, EncoderInvImplies, PTL DEF EncoderSpec

-----------------------------------------------------------------------------
(***************************************************************************)
(* The settings.                                                           *)
(***************************************************************************)
TextValues == Int \X BOOLEAN
ArgsType == [port : Int, quality : 1..100, fps : Int, timeout : Int, h264 : BOOLEAN]

OptionsType ==
    /\ g_config \in ArgsType /\ g_config.fps >= 1
    /\ stage \in {"args", "cli", "window", "exited", "thrown"}
    /\ inputs \in [{"port", "timeout", "fps"} -> TextValues]
    /\ choice \in 1..10 /\ chosen \in {"none", "jpeg", "h264"}
    /\ frames \in [{"jpeg", "h264"} -> (1..100) \X Nat]
    /\ \A enc \in {"jpeg", "h264"} : frames[enc][2] >= 1

\* The stream follows the stored options, except those of a refused Start.
Follows ==
    stage \in {"cli", "window"} /\ ~refused =>
        /\ chosen = IF g_config.h264 THEN "h264" ELSE "jpeg"
        /\ frames[chosen] = <<g_config.quality, g_config.fps>>

\* What a server that the window started has.
AsShown ==
    /\ stage \in {"window", "thrown"}
    /\ g_config.port = Number(inputs.port) /\ 1 <= g_config.port /\ g_config.port <= 65535
    /\ g_config.fps \in 1..60 /\ g_config.quality = choice * 10
Shows == up => AsShown

OptionsInv == OptionsType /\ Follows /\ Shows

\* Stream::setup with options in range.
LEMMA SetupFollows ==
  ASSUME OptionsType, NEW c \in ArgsType, c.fps >= 1, SetupStream(c)
  PROVE  /\ chosen' = IF c.h264 THEN "h264" ELSE "jpeg"
         /\ chosen' \in {"jpeg", "h264"}
         /\ frames'[chosen'] = <<c.quality, c.fps>>
         /\ frames' \in [{"jpeg", "h264"} -> (1..100) \X Nat]
         /\ \A enc \in {"jpeg", "h264"} : frames'[enc][2] >= 1
<1> DEFINE e == IF c.h264 THEN "h264" ELSE "jpeg"
<1>1. e \in {"jpeg", "h264"} /\ chosen' = e
      BY DEF SetupStream
<1>2. frames' = [frames EXCEPT ![e] = <<c.quality, c.fps>>]
      BY DEF SetupStream, Passes
<1>3. c.quality \in 1..100 /\ c.fps \in Nat
      BY DEF ArgsType
<1>4. <<c.quality, c.fps>> \in (1..100) \X Nat /\ <<c.quality, c.fps>>[2] >= 1
      BY <1>3
<1>5. frames \in [{"jpeg", "h264"} -> (1..100) \X Nat] /\ \A enc \in {"jpeg", "h264"} : frames[enc][2] >= 1
      BY DEF OptionsType
<1> HIDE DEF e
<1>6. frames'[e] = <<c.quality, c.fps>> /\ \A enc \in {"jpeg", "h264"} \ {e} : frames'[enc] = frames[enc]
      BY <1>1, <1>2, <1>5
<1>7. frames' \in [{"jpeg", "h264"} -> (1..100) \X Nat]
      BY <1>1, <1>2, <1>4, <1>5
<1>8. \A enc \in {"jpeg", "h264"} : frames'[enc][2] >= 1
      BY <1>4, <1>5, <1>6
<1> QED BY <1>1, <1>6, <1>7, <1>8 DEF e

\* A step after which the stream follows what is stored.
LEMMA SetupStep ==
  ASSUME OptionsInv, g_config' \in ArgsType, g_config'.fps >= 1, SetupStream(g_config'),
         stage' \in {"args", "cli", "window", "exited", "thrown"},
         inputs' \in [{"port", "timeout", "fps"} -> TextValues], choice' \in 1..10, Shows'
  PROVE  OptionsInv'
<1>1. /\ chosen' = IF g_config'.h264 THEN "h264" ELSE "jpeg"
      /\ chosen' \in {"jpeg", "h264"}
      /\ frames'[chosen'] = <<g_config'.quality, g_config'.fps>>
      /\ frames' \in [{"jpeg", "h264"} -> (1..100) \X Nat]
      /\ \A enc \in {"jpeg", "h264"} : frames'[enc][2] >= 1
      BY SetupFollows DEF OptionsInv
<1>2. OptionsType'
      BY <1>1 DEF OptionsType
<1>3. Follows'
      BY <1>1 DEF Follows
<1> QED BY <1>2, <1>3 DEF OptionsInv

\* A step that leaves the stream alone.
LEMMA KeepStep ==
  ASSUME OptionsInv, g_config' \in ArgsType, g_config'.fps >= 1,
         UNCHANGED <<frames, chosen>>,
         stage' \in {"args", "cli", "window", "exited", "thrown"},
         inputs' \in [{"port", "timeout", "fps"} -> TextValues], choice' \in 1..10, Shows',
         Follows'
  PROVE  OptionsInv'
BY DEF OptionsInv, OptionsType

\* What keeps Follows.
LEMMA FollowsKept ==
  ASSUME OptionsInv, UNCHANGED <<frames, chosen, refused>>,
         \/ stage' \notin {"cli", "window"}
         \/ stage' = stage /\ g_config' = g_config
  PROVE  Follows'
BY DEF OptionsInv, Follows

\* What keeps Shows.
LEMMA ShowsKept ==
  ASSUME OptionsInv, UNCHANGED <<up, choice>>, g_config'.port = g_config.port,
         g_config'.fps = g_config.fps \/ g_config'.fps \in 1..60,
         g_config'.quality = g_config.quality, inputs'.port = inputs.port,
         stage' = stage \/ stage' = "thrown"
  PROVE  Shows'
<1>0. choice' = choice /\ choice \in Int
      BY DEF OptionsInv, OptionsType
<1>1. ASSUME AsShown PROVE AsShown'
  <2>1. /\ stage' \in {"window", "thrown"}
        /\ g_config'.port = inputs'.port[1] /\ 1 <= g_config'.port /\ g_config'.port <= 65535
        BY <1>1 DEF AsShown, Number
  <2>2. g_config'.fps \in 1..60 /\ g_config'.quality = choice' * 10
        BY <1>0, <1>1 DEF AsShown
  <2> QED BY <2>1, <2>2 DEF AsShown, Number
<1>2. (up => AsShown) /\ up' = up
      BY DEF OptionsInv, Shows
<1> QED BY <1>1, <1>2 DEF Shows

\* Nothing is shown before the window is there.
LEMMA NothingUp ==
  ASSUME OptionsInv, stage = "args" \/ ~up, up' = up
  PROVE  ~up' /\ Shows'
<1>1. (up => AsShown) /\ (AsShown => stage # "args")
  <2>1. AsShown => stage # "args"
        BY DEF AsShown
  <2> QED BY <2>1 DEF OptionsInv, Shows
<1>2. ~up
      BY <1>1
<1> QED BY <1>2 DEF Shows

\* A number in a range.
LEMMA InRangeIn ==
  ASSUME NEW n \in Int, NEW low \in Int, NEW high \in Int, InRange(n, low, high)
  PROVE  n \in low..high
BY DEF InRange

\* What the window makes of a quality is one of its choices.
LEMMA QualityChoices == ASSUME NEW q \in 1..100 PROVE QualityChoice(q) \in 1..10
BY DEF QualityChoice

\* An option changes one of Args, to a value in range, or ends the program.
LEMMA OptionStep ==
  ASSUME OptionsInv, stage = "args", UNCHANGED <<inputs, choice, up, frames, chosen, refused>>,
         \/ g_config' \in ArgsType /\ g_config'.fps >= 1 /\ stage' = "args"
         \/ g_config' = g_config /\ stage' = "exited"
  PROVE  OptionsInv'
<1>1. g_config' \in ArgsType /\ g_config'.fps >= 1
      BY DEF OptionsInv, OptionsType
<1>2. Shows'
      BY NothingUp
<1>3. Follows'
      BY DEF Follows
<1>4. /\ inputs' \in [{"port", "timeout", "fps"} -> TextValues] /\ choice' \in 1..10
      /\ stage' \in {"args", "cli", "window", "exited", "thrown"}
      BY DEF OptionsInv, OptionsType
<1> QED BY <1>1, <1>2, <1>3, <1>4, KeepStep

\* The program starts with the defaults of Args.
LEMMA OptionsInvInit == OptionsInit => OptionsInv
<1> SUFFICES ASSUME OptionsInit PROVE OptionsInv
    OBVIOUS
<1>1. g_config \in ArgsType /\ g_config.fps >= 1
      BY DEF OptionsInit, Defaults, ArgsType
<1>a. \A n \in Int : Shown(n) \in TextValues
      BY DEF TextValues, Shown
<1>2. inputs \in [{"port", "timeout", "fps"} -> TextValues]
      BY <1>a DEF OptionsInit
<1>3. <<60, 10>> \in (1..100) \X Nat /\ <<60, 10>>[2] >= 1
      OBVIOUS
<1>4. frames \in [{"jpeg", "h264"} -> (1..100) \X Nat] /\ \A enc \in {"jpeg", "h264"} : frames[enc][2] >= 1
      BY <1>3 DEF OptionsInit, FrameDefaults
<1>5. OptionsType
      BY <1>1, <1>2, <1>4 DEF OptionsInit, OptionsType
<1>6. Follows /\ Shows
      BY DEF OptionsInit, Follows, Shows
<1> QED BY <1>5, <1>6 DEF OptionsInv

\* Each step preserves the invariant.
LEMMA OptionsInvStep == OptionsInv /\ [OptionsNext]_optionsVars => OptionsInv'
<1> SUFFICES ASSUME OptionsInv, [OptionsNext]_optionsVars PROVE OptionsInv'
    OBVIOUS
<1>0. /\ g_config \in ArgsType /\ g_config.fps >= 1
      /\ stage \in {"args", "cli", "window", "exited", "thrown"}
      /\ inputs \in [{"port", "timeout", "fps"} -> TextValues] /\ choice \in 1..10
      /\ g_config.port \in Int /\ g_config.quality \in 1..100 /\ g_config.fps \in Int
      BY DEF OptionsInv, OptionsType, ArgsType
<1>a. \A t \in Texts : t \in TextValues /\ Number(t) \in Int
      BY OptionsAssumption DEF TextValues, Number
<1>b. \A field \in {"port", "timeout", "fps"} : Number(inputs[field]) \in Int
      BY <1>0 DEF TextValues, Number
<1>c. Follows /\ Shows
      BY DEF OptionsInv
<1>1. ASSUME NEW t \in Texts, ParseTimeout(t) \/ ParsePort(t) \/ ParseFps(t) PROVE OptionsInv'
  <2> DEFINE n == Number(t)
             a == [g_config EXCEPT !.timeout = n]
             b == [g_config EXCEPT !.port = n]
             d == [g_config EXCEPT !.fps = n]
  <2>1. n \in Int
        BY <1>a
  <2> HIDE DEF n
  <2>2. a \in ArgsType /\ a.fps >= 1 /\ b \in ArgsType /\ b.fps >= 1 /\ d \in ArgsType /\ d.fps = n
        BY <1>0, <2>1 DEF ArgsType
  <2>3. /\ stage = "args" /\ UNCHANGED <<inputs, choice, up, frames, chosen, refused>>
        /\ \/ g_config' = a /\ stage' = stage
           \/ g_config' = b /\ stage' = stage
           \/ n >= 1 /\ g_config' = d /\ stage' = stage
           \/ g_config' = g_config /\ stage' = "exited"
    <3>1. CASE ParseTimeout(t)
      <4>1. /\ stage = "args" /\ UNCHANGED <<inputs, choice, up, frames, chosen, refused>>
            BY <3>1 DEF ParseTimeout, Option, KeepStream
      <4>2. IF n >= 0 THEN g_config' = a /\ stage' = stage ELSE stage' = "exited" /\ g_config' = g_config
            BY <3>1 DEF ParseTimeout, n, Option
      <4> QED BY <4>1, <4>2
    <3>2. CASE ParsePort(t)
      <4>1. /\ stage = "args" /\ UNCHANGED <<inputs, choice, up, frames, chosen, refused>>
            BY <3>2 DEF ParsePort, Option, KeepStream
      <4>2. g_config' = b /\ stage' = stage
            BY <3>2 DEF ParsePort, n, Option
      <4> QED BY <4>1, <4>2
    <3>3. CASE ParseFps(t)
          BY <3>3 DEF ParseFps, n, Option, KeepStream
    <3> QED BY <1>1, <3>1, <3>2, <3>3
  <2> HIDE DEF a, b, d
  <2> QED BY <2>2, <2>3, OptionStep
<1>2. ASSUME NEW q \in QualityArgs, ParseQuality(q) PROVE OptionsInv'
  <2> DEFINE a == [g_config EXCEPT !.quality = q]
  <2>1. q \in Int
        BY OptionsAssumption
  <2>2. q > 0 /\ q <= 100 => a \in ArgsType /\ a.fps >= 1
        BY <1>0, <2>1 DEF ArgsType
  <2>3. /\ stage = "args" /\ UNCHANGED <<inputs, choice, up, frames, chosen, refused>>
        /\ \/ q > 0 /\ q <= 100 /\ g_config' = a /\ stage' = stage
           \/ g_config' = g_config /\ stage' = "exited"
        BY <1>2 DEF ParseQuality, Option, KeepStream
  <2> HIDE DEF a
  <2> QED BY <2>2, <2>3, OptionStep
<1>3. ASSUME NEW e, ParseEncoder(e) PROVE OptionsInv'
  <2> DEFINE a == [g_config EXCEPT !.h264 = (e = "h264")]
  <2>1. a \in ArgsType /\ a.fps >= 1
        BY <1>0 DEF ArgsType
  <2>2. /\ stage = "args" /\ UNCHANGED <<inputs, choice, up, frames, chosen, refused>>
        /\ \/ g_config' = a /\ stage' = stage
           \/ g_config' = g_config /\ stage' = "exited"
        BY <1>3 DEF ParseEncoder, Option, KeepStream
  <2> HIDE DEF a
  <2> QED BY <2>1, <2>2, OptionStep
<1>4. ASSUME NEW t \in Texts, ParseThrows(t) PROVE OptionsInv'
  <2>1. /\ stage = "args" /\ stage' = "thrown" /\ UNCHANGED <<g_config, inputs, choice, up, frames, chosen, refused>>
        BY <1>4 DEF ParseThrows, KeepStream
  <2> QED BY <1>0, <2>1, NothingUp, FollowsKept, KeepStep
<1>5. CASE RunAlone
  <2>1. /\ stage = "args" /\ stage' = "cli" /\ SetupStream(g_config')
        /\ UNCHANGED <<g_config, inputs, choice, up>>
        BY <1>5 DEF RunAlone
  <2> QED BY <1>0, <2>1, NothingUp, SetupStep
<1>6. CASE OpenWindow
  <2>1. /\ stage = "args" /\ stage' = "window" /\ SetupStream(g_config')
        /\ UNCHANGED <<g_config, up>> /\ choice' = QualityChoice(g_config.quality)
        /\ inputs' = [port |-> Shown(g_config.port), timeout |-> Shown(g_config.timeout),
                      fps |-> Shown(g_config.fps)]
        BY <1>6 DEF OpenWindow
  <2>2. choice' \in 1..10
        BY <1>0, <2>1, QualityChoices
  <2>3. inputs' \in [{"port", "timeout", "fps"} -> TextValues]
    <3>1. \A n \in Int : Shown(n) \in TextValues
          BY DEF Shown, TextValues
    <3>2. g_config.timeout \in Int
          BY <1>0 DEF ArgsType
    <3>3. inputs' = [field \in {"port", "timeout", "fps"} |->
                       IF field = "port" THEN Shown(g_config.port)
                       ELSE IF field = "timeout" THEN Shown(g_config.timeout)
                       ELSE Shown(g_config.fps)]
          BY <2>1
    <3> QED BY <1>0, <3>1, <3>2, <3>3
  <2> QED BY <1>0, <2>1, <2>2, <2>3, NothingUp, SetupStep
<1>7. ASSUME NEW t \in Texts, NEW field \in {"port", "timeout"}, EditPortOrTimeout(field, t)
      PROVE  OptionsInv'
  <2>1. /\ ~up /\ inputs' = [inputs EXCEPT ![field] = t]
        /\ UNCHANGED <<g_config, stage, choice, up, frames, chosen, refused>>
        BY <1>7 DEF EditPortOrTimeout, KeepStream
  <2>2. inputs' \in [{"port", "timeout", "fps"} -> TextValues]
        BY <1>0, <1>a, <2>1
  <2> QED BY <1>0, <2>1, <2>2, NothingUp, FollowsKept, KeepStep
<1>8. ASSUME NEW t \in Texts, EditFps(t) PROVE OptionsInv'
  <2>1. /\ stage = "window" /\ inputs' = [inputs EXCEPT !.fps = t] /\ UNCHANGED <<choice, up>>
        /\ \/ UNCHANGED <<g_config, stage, frames, chosen, refused>>
           \/ /\ InRange(Number(t), 1, 60) /\ UNCHANGED stage
              /\ g_config' = [g_config EXCEPT !.fps = Number(t)] /\ SetupStream(g_config')
           \/ stage' = "thrown" /\ UNCHANGED <<g_config, frames, chosen, refused>>
        BY <1>8 DEF EditFps, KeepStream
  <2>2. inputs' \in [{"port", "timeout", "fps"} -> TextValues] /\ inputs'.port = inputs.port
        BY <1>0, <1>a, <2>1
  <2>3. CASE UNCHANGED <<g_config, stage, frames, chosen, refused>>
    <3>1. Shows' /\ Follows'
          BY <2>1, <2>2, <2>3, ShowsKept, FollowsKept
    <3> QED BY <1>0, <2>1, <2>2, <2>3, <3>1, KeepStep
  <2>4. CASE /\ InRange(Number(t), 1, 60) /\ UNCHANGED stage
             /\ g_config' = [g_config EXCEPT !.fps = Number(t)] /\ SetupStream(g_config')
    <3>1. Number(t) \in 1..60
          BY <1>a, <2>4 DEF InRange
    <3>2. /\ g_config' \in ArgsType /\ g_config'.fps = Number(t)
          /\ g_config'.port = g_config.port /\ g_config'.quality = g_config.quality
          BY <1>0, <2>4, <3>1 DEF ArgsType
    <3>3. Shows'
          BY <2>1, <2>2, <2>4, <3>1, <3>2, ShowsKept
    <3>4. g_config'.fps >= 1
          BY <3>1, <3>2
    <3> QED BY <1>0, <2>1, <2>2, <2>4, <3>2, <3>3, <3>4, SetupStep
  <2>5. CASE stage' = "thrown" /\ UNCHANGED <<g_config, frames, chosen, refused>>
    <3>1. Shows' /\ Follows'
          BY <2>1, <2>2, <2>5, ShowsKept, FollowsKept
    <3> QED BY <1>0, <2>1, <2>2, <2>5, <3>1, KeepStep
  <2> QED BY <2>1, <2>3, <2>4, <2>5
<1>9. ASSUME NEW tenths \in ChosenTenths, ChooseQuality(tenths) PROVE OptionsInv'
  <2>1. /\ stage = "window" /\ choice' = tenths /\ UNCHANGED <<stage, inputs, up>>
        /\ g_config' = [g_config EXCEPT !.quality = tenths * 10] /\ SetupStream(g_config')
        BY <1>9 DEF ChooseQuality
  <2>2. tenths \in 1..10 /\ tenths * 10 \in 1..100
        BY OptionsAssumption
  <2>3. /\ g_config' \in ArgsType /\ g_config'.quality = tenths * 10
        /\ g_config'.port = g_config.port /\ g_config'.fps = g_config.fps
        BY <1>0, <2>1, <2>2 DEF ArgsType
  <2>4. Shows'
    <3>1. ASSUME AsShown PROVE AsShown'
      <4>1. /\ stage' \in {"window", "thrown"}
            /\ g_config'.port = inputs'.port[1] /\ 1 <= g_config'.port /\ g_config'.port <= 65535
            BY <2>1, <2>3, <3>1 DEF AsShown, Number
      <4>2. g_config'.fps \in 1..60 /\ g_config'.quality = choice' * 10
            BY <2>1, <2>3, <3>1 DEF AsShown
      <4> QED BY <4>1, <4>2 DEF AsShown, Number
    <3>2. (up => AsShown) /\ up' = up
          BY <1>c, <2>1 DEF Shows
    <3> QED BY <3>1, <3>2 DEF Shows
  <2> QED BY <1>0, <2>1, <2>2, <2>3, <2>4, SetupStep
<1>10. ASSUME NEW h264 \in BOOLEAN, ChooseEncoder(h264) PROVE OptionsInv'
  <2>1. /\ stage = "window" /\ UNCHANGED <<stage, inputs, choice, up>>
        /\ g_config' = [g_config EXCEPT !.h264 = h264] /\ SetupStream(g_config')
        BY <1>10 DEF ChooseEncoder
  <2>2. /\ g_config' \in ArgsType /\ g_config'.port = g_config.port
        /\ g_config'.fps = g_config.fps /\ g_config'.quality = g_config.quality
        BY <1>0, <2>1 DEF ArgsType
  <2>3. Shows'
        BY <2>1, <2>2, ShowsKept
  <2> QED BY <1>0, <2>1, <2>2, <2>3, SetupStep
<1>11. CASE UpdateArgs
  <2> DEFINE c == [UpTo("timeout") EXCEPT !.timeout = Number(inputs.timeout), !.quality = choice * 10]
  <2>1. /\ stage = "window" /\ UNCHANGED <<stage, inputs, choice>> /\ up'
        /\ g_config' = c /\ SetupStream(g_config')
        BY <1>11 DEF UpdateArgs
  <2>2. \A field \in {"port", "timeout", "fps"} : FieldOk(field)
        BY <1>0, <1>11 DEF UpdateArgs
  <2>3. InRange(Number(inputs.port), 1, 65535) /\ InRange(Number(inputs.fps), 1, 60)
        BY <2>2 DEF FieldOk
  <2>4. /\ 1 <= Number(inputs.port) /\ Number(inputs.port) <= 65535 /\ Number(inputs.fps) \in 1..60
        /\ Number(inputs.timeout) \in Int
    <3>1. InRange(Number(inputs.fps), 1, 60) => Number(inputs.fps) \in 1..60
      <4>1. Number(inputs.fps) \in Int
            BY <1>b
      <4> QED BY <4>1, InRangeIn
    <3>2. 1 <= Number(inputs.port) /\ Number(inputs.port) <= 65535
          BY <2>3 DEF InRange
    <3> QED BY <1>b, <2>3, <3>1, <3>2
  <2>5. choice * 10 \in 1..100
        BY <1>0
  <2>6. /\ c \in ArgsType /\ c.port = Number(inputs.port) /\ c.fps = Number(inputs.fps)
        /\ c.quality = choice * 10
    <3> DEFINE p == Number(inputs.port)
               f == Number(inputs.fps)
               m == Number(inputs.timeout)
               r == choice * 10
    <3>1. c = [[g_config EXCEPT !.port = p, !.fps = f] EXCEPT !.timeout = m, !.quality = r]
          BY <1>0 DEF UpTo, ArgsType
    <3>2. p \in Int /\ f \in Int /\ m \in Int /\ r \in 1..100
          BY <1>b, <2>5
    <3> HIDE DEF p, f, m, r
    <3>3. c \in ArgsType /\ c.port = p /\ c.fps = f /\ c.quality = r
          BY <1>0, <3>1, <3>2 DEF ArgsType
    <3> QED BY <3>3 DEF p, f, r
  <2> HIDE DEF c
  <2>7. Shows'
    <3>1. /\ stage' = "window" /\ inputs' = inputs /\ choice' = choice /\ g_config' = c
          BY <1>11, <2>1 DEF UpdateArgs
    <3>2. g_config'.port = inputs'.port[1] /\ g_config'.fps = inputs.fps[1] /\ g_config'.quality = choice' * 10
          BY <2>6, <3>1 DEF Number
    <3>3. 1 <= g_config'.port /\ g_config'.port <= 65535 /\ g_config'.fps \in 1..60
          BY <2>4, <2>6, <3>1
    <3>4. AsShown'
          BY <3>1, <3>2, <3>3 DEF AsShown, Number
    <3> QED BY <3>4 DEF Shows
  <2>8. g_config'.fps >= 1
    <3>1. Number(inputs.fps) >= 1
          BY <2>4
    <3> QED BY <2>1, <2>6, <3>1
  <2> QED BY <1>0, <2>1, <2>6, <2>7, <2>8, SetupStep
<1>12. CASE UpdateArgsFails
  <2>1. /\ ~up /\ refused' /\ UNCHANGED <<stage, inputs, choice, up, frames, chosen>>
        /\ \/ g_config' = g_config
           \/ g_config' = UpTo("fps")
           \/ g_config' = UpTo("timeout") /\ FieldOk("fps")
        BY <1>12 DEF UpdateArgsFails
  <2>2. /\ UpTo("fps") \in ArgsType /\ UpTo("fps").fps = g_config.fps
        BY <1>0, <1>b DEF ArgsType, UpTo
  <2>3. UpTo("timeout") \in ArgsType /\ UpTo("timeout").fps = Number(inputs.fps)
        BY <1>0, <1>b DEF ArgsType, UpTo
  <2>4. FieldOk("fps") => Number(inputs.fps) >= 1
        BY DEF FieldOk, InRange
  <2>5. g_config' \in ArgsType /\ g_config'.fps >= 1
        BY <1>0, <2>1, <2>2, <2>3, <2>4
  <2>6. Follows'
        BY <2>1 DEF Follows
  <2> QED BY <1>0, <2>1, <2>5, <2>6, NothingUp, KeepStep
<1>13. CASE EndServer
  <2>1. ~up' /\ UNCHANGED <<g_config, stage, inputs, choice, frames, chosen, refused>>
        BY <1>13 DEF EndServer, KeepStream
  <2>2. Shows'
        BY <2>1 DEF Shows
  <2> QED BY <1>0, <2>1, <2>2, FollowsKept, KeepStep
<1>14. CASE UNCHANGED optionsVars
  <2>1. UNCHANGED <<g_config, stage, inputs, choice, up, frames, chosen, refused>>
        BY <1>14 DEF optionsVars
  <2> QED BY <1>0, <2>1, ShowsKept, FollowsKept, KeepStep
<1> QED BY <1>1, <1>2, <1>3, <1>4, <1>5, <1>6, <1>7, <1>8, <1>9, <1>10, <1>11, <1>12, <1>13, <1>14
        DEF OptionsNext

\* The property follows.
LEMMA OptionsInvImplies == OptionsInv => StreamFollows
<1> SUFFICES ASSUME OptionsInv PROVE StreamFollows
    OBVIOUS
<1>1. \A enc \in DOMAIN frames : frames[enc][1] \in 1..100 /\ frames[enc][2] >= 1
      BY DEF OptionsInv, OptionsType
<1>2. stage \in {"cli", "window"} /\ ~refused =>
          /\ chosen = IF g_config.h264 THEN "h264" ELSE "jpeg"
          /\ frames[chosen] = <<g_config.quality, g_config.fps>>
      BY DEF OptionsInv, Follows
<1>3. up => /\ g_config.port = Number(inputs.port) /\ 1 <= g_config.port /\ g_config.port <= 65535
            /\ g_config.fps \in 1..60 /\ g_config.quality = choice * 10
  <2>1. up => AsShown
        BY DEF OptionsInv, Shows
  <2>2. AsShown => /\ g_config.port = Number(inputs.port) /\ 1 <= g_config.port /\ g_config.port <= 65535
                   /\ g_config.fps \in 1..60 /\ g_config.quality = choice * 10
        BY DEF AsShown
  <2> QED BY <2>1, <2>2
<1> QED BY <1>1, <1>2, <1>3 DEF StreamFollows

-----------------------------------------------------------------------------
(***************************************************************************)
(* The player.                                                             *)
(***************************************************************************)
\* As long as sockets do not overlap, the one that is not closed is this.ws.
OneSocket == \A i \in Plays : sock[i] \in {"connecting", "open", "closing"} => i = cur

\* A socket delivers arrays only while the decoder for H.264 is in use; one that
\* is still to be made delivers blobs.
TypesFollow ==
    /\ cur # 0 /\ binaryType[cur] = "arraybuffer" => ish264
    /\ \A i \in Plays : sock[i] = "none" => binaryType[i] = "blob"

OpenPlays == cur # 0 /\ sock[cur] = "open" => isPlaying
Offered == cur # 0 /\ sock[cur] # "connecting" => (pauseBtn = "pause" <=> isPlaying)
PictureFits == picture[1] = picture[2]

Single == OneSocket /\ TypesFollow /\ OpenPlays /\ Offered /\ PictureFits

PlayerInv == PlayerTypeOK /\ KeptAlive /\ (~overlapped => Single)

-----------------------------------------------------------------------------
\* The two halves of the type invariant.
Switches == isPlaying \in BOOLEAN /\ ish264 \in BOOLEAN /\ overlapped \in BOOLEAN

Values ==
    /\ sock \in [Plays -> {"none", "connecting", "open", "closing", "closed"}]
    /\ cur \in 0..MaxPlays /\ ws_keepalive \in 0..MaxPlays /\ running \subseteq Plays
    /\ pauseBtn \in {"play", "pause"}
    /\ binaryType \in [Plays -> {"blob", "arraybuffer"}]
    /\ picture \in Decoders \X Decoders

\* Sockets are numbered from 1, so that 0 is none of them.
LEMMA Numbers ==
  /\ Plays \subseteq 0..MaxPlays /\ 0 \notin Plays /\ 0 \in 0..MaxPlays
  /\ \A i \in 0..MaxPlays : i # 0 => i \in Plays
  BY PlayerAssumption DEF Plays

\* Every step keeps the types.
LEMMA TypeStep == PlayerTypeOK /\ PlayerNext => PlayerTypeOK'
<1> SUFFICES ASSUME Switches, Values, PlayerNext PROVE Switches' /\ Values'
    BY DEF PlayerTypeOK, Switches, Values
<1> USE Numbers DEF Switches, Values
<1>1. ASSUME NEW i \in Plays, PlayByPicture(i) PROVE Switches' /\ Values'
  <2>1. Values'
        BY <1>1 DEF PlayByPicture, SetupWs
  <2>2. Switches'
        BY <1>1 DEF PlayByPicture, SetupWs
  <2> QED BY <2>1, <2>2
<1>2. ASSUME NEW i \in Plays, PlayByButton(i) PROVE Switches' /\ Values'
  <2>1. Values'
        BY <1>2 DEF PlayByButton, SetupWs
  <2>2. Switches'
        BY <1>2 DEF PlayByButton, SetupWs
  <2> QED BY <2>1, <2>2
<1>3. ASSUME NEW i \in Plays, OnOpen(i) PROVE Switches' /\ Values'
      BY <1>3 DEF OnOpen
<1>4. ASSUME NEW i \in Plays, Keepalive(i) PROVE Switches' /\ Values'
      BY <1>4 DEF Keepalive
<1>5. ASSUME NEW i \in Plays, OnClose(i) PROVE Switches' /\ Values'
      BY <1>5 DEF OnClose, StopPlaying, Offers
<1>6. ASSUME NEW i \in Plays, NEW h264 \in BOOLEAN, OnMessage(i, h264) PROVE Switches' /\ Values'
  <2>1. binaryType' \in [Plays -> {"blob", "arraybuffer"}]
        BY <1>6 DEF OnMessage, TypesAfter
  <2>2. picture' \in Decoders \X Decoders
        BY <1>6 DEF OnMessage, DecoderFor, Decoders
  <2>3. ish264' \in BOOLEAN /\ UNCHANGED <<isPlaying, overlapped>>
        BY <1>6 DEF OnMessage
  <2>4. UNCHANGED <<sock, cur, running, ws_keepalive, pauseBtn>>
        BY <1>6 DEF OnMessage
  <2> QED BY <2>1, <2>2, <2>3, <2>4
<1>7. CASE Pause
  <2>1. Values'
        BY <1>7 DEF Pause, StopPlaying, Offers, ClosesFirst
  <2>2. Switches'
        BY <1>7 DEF Pause, StopPlaying
  <2> QED BY <2>1, <2>2
<1> QED BY <1>1, <1>2, <1>3, <1>4, <1>5, <1>6, <1>7 DEF PlayerNext

\* What plays is kept alive: an interval that finds the player stopped clears
\* one, perhaps that of a later socket, but the next onopen starts one again.
LEMMA AliveStep == PlayerTypeOK /\ KeptAlive /\ PlayerNext => KeptAlive'
<1> SUFFICES ASSUME PlayerTypeOK, KeptAlive, PlayerNext PROVE KeptAlive'
    OBVIOUS
<1> USE Numbers DEF PlayerTypeOK, KeptAlive
<1>1. ASSUME NEW i \in Plays, PlayByPicture(i) \/ PlayByButton(i) PROVE KeptAlive'
      BY <1>1 DEF PlayByPicture, PlayByButton, SetupWs
<1>2. ASSUME NEW i \in Plays, OnOpen(i) PROVE KeptAlive'
      BY <1>2 DEF OnOpen
<1>3. ASSUME NEW i \in Plays, Keepalive(i) PROVE KeptAlive'
      BY <1>3 DEF Keepalive, NextFrame
<1>4. ASSUME NEW i \in Plays, OnClose(i) PROVE KeptAlive'
      BY <1>4 DEF OnClose, StopPlaying
<1>5. ASSUME NEW i \in Plays, NEW h264 \in BOOLEAN, OnMessage(i, h264) PROVE KeptAlive'
      BY <1>5 DEF OnMessage
<1>6. CASE Pause
      BY <1>6 DEF Pause, StopPlaying
<1> QED BY <1>1, <1>2, <1>3, <1>4, <1>5, <1>6 DEF PlayerNext

\* With one socket at a time all of it agrees, step by step.
LEMMA SingleStep ==
  ASSUME PlayerTypeOK, Single, PlayerNext, ~overlapped'
  PROVE  Single'
<1> USE Numbers DEF PlayerTypeOK, Single
<1>1. ASSUME NEW i \in Plays, PlayByPicture(i) \/ PlayByButton(i) PROVE Single'
  <2>1. /\ sock[i] = "none" /\ sock' = [sock EXCEPT ![i] = "connecting"] /\ cur' = i
        /\ UNCHANGED <<isPlaying, ish264, binaryType, picture>>
        BY <1>1 DEF PlayByPicture, PlayByButton, SetupWs
  <2>2. ~Unclosed
        BY <1>1 DEF PlayByPicture, PlayByButton, SetupWs
  <2>3. OneSocket'
        BY <2>1, <2>2 DEF OneSocket, Unclosed
  <2>4. TypesFollow'
        BY <2>1 DEF TypesFollow
  <2> QED BY <2>1, <2>3, <2>4 DEF OpenPlays, Offered, PictureFits
<1>2. ASSUME NEW i \in Plays, OnOpen(i) PROVE Single'
  <2>1. i = cur
        BY <1>2 DEF OnOpen, OneSocket
  <2>2. OneSocket'
        BY <1>2, <2>1 DEF OnOpen, OneSocket
  <2>3. TypesFollow'
        BY <1>2 DEF OnOpen, TypesFollow
  <2> QED BY <1>2, <2>1, <2>2, <2>3 DEF OnOpen, OpenPlays, Offered, PictureFits
<1>3. ASSUME NEW i \in Plays, Keepalive(i) PROVE Single'
      BY <1>3 DEF Keepalive, OneSocket, TypesFollow, OpenPlays, Offered, PictureFits
<1>4. ASSUME NEW i \in Plays, OnClose(i) PROVE Single'
  <2>1. i = cur
        BY <1>4 DEF OnClose, OneSocket
  <2>2. OneSocket'
        BY <1>4 DEF OnClose, OneSocket
  <2>3. TypesFollow'
        BY <1>4 DEF OnClose, TypesFollow
  <2> QED BY <1>4, <2>1, <2>2, <2>3 DEF OnClose, StopPlaying, Offers, OpenPlays, Offered, PictureFits
<1>5. ASSUME NEW i \in Plays, NEW h264 \in BOOLEAN, OnMessage(i, h264) PROVE Single'
  <2>1. i = cur /\ isPlaying /\ sock[i] = "open"
        BY <1>5 DEF OnMessage, OneSocket, OpenPlays
  <2>2. OneSocket' /\ OpenPlays' /\ Offered'
        BY <1>5 DEF OnMessage, OneSocket, OpenPlays, Offered
  <2>3. TypesAfter(h264)[i] = "arraybuffer" => h264
        BY <2>1 DEF TypesAfter, TypesFollow
  <2>4. TypesFollow'
        BY <1>5, <2>1 DEF OnMessage, TypesAfter, TypesFollow
  <2>5. TypesAfter(h264)[i] \in {"blob", "arraybuffer"}
        BY <2>1 DEF TypesAfter
  <2>6. picture' = <<IF h264 THEN "h264" ELSE "jpeg", IF h264 THEN "h264" ELSE "jpeg">>
        BY <1>5, <2>1, <2>3, <2>5 DEF OnMessage, DecoderFor
  <2> QED BY <2>2, <2>4, <2>6 DEF PictureFits
<1>6. CASE Pause
  <2>1. OneSocket'
        BY <1>6 DEF Pause, OneSocket, ClosesFirst
  <2>2. TypesFollow'
        BY <1>6 DEF Pause, TypesFollow, ClosesFirst
  <2>3. OpenPlays'
        BY <1>6 DEF Pause, ClosesFirst, OpenPlays
  <2> QED BY <1>6, <2>1, <2>2, <2>3 DEF Pause, StopPlaying, Offers, Offered, PictureFits
<1> QED BY <1>1, <1>2, <1>3, <1>4, <1>5, <1>6 DEF PlayerNext

-----------------------------------------------------------------------------
\* The page is loaded with no socket and the button of a player that plays.
LEMMA PlayerInvInit == PlayerInit => PlayerInv
<1> SUFFICES ASSUME PlayerInit PROVE PlayerInv
    OBVIOUS
<1> USE Numbers DEF PlayerInit
<1>1. Switches /\ Values
      BY DEF Switches, Values, Decoders
<1>2. KeptAlive
      BY DEF KeptAlive
<1>3. Single
      BY DEF Single, OneSocket, TypesFollow, OpenPlays, Offered, PictureFits
<1> QED BY <1>1, <1>2, <1>3 DEF PlayerInv, PlayerTypeOK, Switches, Values

\* Each step preserves the invariant.
LEMMA PlayerInvStep == PlayerInv /\ [PlayerNext]_playerVars => PlayerInv'
<1> SUFFICES ASSUME PlayerInv, [PlayerNext]_playerVars PROVE PlayerInv'
    OBVIOUS
<1>1. CASE PlayerNext
  <2>1. overlapped => overlapped'
        BY <1>1 DEF PlayerNext, PlayByPicture, PlayByButton, SetupWs, OnOpen, Keepalive, OnClose,
           OnMessage, Pause
  <2> QED BY <1>1, <2>1, TypeStep, AliveStep, SingleStep DEF PlayerInv
<1>2. CASE UNCHANGED playerVars
  <2> USE <1>2 DEF playerVars
  <2>1. PlayerTypeOK' /\ KeptAlive'
        BY DEF PlayerInv, PlayerTypeOK, KeptAlive
  <2>2. (~overlapped => Single)'
        BY DEF PlayerInv, Single, OneSocket, TypesFollow, OpenPlays, Offered, PictureFits
  <2> QED BY <2>1, <2>2 DEF PlayerInv
<1> QED BY <1>1, <1>2

\* The properties follow from it.
LEMMA PlayerInvImplies == PlayerInv => PlayerAgrees /\ PicturesDecoded
<1> SUFFICES ASSUME PlayerInv PROVE PlayerAgrees /\ PicturesDecoded
    OBVIOUS
<1>1. ~overlapped => PlaysWhileOpen
      BY Numbers DEF PlayerInv, Single, OneSocket, OpenPlays, PlaysWhileOpen
<1>2. ~overlapped => ButtonAgrees /\ PicturesDecoded
      BY DEF PlayerInv, Single, Offered, PictureFits, ButtonAgrees, PicturesDecoded
<1> QED BY <1>1, <1>2 DEF PlayerInv, PlayerAgrees, PicturesDecoded

\* The player, its button and its sockets agree (play, pause, onopen, onclose).
THEOREM PlayerIsOne == PlayerSpec => []PlayerAgrees
<1>1. PlayerInv => PlayerAgrees
      BY PlayerInvImplies
<1> QED BY PlayerInvInit, PlayerInvStep, <1>1, PTL DEF PlayerSpec

\* Every picture reaches the decoder of its encoding (onmessage).
THEOREM PlayerDecodes == PlayerSpec => []PicturesDecoded
<1>1. PlayerInv => PicturesDecoded
      BY PlayerInvImplies
<1> QED BY PlayerInvInit, PlayerInvStep, <1>1, PTL DEF PlayerSpec

-----------------------------------------------------------------------------
(***************************************************************************)
(* The frame rates.                                                        *)
(***************************************************************************)
StatsType ==
    /\ clock \in Nat /\ stamp \in Nat /\ stamp <= clock
    /\ tally \in Nat /\ counted \in Nat /\ told \in Nat
    /\ stat \in [Readers -> {"out", "read", "reset"}]
    /\ rate \in [Readers -> [number : Nat, time : Nat]]
    /\ disturbed \in BOOLEAN /\ together \in BOOLEAN

\* As long as nobody met in stat, one thread at most is in it ...
Alone == ~together => \A t, u \in Readers : t # u => stat[t] = "out" \/ stat[u] = "out"

\* ... and what it has read is not more than what it will reset.
ReadBefore ==
    ~together => \A t \in Readers : stat[t] = "reset" =>
        rate[t].number <= tally /\ (~disturbed => rate[t].number = tally)

StatsInv == StatsType /\ Alone /\ ReadBefore /\ StatsTell

\* The program starts with nothing counted.
LEMMA StatsInvInit == StatsInit => StatsInv
<1> SUFFICES ASSUME StatsInit PROVE StatsInv
    OBVIOUS
<1>1. NoRate \in [number : Nat, time : Nat]
      BY DEF NoRate
<1>2. StatsType
  <2>1. stat \in [Readers -> {"out", "read", "reset"}] /\ rate \in [Readers -> [number : Nat, time : Nat]]
        BY <1>1 DEF StatsInit
  <2>2. disturbed \in BOOLEAN /\ together \in BOOLEAN
        BY DEF StatsInit
  <2>3. /\ clock \in Nat /\ stamp \in Nat /\ stamp <= clock
        /\ tally \in Nat /\ counted \in Nat /\ told \in Nat
        BY DEF StatsInit
  <2> QED BY <2>1, <2>2, <2>3 DEF StatsType
<1>3. Alone /\ ReadBefore /\ StatsTell
      BY DEF StatsInit, Alone, ReadBefore, StatsTell
<1> QED BY <1>2, <1>3 DEF StatsInv

\* Each step preserves the invariant.
LEMMA StatsInvStep == StatsInv /\ [StatsNext]_statsVars => StatsInv'
<1> SUFFICES ASSUME StatsInv, [StatsNext]_statsVars PROVE StatsInv'
    OBVIOUS
<1> USE DEF StatsInv, StatsType, Alone, ReadBefore, StatsTell
<1>1. CASE PassTime
      BY <1>1 DEF PassTime
<1>2. CASE CountFrame
  <2>1. \A t \in Readers : t = "loop" \/ t = "window"
        BY DEF Readers
  <2>2. "window" \in Readers /\ stat["loop"] = "out"
        BY <1>2 DEF CountFrame, Readers
  <2>3. \A t \in Readers : stat[t] = "reset" => disturbed'
        BY <1>2, <2>1, <2>2 DEF CountFrame
  <2> QED BY <1>2, <2>3 DEF CountFrame
<1>3. ASSUME NEW t \in Readers, BeginStat(t) PROVE StatsInv'
  <2>1. /\ stat[t] = "out" /\ stat'[t] = "read" /\ rate' \in [Readers -> [number : Nat, time : Nat]]
        /\ stat' \in [Readers -> {"out", "read", "reset"}]
        /\ \A u \in Readers \ {t} : stat'[u] = stat[u] /\ rate'[u] = rate[u]
        /\ stamp' \in Nat /\ stamp' <= clock
        BY <1>3 DEF BeginStat
  <2>2. /\ UNCHANGED <<clock, tally, counted, told, disturbed>>
        /\ together' = (together \/ \E u \in Readers \ {t} : stat[u] # "out")
        BY <1>3 DEF BeginStat
  <2>3. StatsType'
        BY <2>1, <2>2
  <2>4. Alone' /\ ReadBefore' /\ StatsTell'
        BY <2>1, <2>2
  <2> QED BY <2>3, <2>4
<1>4. ASSUME NEW t \in Readers, ReadFrames(t) PROVE StatsInv'
  <2>1. /\ stat[t] = "read" /\ stat'[t] = "reset" /\ stat' \in [Readers -> {"out", "read", "reset"}]
        /\ rate' \in [Readers -> [number : Nat, time : Nat]]
        /\ rate'[t].number = IF rate[t].time > 0 THEN tally ELSE 0
        /\ \A u \in Readers \ {t} : stat'[u] = stat[u] /\ rate'[u] = rate[u]
        BY <1>4 DEF ReadFrames
  <2>2. /\ UNCHANGED <<clock, tally, stamp, counted, told, together>>
        /\ disturbed' = (disturbed \/ (rate[t].time = 0 /\ tally > 0))
        BY <1>4 DEF ReadFrames
  <2>3. rate[t].time \in Nat
        OBVIOUS
  <2>4. rate'[t].number <= tally /\ (~disturbed' => rate'[t].number = tally)
    <3>1. ~disturbed' => rate[t].time # 0 \/ ~(tally > 0)
          BY <2>2
    <3>2. rate[t].time # 0 \/ ~(tally > 0) => rate'[t].number = tally
          BY <2>1, <2>3
    <3>3. rate'[t].number <= tally
          BY <2>1
    <3> QED BY <3>1, <3>2, <3>3
  <2>5. StatsType' /\ Alone' /\ StatsTell'
        BY <2>1, <2>2
  <2>6. ReadBefore'
        BY <2>1, <2>2, <2>4
  <2> QED BY <2>5, <2>6
<1>5. ASSUME NEW t \in Readers, ResetFrames(t) PROVE StatsInv'
  <2>1. /\ stat[t] = "reset" /\ stat'[t] = "out" /\ stat' \in [Readers -> {"out", "read", "reset"}]
        /\ \A u \in Readers \ {t} : stat'[u] = stat[u]
        /\ tally' = 0 /\ told' = told + rate[t].number
        /\ UNCHANGED <<clock, stamp, rate, counted, disturbed, together>>
        BY <1>5 DEF ResetFrames, Reset
  <2>2. rate[t].number \in Nat
        OBVIOUS
  <2>3. StatsType' /\ Alone'
        BY <2>1, <2>2
  <2>4. ReadBefore' /\ StatsTell'
        BY <2>1, <2>2
  <2> QED BY <2>3, <2>4
<1>6. CASE UNCHANGED statsVars
      BY <1>6 DEF statsVars
<1> QED BY <1>1, <1>2, <1>3, <1>4, <1>5, <1>6 DEF StatsNext

-----------------------------------------------------------------------------
(***************************************************************************)
(* The picture in the window.                                              *)
(***************************************************************************)
PictureSize == Nat \X Nat

PreviewType ==
    /\ screen \in Screens /\ exchanged \in BOOLEAN /\ shows \in BOOLEAN /\ gray \in BOOLEAN
    /\ chains \in Nat /\ img_size \in PictureSize
    /\ pixel \in [at : {0, 1}, room : Nat] /\ img \in [at : {0, 1, 2}, size : PictureSize]

\* Whoever has a timer has made an image ...
Imaged == chains > 0 => img # None

\* ... in the size of the screen, if that never changed.
SizeOfScreen == img # None /\ ~exchanged => img_size = Scaled(screen)

PreviewInv == PreviewType /\ Imaged /\ SizeOfScreen /\ PreviewFits

\* A product of sizes is a number, and so are both sides of a scaled picture.
LEMMA PixelsType == ASSUME NEW s \in PictureSize PROVE Pixels(s) \in Nat
BY DEF PictureSize, Pixels

\* The widget's sides, cut to the screen's proportions.
LEMMA ScaledType == ASSUME NEW s \in Screens PROVE Scaled(s) \in PictureSize
<1>1. /\ s[1] \in Nat \ {0} /\ s[2] \in Nat \ {0} /\ Box[1] \in Nat \ {0} /\ Box[2] \in Nat \ {0}
      BY PreviewAssumption
<1>2. s[2] * Box[1] \in Nat /\ s[1] * Box[2] \in Nat
      BY <1>1
<1>3. (s[2] * Box[1]) \div s[1] \in Nat /\ (s[1] * Box[2]) \div s[2] \in Nat
      BY <1>1, <1>2
<1> QED BY <1>1, <1>3 DEF Scaled, PictureSize

\* previewImpl: the image is in the memory of the pixels, which has room for it.
LEMMA ImplFits ==
  ASSUME PreviewType, img # None => img.at = pixel.at /\ Pixels(img.size) <= pixel.room,
         NEW size \in PictureSize, NEW isShown \in BOOLEAN, PreviewImpl(size, isShown)
  PROVE  /\ pixel' \in [at : {0, 1}, room : Nat] /\ img' \in [at : {0, 1, 2}, size : PictureSize]
         /\ gray' = ~isShown
         /\ img' # None /\ img'.at = pixel'.at /\ Pixels(img'.size) <= pixel'.room
         /\ img'.size = size \/ (img # None /\ img' = img)
<1> DEFINE n == Pixels(size)
<1>1. n \in Nat
      BY PixelsType
<1>2. pixel' = IF n <= pixel.room THEN pixel ELSE [at |-> 1 - pixel.at, room |-> n]
      BY DEF PreviewImpl, CaptureRgbaScaled, Resized
<1>3. img' = IF img = None \/ img.at # pixel'.at THEN [at |-> pixel'.at, size |-> size] ELSE img
      BY DEF PreviewImpl, IsStale
<1>4. gray' = ~isShown
      BY DEF PreviewImpl, RgbaToGray
<1>5. /\ pixel.at \in {0, 1} /\ pixel.room \in Nat
      /\ img.at \in {0, 1, 2} /\ img.size \in PictureSize
      BY DEF PreviewType
<1> HIDE DEF n
<1>6. /\ pixel' \in [at : {0, 1}, room : Nat] /\ n <= pixel'.room
      /\ pixel'.at # pixel.at \/ pixel' = pixel
      BY <1>1, <1>2, <1>5 DEF PreviewType
<1>7. CASE img = None \/ img.at # pixel'.at
  <2>1. img' = [at |-> pixel'.at, size |-> size]
        BY <1>3, <1>7
  <2>2. img' \in [at : {0, 1, 2}, size : PictureSize] /\ img'.at = pixel'.at /\ img'.size = size
        BY <1>6, <2>1
  <2>3. img' # None
        BY <1>6, <2>2 DEF None
  <2> QED BY <1>4, <1>6, <2>2, <2>3 DEF n
<1>8. CASE ~(img = None \/ img.at # pixel'.at)
      BY <1>3, <1>4, <1>6, <1>8 DEF PreviewType
<1> QED BY <1>7, <1>8

\* There is no picture at first.
LEMMA PreviewInvInit == PreviewInit => PreviewInv
<1> SUFFICES ASSUME PreviewInit PROVE PreviewInv
    OBVIOUS
<1>1. PreviewType
      BY DEF PreviewInit, PreviewType, PictureSize, None
<1>2. Imaged /\ SizeOfScreen /\ PreviewFits
      BY DEF PreviewInit, Imaged, SizeOfScreen, PreviewFits
<1> QED BY <1>1, <1>2 DEF PreviewInv

\* Each step preserves the invariant.
LEMMA PreviewInvStep == PreviewInv /\ [PreviewNext]_previewVars => PreviewInv'
<1> SUFFICES ASSUME PreviewInv, [PreviewNext]_previewVars PROVE PreviewInv'
    OBVIOUS
<1>0. img # None => img.at = pixel.at /\ Pixels(img.size) <= pixel.room
      BY DEF PreviewInv, PreviewFits
<1>1. ASSUME NEW s \in Screens, ExchangeScreen(s) PROVE PreviewInv'
      BY <1>1 DEF ExchangeScreen, PreviewInv, PreviewType, Imaged, SizeOfScreen, PreviewFits
<1>2. CASE SwitchOn
  <2>1. /\ shows' = TRUE /\ chains' = chains + 1 /\ img_size' = Scaled(screen)
        /\ UNCHANGED <<screen, exchanged>> /\ PreviewImpl(Scaled(screen), TRUE)
        BY <1>2 DEF SwitchOn
  <2>2. Scaled(screen) \in PictureSize
        BY ScaledType DEF PreviewInv, PreviewType
  <2>3. /\ pixel' \in [at : {0, 1}, room : Nat] /\ img' \in [at : {0, 1, 2}, size : PictureSize]
        /\ gray' = FALSE
        /\ img' # None /\ img'.at = pixel'.at /\ Pixels(img'.size) <= pixel'.room
        /\ img'.size = Scaled(screen) \/ (img # None /\ img' = img)
        BY <1>0, <2>1, <2>2, ImplFits DEF PreviewInv
  <2>4. chains' \in Nat /\ chains' # 0
        BY <2>1 DEF PreviewInv, PreviewType
  <2>5. PreviewType' /\ Imaged' /\ SizeOfScreen'
        BY <2>1, <2>2, <2>3, <2>4 DEF PreviewInv, PreviewType, Imaged, SizeOfScreen
  <2>6. ~exchanged' => img'.size = img_size'
        BY <2>1, <2>3 DEF PreviewInv, SizeOfScreen, PreviewFits
  <2>7. PreviewFits'
        BY <2>3, <2>4, <2>6 DEF PreviewFits
  <2> QED BY <2>5, <2>7 DEF PreviewInv
<1>3. CASE PreviewTick
  <2>1. /\ chains > 0 /\ chains' = IF shows THEN chains ELSE chains - 1
        /\ UNCHANGED <<screen, exchanged, shows, img_size>> /\ PreviewImpl(img_size, shows)
        BY <1>3 DEF PreviewTick
  <2>2. img # None /\ img_size \in PictureSize /\ shows \in BOOLEAN /\ chains \in Nat
        BY <2>1 DEF PreviewInv, PreviewType, Imaged
  <2>3. /\ pixel' \in [at : {0, 1}, room : Nat] /\ img' \in [at : {0, 1, 2}, size : PictureSize]
        /\ gray' = ~shows
        /\ img' # None /\ img'.at = pixel'.at /\ Pixels(img'.size) <= pixel'.room
        /\ img'.size = img_size \/ img' = img
        BY <1>0, <2>1, <2>2, ImplFits DEF PreviewInv
  <2>4. chains' \in Nat /\ (chains' = 0 => ~shows)
        BY <2>1, <2>2
  <2>5. PreviewType' /\ Imaged' /\ SizeOfScreen'
        BY <2>1, <2>2, <2>3, <2>4 DEF PreviewInv, PreviewType, Imaged, SizeOfScreen
  <2>6. ~exchanged' => img'.size = img_size'
        BY <2>1, <2>2, <2>3 DEF PreviewInv, PreviewFits
  <2>7. PreviewFits'
        BY <2>3, <2>4, <2>6 DEF PreviewFits
  <2> QED BY <2>5, <2>7 DEF PreviewInv
<1>4. CASE SwitchOff
      BY <1>4 DEF SwitchOff, PreviewInv, PreviewType, Imaged, SizeOfScreen, PreviewFits
<1>5. CASE UNCHANGED previewVars
      BY <1>5 DEF previewVars, PreviewInv, PreviewType, Imaged, SizeOfScreen, PreviewFits
<1> QED BY <1>1, <1>2, <1>3, <1>4, <1>5 DEF PreviewNext

-----------------------------------------------------------------------------
(***************************************************************************)
(* The parts together: each step is one of a part or leaves it alone.      *)
(***************************************************************************)
\* A step of the whole is a step of each part, or none.
LEMMA PartsStep ==
  ASSUME [PartsNext]_partsVars
  PROVE  /\ [FrameNext]_frame /\ [InboundNext]_inboundVars /\ [TextNext]_text
         /\ [OptionsNext]_optionsVars /\ [EncoderNext]_encoderVars
         /\ [PlayerNext]_playerVars /\ [StatsNext]_statsVars /\ [PreviewNext]_previewVars
<1>1. CASE UNCHANGED partsVars
      BY <1>1 DEF partsVars
<1>2. CASE PartsNext
      BY <1>2 DEF PartsNext, Of
<1> QED BY <1>1, <1>2

\* A behaviour of the whole is one of each part.
THEOREM PartsAreParts ==
  PartsSpec => /\ FrameSpec /\ InboundSpec /\ TextSpec /\ OptionsSpec /\ EncoderSpec
               /\ PlayerSpec /\ StatsSpec /\ PreviewSpec
<1>1. PartsInit => /\ FrameInit /\ InboundInit /\ TextInit /\ OptionsInit /\ EncoderInit
                   /\ PlayerInit /\ StatsInit /\ PreviewInit
      BY DEF PartsInit
<1>2. [PartsNext]_partsVars =>
         /\ [FrameNext]_frame /\ [InboundNext]_inboundVars /\ [TextNext]_text
         /\ [OptionsNext]_optionsVars /\ [EncoderNext]_encoderVars
         /\ [PlayerNext]_playerVars /\ [StatsNext]_statsVars /\ [PreviewNext]_previewVars
      BY PartsStep
<1> QED BY <1>1, <1>2, PTL DEF PartsSpec, FrameSpec, InboundSpec, TextSpec, OptionsSpec, EncoderSpec,
                                PlayerSpec, StatsSpec, PreviewSpec

\* What the stream encodes with is what was asked for last (Stream::setup,
\* updateArgs, digitCheck, parse_args).
THEOREM StreamIsAsked == OptionsSpec => []StreamFollows
  BY OptionsInvInit, OptionsInvStep, OptionsInvImplies, PTL DEF OptionsSpec

\* The frame rates that are shown count each frame at most once, and the preview
\* is drawn from its own memory, in its own size and gray when it rests
\* (Stream::stat, sendFrame, previewImpl).
THEOREM WindowTells == PartsSpec => []WindowShows
<1>1. StatsSpec => []StatsTell
  <2>1. StatsInv => StatsTell
        BY DEF StatsInv
  <2> QED BY StatsInvInit, StatsInvStep, <2>1, PTL DEF StatsSpec
<1>2. PreviewSpec => []PreviewFits
  <2>1. PreviewInv => PreviewFits
        BY DEF PreviewInv
  <2> QED BY PreviewInvInit, PreviewInvStep, <2>1, PTL DEF PreviewSpec
<1>3. StatsTell /\ PreviewFits => WindowShows
      BY DEF WindowShows
<1> QED BY PartsAreParts, <1>1, <1>2, <1>3, PTL

\* What was proved of the parts, of the whole.
THEOREM PartsKeep ==
  ASSUME Sized
  PROVE  PartsSpec => [](/\ FramesUnderstood /\ AnswersFit /\ TextRight /\ StreamFollows
                         /\ PicturesFit /\ PlayerAgrees /\ PicturesDecoded)
  BY PartsAreParts, FramesAreUnderstood, VisitorsAreAnswered, TextsAreRight, StreamIsAsked, EncoderReads, PlayerIsOne,
     PlayerDecodes, PTL
=============================================================================
