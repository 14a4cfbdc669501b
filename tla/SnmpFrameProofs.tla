---------------------------- MODULE SnmpFrameProofs ----------------------------
(* Theorems about SnmpFrame, for ints of any size, and any messages, forms   *)
(* of their lengths and damages of them.                                     *)
EXTENDS SnmpFrame, SequenceTheorems, WellFoundedInduction, TLAPS

-----------------------------------------------------------------------------
(* Numbers and recursive functions                                          *)

\* A set of numbers has a least one.
LEMMA Least ==
  ASSUME NEW S \in SUBSET Nat, S # {}
  PROVE  \E x \in S : \A y \in S : x <= y
<1>1. PICK x \in S : \A y \in S : ~ <<y, x>> \in OpToRel(<, Nat)
  BY NatLessThanWellFounded, WFMin
<1>2. \A y \in S : ~ y < x
  BY <1>1 DEF OpToRel
<1> QED
  BY <1>2

\* What holds of 0, and of a number more, holds of all.
LEMMA Counting ==
  ASSUME NEW T, 0 \in T, \A n \in Nat : n \in T => n + 1 \in T
  PROVE  \A n \in Nat : n \in T
<1> DEFINE S == {n \in Nat : n \notin T}
<1> SUFFICES ASSUME S # {} PROVE FALSE
  OBVIOUS
<1>1. PICK n \in S : \A k \in S : n <= k
  BY Least
<1>2. n # 0 /\ n - 1 \in Nat /\ n = (n - 1) + 1
  BY <1>1
<1>3. n - 1 \in T
  BY <1>1, <1>2
<1> QED
  BY <1>2, <1>3

\* Two functions that take the same steps are the same.
SameWay(f, g, n) == f[0] = g[0] /\ \A i \in 1 .. n : f[i - 1] = g[i - 1] => f[i] = g[i]

LEMMA SameSteps ==
  ASSUME NEW n \in Nat, NEW f, NEW g, SameWay(f, g, n)
  PROVE  \A i \in 0 .. n : f[i] = g[i]
<1> DEFINE T == {i \in Nat : i <= n => f[i] = g[i]}
<1>1. ASSUME NEW i \in Nat, i \in T PROVE i + 1 \in T
  <2>1. i + 1 <= n => i + 1 \in 1 .. n /\ (i + 1) - 1 = i /\ i <= n
    OBVIOUS
  <2> QED
    BY <1>1, <2>1 DEF SameWay
<1>2. 0 \in T
  BY DEF SameWay
<1> HIDE DEF T
<1>3. \A i \in Nat : i \in T
  BY <1>1, <1>2, Counting
<1> QED
  BY <1>3 DEF T

\* A function on the numbers up to n is had from its first value and its steps.
Pairs(V) == Nat \X V
Steps(f, n, first, step) == f[0] = first /\ \A i \in 1 .. n : f[i] = step[<<i, f[i - 1]>>]

LEMMA Recursion ==
  ASSUME NEW V, NEW first \in V, NEW step \in [Pairs(V) -> V], NEW n \in Nat
  PROVE  \E f \in [0 .. n -> V] : Steps(f, n, first, step)
<1> DEFINE T == {m \in Nat : \E f \in [0 .. m -> V] : f[0] = first /\ \A i \in 1 .. m : f[i] = step[<<i, f[i - 1]>>]}
<1> USE DEF Pairs, Steps
<1>1. 0 \in T
  <2>1. [i \in 0 .. 0 |-> first] \in [0 .. 0 -> V] /\ [i \in 0 .. 0 |-> first][0] = first /\ 1 .. 0 = {}
    OBVIOUS
  <2> QED
    BY <2>1
<1>2. ASSUME NEW m \in Nat, m \in T PROVE m + 1 \in T
  <2>1. PICK f \in [0 .. m -> V] : f[0] = first /\ \A i \in 1 .. m : f[i] = step[<<i, f[i - 1]>>]
    BY <1>2
  <2> DEFINE v == step[<<m + 1, f[m]>>]
             g == [i \in 0 .. m + 1 |-> IF i = m + 1 THEN v ELSE f[i]]
  <2>2. v \in V
    BY <2>1
  <2>3. g \in [0 .. m + 1 -> V] /\ g[0] = first
    BY <2>1, <2>2
  <2>4. ASSUME NEW i \in 1 .. m + 1 PROVE g[i] = step[<<i, g[i - 1]>>]
    <3>1. CASE i = m + 1
      <4>1. i - 1 = m /\ m \in 0 .. m + 1 /\ m # m + 1
        BY <3>1
      <4> QED
        BY <3>1, <4>1
    <3>2. CASE i \in 1 .. m
      <4>1. i \in 0 .. m + 1 /\ i # m + 1 /\ i - 1 \in 0 .. m + 1 /\ i - 1 # m + 1
        BY <3>2
      <4> QED
        BY <2>1, <3>2, <4>1
    <3> QED
      BY <3>1, <3>2
  <2> HIDE DEF g
  <2> QED
    BY <2>3, <2>4
<1> HIDE DEF T
<1>3. n \in T
  BY <1>1, <1>2, Counting
<1> QED
  BY <1>3 DEF T

\* The powers of a base.
LEMMA PowerFacts ==
  ASSUME NEW base \in Nat, NEW n \in Nat
  PROVE  /\ Power(base, 0) = 1
         /\ Power(base, n) \in Nat
         /\ Power(base, n + 1) = base * Power(base, n)
<1> DEFINE P(m, f) == f = [i \in 0 .. m |-> IF i = 0 THEN 1 ELSE base * f[i - 1]]
<1>1. ASSUME NEW m \in Nat PROVE \E f : P(m, f)
  <2> DEFINE step == [p \in Pairs(Nat) |-> base * p[2]]
  <2>1. step \in [Pairs(Nat) -> Nat] /\ 1 \in Nat
    BY DEF Pairs
  <2>2. PICK f \in [0 .. m -> Nat] : Steps(f, m, 1, step)
    <3> HIDE DEF step
    <3> QED
      BY <2>1, Recursion, Zenon
  <2>3. \A i \in 1 .. m : i \in Nat /\ f[i - 1] \in Nat /\ <<i, f[i - 1]>> \in Pairs(Nat)
    <3> TAKE i \in 1 .. m
    <3>1. i \in Nat /\ i - 1 \in 0 .. m
      OBVIOUS
    <3> QED
      BY <3>1 DEF Pairs
  <2>4. \A i \in 1 .. m : f[i] = step[<<i, f[i - 1]>>]
    BY <2>2 DEF Steps
  <2>5. \A i \in 1 .. m : f[i] = base * f[i - 1]
    BY <2>3, <2>4
  <2>6. /\ f[0] = 1
        /\ \A i \in 0 .. m : i = 0 \/ i \in 1 .. m
        /\ \A i \in 1 .. m : i # 0
    <3>1. f[0] = 1
      BY <2>2 DEF Steps
    <3> QED
      BY <3>1
  <2> HIDE DEF step
  <2>7. \A i \in 0 .. m : f[i] = IF i = 0 THEN 1 ELSE base * f[i - 1]
    BY <2>5, <2>6
  <2> QED
    BY <2>7
<1>2. ASSUME NEW m \in Nat PROVE \E f : P(m, f) /\ Power(base, m) = f[m]
  <2>1. P(m, CHOOSE f : P(m, f))
    BY <1>1
  <2> QED
    BY <2>1 DEF Power
<1>3. ASSUME NEW m \in Nat, NEW f, NEW g, P(m, f), P(m + 1, g) PROVE f[m] = g[m] /\ g[m + 1] = base * g[m]
  <2>1. SameWay(f, g, m)
    <3>1. \A i \in 1 .. m : i \in 0 .. m /\ i \in 0 .. m + 1 /\ i # 0
      OBVIOUS
    <3>2. \A i \in 1 .. m : f[i] = base * f[i - 1] /\ g[i] = base * g[i - 1]
      BY <1>3, <3>1
    <3>3. 0 \in 0 .. m /\ 0 \in 0 .. m + 1
      OBVIOUS
    <3> QED
      BY <1>3, <3>2, <3>3 DEF SameWay
  <2>2. f[m] = g[m]
    BY <2>1, SameSteps
  <2>3. m + 1 \in 0 .. m + 1 /\ m + 1 # 0 /\ m + 1 - 1 = m
    OBVIOUS
  <2> QED
    BY <1>3, <2>2, <2>3
<1>4. Power(base, 0) = 1
  <2>1. PICK f : P(0, f) /\ Power(base, 0) = f[0]
    BY <1>2
  <2> QED
    BY <2>1
<1>5. ASSUME NEW m \in Nat PROVE Power(base, m + 1) = base * Power(base, m)
  <2>1. PICK f : P(m, f) /\ Power(base, m) = f[m]
    BY <1>2
  <2> HIDE DEF P
  <2>0. m + 1 \in Nat
    OBVIOUS
  <2>2. PICK g : P(m + 1, g) /\ Power(base, m + 1) = g[m + 1]
    BY <1>2, <2>0
  <2> QED
    BY <1>3, <2>1, <2>2
<1> HIDE DEF P
<1>6. \A m \in Nat : m \in {i \in Nat : Power(base, i) \in Nat}
  <2> DEFINE T == {i \in Nat : Power(base, i) \in Nat}
  <2>1. 0 \in T /\ \A m \in Nat : m \in T => m + 1 \in T
    BY <1>4, <1>5
  <2> HIDE DEF T
  <2>2. \A m \in Nat : m \in T
    BY <2>1, Counting
  <2> QED
    BY <2>2 DEF T
<1> QED
  BY <1>4, <1>5, <1>6

-----------------------------------------------------------------------------
(* Bytes and numbers                                                        *)

LEMMA BytesFacts ==
  /\ Byte \subseteq Nat
  /\ Byte \subseteq Int
  /\ \A s \in Seq(Byte) : /\ s \in Seq(Nat) /\ Len(s) \in Nat /\ DOMAIN s = 1 .. Len(s)
                          /\ \A i \in 1 .. Len(s) : s[i] \in Byte /\ s[i] \in Nat
<1>1. Byte \subseteq Nat /\ Byte \subseteq Int
  BY DEF Byte
<1>2. ASSUME NEW s \in Seq(Byte)
      PROVE  /\ s \in Seq(Nat) /\ Len(s) \in Nat /\ DOMAIN s = 1 .. Len(s)
             /\ \A i \in 1 .. Len(s) : s[i] \in Byte /\ s[i] \in Nat
  <2>1. s \in Seq(Nat)
    BY <1>1, SeqMonotonic
  <2>2. \A i \in 1 .. Len(s) : s[i] \in Byte
    BY ElementOfSeq
  <2> QED
    BY <1>1, <2>1, <2>2, LenProperties
<1> QED
  BY <1>1, <1>2

\* The number of the first bytes, one byte more at a time.
Running(f, s) == f[0] = 0 /\ \A i \in 1 .. Len(s) : f[i] = f[i - 1] * 256 + s[i]

LEMMA RunningNumber ==
  ASSUME NEW s \in Seq(Nat)
  PROVE  /\ \E f \in [0 .. Len(s) -> Nat] : Running(f, s)
         /\ \A f : Running(f, s) => Number(s) = f[Len(s)]
<1> DEFINE P(f) == f = [i \in 0 .. Len(s) |-> IF i = 0 THEN 0 ELSE f[i - 1] * 256 + s[i]]
           step == [p \in Pairs(Nat) |-> p[2] * 256 + (IF p[1] \in 1 .. Len(s) THEN s[p[1]] ELSE 0)]
<1>1. Len(s) \in Nat /\ \A i \in 1 .. Len(s) : s[i] \in Nat
  BY ElementOfSeq, LenProperties
<1>2. step \in [Pairs(Nat) -> Nat]
  BY <1>1 DEF Pairs
<1>3. PICK f \in [0 .. Len(s) -> Nat] : Steps(f, Len(s), 0, step)
  <2> HIDE DEF step
  <2>1. 0 \in Nat
    OBVIOUS
  <2> QED
    BY <1>1, <1>2, <2>1, Recursion, Zenon
<1>4. Running(f, s)
  <2>1. \A i \in 1 .. Len(s) : i \in Nat /\ f[i - 1] \in Nat /\ <<i, f[i - 1]>> \in Pairs(Nat)
    <3> TAKE i \in 1 .. Len(s)
    <3>1. i \in Nat /\ i - 1 \in 0 .. Len(s)
      BY <1>1
    <3> QED
      BY <3>1 DEF Pairs
  <2>2. \A i \in 1 .. Len(s) : f[i] = f[i - 1] * 256 + s[i]
    BY <1>3, <2>1 DEF Steps
  <2> QED
    BY <1>3, <2>2 DEF Running, Steps
<1>5. P(f)
  <2>1. \A i \in 0 .. Len(s) : f[i] = IF i = 0 THEN 0 ELSE f[i - 1] * 256 + s[i]
    BY <1>1, <1>4 DEF Running
  <2> QED
    BY <1>1, <2>1
<1>6. \E g : P(g) /\ Number(s) = g[Len(s)]
  <2>1. P(CHOOSE g : P(g))
    BY <1>5
  <2> QED
    BY <2>1 DEF Number
<1>7. PICK g : P(g) /\ Number(s) = g[Len(s)]
  BY <1>6
<1>8. Running(g, s)
  <2>1. 0 \in 0 .. Len(s) /\ \A i \in 1 .. Len(s) : i \in 0 .. Len(s) /\ i # 0
    BY <1>1
  <2> QED
    BY <1>7, <2>1 DEF Running
<1>9. ASSUME NEW h, Running(h, s) PROVE Number(s) = h[Len(s)]
  <2>1. SameWay(h, g, Len(s))
    BY <1>8, <1>9 DEF Running, SameWay
  <2>2. \A i \in 0 .. Len(s) : h[i] = g[i]
    BY <1>1, <2>1, SameSteps
  <2> QED
    BY <1>1, <1>7, <2>2
<1> QED
  BY <1>3, <1>4, <1>9

LEMMA NumberFacts ==
  /\ Number(<<>>) = 0
  /\ \A s \in Seq(Nat) : Number(s) \in Nat
  /\ \A s \in Seq(Nat), b \in Nat : Number(Append(s, b)) = Number(s) * 256 + b
<1>1. ASSUME NEW s \in Seq(Nat) PROVE Number(s) \in Nat
  <2>1. Len(s) \in Nat
    OBVIOUS
  <2> QED
    BY <2>1, RunningNumber
<1>2. Number(<<>>) = 0
  <2>1. \A s \in Seq(Nat) : Len(s) = 0 => Number(s) = 0
    <3> TAKE s \in Seq(Nat)
    <3>1. PICK f \in [0 .. Len(s) -> Nat] : Running(f, s)
      BY RunningNumber
    <3> QED
      BY <3>1, RunningNumber DEF Running
  <2>2. <<>> \in Seq(Nat) /\ Len(<<>>) = 0
    OBVIOUS
  <2> QED
    BY <2>1, <2>2
<1>3. ASSUME NEW s \in Seq(Nat), NEW b \in Nat PROVE Number(Append(s, b)) = Number(s) * 256 + b
  <2> DEFINE t == Append(s, b)
  <2>1. /\ t \in Seq(Nat) /\ Len(s) \in Nat /\ Len(t) = Len(s) + 1 /\ t[Len(t)] = b
        /\ \A i \in 1 .. Len(s) : t[i] = s[i] /\ i \in 1 .. Len(t)
    OBVIOUS
  <2> HIDE DEF t
  <2>2. PICK f \in [0 .. Len(t) -> Nat] : Running(f, t)
    BY <2>1, RunningNumber
  <2>3. Running(f, s)
    BY <2>1, <2>2 DEF Running
  <2>4. Number(t) = f[Len(t)] /\ Number(s) = f[Len(s)]
    BY <2>1, <2>2, <2>3, RunningNumber
  <2>5. Len(t) \in 1 .. Len(t) /\ Len(t) - 1 = Len(s)
    BY <2>1
  <2>6. f[Len(t)] = f[Len(t) - 1] * 256 + t[Len(t)]
    BY <2>2, <2>5 DEF Running
  <2> QED
    BY <2>1, <2>4, <2>5, <2>6 DEF t
<1> QED
  BY <1>1, <1>2, <1>3

\* The numbers of up to three bytes.
LEMMA ShortNumbers ==
  /\ \A a \in Nat : Number(<<a>>) = a
  /\ \A a \in Nat, b \in Nat : Number(<<a, b>>) = a * 256 + b
  /\ \A a \in Nat, b \in Nat, c \in Nat : Number(<<a, b, c>>) = (a * 256 + b) * 256 + c
<1> DEFINE s0 == <<>>
<1>1. s0 \in Seq(Nat) /\ Number(s0) = 0
  BY NumberFacts
<1>2. ASSUME NEW a \in Nat PROVE Number(<<a>>) = a
  <2> DEFINE s1 == <<a>>
  <2>1. s1 \in Seq(Nat) /\ s1 = Append(s0, a)
    OBVIOUS
  <2> HIDE DEF s0, s1
  <2>2. Number(s1) = Number(s0) * 256 + a
    BY <1>1, <2>1, NumberFacts
  <2> QED
    BY <1>1, <2>2 DEF s1
<1>3. ASSUME NEW a \in Nat, NEW b \in Nat PROVE Number(<<a, b>>) = a * 256 + b
  <2> DEFINE s1 == <<a>>  s2 == <<a, b>>
  <2>1. s1 \in Seq(Nat) /\ s2 \in Seq(Nat) /\ s2 = Append(s1, b) /\ Number(s1) = a
    BY <1>2
  <2> HIDE DEF s1, s2
  <2>2. Number(s2) = Number(s1) * 256 + b
    BY <2>1, NumberFacts
  <2> QED
    BY <2>1, <2>2 DEF s2
<1>4. ASSUME NEW a \in Nat, NEW b \in Nat, NEW c \in Nat PROVE Number(<<a, b, c>>) = (a * 256 + b) * 256 + c
  <2> DEFINE s2 == <<a, b>>  s3 == <<a, b, c>>
  <2>1. s2 \in Seq(Nat) /\ s3 = Append(s2, c) /\ Number(s2) = a * 256 + b
    BY <1>3
  <2> HIDE DEF s2, s3
  <2>2. Number(s3) = Number(s2) * 256 + c
    BY <2>1, NumberFacts
  <2> QED
    BY <2>1, <2>2 DEF s3
<1> QED
  BY <1>2, <1>3, <1>4

-----------------------------------------------------------------------------
(* Unmarshal                                                                *)

\* Where the bytes of a value start, less one, and how many there are.
Start(data)  == 2 + IF data[2] < 128 THEN 0 ELSE data[2] - 128
Long(data)   == IF data[2] < 128 THEN data[2] ELSE Number(SubSeq(data, 3, Start(data)))
Enough(data) == ~ (Len(data) < 2 \/ Len(data) < Start(data) \/ Len(data) < Start(data) + Long(data))

LEMMA UnmarshalIs ==
  ASSUME NEW data
  PROVE  Unmarshal(data) =
           IF ~ Enough(data) THEN Refused
           ELSE Value([class |-> data[1] \div 64, tag |-> data[1] % 64,
                       bytes |-> SubSeq(data, Start(data) + 1, Start(data) + Long(data)),
                       tail |-> Rest(data, Start(data) + Long(data))])
<1>1. CASE Enough(data)
  BY <1>1 DEF Unmarshal, Start, Long, Enough
<1>2. CASE ~ Enough(data)
  BY <1>2 DEF Unmarshal, Start, Long, Enough
<1> QED
  BY <1>1, <1>2

\* A part of a sequence of numbers is one.
LEMMA PartOf ==
  ASSUME NEW data \in Seq(Nat), NEW m \in Nat, NEW n \in Nat, 1 <= m, n <= Len(data)
  PROVE  SubSeq(data, m, n) \in Seq(Nat) /\ Len(SubSeq(data, m, n)) = IF m <= n THEN n - m + 1 ELSE 0
<1>1. \A i \in m .. n : data[i] \in Nat
  BY ElementOfSeq, LenProperties
<1> QED
  BY <1>1, SubSeqProperties

LEMMA TwoParts ==
  ASSUME NEW data \in Seq(Nat), NEW k \in 0 .. Len(data), NEW n \in k .. Len(data)
  PROVE  SubSeq(data, 1, n) = SubSeq(data, 1, k) \o SubSeq(data, k + 1, n)
<1>1. 1 \in 1 .. Len(data) + 1 /\ k \in 1 - 1 .. Len(data)
  OBVIOUS
<1> QED
  BY <1>1, ConcatAdjacentSubSeq

LEMMA HeaderFacts ==
  ASSUME NEW data \in Seq(Nat), Enough(data)
  PROVE  /\ Len(data) \in Nat /\ Start(data) \in Nat /\ Long(data) \in Nat
         /\ 2 <= Start(data) /\ Start(data) + Long(data) <= Len(data)
<1>1. Len(data) \in Nat /\ Len(data) >= 2 /\ data[2] \in Nat
  <2>1. Len(data) \in Nat /\ Len(data) >= 2
    BY LenProperties DEF Enough
  <2>2. 2 \in 1 .. Len(data)
    BY <2>1
  <2> QED
    BY <2>1, <2>2, ElementOfSeq
<1>2. Start(data) \in Nat /\ 2 <= Start(data) /\ Start(data) <= Len(data)
  <2>1. Start(data) \in Nat /\ 2 <= Start(data)
    <3>1. \A x \in Nat : LET n == 2 + IF x < 128 THEN 0 ELSE x - 128 IN n \in Nat /\ 2 <= n
      OBVIOUS
    <3> QED
      BY <1>1, <3>1 DEF Start
  <2> QED
    BY <1>1, <2>1 DEF Enough
<1>3. SubSeq(data, 3, Start(data)) \in Seq(Nat)
  BY <1>1, <1>2, PartOf
<1>4. Number(SubSeq(data, 3, Start(data))) \in Nat
  BY <1>3, NumberFacts
<1>5. Long(data) \in Nat
  <2>1. Long(data) = data[2] \/ Long(data) = Number(SubSeq(data, 3, Start(data)))
    BY DEF Long
  <2> QED
    BY <1>1, <1>4, <2>1
<1> QED
  BY <1>1, <1>2, <1>5 DEF Enough

\* What Unmarshal answers is in the data in this order: a header, the bytes and the tail.
LEMMA UnmarshalParts ==
  ASSUME NEW data \in Seq(Nat), Unmarshal(data).is = "ok"
  PROVE  /\ Unmarshal(data).value.bytes \in Seq(Nat)
         /\ Unmarshal(data).value.tail \in Seq(Nat)
         /\ \E h \in Seq(Nat) : data = h \o (Unmarshal(data).value.bytes \o Unmarshal(data).value.tail)
<1>1. Enough(data)
  BY UnmarshalIs DEF Refused
<1>2. /\ Unmarshal(data).value.bytes = SubSeq(data, Start(data) + 1, Start(data) + Long(data))
      /\ Unmarshal(data).value.tail = SubSeq(data, Start(data) + Long(data) + 1, Len(data))
  BY <1>1, UnmarshalIs DEF Value, Rest
<1> DEFINE s == Start(data)  e == Start(data) + Long(data)  n == Len(data)
<1>3. s \in Nat /\ e \in Nat /\ n \in Nat /\ 2 <= s /\ s <= e /\ e <= n
  BY <1>1, HeaderFacts
<1> DEFINE h == SubSeq(data, 1, s)  b == SubSeq(data, s + 1, e)  t == SubSeq(data, e + 1, n)
<1> HIDE DEF s, e, n
<1>5. h \in Seq(Nat) /\ b \in Seq(Nat) /\ t \in Seq(Nat)
  <2>1. n = Len(data) /\ 1 \in Nat /\ s + 1 \in Nat /\ e + 1 \in Nat /\ 1 <= s + 1 /\ 1 <= e + 1 /\ s <= Len(data)
    BY <1>3 DEF n
  <2> QED
    BY <1>3, <2>1, PartOf
<1>6. data = h \o (b \o t)
  <2>1. n = Len(data) /\ SubSeq(data, 1, n) = data
    BY SubSeqFull DEF n
  <2>2. /\ s \in 0 .. Len(data) /\ e \in s .. Len(data) /\ e \in 0 .. Len(data) /\ n \in e .. Len(data)
    BY <1>3, <2>1
  <2>3. SubSeq(data, 1, n) = SubSeq(data, 1, e) \o t
    BY <2>2, TwoParts
  <2>4. SubSeq(data, 1, e) = h \o b
    BY <2>2, TwoParts
  <2>5. (h \o b) \o t = h \o (b \o t)
    <3> HIDE DEF h, b, t
    <3> QED
      BY <1>5, ConcatAssociative
  <2> QED
    BY <2>1, <2>3, <2>4, <2>5
<1>8. Unmarshal(data).value.bytes = b /\ Unmarshal(data).value.tail = t
  BY <1>2 DEF s, e, n
<1> HIDE DEF b, t, h
<1> QED
  BY <1>5, <1>6, <1>8

-----------------------------------------------------------------------------
(* A value as an agent sends it                                             *)

\* The parts of a sequence of three parts.
LEMMA JoinedParts ==
  ASSUME NEW S, NEW h \in Seq(S), NEW b \in Seq(S), NEW t \in Seq(S)
  PROVE  /\ h \o (b \o t) \in Seq(S)
         /\ Len(h \o (b \o t)) = Len(h) + Len(b) + Len(t)
         /\ SubSeq(h \o (b \o t), Len(h) + 1, Len(h) + Len(b)) = b
         /\ SubSeq(h \o (b \o t), Len(h) + Len(b) + 1, Len(h) + Len(b) + Len(t)) = t
         /\ \A i \in 1 .. Len(h) : (h \o (b \o t))[i] = h[i]
<1> DEFINE d == h \o (b \o t)
<1>1. /\ d \in Seq(S) /\ Len(h) \in Nat /\ Len(b) \in Nat /\ Len(t) \in Nat /\ Len(d) = Len(h) + Len(b) + Len(t)
      /\ \A i \in 1 .. Len(h) : d[i] = h[i]
      /\ \A i \in 1 .. Len(b) : d[Len(h) + i] = b[i]
      /\ \A i \in 1 .. Len(t) : d[Len(h) + Len(b) + i] = t[i]
  OBVIOUS
<1> HIDE DEF d
<1>2. \A i \in 1 .. Len(d) : d[i] \in S
  BY <1>1, ElementOfSeq
<1>3. ASSUME NEW m \in Nat, NEW p \in Seq(S), m + Len(p) <= Len(d), \A i \in 1 .. Len(p) : d[m + i] = p[i]
      PROVE  SubSeq(d, m + 1, m + Len(p)) = p
  <2>1. Len(p) \in Nat
    OBVIOUS
  <2>2. m + 1 \in Int /\ m + Len(p) \in Int /\ \A i \in m + 1 .. m + Len(p) : d[i] \in S
    BY <1>1, <1>2, <1>3, <2>1
  <2>3. /\ SubSeq(d, m + 1, m + Len(p)) \in Seq(S)
        /\ Len(SubSeq(d, m + 1, m + Len(p))) = Len(p)
        /\ \A i \in 1 .. Len(p) : SubSeq(d, m + 1, m + Len(p))[i] = d[m + i]
    BY <2>1, <2>2, SubSeqProperties
  <2> DEFINE q == SubSeq(d, m + 1, m + Len(p))
  <2> HIDE DEF q
  <2>4. q = p
    BY <1>3, <2>3, SeqEqual DEF q
  <2> QED
    BY <2>4 DEF q
<1>4. SubSeq(d, Len(h) + 1, Len(h) + Len(b)) = b
  <2>1. Len(h) + Len(b) <= Len(d)
    BY <1>1
  <2> QED
    BY <1>1, <1>3, <2>1, Zenon
<1>5. SubSeq(d, Len(h) + Len(b) + 1, Len(h) + Len(b) + Len(t)) = t
  <2>1. Len(h) + Len(b) \in Nat /\ Len(h) + Len(b) + Len(t) <= Len(d)
    BY <1>1
  <2> QED
    BY <1>1, <1>3, <2>1, Zenon
<1> QED
  BY <1>1, <1>4, <1>5 DEF d

\* The lengths of what fits a datagram.
Lengths == {n \in Nat : n < 65536}

\* Two numbers in a byte, and a number in two bytes.
LEMMA SplitByte ==
  ASSUME NEW class \in 0 .. 3, NEW tag \in 0 .. 63
  PROVE  /\ class * 64 + tag \in Byte
         /\ (class * 64 + tag) \div 64 = class
         /\ (class * 64 + tag) % 64 = tag
BY SMT DEF Byte

LEMMA TwoBytes ==
  ASSUME NEW n \in Lengths
  PROVE  n \in Nat /\ n \div 256 \in Byte /\ n % 256 \in Byte /\ (n \div 256) * 256 + (n % 256) = n
<1>1. n \in Nat /\ n < 65536
  BY SMT DEF Lengths
<1> DEFINE q == n \div 256  r == n % 256
<1>2. q \in Nat /\ r \in 0 .. 255 /\ q * 256 + r = n
  BY <1>1, SMT
<1> HIDE DEF q, r
<1>3. q <= 255
  BY <1>1, <1>2, SMT
<1>4. q \in 0 .. 255
  BY <1>2, <1>3, SMT
<1> QED
  BY <1>1, <1>2, <1>4, SMT DEF q, r, Byte

\* The third byte, and it and the fourth.
LEMMA ShortParts ==
  ASSUME NEW data \in Seq(Nat)
  PROVE  /\ 3 <= Len(data) => SubSeq(data, 3, 3) = <<data[3]>>
         /\ 4 <= Len(data) => SubSeq(data, 3, 4) = <<data[3], data[4]>>
<1>1. Len(data) \in Nat /\ \A i \in 1 .. Len(data) : data[i] \in Nat
  BY ElementOfSeq, LenProperties
<1>2. ASSUME 3 <= Len(data) PROVE SubSeq(data, 3, 3) = <<data[3]>>
  <2>1. \A i \in 3 .. 3 : data[i] \in Nat
    BY <1>1, <1>2
  <2>2. /\ SubSeq(data, 3, 3) \in Seq(Nat) /\ Len(SubSeq(data, 3, 3)) = 1
        /\ SubSeq(data, 3, 3)[1] = data[3]
    BY <2>1, SubSeqProperties
  <2> DEFINE p == <<data[3]>>
  <2>3. p \in Seq(Nat) /\ Len(p) = 1 /\ p[1] = data[3]
    BY <2>1
  <2> HIDE DEF p
  <2>4. SubSeq(data, 3, 3) = p
    BY <2>2, <2>3, SeqEqual
  <2> QED
    BY <2>4 DEF p
<1>3. ASSUME 4 <= Len(data) PROVE SubSeq(data, 3, 4) = <<data[3], data[4]>>
  <2>1. \A i \in 3 .. 4 : data[i] \in Nat
    BY <1>1, <1>3
  <2>2. /\ SubSeq(data, 3, 4) \in Seq(Nat) /\ Len(SubSeq(data, 3, 4)) = 2
        /\ SubSeq(data, 3, 4)[1] = data[3] /\ SubSeq(data, 3, 4)[2] = data[4]
    BY <2>1, SubSeqProperties
  <2> DEFINE p == <<data[3], data[4]>>
  <2>3. p \in Seq(Nat) /\ Len(p) = 2 /\ p[1] = data[3] /\ p[2] = data[4]
    BY <2>1
  <2> HIDE DEF p
  <2>4. SubSeq(data, 3, 4) = p
    BY <2>2, <2>3, SeqEqual
  <2> QED
    BY <2>4 DEF p
<1> QED
  BY <1>2, <1>3

\* A length is a byte, or 129 and a byte, or 130 and two.
LEMMA LengthCases ==
  ASSUME NEW n \in Lengths, NEW k
  PROVE  /\ LengthBytes(n, k) \in Seq(Byte)
         /\ \/ n < 128 /\ LengthBytes(n, k) = <<n>>
            \/ n < 256 /\ LengthBytes(n, k) = <<129, n>>
            \/ LengthBytes(n, k) = <<130, n \div 256, n % 256>>
<1>2. n \div 256 \in Byte /\ n % 256 \in Byte /\ n \in Nat
  BY TwoBytes
<1>1. \/ n < 128 /\ LengthBytes(n, k) = <<n>>
      \/ n < 256 /\ LengthBytes(n, k) = <<129, n>>
      \/ LengthBytes(n, k) = <<130, n \div 256, n % 256>>
  <2>1. \/ n < 128 /\ LengthBytes(n, k) = <<n>>
        \/ n < 256 /\ LengthBytes(n, k) = <<129, n>>
        \/ LengthBytes(n, k) = <<130, (n \div 256) % 256, n % 256>>
    BY Zenon DEF LengthBytes
  <2>2. (n \div 256) % 256 = n \div 256
    <3>1. \A x \in Byte : x % 256 = x
      BY DEF Byte
    <3> QED
      BY <1>2, <3>1, Zenon
  <2> QED
    BY <2>1, <2>2, Zenon
<1>3. n < 128 => <<n>> \in Seq(Byte)
  BY <1>2, SMT DEF Byte
<1>4. n < 256 => <<129, n>> \in Seq(Byte)
  BY <1>2, SMT DEF Byte
<1>5. <<130, n \div 256, n % 256>> \in Seq(Byte)
  <2>1. \A x \in Byte, y \in Byte : <<130, x, y>> \in Seq(Byte)
    BY SMT DEF Byte
  <2> QED
    BY <1>2, <2>1, Zenon
<1> QED
  BY <1>1, <1>3, <1>4, <1>5, Zenon

\* The header of a value of n bytes: a byte and the length.
HeaderOf(class, tag, n, k) == <<class * 64 + tag>> \o LengthBytes(n, k)

HeaderIs(h, class, tag, n) ==
  /\ h \in Seq(Byte) /\ h[1] = class * 64 + tag
  /\ \/ Len(h) = 2 /\ h[2] = n /\ n < 128
     \/ Len(h) = 3 /\ h[2] = 129 /\ h[3] = n
     \/ Len(h) = 4 /\ h[2] = 130 /\ h[3] = n \div 256 /\ h[4] = n % 256

LEMMA HeaderCases ==
  ASSUME NEW class \in 0 .. 3, NEW tag \in 0 .. 63, NEW n \in Lengths, NEW k
  PROVE  HeaderIs(HeaderOf(class, tag, n, k), class, tag, n)
<1> DEFINE h == HeaderOf(class, tag, n, k)
<1> SUFFICES HeaderIs(h, class, tag, n)
  OBVIOUS
<1> DEFINE b == <<class * 64 + tag>>  l == LengthBytes(n, k)
<1>1. b \in Seq(Byte) /\ Len(b) = 1 /\ b[1] = class * 64 + tag
  BY SplitByte
<1>2. /\ l \in Seq(Byte)
      /\ \/ Len(l) = 1 /\ l[1] = n /\ n < 128
         \/ Len(l) = 2 /\ l[1] = 129 /\ l[2] = n
         \/ Len(l) = 3 /\ l[1] = 130 /\ l[2] = n \div 256 /\ l[3] = n % 256
  <2>1. n \in Nat /\ n \div 256 \in Byte /\ n % 256 \in Byte
    BY TwoBytes
  <2> HIDE DEF l
  <2>2. l = <<n>> => Len(l) = 1 /\ l[1] = n
    BY SMT
  <2>3. l = <<129, n>> => Len(l) = 2 /\ l[1] = 129 /\ l[2] = n
    BY SMT
  <2>4. l = <<130, n \div 256, n % 256>> => Len(l) = 3 /\ l[1] = 130 /\ l[2] = n \div 256 /\ l[3] = n % 256
    <3>1. \A x \in Byte, y \in Byte : l = <<130, x, y>> => Len(l) = 3 /\ l[1] = 130 /\ l[2] = x /\ l[3] = y
      BY SMT
    <3> QED
      BY <2>1, <3>1, SMT
  <2>5. /\ l \in Seq(Byte)
        /\ \/ n < 128 /\ l = <<n>>
           \/ n < 256 /\ l = <<129, n>>
           \/ l = <<130, n \div 256, n % 256>>
    BY LengthCases, Zenon DEF l
  <2> QED
    BY <2>2, <2>3, <2>4, <2>5, Zenon
<1>3. h = b \o l
  BY Zenon DEF HeaderOf
<1> HIDE DEF b, l, h
<1>4. b \in Seq(Byte) /\ l \in Seq(Byte)
  BY <1>1, <1>2
<1>5. /\ h \in Seq(Byte) /\ Len(h) = 1 + Len(l) /\ h[1] = b[1] /\ Len(l) \in Nat
      /\ \A i \in 1 .. Len(l) : h[1 + i] = l[i]
  <2>1. h \in Seq(Byte) /\ Len(h) = Len(b) + Len(l) /\ Len(l) \in Nat
    BY <1>3, <1>4, ConcatProperties, LenProperties
  <2>2. \A i \in 1 .. Len(b) + Len(l) : h[i] = IF i <= Len(b) THEN b[i] ELSE l[i - Len(b)]
    BY <1>3, <1>4, ConcatProperties
  <2>3. h[1] = b[1]
    BY <1>1, <2>1, <2>2
  <2>4. \A i \in 1 .. Len(l) : h[1 + i] = l[i]
    <3> TAKE i \in 1 .. Len(l)
    <3>1. 1 + i \in 1 .. Len(b) + Len(l) /\ ~ 1 + i <= Len(b) /\ 1 + i - Len(b) = i
      BY <1>1, <2>1
    <3> QED
      BY <2>2, <3>1
  <2> QED
    BY <1>1, <2>1, <2>3, <2>4
<1>6. CASE Len(l) = 1 /\ l[1] = n /\ n < 128
  BY <1>1, <1>5, <1>6 DEF HeaderIs
<1>7. CASE Len(l) = 2 /\ l[1] = 129 /\ l[2] = n
  BY <1>1, <1>5, <1>7 DEF HeaderIs
<1>8. CASE Len(l) = 3 /\ l[1] = 130 /\ l[2] = n \div 256 /\ l[3] = n % 256
  BY <1>1, <1>5, <1>8, SMT DEF HeaderIs
<1> QED
  BY <1>2, <1>6, <1>7, <1>8, Zenon

\* What Unmarshal has of data that begins with a header.
ReadAs(data, h, class, tag, n) ==
  /\ 2 <= Len(data) /\ data[2] = h[2] => Start(data) = Len(h)
  /\ Len(h) <= Len(data) /\ (\A i \in 1 .. Len(h) : data[i] = h[i])
       => Long(data) = n /\ data[1] \div 64 = class /\ data[1] % 64 = tag

LEMMA HeaderRead ==
  ASSUME NEW class \in 0 .. 3, NEW tag \in 0 .. 63, NEW n \in Lengths, NEW data \in Seq(Nat),
         NEW h, HeaderIs(h, class, tag, n)
  PROVE  ReadAs(data, h, class, tag, n)
<1>1. /\ n \in Nat /\ n \div 256 \in Nat /\ n % 256 \in Nat /\ (n \div 256) * 256 + (n % 256) = n
      /\ Len(data) \in Nat /\ 1 \in Nat
  <2>1. n \in Nat /\ n \div 256 \in Byte /\ n % 256 \in Byte /\ (n \div 256) * 256 + (n % 256) = n
    BY TwoBytes, Zenon
  <2>2. n \div 256 \in Nat /\ n % 256 \in Nat
    BY <2>1, BytesFacts, Zenon
  <2>3. Len(data) \in Nat /\ 1 \in Nat
    BY LenProperties
  <2> QED
    BY <2>1, <2>2, <2>3, Zenon
<1>2. /\ h[1] = class * 64 + tag
      /\ \/ Len(h) = 2 /\ h[2] = n /\ n < 128
         \/ Len(h) = 3 /\ h[2] = 129 /\ h[3] = n
         \/ Len(h) = 4 /\ h[2] = 130 /\ h[3] = n \div 256 /\ h[4] = n % 256
  BY DEF HeaderIs
<1>3. (class * 64 + tag) \div 64 = class /\ (class * 64 + tag) % 64 = tag
  BY SplitByte
<1>4. CASE Len(h) = 2 /\ h[2] = n /\ n < 128
  <2>1. data[2] = h[2] => Start(data) = 2 /\ Long(data) = n
    BY <1>4, <1>1 DEF Start, Long
  <2>2. (\A i \in 1 .. Len(h) : data[i] = h[i]) => data[1] = h[1] /\ data[2] = h[2]
    BY <1>4
  <2>3. data[2] = h[2] => Start(data) = Len(h) /\ Long(data) = n
    BY <1>4, <2>1, Zenon
  <2> QED
    BY <1>2, <1>3, <2>2, <2>3, Zenon DEF ReadAs
<1>5. CASE Len(h) = 3 /\ h[2] = 129 /\ h[3] = n
  <2>1. data[2] = h[2] => Start(data) = 3 /\ Long(data) = Number(SubSeq(data, 3, 3))
    BY <1>5 DEF Start, Long
  <2>2. (\A i \in 1 .. Len(h) : data[i] = h[i]) => data[1] = h[1] /\ data[2] = h[2] /\ data[3] = n
    BY <1>5
  <2>3. Number(<<n>>) = n
    BY <1>1, ShortNumbers, Zenon
  <2>4. 3 <= Len(data) => SubSeq(data, 3, 3) = <<data[3]>>
    BY ShortParts
  <2>5. data[2] = h[2] => Start(data) = Len(h)
    BY <1>5, <2>1, Zenon
  <2>6. ASSUME Len(h) <= Len(data), \A i \in 1 .. Len(h) : data[i] = h[i]
        PROVE  Long(data) = n /\ data[1] = h[1]
    <3>1. data[1] = h[1] /\ data[2] = h[2] /\ data[3] = n /\ 3 <= Len(data)
      BY <1>5, <2>2, <2>6, Zenon
    <3> QED
      BY <2>1, <2>3, <2>4, <3>1, Zenon
  <2> QED
    BY <1>2, <1>3, <2>5, <2>6, Zenon DEF ReadAs
<1>6. CASE Len(h) = 4 /\ h[2] = 130 /\ h[3] = n \div 256 /\ h[4] = n % 256
  <2> DEFINE q == n \div 256  r == n % 256
  <2>0. q \in Nat /\ r \in Nat /\ q * 256 + r = n /\ Len(h) = 4 /\ h[2] = 130 /\ h[3] = q /\ h[4] = r
    BY <1>1, <1>6
  <2> HIDE DEF q, r
  <2>1. data[2] = h[2] => Start(data) = 4 /\ Long(data) = Number(SubSeq(data, 3, 4))
    BY <2>0, SMT DEF Start, Long
  <2>2. (\A i \in 1 .. Len(h) : data[i] = h[i]) => data[1] = h[1] /\ data[2] = h[2] /\ data[3] = q /\ data[4] = r
    BY <2>0, SMT
  <2>3. Number(<<q, r>>) = n
    <3>1. Number(<<q, r>>) = q * 256 + r
      BY <2>0, ShortNumbers, SMT
    <3> QED
      BY <2>0, <3>1
  <2>4. 4 <= Len(data) => SubSeq(data, 3, 4) = <<data[3], data[4]>>
    BY ShortParts
  <2>5. data[2] = h[2] => Start(data) = Len(h)
    BY <2>0, <2>1, Zenon
  <2>6. ASSUME Len(h) <= Len(data), \A i \in 1 .. Len(h) : data[i] = h[i]
        PROVE  Long(data) = n /\ data[1] = h[1]
    <3>1. data[1] = h[1] /\ data[2] = h[2] /\ data[3] = q /\ data[4] = r /\ 4 <= Len(data)
      BY <2>0, <2>2, <2>6, Zenon
    <3> QED
      BY <2>1, <2>3, <2>4, <3>1, Zenon
  <2> QED
    BY <1>2, <1>3, <2>5, <2>6, Zenon DEF ReadAs
<1> QED
  BY <1>2, <1>4, <1>5, <1>6, Zenon

\* An element of an agent is a header and its bytes.
LEMMA TlvParts ==
  ASSUME NEW class \in 0 .. 3, NEW tag \in 0 .. 63, NEW bytes \in Seq(Nat), Len(bytes) \in Lengths, NEW k
  PROVE  /\ Tlv(class, tag, bytes, k) \in Seq(Nat)
         /\ bytes \in Seq(Byte) => Tlv(class, tag, bytes, k) \in Seq(Byte)
         /\ \E h \in Seq(Nat) : /\ HeaderIs(h, class, tag, Len(bytes)) /\ Len(h) \in 2 .. 4
                               /\ Tlv(class, tag, bytes, k) = h \o bytes
                               /\ Len(Tlv(class, tag, bytes, k)) = Len(h) + Len(bytes)
<1> DEFINE h == HeaderOf(class, tag, Len(bytes), k)
<1>1. Tlv(class, tag, bytes, k) = h \o bytes
  BY Zenon DEF Tlv, HeaderOf
<1>2. HeaderIs(h, class, tag, Len(bytes))
  BY HeaderCases
<1> HIDE DEF h
<1>3. h \in Seq(Byte) /\ h \in Seq(Nat) /\ Len(h) \in 2 .. 4
  BY <1>2, BytesFacts DEF HeaderIs
<1>4. /\ h \o bytes \in Seq(Nat) /\ Len(h \o bytes) = Len(h) + Len(bytes)
      /\ bytes \in Seq(Byte) => h \o bytes \in Seq(Byte)
  BY <1>3, ConcatProperties
<1> QED
  BY <1>1, <1>2, <1>3, <1>4, Zenon

\* Unmarshal takes it from before whatever comes after it.
LEMMA UnmarshalTlv ==
  ASSUME NEW class \in 0 .. 3, NEW tag \in 0 .. 63, NEW bytes \in Seq(Nat), Len(bytes) \in Lengths, NEW k,
         NEW rest \in Seq(Nat)
  PROVE  Unmarshal(Tlv(class, tag, bytes, k) \o rest)
           = Value([class |-> class, tag |-> tag, bytes |-> bytes, tail |-> rest])
<1>1. PICK h \in Seq(Nat) : /\ HeaderIs(h, class, tag, Len(bytes)) /\ Len(h) \in 2 .. 4
                            /\ Tlv(class, tag, bytes, k) = h \o bytes
  BY TlvParts, Zenon
<1>0. 2 <= Len(h)
  <2>1. \A n \in 2 .. 4 : 2 <= n
    OBVIOUS
  <2> QED
    BY <1>1, <2>1, Zenon
<1> DEFINE data == h \o (bytes \o rest)
<1>2. Tlv(class, tag, bytes, k) \o rest = data
  <2>1. (h \o bytes) \o rest = h \o (bytes \o rest)
    OBVIOUS
  <2> QED
    BY <1>1, <2>1, Zenon
<1>3. /\ data \in Seq(Nat) /\ Len(data) = Len(h) + Len(bytes) + Len(rest)
      /\ SubSeq(data, Len(h) + 1, Len(h) + Len(bytes)) = bytes
      /\ SubSeq(data, Len(h) + Len(bytes) + 1, Len(h) + Len(bytes) + Len(rest)) = rest
      /\ \A i \in 1 .. Len(h) : data[i] = h[i]
  BY JoinedParts
<1> HIDE DEF data
<1>4. Len(h) \in Nat /\ Len(bytes) \in Nat /\ Len(rest) \in Nat
  BY <1>1, LenProperties
<1>5. 2 <= Len(data) /\ Len(h) <= Len(data) /\ data[2] = h[2]
  <2>1. \A x, y, z \in Nat : 2 <= x => 2 <= x + y + z /\ x <= x + y + z /\ 2 \in 1 .. x
    OBVIOUS
  <2> QED
    BY <1>0, <1>3, <1>4, <2>1
<1>6. Start(data) = Len(h) /\ Long(data) = Len(bytes) /\ data[1] \div 64 = class /\ data[1] % 64 = tag
  <2>1. ReadAs(data, h, class, tag, Len(bytes))
    BY <1>1, <1>3, HeaderRead
  <2> QED
    BY <1>3, <1>5, <2>1 DEF ReadAs
<1>7. Enough(data)
  <2>1. \A x, y, z \in Nat : ~ (x + y + z < x) /\ ~ (x + y + z < x + y) /\ (2 <= x => ~ x + y + z < 2)
    OBVIOUS
  <2> QED
    BY <1>0, <1>3, <1>4, <1>6, <2>1 DEF Enough
<1>8. Rest(data, Start(data) + Long(data)) = rest
  BY <1>3, <1>6 DEF Rest
<1>9. Unmarshal(data) = Value([class |-> class, tag |-> tag, bytes |-> bytes, tail |-> rest])
  BY <1>3, <1>6, <1>7, <1>8, UnmarshalIs, Zenon
<1> QED
  BY <1>2, <1>9, Zenon

\* It refuses what was cut from the end of one.
LEMMA UnmarshalCut ==
  ASSUME NEW class \in 0 .. 3, NEW tag \in 0 .. 63, NEW bytes \in Seq(Nat), Len(bytes) \in Lengths, NEW k,
         NEW m \in Nat, m < Len(Tlv(class, tag, bytes, k))
  PROVE  Unmarshal(SubSeq(Tlv(class, tag, bytes, k), 1, m)) = Refused
<1> DEFINE all == Tlv(class, tag, bytes, k)  data == SubSeq(all, 1, m)
<1>0. PICK h \in Seq(Nat) : /\ HeaderIs(h, class, tag, Len(bytes)) /\ Len(h) \in 2 .. 4
                            /\ Tlv(class, tag, bytes, k) = h \o bytes
  BY TlvParts, Zenon
<1>1. all = h \o bytes /\ all \in Seq(Nat) /\ Len(all) = Len(h) + Len(bytes) /\ Len(h) \in 2 .. 4 /\ h \in Seq(Nat)
  BY <1>0, ConcatProperties
<1>2. m < Len(all)
  OBVIOUS
<1> HIDE DEF all
<1>3. Len(h) \in Nat /\ Len(bytes) \in Nat
  BY <1>1, LenProperties
<1>4. \A i \in 1 .. Len(h) : all[i] = h[i]
  BY <1>1, <1>3, ConcatProperties
<1>5. data \in Seq(Nat) /\ Len(data) = m /\ \A i \in 1 .. m : data[i] = all[i]
  <2>1. \A i \in 1 .. m : all[i] \in Nat
    BY <1>1, <1>2, ElementOfSeq, LenProperties
  <2> QED
    BY <2>1, SubSeqProperties
<1> HIDE DEF data
<1>6. SUFFICES ASSUME Enough(data) PROVE FALSE
  BY UnmarshalIs DEF data, all
<1>7. 2 <= Len(data) /\ data[2] = h[2]
  <2>1. 2 <= Len(data)
    BY <1>5, <1>6 DEF Enough
  <2> QED
    BY <1>1, <1>4, <1>5, <2>1
<1>8. ReadAs(data, h, class, tag, Len(bytes))
  BY <1>0, <1>5, HeaderRead
<1>9. Start(data) = Len(h)
  BY <1>7, <1>8 DEF ReadAs
<1>10. Len(h) <= Len(data) /\ \A i \in 1 .. Len(h) : data[i] = h[i]
  <2>1. Len(h) <= Len(data)
    BY <1>3, <1>5, <1>6, <1>9 DEF Enough
  <2> QED
    BY <1>3, <1>4, <1>5, <2>1
<1>11. Long(data) = Len(bytes)
  BY <1>8, <1>10 DEF ReadAs
<1> QED
  BY <1>1, <1>2, <1>3, <1>5, <1>6, <1>9, <1>11 DEF Enough

-----------------------------------------------------------------------------
(* Sequences, one after the other                                           *)

LEMMA JoinFacts ==
  ASSUME NEW S
  PROVE  /\ <<>> \in Seq(S) /\ Len(<<>>) = 0
         /\ \A s \in Seq(S), t \in Seq(S) : s \o t \in Seq(S) /\ Len(s \o t) = Len(s) + Len(t)
         /\ \A s \in Seq(S) : s \o <<>> = s /\ <<>> \o s = s
         /\ \A s \in Seq(S), t \in Seq(S), u \in Seq(S) : (s \o t) \o u = s \o (t \o u)
<1>1. <<>> \in Seq(S) /\ Len(<<>>) = 0
  OBVIOUS
<1>2. \A s \in Seq(S), t \in Seq(S) : s \o t \in Seq(S) /\ Len(s \o t) = Len(s) + Len(t)
  BY ConcatProperties
<1>3. \A s \in Seq(S) : s \o <<>> = s /\ <<>> \o s = s
  BY ConcatEmptySeq
<1>4. \A s \in Seq(S), t \in Seq(S), u \in Seq(S) : (s \o t) \o u = s \o (t \o u)
  BY ConcatAssociative
<1> QED
  BY <1>1, <1>2, <1>3, <1>4

\* What has been joined after each of them.
Joining(f, ss) == f[0] = <<>> /\ \A i \in 1 .. Len(ss) : f[i] = f[i - 1] \o ss[i]

LEMMA JoiningExists ==
  ASSUME NEW S, NEW ss \in Seq(Seq(S))
  PROVE  \E f \in [0 .. Len(ss) -> Seq(S)] : Joining(f, ss)
<1> DEFINE V == Seq(S)
           step == [p \in Pairs(V) |-> p[2] \o (IF p[1] \in 1 .. Len(ss) THEN ss[p[1]] ELSE <<>>)]
<1>1. Len(ss) \in Nat /\ \A i \in 1 .. Len(ss) : ss[i] \in V
  BY ElementOfSeq, LenProperties
<1>2. <<>> \in V /\ \A s \in V, t \in V : s \o t \in V
  BY JoinFacts
<1> HIDE DEF V
<1>3. step \in [Pairs(V) -> V]
  <2> SUFFICES ASSUME NEW p \in Pairs(V)
               PROVE  p[2] \o (IF p[1] \in 1 .. Len(ss) THEN ss[p[1]] ELSE <<>>) \in V
    OBVIOUS
  <2>1. p[2] \in V
    BY DEF Pairs
  <2>2. (IF p[1] \in 1 .. Len(ss) THEN ss[p[1]] ELSE <<>>) \in V
    BY <1>1, <1>2, Zenon
  <2> QED
    BY <1>2, <2>1, <2>2
<1>4. \A i \in Nat, s \in V : step[<<i, s>>] = s \o (IF i \in 1 .. Len(ss) THEN ss[i] ELSE <<>>)
  BY DEF Pairs
<1> HIDE DEF step
<1>5. PICK f \in [0 .. Len(ss) -> V] : Steps(f, Len(ss), <<>>, step)
  BY <1>1, <1>2, <1>3, Recursion, Zenon
<1>6. f[0] = <<>>
  BY <1>5 DEF Steps
<1>7. ASSUME NEW i \in 1 .. Len(ss) PROVE f[i] = f[i - 1] \o ss[i]
  <2>1. i \in Nat /\ i - 1 \in 0 .. Len(ss)
    BY <1>1
  <2>2. f[i - 1] \in V
    BY <2>1
  <2>3. f[i] = step[<<i, f[i - 1]>>]
    BY <1>5 DEF Steps
  <2> QED
    BY <1>4, <2>1, <2>2, <2>3
<1> QED
  BY <1>6, <1>7 DEF Joining, V

LEMMA FlattenIs ==
  ASSUME NEW S, NEW ss \in Seq(Seq(S)), NEW f, Joining(f, ss)
  PROVE  FlattenSeq(ss) = f[Len(ss)]
<1>1. Len(ss) \in Nat
  OBVIOUS
<1>2. CASE Len(ss) = 0
  BY <1>2 DEF FlattenSeq, Joining
<1>3. CASE Len(ss) # 0
  <2> DEFINE P(g) == g = [i \in 1 .. Len(ss) |-> IF i = 1 THEN ss[i] ELSE g[i - 1] \o ss[i]]
  <2>0. PICK e \in [0 .. Len(ss) -> Seq(S)] : Joining(e, ss)
    BY JoiningExists
  <2>1. P([i \in 1 .. Len(ss) |-> e[i]])
    <3> DEFINE g == [i \in 1 .. Len(ss) |-> e[i]]
    <3>1. \A i \in 1 .. Len(ss) : ss[i] \in Seq(S)
      BY ElementOfSeq
    <3>2. ASSUME NEW i \in 1 .. Len(ss) PROVE g[i] = IF i = 1 THEN ss[i] ELSE g[i - 1] \o ss[i]
      <4>1. e[i] = e[i - 1] \o ss[i]
        BY <2>0 DEF Joining
      <4>2. CASE i = 1
        <5>1. e[i - 1] = <<>>
          BY <2>0, <4>2 DEF Joining
        <5> QED
          BY <3>1, <4>1, <4>2, <5>1, JoinFacts
      <4>3. CASE i # 1
        <5>1. i - 1 \in 1 .. Len(ss)
          BY <1>1, <4>3
        <5> QED
          BY <4>1, <4>3, <5>1
      <4> QED
        BY <4>2, <4>3
    <3> QED
      BY <3>2
  <2>2. \E g : P(g) /\ FlattenSeq(ss) = g[Len(ss)]
    <3>1. P(CHOOSE g : P(g))
      BY <2>1
    <3> QED
      BY <1>3, <3>1 DEF FlattenSeq
  <2>3. PICK g : P(g) /\ FlattenSeq(ss) = g[Len(ss)]
    BY <2>2
  <2>4. \A i \in 1 .. Len(ss) : g[i] = IF i = 1 THEN ss[i] ELSE g[i - 1] \o ss[i]
    BY <2>3
  <2> DEFINE d == [i \in 0 .. Len(ss) |-> IF i = 0 THEN <<>> ELSE g[i]]
  <2>5. d[0] = f[0]
    BY <1>1 DEF Joining
  <2>6. ASSUME NEW i \in 1 .. Len(ss), d[i - 1] = f[i - 1] PROVE d[i] = f[i]
    <3>1. f[i] = f[i - 1] \o ss[i]
      BY DEF Joining
    <3>2. ss[i] \in Seq(S)
      BY ElementOfSeq
    <3>3. i \in 0 .. Len(ss) /\ i # 0 /\ i - 1 \in 0 .. Len(ss)
      BY <1>1
    <3>4. CASE i = 1
      <4>1. g[i] = ss[i] /\ f[i - 1] = <<>>
        BY <2>4, <3>4 DEF Joining
      <4> QED
        BY <3>1, <3>2, <3>3, <4>1, JoinFacts
    <3>5. CASE i # 1
      <4>1. g[i] = g[i - 1] \o ss[i]
        BY <2>4, <3>5
      <4>2. i - 1 # 0
        BY <1>1, <3>5
      <4> QED
        BY <2>6, <3>1, <3>3, <4>1, <4>2
    <3> QED
      BY <3>4, <3>5
  <2>7. \A i \in 0 .. Len(ss) : d[i] = f[i]
    <3> HIDE DEF d
    <3>1. SameWay(d, f, Len(ss))
      BY <2>5, <2>6, Zenon DEF SameWay
    <3>2. Len(ss) \in Nat
      BY <1>1
    <3> QED
      BY <3>1, <3>2, SameSteps, Zenon
  <2>8. Len(ss) \in 0 .. Len(ss) /\ Len(ss) # 0
    BY <1>1, <1>3
  <2>9. d[Len(ss)] = g[Len(ss)]
    BY <2>8
  <2> HIDE DEF d, P
  <2> QED
    BY <2>3, <2>7, <2>8, <2>9
<1> QED
  BY <1>2, <1>3

\* What is joined is what comes first and the others, or the others and what comes last.
LEMMA FlattenFacts ==
  ASSUME NEW S
  PROVE  /\ FlattenSeq(<<>>) = <<>>
         /\ \A ss \in Seq(Seq(S)) : FlattenSeq(ss) \in Seq(S)
         /\ \A ss \in Seq(Seq(S)), e \in Seq(S) : FlattenSeq(Append(ss, e)) = FlattenSeq(ss) \o e
         /\ \A ss \in Seq(Seq(S)) : ss # <<>> => FlattenSeq(ss) = ss[1] \o FlattenSeq(Tail(ss))
<1>1. FlattenSeq(<<>>) = <<>>
  BY DEF FlattenSeq
<1>2. ASSUME NEW ss \in Seq(Seq(S)) PROVE FlattenSeq(ss) \in Seq(S)
  <2>1. PICK f \in [0 .. Len(ss) -> Seq(S)] : Joining(f, ss)
    BY JoiningExists
  <2>2. FlattenSeq(ss) = f[Len(ss)] /\ Len(ss) \in 0 .. Len(ss)
    BY <2>1, FlattenIs
  <2> QED
    BY <2>2
<1>3. ASSUME NEW ss \in Seq(Seq(S)), NEW e \in Seq(S) PROVE FlattenSeq(Append(ss, e)) = FlattenSeq(ss) \o e
  <2> DEFINE t == Append(ss, e)
  <2>1. /\ t \in Seq(Seq(S)) /\ Len(ss) \in Nat /\ Len(t) = Len(ss) + 1 /\ t[Len(t)] = e
        /\ \A i \in 1 .. Len(ss) : t[i] = ss[i] /\ i \in 1 .. Len(t)
    BY AppendProperties
  <2> HIDE DEF t
  <2>2. PICK f \in [0 .. Len(t) -> Seq(S)] : Joining(f, t)
    BY <2>1, JoiningExists
  <2>3. Joining(f, ss)
    BY <2>1, <2>2 DEF Joining
  <2>4. FlattenSeq(t) = f[Len(t)] /\ FlattenSeq(ss) = f[Len(ss)]
    BY <2>1, <2>2, <2>3, FlattenIs
  <2>5. Len(t) \in 1 .. Len(t) /\ Len(t) - 1 = Len(ss)
    BY <2>1
  <2>6. f[Len(t)] = f[Len(t) - 1] \o t[Len(t)]
    BY <2>2, <2>5 DEF Joining
  <2> QED
    BY <2>1, <2>4, <2>5, <2>6 DEF t
<1>4. ASSUME NEW ss \in Seq(Seq(S)), ss # <<>> PROVE FlattenSeq(ss) = ss[1] \o FlattenSeq(Tail(ss))
  <2> DEFINE t == Tail(ss)
  <2>1. /\ t \in Seq(Seq(S)) /\ Len(ss) \in Nat /\ Len(t) \in Nat /\ Len(ss) = Len(t) + 1 /\ ss[1] \in Seq(S)
        /\ \A i \in 1 .. Len(t) : t[i] = ss[i + 1] /\ t[i] \in Seq(S)
    <3>1. t \in Seq(Seq(S)) /\ Len(ss) \in Nat /\ Len(t) \in Nat /\ Len(ss) = Len(t) + 1
      BY <1>4
    <3>2. \A i \in 1 .. Len(t) : t[i] = ss[i + 1]
      BY <1>4
    <3>3. \A i \in 1 .. Len(t) : t[i] \in Seq(S)
      BY <3>1, ElementOfSeq
    <3>4. 1 \in 1 .. Len(ss)
      BY <3>1
    <3> QED
      BY <3>1, <3>2, <3>3, <3>4, ElementOfSeq
  <2> HIDE DEF t
  <2>2. PICK f \in [0 .. Len(t) -> Seq(S)] : Joining(f, t)
    BY <2>1, JoiningExists
  <2>3. PICK g \in [0 .. Len(ss) -> Seq(S)] : Joining(g, ss)
    BY JoiningExists
  <2>4. PICK a : a = [i \in 0 .. Len(t) |-> g[i + 1]]
    OBVIOUS
  <2>5. PICK b : b = [i \in 0 .. Len(t) |-> ss[1] \o f[i]]
    OBVIOUS
  <2>6. a[0] = b[0]
    <3>1. g[0] = <<>> /\ f[0] = <<>> /\ 1 \in 1 .. Len(ss) /\ 1 - 1 = 0 /\ 0 \in 0 .. Len(t) /\ 0 + 1 = 1
      BY <2>1, <2>2, <2>3 DEF Joining
    <3>2. g[1] = g[1 - 1] \o ss[1]
      BY <2>3, <3>1 DEF Joining
    <3>3. g[1] = ss[1] /\ ss[1] \o f[0] = ss[1]
      BY <2>1, <3>1, <3>2, JoinFacts
    <3> QED
      BY <2>4, <2>5, <3>1, <3>3
  <2>7. ASSUME NEW i \in 1 .. Len(t), a[i - 1] = b[i - 1] PROVE a[i] = b[i]
    <3>1. /\ i \in 0 .. Len(t) /\ i - 1 \in 0 .. Len(t) /\ i + 1 \in 1 .. Len(ss)
          /\ (i + 1) - 1 = i /\ (i - 1) + 1 = i
      BY <2>1
    <3>2. g[i + 1] = g[i] \o ss[i + 1]
      BY <2>3, <3>1 DEF Joining
    <3>3. f[i] = f[i - 1] \o t[i] /\ f[i - 1] \in Seq(S)
      BY <2>2, <3>1 DEF Joining
    <3>4. g[i] = ss[1] \o f[i - 1]
      BY <2>7, <2>4, <2>5, <3>1
    <3>5. (ss[1] \o f[i - 1]) \o t[i] = ss[1] \o (f[i - 1] \o t[i])
      <4>1. ss[1] \in Seq(S) /\ f[i - 1] \in Seq(S) /\ t[i] \in Seq(S)
        BY <2>1, <3>3
      <4>2. \A x \in Seq(S), y \in Seq(S), z \in Seq(S) : (x \o y) \o z = x \o (y \o z)
        BY JoinFacts
      <4> QED
        BY <4>1, <4>2, Zenon
    <3>6. a[i] = g[i + 1] /\ b[i] = ss[1] \o f[i]
      BY <2>4, <2>5, <3>1
    <3> QED
      BY <2>1, <3>2, <3>3, <3>4, <3>5, <3>6
  <2>8. \A i \in 0 .. Len(t) : a[i] = b[i]
    <3>1. SameWay(a, b, Len(t))
      BY <2>6, <2>7 DEF SameWay
    <3> QED
      BY <2>1, <3>1, SameSteps
  <2>9. FlattenSeq(t) = f[Len(t)] /\ FlattenSeq(ss) = g[Len(ss)]
    BY <2>1, <2>2, <2>3, FlattenIs
  <2>10. Len(t) \in 0 .. Len(t)
    BY <2>1
  <2>11. g[Len(t) + 1] = ss[1] \o f[Len(t)]
    BY <2>4, <2>5, <2>8, <2>10
  <2> QED
    BY <2>1, <2>9, <2>11 DEF t
<1> QED
  BY <1>1, <1>2, <1>3, <1>4

-----------------------------------------------------------------------------
(* The parts of what is sent                                                *)

\* Any bytes can be an element, which is longer than they are.
TlvIn(S) == \A class \in 0 .. 3, tag \in 0 .. 63, bytes \in Seq(S), k \in 0 .. 2 : Tlv(class, tag, bytes, k) \in Seq(S)

LEMMA LengthBytesSeq ==
  ASSUME NEW n \in Nat, NEW k
  PROVE  /\ n \in Nat
         /\ LengthBytes(n, k) \in Seq(Byte)
         /\ 1 <= Len(LengthBytes(n, k))
<1> DEFINE q == (n \div 256) % 256  r == n % 256  l == LengthBytes(n, k)
<1>1. q \in Byte /\ r \in Byte
  BY SMT DEF Byte
<1>2. \/ n < 128 /\ l = <<n>>
      \/ n < 256 /\ l = <<129, n>>
      \/ l = <<130, q, r>>
  BY Zenon DEF LengthBytes
<1> HIDE DEF q, r, l
<1>3. n < 256 => n \in Byte
  BY DEF Byte
<1>4. \A x \in Byte, y \in Byte : /\ <<x>> \in Seq(Byte) /\ Len(<<x>>) = 1
                                /\ <<129, x>> \in Seq(Byte) /\ Len(<<129, x>>) = 2
                                /\ <<130, x, y>> \in Seq(Byte) /\ Len(<<130, x, y>>) = 3
  BY DEF Byte
<1>5. CASE n < 128 /\ l = <<n>>
  BY <1>3, <1>4, <1>5 DEF l
<1>6. CASE n < 256 /\ l = <<129, n>>
  BY <1>3, <1>4, <1>6 DEF l
<1>7. CASE l = <<130, q, r>>
  BY <1>1, <1>4, <1>7 DEF l
<1> QED
  BY <1>2, <1>5, <1>6, <1>7, Zenon

LEMMA TlvSize ==
  /\ TlvIn(Byte)
  /\ TlvIn(Nat)
  /\ \A class \in 0 .. 3, tag \in 0 .. 63, bytes \in Seq(Nat), k \in 0 .. 2 :
       /\ Len(bytes) \in Nat /\ Len(Tlv(class, tag, bytes, k)) \in Nat
       /\ Len(bytes) + 2 <= Len(Tlv(class, tag, bytes, k))
<1>1. ASSUME NEW class \in 0 .. 3, NEW tag \in 0 .. 63, NEW S, Byte \subseteq S, NEW bytes \in Seq(S), NEW k \in 0 .. 2
      PROVE  /\ Tlv(class, tag, bytes, k) \in Seq(S)
             /\ Len(bytes) \in Nat /\ Len(Tlv(class, tag, bytes, k)) \in Nat
             /\ Len(bytes) + 2 <= Len(Tlv(class, tag, bytes, k))
  <2> DEFINE b == <<class * 64 + tag>>  l == LengthBytes(Len(bytes), k)
  <2>1. class * 64 + tag \in Byte /\ Len(bytes) \in Nat
    BY SplitByte, LenProperties
  <2>2. b \in Seq(Byte) /\ Len(b) = 1
    BY <2>1
  <2>3. l \in Seq(Byte) /\ 1 <= Len(l)
    BY <2>1, LengthBytesSeq
  <2>4. Tlv(class, tag, bytes, k) = b \o l \o bytes
    BY Zenon DEF Tlv
  <2> HIDE DEF b, l
  <2>5. b \in Seq(S) /\ l \in Seq(S) /\ Len(l) \in Nat
    BY <1>1, <2>2, <2>3, SeqMonotonic, LenProperties
  <2>6. b \o l \in Seq(S) /\ Len(b \o l) = 1 + Len(l)
    BY <2>2, <2>5, ConcatProperties
  <2> DEFINE t == b \o l
  <2>7. t \in Seq(S) /\ 2 <= Len(t) /\ Len(t) \in Nat
    BY <2>3, <2>5, <2>6
  <2> HIDE DEF t
  <2>8. t \o bytes \in Seq(S) /\ Len(t \o bytes) = Len(t) + Len(bytes)
    BY <2>7, ConcatProperties
  <2> QED
    BY <2>1, <2>4, <2>7, <2>8 DEF t
<1>2. Byte \subseteq Byte /\ Byte \subseteq Nat
  BY BytesFacts
<1> QED
  BY <1>1, <1>2 DEF TlvIn

\* A function on the numbers up to n is a sequence.
LEMMA FunctionSeq ==
  ASSUME NEW S, NEW n \in Nat, NEW f \in [1 .. n -> S]
  PROVE  f \in Seq(S) /\ Len(f) = n /\ \A i \in 1 .. n : f[i] \in S
OBVIOUS

LEMMA PowerPositive ==
  ASSUME NEW base \in Nat \ {0}, NEW n \in Nat
  PROVE  Power(base, n) \in Nat \ {0}
<1> DEFINE T == {i \in Nat : Power(base, i) \in Nat \ {0}}
<1>1. 0 \in T
  BY PowerFacts
<1>2. ASSUME NEW i \in Nat, i \in T PROVE i + 1 \in T
  <2>1. Power(base, i + 1) = base * Power(base, i)
    BY PowerFacts
  <2>2. \A x \in Nat \ {0}, y \in Nat \ {0} : x * y \in Nat \ {0}
    OBVIOUS
  <2> QED
    BY <1>2, <2>1, <2>2
<1> HIDE DEF T
<1>3. n \in T
  BY <1>1, <1>2, Counting
<1> QED
  BY <1>3 DEF T

\* The digit of n before the last k - i ones of k.
Digit(n, base, k, i) == (n \div Power(base, k - i)) % base

LEMMA DigitRange ==
  ASSUME NEW n \in Int, NEW base \in Nat \ {0}, NEW k \in Nat, NEW i \in 0 .. k
  PROVE  Digit(n, base, k, i) \in 0 .. base - 1
<1>1. PICK p \in Nat \ {0} : p = Power(base, k - i)
  <2>1. k - i \in Nat
    OBVIOUS
  <2> QED
    BY <2>1, PowerPositive
<1>2. PICK q \in Int : q = n \div p
  BY <1>1
<1>3. q % base \in 0 .. base - 1
  BY <1>2
<1> QED
  BY <1>1, <1>2, <1>3 DEF Digit

\* The bytes of an int, of which one is enough for 0.
IntBytesAre(n, k) == IntBytesOf(n) = [i \in 1 .. k |-> Digit(n, 256, k, i)]

LEMMA IntWidth ==
  ASSUME NEW n, IntOK(n)
  PROVE  \E k \in 1 .. IntBytes : FitsBytes(n, k) /\ IntBytesAre(n, k) /\ (n = 0 => k = 1)
<1> DEFINE S == {k \in Nat : k \in 1 .. IntBytes /\ FitsBytes(n, k)}
<1>1. IntBytes \in S
  BY FrameAssumption DEF IntOK
<1> HIDE DEF S
<1>2. PICK k \in S : \A j \in S : k <= j
  <2>1. S \in SUBSET Nat /\ S # {}
    BY <1>1 DEF S
  <2> QED
    BY <2>1, Least
<1>3. k \in 1 .. IntBytes /\ FitsBytes(n, k) /\ IntBytes \in Nat
  BY <1>2, FrameAssumption DEF S
<1>4. k = 1 \/ ~ FitsBytes(n, k - 1)
  <2>1. k # 1 => k - 1 \in 1 .. IntBytes /\ k - 1 \in Nat /\ ~ k <= k - 1
    BY <1>3
  <2> QED
    BY <1>2, <2>1 DEF S
<1> DEFINE j == CHOOSE j \in 1 .. IntBytes : FitsBytes(n, j) /\ (j = 1 \/ ~ FitsBytes(n, j - 1))
<1>5. j \in 1 .. IntBytes /\ FitsBytes(n, j) /\ (j = 1 \/ ~ FitsBytes(n, j - 1))
  BY <1>3, <1>4
<1>6. IntBytesAre(n, j)
  BY Zenon DEF IntBytesOf, IntBytesAre, Digit
<1> HIDE DEF j
<1>7. n = 0 => j = 1
  <2>1. j # 1 => j - 1 \in Nat
    BY <1>5
  <2>2. \A q \in Nat \ {0} : 2 * 0 \in -q .. q - 1
    OBVIOUS
  <2>3. j # 1 => FitsBytes(0, j - 1)
    <3>1. 256 \in Nat \ {0}
      OBVIOUS
    <3>2. j # 1 => Power(256, j - 1) \in Nat \ {0}
      BY <2>1, <3>1, PowerPositive
    <3> QED
      BY <2>2, <3>2, Zenon DEF FitsBytes
  <2> QED
    BY <1>5, <2>3
<1> QED
  BY <1>5, <1>6, <1>7

LEMMA IntBytesSeq ==
  ASSUME NEW n, IntOK(n)
  PROVE  IntBytesOf(n) \in Seq(Byte)
<1>1. PICK k \in 1 .. IntBytes : IntBytesAre(n, k)
  BY IntWidth
<1>2. n \in Int /\ k \in Nat /\ 256 \in Nat \ {0}
  BY <1>1, FrameAssumption DEF IntOK
<1>3. ASSUME NEW i \in 1 .. k PROVE Digit(n, 256, k, i) \in Byte
  <2>1. i \in 0 .. k
    BY <1>2
  <2>2. Digit(n, 256, k, i) \in 0 .. 256 - 1
    BY <1>2, <2>1, DigitRange
  <2>3. \A x \in 0 .. 256 - 1 : x \in Byte
    BY DEF Byte
  <2> QED
    BY <2>2, <2>3, Zenon
<1> DEFINE f == [i \in 1 .. k |-> Digit(n, 256, k, i)]
<1>4. f \in [1 .. k -> Byte]
  BY <1>3, Zenon
<1>5. IntBytesOf(n) = f
  BY <1>1, Zenon DEF IntBytesAre
<1> HIDE DEF f
<1> QED
  BY <1>2, <1>4, <1>5, FunctionSeq

\* An arc of up to eight digits has so many that it needs.
LEMMA DigitsFacts ==
  ASSUME NEW n \in Nat, \E k \in 1 .. 8 : n < Power(128, k)
  PROVE  Digits(n, 128) \in 1 .. 8 /\ n < Power(128, Digits(n, 128))
<1> DEFINE S == {k \in Nat : k \in 1 .. 8 /\ n < Power(128, k)}
<1>1. S # {}
  OBVIOUS
<1>2. PICK k \in S : \A j \in S : k <= j
  BY <1>1, Least
<1>3. k = 1 \/ n >= Power(128, k - 1)
  <2>1. k - 1 \notin S /\ k \in 1 .. 8
    BY <1>2
  <2>2. k # 1 => k - 1 \in 1 .. 8 /\ k - 1 \in Nat
    BY <2>1
  <2>3. k # 1 => Power(128, k - 1) \in Nat
    BY <2>2, PowerFacts
  <2> QED
    BY <2>1, <2>2, <2>3
<1>4. k \in 1 .. 8 /\ n < Power(128, k)
  BY <1>2
<1> QED
  BY <1>3, <1>4 DEF Digits

LEMMA ArcBytesSeq ==
  ASSUME NEW n \in Nat, \E k \in 1 .. 8 : n < Power(128, k)
  PROVE  ArcBytes(n) \in Seq(Byte)
<1>1. PICK k \in 1 .. 8 : k = Digits(n, 128)
  BY DigitsFacts
<1>2. k \in Nat /\ n \in Int /\ 128 \in Nat \ {0}
  OBVIOUS
<1>3. ASSUME NEW i \in 1 .. k PROVE Digit(n, 128, k, i) + (IF i < k THEN 128 ELSE 0) \in Byte
  <2>1. i \in 0 .. k
    BY <1>2
  <2>2. Digit(n, 128, k, i) \in 0 .. 128 - 1
    BY <1>2, <2>1, DigitRange
  <2>3. \A x \in 0 .. 128 - 1 : x + 128 \in Byte /\ x + 0 \in Byte
    BY DEF Byte
  <2> QED
    BY <2>2, <2>3, Zenon
<1> DEFINE f == [i \in 1 .. k |-> Digit(n, 128, k, i) + (IF i < k THEN 128 ELSE 0)]
<1>4. f \in [1 .. k -> Byte]
  BY <1>3, Zenon
<1>5. ArcBytes(n) = f
  BY <1>1, Zenon DEF ArcBytes, Digit
<1> HIDE DEF f
<1> QED
  BY <1>2, <1>4, <1>5, FunctionSeq

\* An object identifier is sent in at least a byte.
LEMMA OidBytesSeq ==
  ASSUME NEW oid, OidOK(oid)
  PROVE  OidBytes(oid) \in Seq(Byte)
<1>1. /\ oid \in Seq(Nat) /\ Len(oid) \in Nat /\ Len(oid) > 1 /\ oid[1] * 40 + oid[2] \in Byte
      /\ \A i \in 3 .. Len(oid) : \E k \in 1 .. 8 : oid[i] < Power(128, k)
  BY LenProperties DEF OidOK
<1> DEFINE arcs == [i \in 1 .. Len(oid) - 2 |-> ArcBytes(oid[i + 2])]
<1>2. ASSUME NEW i \in 1 .. Len(oid) - 2 PROVE ArcBytes(oid[i + 2]) \in Seq(Byte)
  <2>1. i + 2 \in 3 .. Len(oid) /\ i + 2 \in 1 .. Len(oid)
    BY <1>1
  <2>2. oid[i + 2] \in Nat /\ \E k \in 1 .. 8 : oid[i + 2] < Power(128, k)
    BY <1>1, <2>1, ElementOfSeq
  <2> QED
    BY <2>2, ArcBytesSeq
<1>3. arcs \in Seq(Seq(Byte))
  <2>1. Len(oid) - 2 \in Nat
    BY <1>1
  <2>2. arcs \in [1 .. Len(oid) - 2 -> Seq(Byte)]
    BY <1>2, Zenon
  <2> QED
    BY <2>1, <2>2, FunctionSeq, Zenon
<1> HIDE DEF arcs
<1>4. FlattenSeq(arcs) \in Seq(Byte)
  BY <1>3, FlattenFacts
<1> DEFINE b == <<oid[1] * 40 + oid[2]>>
<1>5. b \in Seq(Byte)
  BY <1>1
<1>6. OidBytes(oid) = b \o FlattenSeq(arcs)
  BY Zenon DEF OidBytes, arcs
<1> HIDE DEF b
<1> QED
  BY <1>4, <1>5, <1>6, ConcatProperties

LEMMA SendingFacts ==
  ASSUME NEW s \in Sendings
  PROVE  /\ MessageOK(s.message) /\ DamageOK(s) /\ s.lengths \in 0 .. 2 /\ Len(Encoded(s)) < 65536
         /\ IntBytes \in Nat \ {0}
         /\ IntOK(0)
<1>1. 0 \in Int /\ \A p \in Nat \ {0} : 2 * 0 \in -p .. p - 1
  OBVIOUS
<1>2. Power(256, IntBytes) \in Nat \ {0}
  <2>1. 256 \in Nat \ {0} /\ IntBytes \in Nat
    BY FrameAssumption
  <2> QED
    BY <2>1, PowerPositive
<1>3. IntOK(0)
  BY <1>1, <1>2, Zenon DEF IntOK, FitsBytes
<1> QED
  BY <1>3, FrameAssumption

\* The elements of a sequence are those of the message, but for one that is missing at the end
\* or one that is added there.
LEMMA ElementsFacts ==
  ASSUME NEW S, NEW s, NEW at, NEW list \in Seq(S), Integer(s, 0) \in S, Hit(s, "few", at) => list # <<>>
  PROVE  /\ Elements(s, at, list) \in Seq(S)
         /\ Len(list) \in Nat
         /\ Hit(s, "few", at) => Len(Elements(s, at, list)) = Len(list) - 1
         /\ Hit(s, "many", at) => /\ Len(Elements(s, at, list)) = Len(list) + 1
                                  /\ Elements(s, at, list)[Len(list) + 1] = Integer(s, 0)
         /\ ~ Hit(s, "few", at) /\ ~ Hit(s, "many", at) => Elements(s, at, list) = list
         /\ \A i \in 1 .. Len(list) : i <= Len(Elements(s, at, list)) => Elements(s, at, list)[i] = list[i]
<1> DEFINE e == Elements(s, at, list)
<1>1. Len(list) \in Nat
  OBVIOUS
<1>2. CASE Hit(s, "few", at)
  <2>1. e = Front(list) /\ ~ Hit(s, "many", at)
    BY <1>2 DEF Elements, Hit
  <2>2. e = SubSeq(list, 1, Len(list) - 1) /\ Len(list) >= 1
    BY <1>1, <1>2, <2>1, EmptySeq DEF Front
  <2>3. \A i \in 1 .. Len(list) - 1 : list[i] \in S
    BY <1>1, ElementOfSeq
  <2>4. e \in Seq(S) /\ Len(e) = Len(list) - 1 /\ \A i \in 1 .. Len(list) - 1 : e[i] = list[i]
    <3> DEFINE n == Len(list) - 1
    <3>1. n \in Int /\ n \in Nat /\ 1 \in Int /\ e = SubSeq(list, 1, n) /\ \A i \in 1 .. n : list[i] \in S
      BY <1>1, <2>2, <2>3
    <3> HIDE DEF n, e
    <3>2. /\ SubSeq(list, 1, n) \in Seq(S)
          /\ Len(SubSeq(list, 1, n)) = n
          /\ \A i \in 1 .. n : SubSeq(list, 1, n)[i] = list[i]
      BY <3>1, SubSeqProperties
    <3> QED
      BY <3>1, <3>2 DEF n
  <2> QED
    BY <1>1, <1>2, <2>1, <2>4
<1>3. CASE Hit(s, "many", at)
  <2>1. e = Append(list, Integer(s, 0)) /\ ~ Hit(s, "few", at)
    BY <1>3 DEF Elements, Hit
  <2>2. e \in Seq(S) /\ Len(e) = Len(list) + 1 /\ e[Len(list) + 1] = Integer(s, 0) /\ \A i \in 1 .. Len(list) : e[i] = list[i]
    BY <2>1, AppendProperties
  <2> QED
    BY <1>1, <1>3, <2>1, <2>2
<1>4. CASE ~ Hit(s, "few", at) /\ ~ Hit(s, "many", at)
  <2>1. e = list
    BY <1>4 DEF Elements
  <2> QED
    BY <1>1, <1>4, <2>1
<1> QED
  BY <1>2, <1>3, <1>4

\* What stands in the sequences of a message.
IdBytes(s) ==
  CASE s.damage.kind = "long" -> [i \in 1 .. IntBytes + 1 |-> IF i \in 2 .. IntBytes THEN 0 ELSE 1]
    [] s.damage.kind = "negative" -> [i \in 1 .. IntBytes + 1 |-> 255]
    [] OTHER -> IntBytesOf(s.message.id)

OidElement(s, b)   == Element(s, 0, TagOf(s, "oid", 6), OidBytes(b.oid))
ValueElement(s, b) == Element(s, b.class, b.tag, b.bytes)
BindElement(s, b)  == Element(s, 0, 48, FlattenSeq(OfBind(s, b)))
IdElement(s)       == Element(s, 0, TagOf(s, "id", 2), IdBytes(s))
BindsElement(s)    == Element(s, 0, TagOf(s, "binds", 48), FlattenSeq(OfBinds(s)))
Community(s)       == Element(s, 0, TagOf(s, "community", 4), s.message.community)
PduElement(s)      == Element(s, 2, s.message.tag, Shortened(s, FlattenSeq(OfPdu(s))))

BindList(s, b)  == <<OidElement(s, b), ValueElement(s, b)>>
BindsList(s)    == [i \in DOMAIN s.message.binds |-> BindElement(s, s.message.binds[i])]
PduList(s)      == <<IdElement(s), Integer(s, s.message.status), Integer(s, s.message.index), BindsElement(s)>>
MessageList(s)  == <<Integer(s, s.message.version), Community(s), PduElement(s)>>

LEMMA Lists ==
  ASSUME NEW s
  PROVE  /\ \A b : OfBind(s, b) = Elements(s, "bind", BindList(s, b))
         /\ OfBinds(s) = Elements(s, "binds", BindsList(s))
         /\ OfPdu(s) = Elements(s, "pdu", PduList(s))
         /\ OfMessage(s) = Elements(s, "message", MessageList(s))
<1>1. ASSUME NEW b PROVE OfBind(s, b) = Elements(s, "bind", BindList(s, b))
  BY Zenon DEF OfBind, BindList, OidElement, ValueElement
<1>2. OfBinds(s) = Elements(s, "binds", BindsList(s))
  BY Zenon DEF OfBinds, BindsList, BindElement
<1>3. OfPdu(s) = Elements(s, "pdu", PduList(s))
  BY Zenon DEF OfPdu, PduList, RequestId, IdElement, BindsElement, IdBytes
<1>4. OfMessage(s) = Elements(s, "message", MessageList(s))
  BY Zenon DEF OfMessage, MessageList, Community, PduElement
<1> QED
  BY <1>1, <1>2, <1>3, <1>4, Zenon

LEMMA IdBytesSeq ==
  ASSUME NEW s \in Sendings
  PROVE  IdBytes(s) \in Seq(Byte)
<1>1. IntBytes + 1 \in Nat /\ IntBytesOf(s.message.id) \in Seq(Byte)
  BY SendingFacts, IntBytesSeq DEF MessageOK
<1> DEFINE f == [i \in 1 .. IntBytes + 1 |-> IF i \in 2 .. IntBytes THEN 0 ELSE 1]
           g == [i \in 1 .. IntBytes + 1 |-> 255]
<1>2. f \in [1 .. IntBytes + 1 -> Byte] /\ g \in [1 .. IntBytes + 1 -> Byte]
  BY DEF Byte
<1>3. IdBytes(s) = f \/ IdBytes(s) = g \/ IdBytes(s) = IntBytesOf(s.message.id)
  <2>1. CASE s.damage.kind = "long"
    BY <2>1 DEF IdBytes
  <2>2. CASE s.damage.kind = "negative"
    BY <2>2 DEF IdBytes
  <2>3. CASE s.damage.kind # "long" /\ s.damage.kind # "negative"
    BY <2>3 DEF IdBytes
  <2> QED
    BY <2>1, <2>2, <2>3
<1> HIDE DEF f, g
<1>4. f \in Seq(Byte) /\ g \in Seq(Byte)
  BY <1>1, <1>2, FunctionSeq
<1> QED
  BY <1>1, <1>3, <1>4

\* All but the last.
LEMMA FrontFacts ==
  ASSUME NEW S, NEW x \in Seq(S)
  PROVE  /\ Front(x) \in Seq(S)
         /\ Len(x) \in Nat
         /\ x # <<>> => /\ Len(Front(x)) = Len(x) - 1 /\ Len(x) >= 1
                        /\ \A i \in 1 .. Len(x) - 1 : Front(x)[i] = x[i]
<1> DEFINE n == Len(x) - 1
<1>1. Len(x) \in Nat /\ 1 \in Int /\ n \in Int /\ n < Len(x) /\ (x # <<>> => n \in Nat)
  BY EmptySeq, LenProperties
<1>2. \A i \in 1 .. n : x[i] \in S
  BY <1>1, ElementOfSeq
<1>3. Front(x) = SubSeq(x, 1, n)
  BY DEF Front
<1> HIDE DEF n
<1>4. /\ SubSeq(x, 1, n) \in Seq(S)
      /\ Len(SubSeq(x, 1, n)) = IF 1 <= n THEN n - 1 + 1 ELSE 0
      /\ \A i \in 1 .. n - 1 + 1 : SubSeq(x, 1, n)[i] = x[1 + i - 1]
  BY <1>1, <1>2, SubSeqProperties
<1>5. \A i \in 1 .. n : SubSeq(x, 1, n)[i] = x[i]
  BY <1>1, <1>4
<1>6. x # <<>> => n \in Nat /\ n = Len(x) - 1 /\ Len(x) >= 1
  BY <1>1 DEF n
<1>7. x # <<>> => Len(SubSeq(x, 1, n)) = n
  <2>1. \A m \in Nat : (IF 1 <= m THEN m - 1 + 1 ELSE 0) = m
    OBVIOUS
  <2> QED
    BY <1>4, <1>6, <2>1, Zenon
<1>8. x # <<>> => /\ Len(Front(x)) = Len(x) - 1
                  /\ \A i \in 1 .. Len(x) - 1 : Front(x)[i] = x[i]
  BY <1>3, <1>5, <1>6, <1>7
<1> QED
  BY <1>1, <1>3, <1>4, <1>6, <1>8

LEMMA TagFacts ==
  ASSUME NEW s, NEW at, NEW tag \in 0 .. 63
  PROVE  TagOf(s, at, tag) \in 0 .. 63
BY DEF TagOf

LEMMA ElementIn ==
  ASSUME NEW S, TlvIn(S), NEW s \in Sendings, NEW class \in 0 .. 3, NEW tag \in 0 .. 63, NEW bytes \in Seq(S)
  PROVE  Element(s, class, tag, bytes) \in Seq(S)
<1>1. s.lengths \in 0 .. 2
  BY SendingFacts
<1> QED
  BY <1>1, Zenon DEF Element, TlvIn

LEMMA IntegerIn ==
  ASSUME NEW S, TlvIn(S), Seq(Byte) \subseteq Seq(S), NEW s \in Sendings, NEW n, IntOK(n)
  PROVE  Integer(s, n) \in Seq(S)
<1>1. IntBytesOf(n) \in Seq(S) /\ 0 \in 0 .. 3 /\ 2 \in 0 .. 63
  BY IntBytesSeq
<1> QED
  BY <1>1, ElementIn, Zenon DEF Integer

\* The elements of a message, and what is joined of them, are sequences.
LEMMA ListsIn ==
  ASSUME NEW S, TlvIn(S), Seq(Byte) \subseteq Seq(S), NEW s \in Sendings
  PROVE  /\ \A i \in DOMAIN s.message.binds : /\ BindList(s, s.message.binds[i]) \in Seq(Seq(S))
                                              /\ OfBind(s, s.message.binds[i]) \in Seq(Seq(S))
         /\ BindsList(s) \in Seq(Seq(S)) /\ OfBinds(s) \in Seq(Seq(S))
         /\ PduList(s) \in Seq(Seq(S)) /\ OfPdu(s) \in Seq(Seq(S))
         /\ MessageList(s) \in Seq(Seq(S)) /\ OfMessage(s) \in Seq(Seq(S))
         /\ Encoded(s) \in Seq(S)
<1> DEFINE V == Seq(S)
<1>1. 0 \in 0 .. 3 /\ 2 \in 0 .. 3 /\ 2 \in 0 .. 63 /\ 6 \in 0 .. 63 /\ 4 \in 0 .. 63 /\ 48 \in 0 .. 63
  OBVIOUS
<1>2. MessageOK(s.message) /\ DamageOK(s) /\ IntOK(0)
  BY SendingFacts
<1>3. Integer(s, 0) \in V
  BY <1>2, IntegerIn
<1>4. \A ss \in Seq(V) : FlattenSeq(ss) \in V
  BY FlattenFacts
<1>5. ASSUME NEW i \in DOMAIN s.message.binds
      PROVE  BindList(s, s.message.binds[i]) \in Seq(V) /\ OfBind(s, s.message.binds[i]) \in Seq(V)
  <2>1. PICK b : b = s.message.binds[i]
    OBVIOUS
  <2>2. BindOK(b)
    BY <1>2, <2>1 DEF MessageOK
  <2>3. OidBytes(b.oid) \in V /\ b.class \in 0 .. 3 /\ b.tag \in 0 .. 63 /\ b.bytes \in V
    BY <2>2, OidBytesSeq DEF BindOK
  <2>4. TagOf(s, "oid", 6) \in 0 .. 63
    BY <1>1, TagFacts
  <2>5. OidElement(s, b) \in V /\ ValueElement(s, b) \in V
    BY <1>1, <2>3, <2>4, ElementIn, Zenon DEF OidElement, ValueElement
  <2> HIDE DEF V
  <2>6. BindList(s, b) \in Seq(V) /\ BindList(s, b) # <<>>
    BY <2>5 DEF BindList
  <2>7. OfBind(s, b) \in Seq(V)
    BY <1>3, <2>6, Lists, ElementsFacts
  <2> QED
    BY <2>1, <2>6, <2>7
<1>6. BindsList(s) \in Seq(V) /\ OfBinds(s) \in Seq(V)
  <2>1. ~ Hit(s, "few", "binds")
    BY <1>2 DEF DamageOK, Hit, Whole
  <2>2. DOMAIN s.message.binds = 1 .. Len(s.message.binds) /\ Len(s.message.binds) \in Nat
    BY <1>2, LenProperties DEF MessageOK
  <2>3. \A i \in DOMAIN s.message.binds : BindElement(s, s.message.binds[i]) \in V
    <3> TAKE i \in DOMAIN s.message.binds
    <3>1. FlattenSeq(OfBind(s, s.message.binds[i])) \in V
      BY <1>4, <1>5
    <3> QED
      BY <1>1, <3>1, ElementIn, Zenon DEF BindElement
  <2> HIDE DEF V
  <2>4. BindsList(s) \in [1 .. Len(s.message.binds) -> V]
    BY <2>2, <2>3, Zenon DEF BindsList
  <2>5. BindsList(s) \in Seq(V)
    BY <2>2, <2>4, FunctionSeq
  <2> QED
    BY <1>3, <2>1, <2>5, Lists, ElementsFacts
<1>7. PduList(s) \in Seq(V) /\ OfPdu(s) \in Seq(V)
  <2>1. IdElement(s) \in V
    <3>1. TagOf(s, "id", 2) \in 0 .. 63 /\ IdBytes(s) \in V
      BY <1>1, TagFacts, IdBytesSeq
    <3> QED
      BY <1>1, <3>1, ElementIn, Zenon DEF IdElement
  <2>2. Integer(s, s.message.status) \in V /\ Integer(s, s.message.index) \in V
    BY <1>2, IntegerIn DEF MessageOK
  <2>3. BindsElement(s) \in V
    <3>1. TagOf(s, "binds", 48) \in 0 .. 63 /\ FlattenSeq(OfBinds(s)) \in V
      BY <1>1, <1>4, <1>6, TagFacts
    <3> QED
      BY <1>1, <3>1, ElementIn, Zenon DEF BindsElement
  <2> HIDE DEF V
  <2>4. PduList(s) \in Seq(V) /\ PduList(s) # <<>>
    BY <2>1, <2>2, <2>3 DEF PduList
  <2> QED
    BY <1>3, <2>4, Lists, ElementsFacts
<1>8. MessageList(s) \in Seq(V) /\ OfMessage(s) \in Seq(V)
  <2>1. Integer(s, s.message.version) \in V
    BY <1>2, IntegerIn DEF MessageOK
  <2>2. Community(s) \in V
    <3>1. TagOf(s, "community", 4) \in 0 .. 63 /\ s.message.community \in V
      BY <1>1, <1>2, TagFacts DEF MessageOK
    <3> QED
      BY <1>1, <3>1, ElementIn, Zenon DEF Community
  <2>3. PduElement(s) \in V
    <3>1. FlattenSeq(OfPdu(s)) \in V /\ s.message.tag \in 0 .. 63
      BY <1>2, <1>4, <1>7 DEF MessageOK
    <3>2. Shortened(s, FlattenSeq(OfPdu(s))) \in V
      BY <3>1, FrontFacts DEF Shortened
    <3> QED
      BY <1>1, <3>1, <3>2, ElementIn, Zenon DEF PduElement
  <2> HIDE DEF V
  <2>4. MessageList(s) \in Seq(V) /\ MessageList(s) # <<>>
    BY <2>1, <2>2, <2>3 DEF MessageList
  <2> QED
    BY <1>3, <2>4, Lists, ElementsFacts
<1>9. Encoded(s) \in V
  <2>1. FlattenSeq(OfMessage(s)) \in V
    BY <1>4, <1>8
  <2> QED
    BY <1>1, <2>1, ElementIn, Zenon DEF Encoded
<1> QED
  BY <1>5, <1>6, <1>7, <1>8, <1>9

-----------------------------------------------------------------------------
(* What is left after the first elements                                    *)

Left(list, k) == FlattenSeq(SubSeq(list, k + 1, Len(list)))

LEMMA LeftFacts ==
  ASSUME NEW S, NEW list \in Seq(Seq(S))
  PROVE  /\ Left(list, 0) = FlattenSeq(list)
         /\ Left(list, Len(list)) = <<>>
         /\ \A k \in 0 .. Len(list) : Left(list, k) \in Seq(S)
         /\ \A k \in 0 .. Len(list) - 1 : Left(list, k) = list[k + 1] \o Left(list, k + 1)
<1> DEFINE V == Seq(S)  n == Len(list)
<1>1. n \in Nat /\ \A i \in 1 .. n : list[i] \in V
  BY ElementOfSeq, LenProperties
<1> HIDE DEF V, n
<1>2. ASSUME NEW k \in 0 .. n
      PROVE  /\ SubSeq(list, k + 1, n) \in Seq(V)
             /\ Len(SubSeq(list, k + 1, n)) = n - k
             /\ \A i \in 1 .. n - k : SubSeq(list, k + 1, n)[i] = list[k + i]
  <2>1. k + 1 \in Int /\ n \in Int /\ \A i \in k + 1 .. n : list[i] \in V
    BY <1>1
  <2>2. /\ SubSeq(list, k + 1, n) \in Seq(V)
        /\ Len(SubSeq(list, k + 1, n)) = IF k + 1 <= n THEN n - (k + 1) + 1 ELSE 0
        /\ \A i \in 1 .. n - (k + 1) + 1 : SubSeq(list, k + 1, n)[i] = list[k + 1 + i - 1]
    BY <2>1, SubSeqProperties
  <2>3. (IF k + 1 <= n THEN n - (k + 1) + 1 ELSE 0) = n - k
    BY <1>1
  <2>4. \A i \in 1 .. n - k : i \in 1 .. n - (k + 1) + 1 /\ k + 1 + i - 1 = k + i
    BY <1>1
  <2> QED
    BY <2>2, <2>3, <2>4
<1>3. \A ss \in Seq(V) : FlattenSeq(ss) \in V
  BY FlattenFacts DEF V
<1>4. ASSUME NEW k \in 0 .. n PROVE Left(list, k) \in V
  BY <1>2, <1>3 DEF Left, n
<1>5. Left(list, 0) = FlattenSeq(list)
  <2>1. SubSeq(list, 1, Len(list)) = list /\ 0 + 1 = 1
    BY SubSeqFull
  <2> QED
    BY <2>1, Zenon DEF Left
<1>6. Left(list, n) = <<>>
  <2>1. SubSeq(list, n + 1, n) = <<>>
    BY <1>1, SubSeqEmpty
  <2> QED
    BY <2>1, FlattenFacts DEF Left, n
<1>7. ASSUME NEW k \in 0 .. n - 1 PROVE Left(list, k) = list[k + 1] \o Left(list, k + 1)
  <2>1. k \in 0 .. n /\ k + 1 \in 0 .. n /\ n - k >= 1 /\ n - k \in Nat /\ 1 \in 1 .. n - k
    BY <1>1
  <2>2. PICK a \in Seq(V) : a = SubSeq(list, k + 1, n)
    BY <1>2, <2>1
  <2>3. PICK b \in Seq(V) : b = SubSeq(list, k + 1 + 1, n)
    BY <1>2, <2>1
  <2>4. Len(a) = n - k /\ \A i \in 1 .. n - k : a[i] = list[k + i]
    BY <1>2, <2>1, <2>2
  <2>5. Len(b) = n - (k + 1) /\ \A i \in 1 .. n - (k + 1) : b[i] = list[k + 1 + i]
    BY <1>2, <2>1, <2>3
  <2>6. a # <<>> /\ a[1] = list[k + 1]
    BY <2>1, <2>4
  <2>7. Tail(a) = b
    <3>1. /\ Tail(a) \in Seq(V) /\ Len(Tail(a)) = Len(a) - 1
          /\ \A i \in 1 .. Len(a) - 1 : Tail(a)[i] = a[i + 1]
      BY <2>6, HeadTailProperties
    <3>2. Len(Tail(a)) = Len(b)
      BY <1>1, <2>4, <2>5, <3>1
    <3>3. ASSUME NEW i \in 1 .. Len(b) PROVE Tail(a)[i] = b[i]
      <4>1. i \in 1 .. Len(a) - 1 /\ i + 1 \in 1 .. n - k /\ i \in 1 .. n - (k + 1) /\ k + (i + 1) = k + 1 + i
        BY <1>1, <2>4, <2>5
      <4> QED
        BY <2>4, <2>5, <3>1, <4>1
    <3> QED
      BY <3>1, <3>2, <3>3, SeqEqual
  <2>8. FlattenSeq(a) = a[1] \o FlattenSeq(Tail(a))
    <3>1. a \in Seq(Seq(S))
      BY DEF V
    <3> QED
      BY <2>6, <3>1, FlattenFacts
  <2> QED
    BY <2>2, <2>3, <2>6, <2>7, <2>8 DEF Left, n
<1> QED
  BY <1>4, <1>5, <1>6, <1>7 DEF V, n

\* An element is no longer than what it is in.
LEMMA PartSize ==
  ASSUME NEW S, NEW list \in Seq(Seq(S)), NEW i \in 1 .. Len(list)
  PROVE  Len(FlattenSeq(list)) \in Nat /\ Len(list[i]) \in Nat /\ Len(list[i]) <= Len(FlattenSeq(list))
<1>1. PICK f \in [0 .. Len(list) -> Seq(S)] : Joining(f, list)
  BY JoiningExists
<1>2. Len(list) \in Nat /\ list[i] \in Seq(S) /\ Len(list[i]) \in Nat
  BY ElementOfSeq, LenProperties
<1> DEFINE T == {j \in Nat : i + j <= Len(list) => Len(list[i]) <= Len(f[i + j])}
<1>3. \A j \in 1 .. Len(list) : /\ f[j] = f[j - 1] \o list[j] /\ list[j] \in Seq(S) /\ f[j - 1] \in Seq(S)
                                /\ Len(f[j]) = Len(f[j - 1]) + Len(list[j])
                                /\ Len(f[j - 1]) \in Nat /\ Len(list[j]) \in Nat
  <2> TAKE j \in 1 .. Len(list)
  <2>1. f[j] = f[j - 1] \o list[j]
    BY <1>1 DEF Joining
  <2>2. j - 1 \in 0 .. Len(list)
    BY <1>2
  <2>3. list[j] \in Seq(S) /\ f[j - 1] \in Seq(S)
    BY <2>2, ElementOfSeq
  <2>4. Len(f[j - 1] \o list[j]) = Len(f[j - 1]) + Len(list[j])
    BY <2>3, ConcatProperties
  <2> QED
    BY <2>1, <2>3, <2>4, LenProperties
<1>4. 0 \in T
  <2>1. i + 0 = i /\ \A x, y \in Nat : y <= x + y
    BY <1>2
  <2> QED
    BY <1>3, <2>1
<1>5. ASSUME NEW j \in Nat, j \in T PROVE j + 1 \in T
  <2>1. SUFFICES ASSUME i + (j + 1) <= Len(list) PROVE Len(list[i]) <= Len(f[i + (j + 1)])
    OBVIOUS
  <2>2. i + (j + 1) \in 1 .. Len(list) /\ i + (j + 1) - 1 = i + j /\ i + j <= Len(list)
    BY <1>2, <2>1
  <2>3. Len(list[i]) <= Len(f[i + j])
    BY <1>5, <2>2
  <2>4. /\ Len(f[i + (j + 1)]) = Len(f[i + j]) + Len(list[i + (j + 1)])
        /\ Len(f[i + j]) \in Nat /\ Len(list[i + (j + 1)]) \in Nat
    <3>1. PICK m \in 1 .. Len(list) : m = i + (j + 1) /\ m - 1 = i + j
      BY <2>2
    <3>2. Len(f[m]) = Len(f[m - 1]) + Len(list[m]) /\ Len(f[m - 1]) \in Nat /\ Len(list[m]) \in Nat
      BY <1>3
    <3> QED
      BY <3>1, <3>2, Zenon
  <2>5. \A x, y, z \in Nat : x <= y => x <= y + z
    OBVIOUS
  <2> QED
    BY <1>2, <2>3, <2>4, <2>5
<1> HIDE DEF T
<1>6. Len(list) - i \in T
  <2>1. Len(list) - i \in Nat
    BY <1>2
  <2> QED
    BY <1>4, <1>5, <2>1, Counting
<1>7. i + (Len(list) - i) = Len(list) /\ Len(list) \in 0 .. Len(list)
  BY <1>2
<1>8. FlattenSeq(list) = f[Len(list)] /\ f[Len(list)] \in Seq(S)
  BY <1>1, <1>7, FlattenIs
<1> QED
  BY <1>2, <1>6, <1>7, <1>8, LenProperties DEF T

LEMMA LengthsFacts ==
  /\ \A n \in Lengths : n \in Nat /\ \A m \in Nat : m <= n => m \in Lengths
  /\ \A n \in Nat : n < 65536 => n \in Lengths
BY DEF Lengths

LEMMA FrontConcat ==
  ASSUME NEW S, NEW x \in Seq(S), NEW y \in Seq(S), y # <<>>
  PROVE  Front(x \o y) = x \o Front(y)
<1>1. /\ x \o y \in Seq(S) /\ Len(x \o y) = Len(x) + Len(y) /\ Len(x) \in Nat /\ Len(y) \in Nat
      /\ \A i \in 1 .. Len(x) + Len(y) : (x \o y)[i] = IF i <= Len(x) THEN x[i] ELSE y[i - Len(x)]
  BY ConcatProperties, LenProperties
<1>2. Front(y) \in Seq(S) /\ Len(Front(y)) = Len(y) - 1 /\ Len(y) >= 1 /\ \A i \in 1 .. Len(y) - 1 : Front(y)[i] = y[i]
  BY FrontFacts
<1>3. /\ x \o Front(y) \in Seq(S) /\ Len(x \o Front(y)) = Len(x) + Len(Front(y))
      /\ \A i \in 1 .. Len(x) + Len(Front(y)) :
           (x \o Front(y))[i] = IF i <= Len(x) THEN x[i] ELSE Front(y)[i - Len(x)]
  BY <1>2, ConcatProperties
<1> DEFINE j == x \o y  a == Front(j)  b == x \o Front(y)
<1>4. j # <<>> /\ j \in Seq(S) /\ Len(j) = Len(x) + Len(y)
  BY <1>1, <1>2
<1> HIDE DEF j
<1>5. /\ a \in Seq(S) /\ Len(a) = Len(j) - 1 /\ \A i \in 1 .. Len(j) - 1 : a[i] = j[i]
  BY <1>4, FrontFacts
<1> HIDE DEF a, b
<1>6. Len(a) = Len(b) /\ Len(b) = Len(x) + Len(y) - 1 /\ b \in Seq(S)
  BY <1>1, <1>2, <1>3, <1>4, <1>5 DEF b
<1>7. ASSUME NEW i \in 1 .. Len(b) PROVE a[i] = b[i]
  <2>1. i \in 1 .. Len(j) - 1 /\ i \in 1 .. Len(x) + Len(y) /\ i \in 1 .. Len(x) + Len(Front(y))
    BY <1>1, <1>2, <1>4, <1>6
  <2>2. a[i] = IF i <= Len(x) THEN x[i] ELSE y[i - Len(x)]
    BY <1>1, <1>5, <2>1 DEF j
  <2>3. b[i] = IF i <= Len(x) THEN x[i] ELSE Front(y)[i - Len(x)]
    BY <1>3, <2>1 DEF b
  <2>4. ~ i <= Len(x) => i - Len(x) \in 1 .. Len(y) - 1
    BY <1>1, <1>2, <1>6
  <2> QED
    BY <1>2, <2>2, <2>3, <2>4
<1>8. a = b
  BY <1>5, <1>6, <1>7, SeqEqual
<1> QED
  BY <1>8 DEF a, b, j

\* What Unmarshal takes from what is left is the next element.
TakesPart(list, k, class, tag, bytes) ==
  /\ Left(list, k) # <<>>
  /\ Len(bytes) \in Lengths /\ Len(bytes) + 2 <= Len(FlattenSeq(list))
  /\ Unmarshal(Left(list, k))
       = Value([class |-> class, tag |-> tag, bytes |-> bytes, tail |-> Left(list, k + 1)])
  /\ Left(list, k + 1) # <<>> =>
       Unmarshal(Front(Left(list, k)))
         = Value([class |-> class, tag |-> tag, bytes |-> bytes, tail |-> Front(Left(list, k + 1))])
  /\ Left(list, k + 1) = <<>> => Unmarshal(Front(Left(list, k))) = Refused

LEMMA ReadElement ==
  ASSUME NEW s \in Sendings, NEW list \in Seq(Seq(Nat)), Len(FlattenSeq(list)) \in Lengths,
         NEW k \in Nat, k < Len(list),
         NEW class \in 0 .. 3, NEW tag \in 0 .. 63, NEW bytes \in Seq(Nat), list[k + 1] = Element(s, class, tag, bytes)
  PROVE  TakesPart(list, k, class, tag, bytes)
<1>1. s.lengths \in 0 .. 2
  BY SendingFacts
<1> DEFINE e == Tlv(class, tag, bytes, s.lengths)
<1>2. /\ e \in Seq(Nat) /\ Len(bytes) \in Nat /\ Len(e) \in Nat
      /\ Len(bytes) + 2 <= Len(e)
  <2>1. \A c \in 0 .. 3, g \in 0 .. 63, b \in Seq(Nat), j \in 0 .. 2 :
          /\ Tlv(c, g, b, j) \in Seq(Nat) /\ Len(b) \in Nat /\ Len(Tlv(c, g, b, j)) \in Nat
          /\ Len(b) + 2 <= Len(Tlv(c, g, b, j))
    BY TlvSize DEF TlvIn
  <2> QED
    BY <1>1, <2>1, Zenon
<1>3. list[k + 1] = e
  BY Zenon DEF Element
<1> HIDE DEF e
<1>4. k + 1 \in 1 .. Len(list) /\ k \in 0 .. Len(list) - 1 /\ k + 1 \in 0 .. Len(list) /\ k \in 0 .. Len(list)
  BY LenProperties
<1>5. Len(FlattenSeq(list)) \in Nat /\ Len(e) <= Len(FlattenSeq(list))
  BY <1>3, <1>4, PartSize
<1>6. Len(bytes) \in Lengths /\ Len(bytes) + 2 <= Len(FlattenSeq(list))
  <2>1. Len(bytes) <= Len(FlattenSeq(list)) /\ Len(bytes) + 2 <= Len(FlattenSeq(list))
    BY <1>2, <1>5
  <2> QED
    BY <1>2, <2>1, LengthsFacts
<1> DEFINE l == Left(list, k)  r == Left(list, k + 1)
<1>7. l = e \o r /\ r \in Seq(Nat) /\ l \in Seq(Nat)
  BY <1>3, <1>4, LeftFacts
<1> HIDE DEF l, r
<1>8. l # <<>>
  <2>1. Len(l) = Len(e) + Len(r) /\ Len(r) \in Nat
    BY <1>2, <1>7, ConcatProperties, LenProperties
  <2>2. Len(l) # 0
    BY <1>2, <2>1
  <2> QED
    BY <2>2
<1>9. ASSUME NEW rest \in Seq(Nat)
      PROVE  Unmarshal(e \o rest) = Value([class |-> class, tag |-> tag, bytes |-> bytes, tail |-> rest])
  BY <1>6, UnmarshalTlv DEF e
<1>10. Unmarshal(l) = Value([class |-> class, tag |-> tag, bytes |-> bytes, tail |-> r])
  BY <1>7, <1>9
<1>11. ASSUME r # <<>>
       PROVE  Unmarshal(Front(l)) = Value([class |-> class, tag |-> tag, bytes |-> bytes, tail |-> Front(r)])
  <2>1. Front(l) = e \o Front(r) /\ Front(r) \in Seq(Nat)
    BY <1>2, <1>7, <1>11, FrontConcat, FrontFacts
  <2> QED
    BY <1>9, <2>1
<1>12. ASSUME r = <<>> PROVE Unmarshal(Front(l)) = Refused
  <2>1. l = e
    BY <1>2, <1>7, <1>12, ConcatEmptySeq
  <2>2. PICK m \in Nat : m = Len(e) - 1 /\ m < Len(e)
    <3>1. \A x, y \in Nat : x + 2 <= y => y - 1 \in Nat /\ y - 1 < y
      OBVIOUS
    <3> QED
      BY <1>2, <3>1
  <2>3. Front(l) = SubSeq(e, 1, m)
    BY <2>1, <2>2 DEF Front
  <2>4. Unmarshal(SubSeq(e, 1, m)) = Refused
    BY <1>6, <2>2, UnmarshalCut DEF e
  <2> QED
    BY <2>3, <2>4
<1> QED
  BY <1>6, <1>8, <1>10, <1>11, <1>12 DEF TakesPart, l, r

-----------------------------------------------------------------------------
(* Digits                                                                   *)

LEMMA DivBounds ==
  ASSUME NEW n \in Int, NEW p \in Nat \ {0}
  PROVE  /\ n \div p \in Int /\ n % p \in 0 .. p - 1
         /\ n = (n \div p) * p + (n % p)
OBVIOUS

LEMMA Times ==
  /\ \A x \in Int, y \in Int, p \in Nat : x <= y => x * p <= y * p
  /\ \A x \in Int, y \in Int : x * y \in Int
  /\ \A x \in Nat, y \in Nat : x * y \in Nat
OBVIOUS

LEMMA DivIs ==
  ASSUME NEW n \in Int, NEW p \in Nat \ {0}, NEW q \in Int, q * p <= n, n < (q + 1) * p
  PROVE  n \div p = q /\ n % p = n - q * p
<1>1. PICK d \in Int, r \in 0 .. p - 1 : d = n \div p /\ r = n % p /\ n = d * p + r
  BY DivBounds
<1>2. (d + 1) * p = d * p + p /\ (q + 1) * p = q * p + p /\ d * p \in Int /\ q * p \in Int
  BY Times
<1>3. ~ d < q
  <2>1. d + 1 <= q => (d + 1) * p <= q * p
    BY Times
  <2> QED
    BY <1>1, <1>2, <2>1
<1>4. ~ q < d
  <2>1. q + 1 <= d => (q + 1) * p <= d * p
    BY Times
  <2> QED
    BY <1>1, <1>2, <2>1
<1>5. d = q
  BY <1>3, <1>4
<1> QED
  BY <1>1, <1>2, <1>5

LEMMA DivDiv ==
  ASSUME NEW n \in Int, NEW p \in Nat \ {0}, NEW b \in Nat \ {0}
  PROVE  n \div (b * p) = (n \div p) \div b
<1>1. PICK d \in Int, r \in 0 .. p - 1 : d = n \div p /\ n = d * p + r
  BY DivBounds
<1>2. PICK e \in Int, t \in 0 .. b - 1 : e = d \div b /\ d = e * b + t
  BY DivBounds
<1>3. b * p \in Nat \ {0}
  OBVIOUS
<1>4. e * (b * p) <= n
  <2>1. (e * b) * p <= d * p
    <3>1. e * b \in Int /\ e * b <= d
      BY <1>2, Times
    <3> QED
      BY <3>1, Times
  <2>2. (e * b) * p = e * (b * p) /\ (e * b) * p \in Int /\ d * p \in Int
    OBVIOUS
  <2> QED
    BY <1>1, <2>1, <2>2
<1>5. n < (e + 1) * (b * p)
  <2>1. (d + 1) * p <= ((e + 1) * b) * p
    <3>1. (e + 1) * b \in Int /\ d + 1 <= (e + 1) * b
      <4>1. (e + 1) * b = e * b + b /\ e * b \in Int
        OBVIOUS
      <4> QED
        BY <1>2, <4>1
    <3> QED
      BY <3>1, Times
  <2>2. ((e + 1) * b) * p = (e + 1) * (b * p) /\ (d + 1) * p = d * p + p /\ d * p \in Int /\ ((e + 1) * b) * p \in Int
    OBVIOUS
  <2> QED
    BY <1>1, <2>1, <2>2
<1> QED
  BY <1>1, <1>2, <1>3, <1>4, <1>5, DivIs

\* The digits up to one make the number without those after it.
LEMMA DigitStep ==
  ASSUME NEW n \in Int, NEW base \in Nat \ {0}, NEW k \in Nat, NEW i \in 1 .. k
  PROVE  /\ n \div Power(base, k - i) \in Int
         /\ n \div Power(base, k - (i - 1)) \in Int
         /\ Digit(n, base, k, i) \in 0 .. base - 1
         /\ n \div Power(base, k - i) = (n \div Power(base, k - (i - 1))) * base + Digit(n, base, k, i)
<1>1. k - i \in Nat /\ k - (i - 1) = (k - i) + 1
  OBVIOUS
<1>2. PICK p \in Nat \ {0} : p = Power(base, k - i)
  BY <1>1, PowerPositive
<1>3. Power(base, k - (i - 1)) = base * p
  BY <1>1, <1>2, PowerFacts
<1>4. n \div (base * p) = (n \div p) \div base
  BY DivDiv
<1>5. PICK d \in Int : d = n \div p
  OBVIOUS
<1>6. d \div base \in Int /\ d % base \in 0 .. base - 1 /\ d = (d \div base) * base + (d % base)
  BY DivBounds
<1>7. Digit(n, base, k, i) = d % base
  BY <1>2, <1>5 DEF Digit
<1> QED
  BY <1>2, <1>3, <1>4, <1>5, <1>6, <1>7

\* The number that the bytes of an int are: less the part of it that they leave out.
LEMMA BytesNumber ==
  ASSUME NEW n \in Int, NEW k \in Nat, NEW s \in Seq(Nat), Len(s) = k, \A i \in 1 .. k : s[i] = Digit(n, 256, k, i)
  PROVE  Number(s) = n - (n \div Power(256, k)) * Power(256, k)
<1> DEFINE N(i) == n \div Power(256, k - i)
           P(i) == Power(256, i)
           f == [i \in 0 .. k |-> N(i) - N(0) * P(i)]
<1>0. 256 \in Nat \ {0}
  OBVIOUS
<1>1. \A i \in 0 .. k : P(i) \in Nat \ {0} /\ N(i) \in Int
  <2> TAKE i \in 0 .. k
  <2>1. i \in Nat /\ k - i \in Nat
    OBVIOUS
  <2>2. P(i) \in Nat \ {0}
    BY <1>0, <2>1, PowerPositive, Zenon
  <2>3. N(i) \in Int
    <3>1. Power(256, k - i) \in Nat \ {0}
      BY <1>0, <2>1, PowerPositive, Zenon
    <3> QED
      BY <3>1, DivBounds, Zenon
  <2> QED
    BY <2>2, <2>3, Zenon
<1>2. P(0) = 1 /\ \A i \in 1 .. k : P(i) = 256 * P(i - 1)
  <2>1. \A i \in 1 .. k : i - 1 \in Nat /\ i - 1 + 1 = i
    OBVIOUS
  <2>2. Power(256, 0) = 1 /\ \A j \in Nat : Power(256, j + 1) = 256 * Power(256, j)
    <3>1. 256 \in Nat /\ 0 \in Nat
      OBVIOUS
    <3>2. Power(256, 0) = 1
      BY <3>1, PowerFacts
    <3>3. ASSUME NEW j \in Nat PROVE Power(256, j + 1) = 256 * Power(256, j)
      BY <3>1, PowerFacts
    <3> QED
      BY <3>2, <3>3
  <2>3. \A i \in 1 .. k : Power(256, i) = 256 * Power(256, i - 1)
    <3> TAKE i \in 1 .. k
    <3>1. PICK j \in Nat : j = i - 1 /\ j + 1 = i
      BY <2>1
    <3>2. Power(256, j + 1) = 256 * Power(256, j)
      BY <2>2, Zenon
    <3> QED
      BY <3>1, <3>2, Zenon
  <2> QED
    BY <2>2, <2>3
<1>3. \A i \in 1 .. k : N(i) = N(i - 1) * 256 + s[i]
  BY <1>0, DigitStep
<1>4. N(k) = n
  <2>1. k - k = 0 /\ Power(256, 0) = 1 /\ n \div 1 = n
    BY <1>0, PowerFacts
  <2> QED
    BY <2>1
<1>5. N(0) = n \div Power(256, k)
  <2>1. k - 0 = k
    OBVIOUS
  <2> QED
    BY <2>1
<1> HIDE DEF N, P
<1>6. Running(f, s)
  <2>1. f[0] = 0
    <3>1. N(0) - N(0) * P(0) = 0 /\ 0 \in 0 .. k
      BY <1>1, <1>2
    <3> QED
      BY <3>1
  <2>2. ASSUME NEW i \in 1 .. k PROVE f[i] = f[i - 1] * 256 + s[i]
    <3>1. i \in 0 .. k /\ i - 1 \in 0 .. k /\ 0 \in 0 .. k
      OBVIOUS
    <3>2. f[i] = N(i) - N(0) * P(i) /\ f[i - 1] = N(i - 1) - N(0) * P(i - 1)
      BY <3>1
    <3>3. s[i] \in Nat
      BY ElementOfSeq
    <3>4. \A a, b, c, d \in Int : (a * 256 + d) - b * (256 * c) = (a - b * c) * 256 + d
      OBVIOUS
    <3>5. N(i - 1) \in Int /\ N(0) \in Int /\ P(i - 1) \in Int /\ s[i] \in Int
      BY <1>1, <3>1, <3>3
    <3>6. (N(i - 1) * 256 + s[i]) - N(0) * (256 * P(i - 1)) = (N(i - 1) - N(0) * P(i - 1)) * 256 + s[i]
      BY <3>4, <3>5
    <3>7. N(i) = N(i - 1) * 256 + s[i] /\ P(i) = 256 * P(i - 1)
      BY <1>2, <1>3
    <3> QED
      BY <3>2, <3>6, <3>7, Zenon
  <2> QED
    BY <2>1, <2>2 DEF Running
<1>7. Number(s) = f[k]
  BY <1>6, RunningNumber
<1>8. f[k] = N(k) - N(0) * P(k)
  OBVIOUS
<1> QED
  BY <1>4, <1>5, <1>7, <1>8 DEF P

LEMMA QuotientRange ==
  ASSUME NEW n \in Int, NEW h \in Nat \ {0}, NEW a \in Int, NEW b \in Int, a * h <= n, n < (b + 1) * h
  PROVE  n \div h \in a .. b
<1>1. PICK q \in Int, r \in 0 .. h - 1 : q = n \div h /\ n = q * h + r
  BY DivBounds
<1>2. q * h \in Int /\ a * h \in Int /\ (b + 1) * h \in Int /\ (q + 1) * h = q * h + h
  BY Times
<1>3. a <= q
  <2>1. q + 1 <= a => (q + 1) * h <= a * h
    BY Times
  <2> QED
    BY <1>1, <1>2, <2>1
<1>4. q <= b
  <2>1. b + 1 <= q => (b + 1) * h <= q * h
    BY Times
  <2> QED
    BY <1>1, <1>2, <2>1
<1> QED
  BY <1>1, <1>3, <1>4

\* An int is read as it was sent.
LEMMA GetIntFacts ==
  ASSUME NEW n, IntOK(n)
  PROVE  GetInt(IntBytesOf(n)) = Value(n)
<1>1. PICK k \in 1 .. IntBytes : FitsBytes(n, k) /\ IntBytesAre(n, k)
  BY IntWidth
<1>2. n \in Int /\ k \in Nat /\ IntBytes \in Nat /\ k <= IntBytes /\ 256 \in Nat \ {0} /\ 1 \in 1 .. k /\ k - 1 \in Nat
  BY <1>1, FrameAssumption DEF IntOK
<1> DEFINE s == IntBytesOf(n)
<1>3. s \in Seq(Nat) /\ Len(s) = k /\ \A i \in 1 .. k : s[i] = Digit(n, 256, k, i)
  <2>1. s \in Seq(Nat)
    BY IntBytesSeq, BytesFacts
  <2>2. s = [i \in 1 .. k |-> Digit(n, 256, k, i)]
    BY <1>1, Zenon DEF IntBytesAre
  <2> HIDE DEF s
  <2>3. DOMAIN s = 1 .. k
    BY <2>2
  <2>4. Len(s) = k
    BY <1>2, <2>1, <2>3, LenProperties
  <2> QED
    BY <2>1, <2>2, <2>4
<1> HIDE DEF s
<1>4. PICK p \in Nat \ {0} : p = Power(256, k)
  BY <1>2, PowerPositive
<1>5. PICK h \in Nat \ {0} : h = Power(256, k - 1) /\ p = 256 * h
  <2>1. PICK j \in Nat : j = k - 1 /\ j + 1 = k
    BY <1>2
  <2>2. Power(256, j) \in Nat \ {0}
    BY <1>2, PowerPositive
  <2>3. Power(256, j + 1) = 256 * Power(256, j)
    BY <1>2, PowerFacts
  <2> QED
    BY <1>4, <2>1, <2>2, <2>3, Zenon
<1>6. PICK w \in Nat \ {0} : w = Power(256, IntBytes)
  BY <1>2, PowerPositive
<1>7. 2 * n \in -p .. p - 1 /\ 2 * n \in -w .. w - 1
  BY <1>1, <1>4, <1>6 DEF FitsBytes, IntOK
<1>8. Number(s) = n - (n \div p) * p
  BY <1>2, <1>3, <1>4, BytesNumber
<1>9. s[1] = (n \div h) % 256
  BY <1>2, <1>3, <1>5 DEF Digit
<1>10. s # <<>> /\ ~ \E i \in IntBytes + 1 .. Len(s) : TRUE
  BY <1>2, <1>3
<1>11. CASE n >= 0
  <2>1. n \div p = 0
    <3>1. 0 * p <= n /\ n < (0 + 1) * p
      BY <1>2, <1>7, <1>11
    <3>2. n \div p \in 0 .. 0
      BY <1>2, <3>1, QuotientRange
    <3> QED
      BY <3>2
  <2>2. n \div h \in 0 .. 127
    <3>1. 0 * h <= n /\ n < (127 + 1) * h
      BY <1>2, <1>5, <1>7, <1>11
    <3> QED
      BY <1>2, <3>1, QuotientRange
  <2>3. ~ s[1] >= 128
    <3>1. \A x \in 0 .. 127 : ~ x % 256 >= 128
      OBVIOUS
    <3> QED
      BY <1>9, <2>2, <3>1, Zenon
  <2>4. Number(s) = n
    BY <1>2, <1>8, <2>1
  <2>5. n % w = n /\ 2 * n < w
    <3>1. \A x \in Int, y \in Nat \ {0} : 0 <= x /\ 2 * x < y => x % y = x
      OBVIOUS
    <3>2. 0 <= n /\ 2 * n < w
      BY <1>2, <1>7, <1>11
    <3> QED
      BY <1>2, <3>1, <3>2
  <2> QED
    BY <1>2, <1>3, <1>6, <1>10, <2>3, <2>4, <2>5 DEF GetInt, s
<1>12. CASE n < 0
  <2>1. n \div p = -1
    <3>1. (-1) * p <= n /\ n < (-1 + 1) * p
      BY <1>2, <1>7, <1>12
    <3>2. n \div p \in -1 .. -1
      BY <1>2, <3>1, QuotientRange
    <3> QED
      BY <3>2
  <2>2. n \div h \in -128 .. -1
    <3>1. (-128) * h <= n /\ n < (-1 + 1) * h
      BY <1>2, <1>5, <1>7, <1>12
    <3> QED
      BY <1>2, <3>1, QuotientRange
  <2>3. s[1] >= 128
    <3>1. \A x \in -128 .. -1 : x % 256 >= 128
      OBVIOUS
    <3> QED
      BY <1>9, <2>2, <3>1, Zenon
  <2>4. Number(s) - p = n
    BY <1>2, <1>8, <2>1
  <2>5. ~ Len(s) > IntBytes
    BY <1>2, <1>3
  <2> QED
    BY <1>3, <1>4, <1>10, <2>3, <2>4, <2>5 DEF GetInt, s
<1> QED
  BY <1>2, <1>11, <1>12

-----------------------------------------------------------------------------
(* Object identifiers                                                       *)

\* What GetOid knows after a byte, and what it has read after all.
ArcsOf(arcs, n, open) == [arcs |-> arcs, n |-> n, open |-> open]

ArcStep(acc, x) ==
  LET n == acc.n * 128 + (x % 128)
  IN  IF x >= 128 THEN ArcsOf(acc.arcs, n, TRUE) ELSE ArcsOf(Append(acc.arcs, n), 0, FALSE)

Reading(r, s) ==
  /\ r[1] = ArcsOf(<<s[1] \div 40, s[1] % 40>>, 0, FALSE)
  /\ \A i \in 2 .. Len(s) : r[i] = ArcStep(r[i - 1], s[i])

ReadsTo(s, v) == \E r : Reading(r, s) /\ r[Len(s)] = v

LEMMA ReadsFirst ==
  ASSUME NEW b \in Nat
  PROVE  ReadsTo(<< b >>, ArcsOf(<<b \div 40, b % 40>>, 0, FALSE))
<1> DEFINE s == <<b>>  v == ArcsOf(<<s[1] \div 40, s[1] % 40>>, 0, FALSE)  r == [i \in 1 .. 1 |-> v]
<1>1. Len(s) = 1 /\ s[1] = b /\ 2 .. 1 = {}
  OBVIOUS
<1>2. r[1] = v
  OBVIOUS
<1> HIDE DEF s, r
<1>3. Reading(r, s) /\ r[Len(s)] = v
  BY <1>1, <1>2 DEF Reading
<1>4. v = ArcsOf(<<b \div 40, b % 40>>, 0, FALSE)
  BY <1>1
<1> HIDE DEF v
<1> QED
  BY <1>3, <1>4 DEF ReadsTo, s

LEMMA ReadsNext ==
  ASSUME NEW s \in Seq(Nat), s # <<>>, NEW v, ReadsTo(s, v), NEW x \in Nat
  PROVE  ReadsTo(Append(s, x), ArcStep(v, x))
<1>1. PICK r : Reading(r, s) /\ r[Len(s)] = v
  BY DEF ReadsTo
<1> DEFINE t == Append(s, x)  w == ArcStep(v, x)  q == [i \in 1 .. Len(s) + 1 |-> IF i = Len(s) + 1 THEN w ELSE r[i]]
<1>2. /\ Len(s) \in Nat /\ 1 <= Len(s) /\ Len(t) = Len(s) + 1 /\ t[Len(s) + 1] = x
      /\ \A i \in 1 .. Len(s) : t[i] = s[i]
  OBVIOUS
<1>3. q[Len(s) + 1] = w /\ \A i \in 1 .. Len(s) : q[i] = r[i]
  BY <1>2
<1> HIDE DEF t, w, q
<1>4. 1 \in 1 .. Len(s) /\ Len(s) \in 1 .. Len(s)
  BY <1>2
<1>5. q[1] = ArcsOf(<<t[1] \div 40, t[1] % 40>>, 0, FALSE)
  BY <1>1, <1>2, <1>3, <1>4 DEF Reading
<1>6. ASSUME NEW i \in 2 .. Len(t) PROVE q[i] = ArcStep(q[i - 1], t[i])
  <2>1. CASE i = Len(s) + 1
    <3>1. i - 1 = Len(s)
      BY <1>2, <2>1
    <3> QED
      BY <1>1, <1>2, <1>3, <1>4, <2>1, <3>1 DEF w
  <2>2. CASE i # Len(s) + 1
    <3>1. i \in 1 .. Len(s) /\ i - 1 \in 1 .. Len(s) /\ i \in 2 .. Len(s)
      BY <1>2, <2>2
    <3>2. r[i] = ArcStep(r[i - 1], s[i])
      BY <1>1, <3>1 DEF Reading
    <3> QED
      BY <1>2, <1>3, <3>1, <3>2
  <2> QED
    BY <2>1, <2>2
<1>7. Reading(q, t)
  BY <1>5, <1>6 DEF Reading
<1>8. q[Len(t)] = w
  BY <1>2, <1>3
<1> QED
  BY <1>7, <1>8 DEF ReadsTo, t, w

LEMMA ReadsAll ==
  ASSUME NEW s \in Seq(Nat), s # <<>>, NEW a, NEW n, ReadsTo(s, ArcsOf(a, n, FALSE))
  PROVE  GetOid(s) = Value(a)
<1>1. PICK r : Reading(r, s) /\ r[Len(s)] = ArcsOf(a, n, FALSE)
  BY DEF ReadsTo
<1>2. Len(s) \in Nat /\ 1 <= Len(s) /\ 1 \in 1 .. Len(s) /\ Len(s) \in 1 .. Len(s)
  OBVIOUS
<1> DEFINE P(g) == g = [i \in 1 .. Len(s) |->
                          IF i = 1 THEN [arcs |-> <<s[1] \div 40, s[1] % 40>>, n |-> 0, open |-> FALSE]
                          ELSE LET acc == g[i - 1]
                                   m   == acc.n * 128 + (s[i] % 128)
                               IN  IF s[i] >= 128 THEN [arcs |-> acc.arcs, n |-> m, open |-> TRUE]
                                   ELSE [arcs |-> Append(acc.arcs, m), n |-> 0, open |-> FALSE]]
<1>3. ASSUME NEW g, P(g) PROVE Reading(g, s)
  <2>1. g[1] = ArcsOf(<<s[1] \div 40, s[1] % 40>>, 0, FALSE)
    BY <1>2, <1>3 DEF ArcsOf
  <2>2. ASSUME NEW i \in 2 .. Len(s) PROVE g[i] = ArcStep(g[i - 1], s[i])
    <3>1. i \in 1 .. Len(s) /\ i # 1
      BY <1>2
    <3> QED
      BY <1>3, <3>1 DEF ArcStep, ArcsOf
  <2> QED
    BY <2>1, <2>2 DEF Reading
<1>4. \E g : P(g)
  <2> DEFINE g == [i \in 1 .. Len(s) |-> r[i]]
  <2>1. \A i \in 1 .. Len(s) : g[i] = r[i]
    OBVIOUS
  <2>2. ASSUME NEW i \in 1 .. Len(s)
        PROVE  r[i] = IF i = 1 THEN [arcs |-> <<s[1] \div 40, s[1] % 40>>, n |-> 0, open |-> FALSE]
                      ELSE LET acc == g[i - 1]
                               m   == acc.n * 128 + (s[i] % 128)
                           IN  IF s[i] >= 128 THEN [arcs |-> acc.arcs, n |-> m, open |-> TRUE]
                               ELSE [arcs |-> Append(acc.arcs, m), n |-> 0, open |-> FALSE]
    <3>1. CASE i = 1
      BY <1>1, <3>1 DEF Reading, ArcsOf
    <3>2. CASE i # 1
      <4>1. i \in 2 .. Len(s) /\ i - 1 \in 1 .. Len(s)
        BY <1>2, <3>2
      <4>2. r[i] = ArcStep(r[i - 1], s[i]) /\ g[i - 1] = r[i - 1]
        BY <1>1, <2>1, <4>1 DEF Reading
      <4> HIDE DEF g
      <4> QED
        BY <3>2, <4>2 DEF ArcStep, ArcsOf
    <3> QED
      BY <3>1, <3>2
  <2>3. P(g)
    BY <2>2
  <2> QED
    BY <2>3
<1>5. \E g : /\ P(g)
             /\ GetOid(s) = IF s = <<>> \/ g[Len(s)].open THEN Refused ELSE Value(g[Len(s)].arcs)
  <2> DEFINE c == CHOOSE g : P(g)
  <2>1. P(c)
    BY <1>4
  <2>2. GetOid(s) = IF s = <<>> \/ c[Len(s)].open THEN Refused ELSE Value(c[Len(s)].arcs)
    BY Zenon DEF GetOid
  <2> HIDE DEF c, P
  <2> QED
    BY <2>1, <2>2
<1>6. PICK g : P(g) /\ GetOid(s) = IF s = <<>> \/ g[Len(s)].open THEN Refused ELSE Value(g[Len(s)].arcs)
  BY <1>5
<1>7. Reading(g, s)
  BY <1>3, <1>6
<1> HIDE DEF P
<1>8. g[Len(s)] = r[Len(s)]
  <2> DEFINE c == [i \in 0 .. Len(s) - 1 |-> g[i + 1]]  d == [i \in 0 .. Len(s) - 1 |-> r[i + 1]]
  <2>1. /\ \A i \in 0 .. Len(s) - 1 : c[i] = g[i + 1] /\ d[i] = r[i + 1]
        /\ Len(s) - 1 \in Nat /\ Len(s) - 1 \in 0 .. Len(s) - 1 /\ Len(s) - 1 + 1 = Len(s) /\ 0 \in 0 .. Len(s) - 1 /\ 0 + 1 = 1
    BY <1>2
  <2> HIDE DEF c, d
  <2>2. c[0] = d[0]
    BY <1>1, <1>7, <2>1 DEF Reading
  <2>3. ASSUME NEW i \in 1 .. Len(s) - 1, c[i - 1] = d[i - 1] PROVE c[i] = d[i]
    <3>1. i \in 0 .. Len(s) - 1 /\ i - 1 \in 0 .. Len(s) - 1 /\ i - 1 + 1 = i /\ i + 1 \in 2 .. Len(s) /\ i + 1 - 1 = i
      BY <1>2
    <3>2. g[i + 1] = ArcStep(g[i], s[i + 1]) /\ r[i + 1] = ArcStep(r[i], s[i + 1])
      <4>1. PICK j \in 2 .. Len(s) : j = i + 1 /\ j - 1 = i
        BY <3>1
      <4>2. g[j] = ArcStep(g[j - 1], s[j]) /\ r[j] = ArcStep(r[j - 1], s[j])
        BY <1>1, <1>7 DEF Reading
      <4> QED
        BY <4>1, <4>2, Zenon
    <3> QED
      BY <2>1, <2>3, <3>1, <3>2
  <2>4. SameWay(c, d, Len(s) - 1)
    BY <2>2, <2>3 DEF SameWay
  <2>5. c[Len(s) - 1] = d[Len(s) - 1]
    <3>1. PICK m \in Nat : m = Len(s) - 1 /\ m \in 0 .. m
      BY <2>1
    <3>2. SameWay(c, d, m)
      BY <2>4, <3>1, Zenon
    <3>3. \A i \in 0 .. m : c[i] = d[i]
      BY <3>2, SameSteps
    <3> QED
      BY <3>1, <3>3, Zenon
  <2> QED
    BY <2>1, <2>5
<1> QED
  BY <1>1, <1>6, <1>8 DEF ArcsOf

\* The first elements of a sequence.
First(s, k) == SubSeq(s, 1, k)

LEMMA FirstFacts ==
  ASSUME NEW S, NEW s \in Seq(S)
  PROVE  /\ First(s, 0) = <<>>
         /\ First(s, Len(s)) = s
         /\ \A k \in 0 .. Len(s) : /\ First(s, k) \in Seq(S) /\ Len(First(s, k)) = k
                                   /\ \A i \in 1 .. k : First(s, k)[i] = s[i]
         /\ \A k \in 0 .. Len(s) - 1 : First(s, k + 1) = Append(First(s, k), s[k + 1])
<1>1. Len(s) \in Nat /\ \A i \in 1 .. Len(s) : s[i] \in S
  BY ElementOfSeq, LenProperties
<1>2. First(s, 0) = <<>>
  BY SubSeqEmpty DEF First
<1>3. First(s, Len(s)) = s
  BY SubSeqFull DEF First
<1>4. ASSUME NEW k \in 0 .. Len(s)
      PROVE  First(s, k) \in Seq(S) /\ Len(First(s, k)) = k /\ \A i \in 1 .. k : First(s, k)[i] = s[i]
  <2>1. k \in Int /\ 1 \in Int /\ \A i \in 1 .. k : s[i] \in S
    BY <1>1
  <2>2. /\ SubSeq(s, 1, k) \in Seq(S)
        /\ Len(SubSeq(s, 1, k)) = IF 1 <= k THEN k - 1 + 1 ELSE 0
        /\ \A i \in 1 .. k - 1 + 1 : SubSeq(s, 1, k)[i] = s[1 + i - 1]
    BY <2>1, SubSeqProperties
  <2>3. (IF 1 <= k THEN k - 1 + 1 ELSE 0) = k /\ \A i \in 1 .. k : i \in 1 .. k - 1 + 1 /\ 1 + i - 1 = i
    OBVIOUS
  <2>4. Len(SubSeq(s, 1, k)) = k
    <3>1. k \in Nat /\ \A m \in Nat : (IF 1 <= m THEN m - 1 + 1 ELSE 0) = m
      BY <1>1
    <3> QED
      BY <2>2, <3>1, Zenon
  <2>5. \A i \in 1 .. k : SubSeq(s, 1, k)[i] = s[i]
    BY <2>2, <2>3
  <2> QED
    BY <2>2, <2>4, <2>5, Zenon DEF First
<1>5. ASSUME NEW k \in 0 .. Len(s) - 1 PROVE First(s, k + 1) = Append(First(s, k), s[k + 1])
  <2>1. k \in 0 .. Len(s) /\ k + 1 \in 0 .. Len(s) /\ k + 1 \in 1 .. Len(s) /\ \A i \in 1 .. k + 1 : i = k + 1 \/ i \in 1 .. k
    BY <1>1
  <2>2. PICK a \in Seq(S) : a = First(s, k) /\ Len(a) = k /\ \A i \in 1 .. k : a[i] = s[i]
    BY <1>4, <2>1
  <2>3. PICK b \in Seq(S) : b = First(s, k + 1) /\ Len(b) = k + 1 /\ \A i \in 1 .. k + 1 : b[i] = s[i]
    BY <1>4, <2>1
  <2>4. PICK x \in S : x = s[k + 1]
    BY <1>1, <2>1
  <2>5. /\ Append(a, x) \in Seq(S) /\ Len(Append(a, x)) = k + 1 /\ Append(a, x)[k + 1] = x
        /\ \A i \in 1 .. k : Append(a, x)[i] = a[i]
    BY <2>2, AppendProperties
  <2>6. \A i \in 1 .. k + 1 : Append(a, x)[i] = b[i]
    BY <2>1, <2>2, <2>3, <2>4, <2>5
  <2>7. b = Append(a, x)
    BY <2>3, <2>5, <2>6, SeqEqual
  <2> QED
    BY <2>2, <2>3, <2>4, <2>7
<1> QED
  BY <1>2, <1>3, <1>4, <1>5

LEMMA AppendConcat ==
  ASSUME NEW S, NEW s \in Seq(S), NEW t \in Seq(S), NEW x \in S
  PROVE  s \o Append(t, x) = Append(s \o t, x)
OBVIOUS

\* An arc is read from its digits.
LEMMA ReadsArc ==
  ASSUME NEW s \in Seq(Nat), s # <<>>, NEW a, ReadsTo(s, ArcsOf(a, 0, FALSE)),
         NEW n \in Nat, \E k \in 1 .. 8 : n < Power(128, k)
  PROVE  s \o ArcBytes(n) \in Seq(Nat) /\ ReadsTo(s \o ArcBytes(n), ArcsOf(Append(a, n), 0, FALSE))
<1>1. PICK k \in 1 .. 8 : k = Digits(n, 128) /\ n < Power(128, k)
  BY DigitsFacts
<1>2. k \in Nat /\ n \in Int /\ 128 \in Nat \ {0} /\ k - 1 \in Nat /\ 1 <= k
  OBVIOUS
<1> DEFINE t == ArcBytes(n)
<1>3. t \in Seq(Nat) /\ Len(t) = k /\ \A i \in 1 .. k : t[i] = Digit(n, 128, k, i) + (IF i < k THEN 128 ELSE 0)
  <2>1. t \in Seq(Nat)
    BY ArcBytesSeq, BytesFacts
  <2>2. t = [i \in 1 .. k |-> Digit(n, 128, k, i) + (IF i < k THEN 128 ELSE 0)]
    BY <1>1, Zenon DEF ArcBytes, Digit
  <2> HIDE DEF t
  <2>3. DOMAIN t = 1 .. k
    BY <2>2
  <2>4. Len(t) = k
    BY <1>2, <2>1, <2>3, LenProperties
  <2> QED
    BY <2>1, <2>2, <2>4
<1> HIDE DEF t
<1> DEFINE N(j) == n \div Power(128, k - j)  u(j) == s \o First(t, j)
<1>4. N(0) = 0
  <2>1. k - 0 = k
    OBVIOUS
  <2>2. PICK p \in Nat \ {0} : p = Power(128, k)
    BY <1>2, PowerPositive
  <2>3. 0 * p <= n /\ n < (0 + 1) * p
    BY <1>1, <2>2
  <2>4. n \div p \in 0 .. 0
    BY <1>2, <2>2, <2>3, QuotientRange
  <2> QED
    BY <2>1, <2>2, <2>4
<1>5. N(k) = n
  <2>1. k - k = 0 /\ n \div 1 = n
    OBVIOUS
  <2>2. Power(128, 0) = 1
    BY <1>2, PowerFacts
  <2> QED
    BY <2>1, <2>2
<1>6. \A i \in 1 .. k : N(i) = N(i - 1) * 128 + Digit(n, 128, k, i) /\ Digit(n, 128, k, i) \in 0 .. 127
  <2> TAKE i \in 1 .. k
  <2>0. 128 \in Nat \ {0}
    OBVIOUS
  <2>1. N(i) = N(i - 1) * 128 + Digit(n, 128, k, i)
    BY <1>2, <2>0, DigitStep
  <2>2. Digit(n, 128, k, i) \in 0 .. 128 - 1
    BY <1>2, <2>0, DigitStep
  <2>3. 128 - 1 = 127
    OBVIOUS
  <2> QED
    BY <2>1, <2>2, <2>3, Zenon
<1> HIDE DEF N
<1>7. /\ u(0) = s /\ u(k) = s \o t
      /\ \A j \in 0 .. k : u(j) \in Seq(Nat) /\ u(j) # <<>>
      /\ \A j \in 0 .. k - 1 : u(j + 1) = Append(u(j), t[j + 1])
  <2>1. First(t, 0) = <<>> /\ First(t, k) = t /\ \A j \in 0 .. k : First(t, j) \in Seq(Nat)
    BY <1>3, FirstFacts
  <2>2. \A j \in 0 .. k - 1 : First(t, j + 1) = Append(First(t, j), t[j + 1]) /\ t[j + 1] \in Nat /\ j \in 0 .. k
    <3>1. \A j \in 0 .. k - 1 : First(t, j + 1) = Append(First(t, j), t[j + 1])
      BY <1>3, FirstFacts
    <3>2. \A j \in 0 .. k - 1 : j + 1 \in 1 .. Len(t) /\ j \in 0 .. k
      BY <1>3
    <3>3. \A i \in 1 .. Len(t) : t[i] \in Nat
      BY <1>3, ElementOfSeq
    <3> QED
      BY <3>1, <3>2, <3>3
  <2>3. s \o <<>> = s
    BY ConcatEmptySeq
  <2>4. ASSUME NEW j \in 0 .. k PROVE u(j) \in Seq(Nat) /\ u(j) # <<>>
    <3>1. PICK w \in Seq(Nat) : w = First(t, j)
      BY <2>1
    <3>2. s \o w \in Seq(Nat) /\ s \o w # <<>>
      OBVIOUS
    <3> QED
      BY <3>1, <3>2
  <2>5. ASSUME NEW j \in 0 .. k - 1 PROVE u(j + 1) = Append(u(j), t[j + 1])
    <3>1. PICK v \in Seq(Nat), x \in Nat : v = First(t, j) /\ x = t[j + 1]
      BY <2>1, <2>2
    <3>2. s \o Append(v, x) = Append(s \o v, x)
      BY AppendConcat
    <3>3. First(t, j + 1) = Append(v, x)
      BY <2>2, <3>1
    <3> QED
      BY <3>1, <3>2, <3>3
  <2> QED
    BY <2>1, <2>3, <2>4, <2>5
<1> HIDE DEF u
<1> DEFINE T == {j \in Nat : j < k => \E o : ReadsTo(u(j), ArcsOf(a, N(j), o))}
<1>8. 0 \in T
  BY <1>4, <1>7
<1>9. ASSUME NEW j \in Nat, j \in T PROVE j + 1 \in T
  <2>1. SUFFICES ASSUME j + 1 < k PROVE \E o : ReadsTo(u(j + 1), ArcsOf(a, N(j + 1), o))
    OBVIOUS
  <2>2. j \in 0 .. k - 1 /\ j \in 0 .. k /\ j + 1 \in 1 .. k /\ (j + 1) - 1 = j /\ j < k
    BY <1>2, <2>1
  <2>3. PICK o : ReadsTo(u(j), ArcsOf(a, N(j), o))
    BY <1>9, <2>2
  <2>4. PICK d \in 0 .. 127 : d = Digit(n, 128, k, j + 1) /\ N(j + 1) = N(j) * 128 + d /\ t[j + 1] = d + 128
    <3>1. PICK i \in 1 .. k : i = j + 1 /\ i - 1 = j /\ i < k
      BY <2>1, <2>2
    <3>2. /\ N(i) = N(i - 1) * 128 + Digit(n, 128, k, i) /\ Digit(n, 128, k, i) \in 0 .. 127
          /\ t[i] = Digit(n, 128, k, i) + 128
      BY <1>3, <1>6, <3>1
    <3> QED
      BY <3>1, <3>2
  <2>5. PICK x \in Nat : x = t[j + 1] /\ x >= 128 /\ x % 128 = d
    <3>1. d + 128 \in Nat /\ d + 128 >= 128 /\ (d + 128) % 128 = d
      OBVIOUS
    <3> QED
      BY <2>4, <3>1
  <2>6. ReadsTo(Append(u(j), x), ArcStep(ArcsOf(a, N(j), o), x))
    BY <1>7, <2>2, <2>3, ReadsNext
  <2>7. ArcStep(ArcsOf(a, N(j), o), x) = ArcsOf(a, N(j + 1), TRUE)
    BY <2>4, <2>5 DEF ArcStep, ArcsOf
  <2> QED
    BY <1>7, <2>2, <2>5, <2>6, <2>7
<1>10. k - 1 \in T
  <2> HIDE DEF T
  <2> QED
    BY <1>2, <1>8, <1>9, Counting
<1>11. PICK o : ReadsTo(u(k - 1), ArcsOf(a, N(k - 1), o))
  BY <1>2, <1>10
<1>12. PICK x \in 0 .. 127 : x = t[k] /\ n = N(k - 1) * 128 + x
  <2>1. k \in 1 .. k /\ ~ k < k
    BY <1>2
  <2>2. N(k) = N(k - 1) * 128 + Digit(n, 128, k, k) /\ Digit(n, 128, k, k) \in 0 .. 127
    BY <1>6, <2>1
  <2>3. t[k] = Digit(n, 128, k, k) + 0
    BY <1>3, <2>1
  <2>4. t[k] = Digit(n, 128, k, k)
    <3>1. \A d \in 0 .. 127 : d + 0 = d
      OBVIOUS
    <3> QED
      BY <2>2, <2>3, <3>1, Zenon
  <2> QED
    BY <1>5, <2>2, <2>4
<1>13. x \in Nat /\ ~ x >= 128 /\ x % 128 = x
  OBVIOUS
<1>14. k - 1 \in 0 .. k - 1 /\ k - 1 \in 0 .. k /\ (k - 1) + 1 = k
  BY <1>2
<1>15. ReadsTo(Append(u(k - 1), x), ArcStep(ArcsOf(a, N(k - 1), o), x))
  BY <1>7, <1>11, <1>13, <1>14, ReadsNext
<1>16. ArcStep(ArcsOf(a, N(k - 1), o), x) = ArcsOf(Append(a, n), 0, FALSE)
  BY <1>12, <1>13 DEF ArcStep, ArcsOf
<1>17. Append(u(k - 1), x) = s \o t
  BY <1>7, <1>12, <1>14
<1>18. s \o t \in Seq(Nat)
  BY <1>3, ConcatProperties
<1> QED
  BY <1>15, <1>16, <1>17, <1>18 DEF t

\* An object identifier is read as it was sent.
LEMMA GetOidFacts ==
  ASSUME NEW oid, OidOK(oid)
  PROVE  GetOid(OidBytes(oid)) = Value(oid)
<1>1. /\ oid \in Seq(Nat) /\ Len(oid) \in Nat /\ Len(oid) > 1 /\ oid[2] < 40 /\ oid[1] * 40 + oid[2] \in Byte
      /\ \A i \in 3 .. Len(oid) : \E k \in 1 .. 8 : oid[i] < Power(128, k)
  BY LenProperties DEF OidOK
<1>2. \A i \in 1 .. Len(oid) : oid[i] \in Nat
  BY <1>1, ElementOfSeq
<1>3. oid[1] \in Nat /\ oid[2] \in Nat
  BY <1>1, <1>2
<1> DEFINE b == oid[1] * 40 + oid[2]
           L == Len(oid) - 2
           arcs == [i \in 1 .. L |-> ArcBytes(oid[i + 2])]
<1>4. b \in Nat /\ b \div 40 = oid[1] /\ b % 40 = oid[2]
  <2>1. \A x \in Nat, y \in Nat : y < 40 => /\ x * 40 + y \in Nat /\ (x * 40 + y) \div 40 = x /\ (x * 40 + y) % 40 = y
    OBVIOUS
  <2> QED
    BY <1>1, <1>3, <2>1
<1>5. L \in Nat /\ Len(oid) = L + 2
  BY <1>1
<1>6. \A i \in 1 .. L : /\ oid[i + 2] \in Nat /\ \E k \in 1 .. 8 : oid[i + 2] < Power(128, k)
                        /\ arcs[i] = ArcBytes(oid[i + 2])
  <2> TAKE i \in 1 .. L
  <2>1. i + 2 \in 3 .. Len(oid) /\ i + 2 \in 1 .. Len(oid)
    BY <1>5
  <2> QED
    BY <1>1, <1>2, <2>1
<1>7. arcs \in Seq(Seq(Nat)) /\ Len(arcs) = L
  <2>1. \A i \in 1 .. L : ArcBytes(oid[i + 2]) \in Seq(Nat)
    BY <1>6, ArcBytesSeq, BytesFacts
  <2>2. arcs \in [1 .. L -> Seq(Nat)]
    BY <2>1, Zenon
  <2> HIDE DEF arcs, L
  <2> QED
    BY <1>5, <2>2, FunctionSeq
<1>8. OidBytes(oid) = << b >> \o FlattenSeq(arcs)
  BY Zenon DEF OidBytes
<1> HIDE DEF b, L, arcs
<1> DEFINE s(j) == << b >> \o FlattenSeq(First(arcs, j))
           T == {j \in Nat : j <= L => ReadsTo(s(j), ArcsOf(First(oid, j + 2), 0, FALSE))}
<1>9. << b >> \in Seq(Nat) /\ << b >> # <<>>
  BY <1>4
<1>10. \A j \in 0 .. L : First(arcs, j) \in Seq(Seq(Nat)) /\ FlattenSeq(First(arcs, j)) \in Seq(Nat) /\ s(j) \in Seq(Nat) /\ s(j) # <<>>
  <2> TAKE j \in 0 .. L
  <2>1. First(arcs, j) \in Seq(Seq(Nat))
    BY <1>7, FirstFacts
  <2>2. PICK f \in Seq(Nat) : f = FlattenSeq(First(arcs, j))
    BY <2>1, FlattenFacts
  <2>3. PICK c \in Seq(Nat) : c = << b >> /\ c # <<>>
    BY <1>9
  <2>4. c \o f \in Seq(Nat) /\ c \o f # <<>>
    <3>1. Len(c \o f) = Len(c) + Len(f) /\ Len(c) # 0
      BY <2>3, EmptySeq, ConcatProperties
    <3> QED
      BY <3>1
  <2> QED
    BY <2>1, <2>2, <2>3, <2>4
<1>11. 0 \in T
  <2>1. First(arcs, 0) = <<>> /\ FlattenSeq(<<>>) = <<>>
    BY <1>7, FirstFacts, FlattenFacts
  <2>2. s(0) = << b >>
    BY <1>9, <2>1, ConcatEmptySeq
  <2>3. First(oid, 2) = <<oid[1], oid[2]>>
    <3> DEFINE p == <<oid[1], oid[2]>>
    <3>1. p \in Seq(Nat) /\ Len(p) = 2 /\ p[1] = oid[1] /\ p[2] = oid[2]
      BY <1>3
    <3>2. 2 \in 0 .. Len(oid)
      BY <1>1
    <3>3. First(oid, 2) \in Seq(Nat) /\ Len(First(oid, 2)) = 2 /\ \A i \in 1 .. 2 : First(oid, 2)[i] = oid[i]
      BY <1>1, <3>2, FirstFacts
    <3> HIDE DEF p
    <3>4. \A i \in 1 .. 2 : First(oid, 2)[i] = p[i]
      BY <3>1, <3>3
    <3>5. First(oid, 2) = p
      BY <3>1, <3>3, <3>4, SeqEqual
    <3> QED
      BY <3>5 DEF p
  <2>4. ReadsTo(<< b >>, ArcsOf(<<oid[1], oid[2]>>, 0, FALSE))
    BY <1>4, ReadsFirst
  <2>5. 0 + 2 = 2
    OBVIOUS
  <2> HIDE DEF s
  <2> QED
    BY <2>2, <2>3, <2>4, <2>5
<1>12. ASSUME NEW j \in Nat, j \in T PROVE j + 1 \in T
  <2> HIDE DEF s
  <2>0. j + 1 \in Nat
    OBVIOUS
  <2>1. SUFFICES ASSUME j + 1 <= L PROVE ReadsTo(s(j + 1), ArcsOf(First(oid, j + 1 + 2), 0, FALSE))
    BY <2>0, Zenon
  <2> USE DEF s
  <2>2. /\ j \in 0 .. L /\ j \in 0 .. L - 1 /\ j <= L /\ j + 1 \in 1 .. L
        /\ j + 2 \in 0 .. Len(oid) - 1 /\ (j + 2) + 1 = (j + 1) + 2
    BY <1>5, <2>1
  <2>3. PICK n \in Nat : n = oid[j + 1 + 2] /\ (\E k \in 1 .. 8 : n < Power(128, k)) /\ arcs[j + 1] = ArcBytes(n)
    BY <1>6, <2>2
  <2>4. ReadsTo(s(j), ArcsOf(First(oid, j + 2), 0, FALSE))
    BY <1>12, <2>2
  <2>5. ReadsTo(s(j) \o ArcBytes(n), ArcsOf(Append(First(oid, j + 2), n), 0, FALSE))
    <3> HIDE DEF s
    <3> QED
      BY <1>10, <2>2, <2>3, <2>4, ReadsArc
  <2>6. Append(First(oid, j + 2), n) = First(oid, j + 1 + 2)
    <3>1. PICK m \in 0 .. Len(oid) - 1 : m = j + 2 /\ m + 1 = j + 1 + 2
      BY <2>2
    <3>2. First(oid, m + 1) = Append(First(oid, m), oid[m + 1])
      BY <1>1, FirstFacts
    <3> QED
      BY <2>3, <3>1, <3>2, Zenon
  <2>7. s(j) \o ArcBytes(n) = s(j + 1)
    <3>1. First(arcs, j + 1) = Append(First(arcs, j), ArcBytes(n))
      <4>1. First(arcs, j + 1) = Append(First(arcs, j), arcs[j + 1])
        BY <1>7, <2>2, FirstFacts
      <4> QED
        BY <2>3, <4>1
    <3>2. PICK e \in Seq(Nat) : e = ArcBytes(n)
      BY <2>3, ArcBytesSeq, BytesFacts
    <3>3. PICK ss \in Seq(Seq(Nat)) : ss = First(arcs, j)
      BY <1>10, <2>2
    <3>4. FlattenSeq(Append(ss, e)) = FlattenSeq(ss) \o e
      BY FlattenFacts
    <3>5. PICK f \in Seq(Nat) : f = FlattenSeq(ss)
      BY <3>3, FlattenFacts
    <3>6. (<< b >> \o f) \o e = << b >> \o (f \o e)
      BY <1>9, ConcatAssociative
    <3> QED
      BY <3>1, <3>2, <3>3, <3>4, <3>5, <3>6, Zenon
  <2> HIDE DEF s
  <2> QED
    BY <2>5, <2>6, <2>7
<1>13. ReadsTo(s(L), ArcsOf(First(oid, L + 2), 0, FALSE))
  <2>1. L \in T
    <3> HIDE DEF T
    <3> QED
      BY <1>5, <1>11, <1>12, Counting
  <2>2. L <= L
    BY <1>5
  <2> HIDE DEF s
  <2> QED
    BY <2>1, <2>2
<1>14. s(L) = OidBytes(oid) /\ First(oid, L + 2) = oid
  <2>1. First(arcs, L) = arcs
    BY <1>7, FirstFacts
  <2>2. First(oid, L + 2) = oid
    BY <1>1, <1>5, FirstFacts
  <2> QED
    BY <1>8, <2>1, <2>2, Zenon
<1>15. s(L) \in Seq(Nat) /\ s(L) # <<>>
  <2>1. L \in 0 .. L
    BY <1>5
  <2> QED
    BY <1>10, <2>1
<1> HIDE DEF s
<1> QED
  BY <1>13, <1>14, <1>15, ReadsAll

\* An integer that an int cannot hold is refused, or panics if it is negative.
LEMMA IdLeaf ==
  ASSUME NEW s \in Sendings
  PROVE  /\ s.damage.kind = "long" => GetInt(IdBytes(s)) = Refused
         /\ s.damage.kind = "negative" => GetInt(IdBytes(s)) = Panics
         /\ s.damage.kind \notin {"long", "negative"} => GetInt(IdBytes(s)) = Value(s.message.id)
<1>1. IntBytes \in Nat /\ IntBytes # 0 /\ IntOK(s.message.id)
  BY SendingFacts DEF MessageOK
<1>2. CASE s.damage.kind = "long"
  <2> DEFINE f == [i \in 1 .. IntBytes + 1 |-> IF i \in 2 .. IntBytes THEN 0 ELSE 1]
  <2>1. IdBytes(s) = f
    BY <1>2 DEF IdBytes
  <2>2. f \in Seq(Nat) /\ Len(f) = IntBytes + 1
    <3>1. f \in [1 .. IntBytes + 1 -> Nat] /\ IntBytes + 1 \in Nat
      BY <1>1
    <3> HIDE DEF f
    <3> QED
      BY <3>1, FunctionSeq
  <2>3. f[1] = 1 /\ f[IntBytes + 1] = 1
    BY <1>1
  <2> HIDE DEF f
  <2>4. f # <<>> /\ ~ f[1] >= 128 /\ \E i \in IntBytes + 1 .. Len(f) : f[i] # 0
    BY <1>1, <2>2, <2>3
  <2>5. GetInt(f) = Refused
    BY <2>4 DEF GetInt
  <2> QED
    BY <1>2, <2>1, <2>5
<1>3. CASE s.damage.kind = "negative"
  <2> DEFINE f == [i \in 1 .. IntBytes + 1 |-> 255]
  <2>1. IdBytes(s) = f
    BY <1>3 DEF IdBytes
  <2>2. f \in Seq(Nat) /\ Len(f) = IntBytes + 1
    <3>1. f \in [1 .. IntBytes + 1 -> Nat] /\ IntBytes + 1 \in Nat
      BY <1>1
    <3> HIDE DEF f
    <3> QED
      BY <3>1, FunctionSeq
  <2>3. f[1] = 255 /\ \A i \in IntBytes + 1 .. IntBytes + 1 : f[i] = 255
    BY <1>1
  <2> HIDE DEF f
  <2>4. f # <<>> /\ f[1] >= 128 /\ (~ \E i \in IntBytes + 1 .. Len(f) : f[i] # 255) /\ Len(f) > IntBytes
    BY <1>1, <2>2, <2>3
  <2>5. GetInt(f) = Panics
    BY <2>4 DEF GetInt
  <2> QED
    BY <1>3, <2>1, <2>5
<1>4. CASE s.damage.kind \notin {"long", "negative"}
  <2>1. IdBytes(s) = IntBytesOf(s.message.id)
    BY <1>4 DEF IdBytes
  <2> QED
    BY <1>1, <1>4, <2>1, GetIntFacts
<1> QED
  BY <1>2, <1>3, <1>4

\* What has arrived of a message that is not cut: what comes after it is no part of it.
Behind(s) == IF s.damage.kind = "tail" THEN <<5, 0>> ELSE <<>>

LEMMA WireFacts ==
  ASSUME NEW s \in Sendings
  PROVE  /\ FlattenSeq(OfMessage(s)) \in Seq(Nat) /\ Len(FlattenSeq(OfMessage(s))) \in Lengths
         /\ Encoded(s) \in Seq(Nat) /\ Encoded(s) \in Seq(Byte) /\ OnTheWire(s) \in Seq(Byte)
         /\ Behind(s) \in Seq(Nat)
         /\ s.damage.kind = "cut" => Unmarshal(OnTheWire(s)) = Refused
         /\ s.damage.kind # "cut" =>
              /\ OnTheWire(s) = Encoded(s) \o Behind(s)
              /\ Unmarshal(OnTheWire(s))
                   = Value([class |-> 0, tag |-> 48, bytes |-> FlattenSeq(OfMessage(s)), tail |-> Behind(s)])
<1>1. OfMessage(s) \in Seq(Seq(Nat)) /\ Encoded(s) \in Seq(Nat)
  BY TlvSize, BytesFacts, ListsIn
<1>2. Encoded(s) \in Seq(Byte)
  BY TlvSize, ListsIn
<1>3. PICK bytes \in Seq(Nat) : bytes = FlattenSeq(OfMessage(s))
  BY <1>1, FlattenFacts
<1>4. PICK k \in 0 .. 2 : k = s.lengths
  BY SendingFacts
<1>5. Encoded(s) = Tlv(0, 48, bytes, k)
  BY <1>3, <1>4, Zenon DEF Encoded, Element
<1>6. 0 \in 0 .. 3 /\ 48 \in 0 .. 63
  OBVIOUS
<1>7. Len(bytes) \in Nat /\ Len(Encoded(s)) \in Nat /\ Len(bytes) + 2 <= Len(Encoded(s))
  BY <1>5, <1>6, TlvSize
<1>8. Len(bytes) \in Lengths
  <2>1. Len(bytes) < 65536
    BY <1>7, SendingFacts
  <2> QED
    BY <1>7, <2>1, LengthsFacts
<1>9. Behind(s) \in Seq(Byte) /\ Behind(s) \in Seq(Nat)
  <2>1. <<5, 0>> \in Seq(Byte) /\ <<>> \in Seq(Byte)
    BY DEF Byte
  <2>2. Behind(s) \in Seq(Byte)
    BY <2>1 DEF Behind
  <2> QED
    BY <2>2, BytesFacts
<1>10. CASE s.damage.kind = "cut"
  <2>1. s.damage.at \in 1 .. Len(Encoded(s))
    <3>1. DamageOK(s)
      BY SendingFacts
    <3> QED
      BY <1>10, <3>1 DEF DamageOK, Whole
  <2>2. PICK m \in Nat : m = Len(Encoded(s)) - s.damage.at /\ m < Len(Encoded(s)) /\ m <= Len(Encoded(s))
    <3>1. \A l \in Nat : \A a \in 1 .. l : l - a \in Nat /\ l - a < l /\ l - a <= l
      OBVIOUS
    <3> QED
      BY <1>7, <2>1, <3>1, Zenon
  <2>3. OnTheWire(s) = SubSeq(Encoded(s), 1, m)
    BY <1>10, <2>2, Zenon DEF OnTheWire
  <2>4. OnTheWire(s) \in Seq(Byte)
    BY <1>2, <2>2, <2>3, FirstFacts DEF First
  <2>5. Unmarshal(SubSeq(Tlv(0, 48, bytes, k), 1, m)) = Refused
    <3>1. m < Len(Tlv(0, 48, bytes, k))
      BY <1>5, <2>2
    <3> QED
      BY <1>6, <1>8, <3>1, UnmarshalCut
  <2> QED
    BY <1>1, <1>2, <1>3, <1>5, <1>8, <1>9, <1>10, <2>3, <2>4, <2>5
<1>11. CASE s.damage.kind # "cut"
  <2>1. Encoded(s) \o <<>> = Encoded(s)
    BY <1>1, ConcatEmptySeq
  <2>2. OnTheWire(s) = Encoded(s) \o Behind(s)
    BY <1>11, <2>1, Zenon DEF OnTheWire, Behind
  <2>3. OnTheWire(s) \in Seq(Byte)
    BY <1>2, <1>9, <2>2, ConcatProperties
  <2>4. PICK rest \in Seq(Nat) : rest = Behind(s)
    BY <1>9
  <2>5. Unmarshal(Tlv(0, 48, bytes, k) \o rest) = Value([class |-> 0, tag |-> 48, bytes |-> bytes, tail |-> rest])
    BY <1>6, <1>8, UnmarshalTlv, Zenon
  <2>6. Unmarshal(OnTheWire(s))
          = Value([class |-> 0, tag |-> 48, bytes |-> FlattenSeq(OfMessage(s)), tail |-> Behind(s)])
    BY <1>3, <1>5, <2>2, <2>4, <2>5, Zenon
  <2> QED
    BY <1>1, <1>2, <1>3, <1>8, <1>9, <1>11, <2>2, <2>3, <2>6
<1> QED
  BY <1>10, <1>11

\* A stack is a sequence of calls, the innermost first.
IsStack(rest) == \E S : rest \in Seq(S)
On(call, rest) == << call >> \o rest

LEMMA MoreSeq ==
  ASSUME NEW S, NEW rest \in Seq(S), NEW T, S \subseteq T
  PROVE  rest \in Seq(T)
OBVIOUS

LEMMA StackFacts ==
  ASSUME NEW rest, IsStack(rest), NEW a
  PROVE  /\ IsStack(On(a, rest))
         /\ On(a, rest) # <<>> /\ Head(On(a, rest)) = a /\ Tail(On(a, rest)) = rest
         /\ Len(rest) \in Nat /\ Len(On(a, rest)) = Len(rest) + 1 /\ On(a, rest)[1] = a
         /\ \A i \in 1 .. Len(rest) : On(a, rest)[i + 1] = rest[i]
         /\ DOMAIN On(a, rest) = 1 .. Len(rest) + 1
<1>1. PICK S : rest \in Seq(S)
  BY DEF IsStack
<1> DEFINE T == S \cup {a}
<1>2. rest \in Seq(T) /\ a \in T
  BY <1>1, MoreSeq
<1> HIDE DEF T
<1>3. << a >> \in Seq(T) /\ Len(<< a >>) = 1 /\ << a >>[1] = a
  BY <1>2
<1>4. PICK x \in Seq(T) : x = << a >> /\ Len(x) = 1 /\ x[1] = a
  BY <1>3
<1>5. On(a, rest) = x \o rest
  BY <1>4 DEF On
<1>6. x \o rest \in Seq(T) /\ Len(x \o rest) = Len(rest) + 1 /\ Len(rest) \in Nat
  BY <1>2, <1>4
<1>7. (x \o rest)[1] = a /\ \A i \in 1 .. Len(rest) : (x \o rest)[i + 1] = rest[i]
  BY <1>2, <1>4, <1>6
<1>8. PICK y \in Seq(T) : y = x \o rest
  BY <1>6
<1>9. y # <<>> /\ Len(y) = Len(rest) + 1 /\ Head(y) = a
  BY <1>6, <1>7, <1>8
<1>10. Tail(y) = rest
  <2>1. Tail(y) \in Seq(T) /\ Len(Tail(y)) = Len(rest) /\ \A i \in 1 .. Len(rest) : Tail(y)[i] = y[i + 1]
    BY <1>6, <1>9
  <2>2. \A i \in 1 .. Len(rest) : Tail(y)[i] = rest[i]
    BY <1>7, <1>8, <2>1
  <2> QED
    BY <1>2, <2>1, <2>2, SeqEqual
<1>11. IsStack(y)
  BY DEF IsStack
<1>12. DOMAIN y = 1 .. Len(rest) + 1
  BY <1>6, <1>8
<1> QED
  BY <1>5, <1>6, <1>7, <1>8, <1>9, <1>10, <1>11, <1>12, Zenon

\* A call on it, and the return to the one below.
LEMMA CallFacts ==
  ASSUME NEW rest, IsStack(rest), NEW a, NEW b
  PROVE  /\ <<b, a>> \o rest = On(b, On(a, rest))
         /\ Len(On(b, On(a, rest))) > 1
         /\ On(b, On(a, rest))[2] = a
         /\ SubSeq(On(b, On(a, rest)), 3, Len(On(b, On(a, rest)))) = rest
<1>1. PICK S : rest \in Seq(S)
  BY DEF IsStack
<1> DEFINE T == S \cup {a, b}
<1>2. rest \in Seq(T) /\ a \in T /\ b \in T
  BY <1>1, MoreSeq
<1> HIDE DEF T
<1>3. PICK u \in Seq(T) : u = << b >> /\ Len(u) = 1 /\ u[1] = b
  <2>1. << b >> \in Seq(T) /\ Len(<< b >>) = 1 /\ << b >>[1] = b
    BY <1>2
  <2> QED
    BY <2>1, Zenon
<1>4. PICK v \in Seq(T) : v = << a >> /\ Len(v) = 1 /\ v[1] = a
  <2>1. << a >> \in Seq(T) /\ Len(<< a >>) = 1 /\ << a >>[1] = a
    BY <1>2
  <2> QED
    BY <2>1, Zenon
<1>5. PICK w \in Seq(T) : w = <<b, a>> /\ Len(w) = 2 /\ w[1] = b /\ w[2] = a
  <2>1. <<b, a>> \in Seq(T) /\ Len(<<b, a>>) = 2 /\ <<b, a>>[1] = b /\ <<b, a>>[2] = a
    BY <1>2
  <2> QED
    BY <2>1, Zenon
<1>6. w = u \o v
  <2>1. u \o v \in Seq(T) /\ Len(u \o v) = 2 /\ (u \o v)[1] = b /\ (u \o v)[2] = a
    BY <1>3, <1>4
  <2>2. \A i \in 1 .. 2 : w[i] = (u \o v)[i]
    BY <1>5, <2>1
  <2> QED
    BY <1>5, <2>1, <2>2, SeqEqual
<1>7. w \o rest = u \o (v \o rest)
  <2>1. \A x \in Seq(T), y \in Seq(T), z \in Seq(T) : (x \o y) \o z = x \o (y \o z)
    BY JoinFacts
  <2> QED
    BY <1>2, <1>6, <2>1, Zenon
<1>8. <<b, a>> \o rest = On(b, On(a, rest))
  BY <1>3, <1>4, <1>5, <1>7, Zenon DEF On
<1>9. PICK y \in Seq(T) : y = u \o (v \o rest) /\ Len(y) = Len(rest) + 2
  <2>1. v \o rest \in Seq(T) /\ Len(v \o rest) = Len(rest) + 1
    BY <1>2, <1>4
  <2>2. u \o (v \o rest) \in Seq(T) /\ Len(u \o (v \o rest)) = Len(rest) + 2
    BY <1>2, <1>3, <2>1
  <2> QED
    BY <2>2, Zenon
<1>10. y = On(b, On(a, rest))
  BY <1>3, <1>4, <1>9, Zenon DEF On
<1>11. /\ IsStack(On(a, rest)) /\ Len(rest) \in Nat /\ Len(On(a, rest)) = Len(rest) + 1
       /\ On(a, rest)[1] = a
       /\ \A i \in 1 .. Len(rest) : On(a, rest)[i + 1] = rest[i]
  BY StackFacts
<1>12. \A i \in 1 .. Len(rest) + 1 : y[i + 1] = On(a, rest)[i]
  BY <1>10, <1>11, StackFacts
<1>13. y[2] = a /\ \A i \in 1 .. Len(rest) : y[i + 2] = rest[i]
  <2>1. 1 \in 1 .. Len(rest) + 1 /\ 1 + 1 = 2
    BY <1>11
  <2>2. \A i \in 1 .. Len(rest) : i + 1 \in 1 .. Len(rest) + 1 /\ (i + 1) + 1 = i + 2
    BY <1>11
  <2> QED
    BY <1>11, <1>12, <2>1, <2>2
<1>14. SubSeq(y, 3, Len(y)) = rest
  <2>1. /\ SubSeq(y, 3, Len(y)) \in Seq(T) /\ Len(SubSeq(y, 3, Len(y))) = Len(rest)
        /\ \A i \in 1 .. Len(rest) : SubSeq(y, 3, Len(y))[i] = y[i + 2]
    BY <1>9, <1>11
  <2>2. \A i \in 1 .. Len(rest) : SubSeq(y, 3, Len(y))[i] = rest[i]
    BY <1>13, <2>1
  <2> QED
    BY <1>2, <2>1, <2>2, SeqEqual
<1>15. Len(y) > 1
  BY <1>9, <1>11
<1> QED
  BY <1>8, <1>10, <1>13, <1>14, <1>15

-----------------------------------------------------------------------------
(* What is left of a frame                                                  *)

\* The calls of a stack, and the bytes that are left to them.
IsCall(c) ==
  c \in [type : {c.type}, class : {c.class}, tag : {c.tag}, bytes : Seq(Nat), values : {c.values}]

IsCalls(st)   == IsStack(st) /\ \A i \in 1 .. Len(st) : IsCall(st[i])
LeftOf(st)    == FlattenSeq([i \in DOMAIN st |-> st[i].bytes])

WithLeft(c, t)      == [c EXCEPT !.bytes = t]
WithValues(c, v)    == [c EXCEPT !.values = v]
Advanced(c, t, v)   == [c EXCEPT !.bytes = t, !.values = v]

LEMMA CallParts ==
  ASSUME NEW c, IsCall(c), NEW t \in Seq(Nat), NEW v
  PROVE  /\ c.bytes \in Seq(Nat)
         /\ IsCall(WithLeft(c, t)) /\ WithLeft(c, t).bytes = t
         /\ IsCall(Advanced(c, t, v)) /\ Advanced(c, t, v).bytes = t
         /\ IsCall(WithValues(c, v)) /\ WithValues(c, v).bytes = c.bytes
BY DEF IsCall, WithLeft, WithValues, Advanced

\* What is left to a stack is what is left to its first call and to the others.
LEMMA LeftOn ==
  ASSUME NEW rest, IsCalls(rest), NEW a, IsCall(a)
  PROVE  /\ IsCalls(On(a, rest))
         /\ a.bytes \in Seq(Nat) /\ LeftOf(rest) \in Seq(Nat)
         /\ LeftOf(On(a, rest)) = a.bytes \o LeftOf(rest)
<1>1. IsStack(rest) /\ \A i \in 1 .. Len(rest) : IsCall(rest[i]) /\ rest[i].bytes \in Seq(Nat)
  BY DEF IsCalls, IsCall
<1>2. PICK n \in Nat : n = Len(rest)
  BY <1>1, StackFacts
<1>3. DOMAIN rest = 1 .. n
  <2>1. PICK S : rest \in Seq(S)
    BY <1>1 DEF IsStack
  <2> QED
    BY <1>2, <2>1
<1>4. PICK st : st = On(a, rest)
  OBVIOUS
<1>5. /\ IsStack(st) /\ DOMAIN st = 1 .. n + 1 /\ Len(st) = n + 1
      /\ st[1] = a /\ \A i \in 1 .. n : st[i + 1] = rest[i]
  BY <1>1, <1>2, <1>4, StackFacts
<1>6. \A i \in 1 .. n + 1 : i = 1 \/ (i - 1 \in 1 .. n /\ (i - 1) + 1 = i)
  OBVIOUS
<1>7. \A i \in 1 .. n + 1 : IsCall(st[i])
  BY <1>1, <1>2, <1>5, <1>6
<1>8. \A i \in 1 .. n + 1 : st[i].bytes \in Seq(Nat)
  BY <1>7 DEF IsCall
<1> DEFINE f == [i \in 1 .. n |-> rest[i].bytes]
           g == [i \in 1 .. n + 1 |-> st[i].bytes]
<1>9. f \in Seq(Seq(Nat)) /\ Len(f) = n
  <2>1. f \in [1 .. n -> Seq(Nat)]
    BY <1>1, <1>2
  <2> HIDE DEF f
  <2> QED
    BY <2>1, FunctionSeq
<1>10. g \in Seq(Seq(Nat)) /\ Len(g) = n + 1
  <2>1. g \in [1 .. n + 1 -> Seq(Nat)] /\ n + 1 \in Nat
    BY <1>8
  <2> HIDE DEF g
  <2> QED
    BY <2>1, FunctionSeq
<1>11. g[1] = a.bytes /\ \A i \in 1 .. n : g[i + 1] = f[i]
  BY <1>5
<1>12. LeftOf(st) = FlattenSeq(g) /\ LeftOf(rest) = FlattenSeq(f)
  BY <1>3, <1>5, Zenon DEF LeftOf
<1> HIDE DEF f, g
<1>13. Tail(g) = f
  <2>1. Tail(g) \in Seq(Seq(Nat)) /\ Len(Tail(g)) = n /\ \A i \in 1 .. n : Tail(g)[i] = g[i + 1]
    BY <1>10
  <2>2. \A i \in 1 .. n : Tail(g)[i] = f[i]
    BY <1>11, <2>1
  <2> QED
    BY <1>9, <2>1, <2>2, SeqEqual
<1>14. g # <<>>
  BY <1>10
<1>15. FlattenSeq(g) = g[1] \o FlattenSeq(Tail(g)) /\ FlattenSeq(f) \in Seq(Nat)
  BY <1>9, <1>10, <1>14, FlattenFacts
<1>16. IsCalls(st)
  BY <1>5, <1>7 DEF IsCalls
<1>17. a.bytes \in Seq(Nat)
  BY DEF IsCall
<1> QED
  BY <1>4, <1>11, <1>12, <1>13, <1>15, <1>16, <1>17, Zenon

LEMMA LeftNone == IsCalls(<<>>) /\ LeftOf(<<>>) = <<>>
<1>1. <<>> \in Seq({}) /\ Len(<<>>) = 0
  OBVIOUS
<1>2. IsCalls(<<>>)
  BY <1>1 DEF IsCalls, IsStack
<1> DEFINE f == [i \in DOMAIN <<>> |-> <<>>[i].bytes]
<1>3. f = <<>>
  OBVIOUS
<1>4. LeftOf(<<>>) = FlattenSeq(f)
  BY Zenon DEF LeftOf
<1> HIDE DEF f
<1> QED
  BY <1>2, <1>3, <1>4, FlattenFacts

\* A stack is its first call and the others.
LEMMA OnParts ==
  ASSUME NEW st, IsCalls(st), st # <<>>
  PROVE  st = On(Head(st), Tail(st)) /\ IsCall(Head(st)) /\ IsCalls(Tail(st))
<1>1. PICK S : st \in Seq(S)
  BY DEF IsCalls, IsStack
<1>2. /\ Len(st) \in Nat /\ Len(st) > 0 /\ Head(st) = st[1] /\ Head(st) \in S
      /\ Tail(st) \in Seq(S) /\ Len(Tail(st)) = Len(st) - 1
      /\ \A i \in 1 .. Len(st) - 1 : Tail(st)[i] = st[i + 1]
  BY <1>1
<1>3. IsCalls(Tail(st)) /\ IsCall(Head(st))
  <2>1. \A i \in 1 .. Len(st) - 1 : i + 1 \in 1 .. Len(st)
    BY <1>2
  <2>2. 1 \in 1 .. Len(st)
    BY <1>2
  <2> QED
    BY <1>2, <2>1, <2>2 DEF IsCalls, IsStack
<1>4. PICK a \in S : a = Head(st)
  BY <1>2
<1>5. PICK rest \in Seq(S) : rest = Tail(st)
  BY <1>2
<1>6. << a >> \o rest \in Seq(S) /\ Len(<< a >> \o rest) = Len(st)
  BY <1>2, <1>4, <1>5
<1>7. On(a, rest)[1] = a /\ \A i \in 1 .. Len(rest) : On(a, rest)[i + 1] = rest[i]
  <2>1. IsStack(rest)
    BY <1>5 DEF IsStack
  <2> QED
    BY <2>1, StackFacts
<1>8. \A i \in 1 .. Len(st) : (<< a >> \o rest)[i] = st[i]
  <2>1. \A i \in 1 .. Len(st) : i = 1 \/ (i - 1 \in 1 .. Len(st) - 1 /\ (i - 1) + 1 = i)
    BY <1>2
  <2> QED
    BY <1>2, <1>4, <1>5, <1>7, <2>1 DEF On
<1>9. << a >> \o rest = st
  BY <1>1, <1>6, <1>8, SeqEqual
<1> QED
  BY <1>3, <1>4, <1>5, <1>9 DEF On

\* What has arrived is what was sent, and a frame that is cut is not decoded.
SentInv ==
  /\ sent \in Sendings
  /\ phase \in Phases
  /\ frame = IF phase = "sending" THEN <<>> ELSE OnTheWire(sent)
  /\ phase = "decoding" => sent.damage.kind # "cut"

\* What is left to the calls is the end of what was encoded.
EndOf(x, y) == \E p \in Seq(Nat) : y = p \o x
ReadInv     == phase = "decoding" => IsCalls(stack) /\ stack # <<>> /\ EndOf(LeftOf(stack), Encoded(sent))

LEMMA SentNext == Init => SentInv
BY DEF Init, SentInv, Phases

LEMMA SentStep == SentInv /\ [Next]_vars => SentInv'
<1> SUFFICES ASSUME SentInv, [Next]_vars PROVE SentInv'
  OBVIOUS
<1> USE DEF SentInv, Phases
<1>1. CASE UNCHANGED vars
  BY <1>1 DEF vars
<1>2. CASE Send
  BY <1>2 DEF Send
<1>3. CASE Begin
  <2>1. sent.damage.kind # "cut"
    <3>1. Unmarshal(OnTheWire(sent)).is = "ok"
      BY <1>3 DEF Begin
    <3>2. Refused.is # "ok"
      BY DEF Refused
    <3> QED
      BY <3>1, <3>2, WireFacts
  <2> QED
    BY <1>3, <2>1 DEF Begin
<1>4. CASE RefuseFrame
  BY <1>4 DEF RefuseFrame, Fail
<1>5. CASE RefuseTooMany
  BY <1>5 DEF RefuseTooMany, Fail
<1>6. CASE RefuseElement
  BY <1>6 DEF RefuseElement, More, Fail
<1>7. CASE Enter
  BY <1>7 DEF Enter
<1>8. CASE UnpackLeaf
  <2>1. UNCHANGED <<sent, frame>> /\ phase = "decoding" /\ (UNCHANGED phase \/ phase' \in {"refused", "panicked"})
    BY <1>8 DEF UnpackLeaf, Fits, More, Fail
  <2> QED
    BY <2>1
<1>9. CASE RefuseTooFew
  BY <1>9 DEF RefuseTooFew, Fail
<1>10. CASE Leave
  BY <1>10 DEF Leave
<1>11. CASE End
  BY <1>11 DEF End
<1> QED
  BY <1>1, <1>2, <1>3, <1>4, <1>5, <1>6, <1>7, <1>8, <1>9, <1>10, <1>11 DEF Next

\* A part that was read leaves an end.
LEMMA EndLater ==
  ASSUME NEW x \in Seq(Nat), NEW y, NEW p \in Seq(Nat), EndOf(p \o x, y)
  PROVE  EndOf(x, y)
<1>1. PICK q \in Seq(Nat) : y = q \o (p \o x)
  BY Zenon DEF EndOf
<1>2. q \o p \in Seq(Nat) /\ (q \o p) \o x = q \o (p \o x)
  BY JoinFacts
<1> QED
  BY <1>1, <1>2, Zenon DEF EndOf

LEMMA TlvEnd ==
  ASSUME NEW class \in 0 .. 3, NEW tag \in 0 .. 63, NEW bytes \in Seq(Nat), Len(bytes) \in Lengths, NEW k
  PROVE  EndOf(bytes, Tlv(class, tag, bytes, k))
<1>1. PICK h \in Seq(Nat) : /\ HeaderIs(h, class, tag, Len(bytes)) /\ Len(h) \in 2 .. 4
                            /\ Tlv(class, tag, bytes, k) = h \o bytes
  BY TlvParts, Zenon
<1> QED
  BY <1>1, Zenon DEF EndOf

LEMMA EncodedEnd ==
  ASSUME NEW s \in Sendings
  PROVE  EndOf(FlattenSeq(OfMessage(s)), Encoded(s))
<1>1. PICK bytes \in Seq(Nat) : bytes = FlattenSeq(OfMessage(s)) /\ Len(bytes) \in Lengths
  BY WireFacts
<1>2. 0 \in 0 .. 3 /\ 48 \in 0 .. 63
  OBVIOUS
<1>3. EndOf(bytes, Tlv(0, 48, bytes, s.lengths))
  BY <1>1, <1>2, TlvEnd
<1> QED
  BY <1>1, <1>3, Zenon DEF Encoded, Element

LEMMA ReadStart == Init => ReadInv
BY DEF Init, ReadInv

LEMMA ReadBegin ==
  ASSUME SentInv, Begin
  PROVE  ReadInv'
<1>1. /\ sent \in Sendings /\ frame = OnTheWire(sent) /\ sent.damage.kind # "cut" /\ UNCHANGED sent
      /\ Unmarshal(frame).is = "ok"
      /\ stack' = <<Call("Message", Unmarshal(frame).value)>>
  <2>1. /\ sent \in Sendings /\ frame = OnTheWire(sent) /\ UNCHANGED sent /\ Unmarshal(frame).is = "ok"
        /\ stack' = <<Call("Message", Unmarshal(frame).value)>>
    BY DEF SentInv, Begin
  <2>2. Refused.is # "ok"
    BY DEF Refused
  <2> QED
    BY <2>1, <2>2, WireFacts
<1>2. PICK bytes \in Seq(Nat) : bytes = FlattenSeq(OfMessage(sent)) /\ Len(bytes) \in Lengths
  BY <1>1, WireFacts
<1>3. Unmarshal(frame) = Value([class |-> 0, tag |-> 48, bytes |-> bytes, tail |-> Behind(sent)])
  BY <1>1, <1>2, WireFacts
<1>4. PICK call : call = Call("Message", Unmarshal(frame).value)
  OBVIOUS
<1>5. IsCall(call) /\ call.bytes = bytes
  <2>1. call = [type |-> "Message", class |-> 0, tag |-> 48, bytes |-> bytes, values |-> <<>>]
    BY <1>3, <1>4 DEF Call, Value
  <2> QED
    BY <2>1 DEF IsCall
<1>6. stack' = On(call, <<>>)
  <2>1. << call >> \o <<>> = << call >>
    <3>1. << call >> \in Seq({call})
      OBVIOUS
    <3> QED
      BY <3>1, ConcatEmptySeq
  <2> QED
    BY <1>1, <1>4, <2>1 DEF On
<1>7. IsCalls(stack') /\ stack' # <<>> /\ LeftOf(stack') = bytes
  <2>1. IsCalls(<<>>) /\ LeftOf(<<>>) = <<>> /\ IsStack(<<>>)
    BY LeftNone DEF IsCalls
  <2>2. IsCalls(On(call, <<>>)) /\ LeftOf(On(call, <<>>)) = bytes \o <<>>
    BY <1>5, <2>1, LeftOn
  <2>3. On(call, <<>>) # <<>>
    BY <2>1, StackFacts
  <2>4. bytes \o <<>> = bytes
    BY ConcatEmptySeq
  <2> QED
    BY <1>6, <2>2, <2>3, <2>4
<1>8. EndOf(bytes, Encoded(sent))
  BY <1>1, <1>2, EncodedEnd
<1> QED
  BY <1>1, <1>7, <1>8 DEF ReadInv

\* What the next element leaves, and what there is in it.
LEMMA ReadNext ==
  ASSUME IsCalls(stack), stack # <<>>, EndOf(LeftOf(stack), Encoded(sent)), NextElement.is = "ok"
  PROVE  /\ IsCall(Top) /\ IsCalls(Tail(stack)) /\ stack = On(Top, Tail(stack)) /\ LeftOf(Tail(stack)) \in Seq(Nat)
         /\ NextElement.value.bytes \in Seq(Nat) /\ NextElement.value.tail \in Seq(Nat)
         /\ EndOf(NextElement.value.bytes \o (NextElement.value.tail \o LeftOf(Tail(stack))), Encoded(sent))
         /\ EndOf(NextElement.value.tail \o LeftOf(Tail(stack)), Encoded(sent))
<1>1. IsCall(Top) /\ IsCalls(Tail(stack)) /\ stack = On(Top, Tail(stack))
  BY OnParts DEF Top
<1>2. /\ Top.bytes \in Seq(Nat) /\ LeftOf(Tail(stack)) \in Seq(Nat)
      /\ LeftOf(stack) = Top.bytes \o LeftOf(Tail(stack))
  BY <1>1, LeftOn
<1>3. PICK data \in Seq(Nat) : data = Top.bytes
  BY <1>2
<1>4. PICK left \in Seq(Nat) : left = LeftOf(Tail(stack))
  BY <1>2
<1>5. NextElement = Unmarshal(data)
  BY <1>3 DEF NextElement
<1>6. PICK b \in Seq(Nat) : b = NextElement.value.bytes
  BY <1>5, UnmarshalParts
<1>7. PICK t \in Seq(Nat) : t = NextElement.value.tail
  BY <1>5, UnmarshalParts
<1>8. PICK h \in Seq(Nat) : data = h \o (b \o t)
  <2>1. Unmarshal(data).is = "ok"
    BY <1>5
  <2>2. \E h \in Seq(Nat) : data = h \o (Unmarshal(data).value.bytes \o Unmarshal(data).value.tail)
    BY <2>1, UnmarshalParts, Zenon
  <2> QED
    BY <1>5, <1>6, <1>7, <2>2, Zenon
<1>9. /\ b \o (t \o left) \in Seq(Nat) /\ t \o left \in Seq(Nat)
      /\ data \o left = h \o (b \o (t \o left))
  <2>1. b \o t \in Seq(Nat) /\ t \o left \in Seq(Nat)
    BY JoinFacts
  <2>2. b \o (t \o left) \in Seq(Nat)
    BY <2>1, JoinFacts
  <2>3. \A x \in Seq(Nat), y \in Seq(Nat), z \in Seq(Nat) : (x \o y) \o z = x \o (y \o z)
    BY JoinFacts
  <2>4. (h \o (b \o t)) \o left = h \o (b \o (t \o left))
    <3>1. (h \o (b \o t)) \o left = h \o ((b \o t) \o left)
      BY <2>1, <2>3, Zenon
    <3>2. (b \o t) \o left = b \o (t \o left)
      BY <2>3, Zenon
    <3> QED
      BY <3>1, <3>2, Zenon
  <2>5. data \o left = h \o (b \o (t \o left))
    BY <1>8, <2>4, Zenon
  <2> QED
    BY <2>1, <2>2, <2>5, Zenon
<1>10. EndOf(h \o (b \o (t \o left)), Encoded(sent))
  BY <1>2, <1>3, <1>4, <1>9, Zenon
<1>11. EndOf(b \o (t \o left), Encoded(sent))
  BY <1>9, <1>10, EndLater
<1>12. EndOf(t \o left, Encoded(sent))
  BY <1>9, <1>11, EndLater
<1> QED
  BY <1>1, <1>4, <1>6, <1>7, <1>11, <1>12

LEMMA ReadStep == SentInv /\ ReadInv /\ [Next]_vars => ReadInv'
<1> SUFFICES ASSUME SentInv, ReadInv, [Next]_vars PROVE ReadInv'
  OBVIOUS
<1>1. ASSUME phase = "decoding", UNCHANGED <<stack, sent>> PROVE ReadInv'
  BY <1>1 DEF ReadInv
<1>2. ASSUME phase' # "decoding" PROVE ReadInv'
  BY <1>2 DEF ReadInv
<1>3. CASE UNCHANGED vars
  BY <1>3 DEF vars, ReadInv
<1>4. CASE Send
  BY <1>2, <1>4 DEF Send
<1>5. CASE Begin
  BY <1>5, ReadBegin
<1>6. CASE RefuseFrame
  BY <1>2, <1>6 DEF RefuseFrame, Fail
<1>7. CASE RefuseTooMany
  BY <1>2, <1>7 DEF RefuseTooMany, Fail
<1>8. CASE RefuseElement
  BY <1>2, <1>8 DEF RefuseElement, Fail
<1>9. CASE Enter
  <2>1. /\ phase = "decoding" /\ NextElement.is = "ok" /\ UNCHANGED <<sent, phase>>
        /\ stack' = <<Call(Type, NextElement.value), [Top EXCEPT !.bytes = NextElement.value.tail]>> \o Tail(stack)
    BY <1>9 DEF Enter, Fits, More
  <2>2. IsCalls(stack) /\ stack # <<>> /\ EndOf(LeftOf(stack), Encoded(sent))
    BY <2>1 DEF ReadInv
  <2>3. PICK rest : rest = Tail(stack)
    OBVIOUS
  <2>4. PICK b \in Seq(Nat) : b = NextElement.value.bytes
    BY <2>1, <2>2, ReadNext
  <2>5. PICK t \in Seq(Nat) : t = NextElement.value.tail
    BY <2>1, <2>2, ReadNext
  <2>6. IsCall(Top) /\ IsCalls(rest) /\ IsStack(rest) /\ EndOf(b \o (t \o LeftOf(rest)), Encoded(sent))
    BY <2>1, <2>2, <2>3, <2>4, <2>5, ReadNext DEF IsCalls
  <2>7. PICK called : called = Call(Type, NextElement.value)
    OBVIOUS
  <2>8. PICK caller : caller = WithLeft(Top, t)
    OBVIOUS
  <2>9. IsCall(called) /\ called.bytes = b
    BY <2>4, <2>7 DEF Call, IsCall
  <2>10. IsCall(caller) /\ caller.bytes = t
    BY <2>6, <2>8, CallParts
  <2>11. stack' = On(called, On(caller, rest))
    BY <2>1, <2>3, <2>5, <2>6, <2>7, <2>8, CallFacts DEF WithLeft
  <2>12. IsCalls(On(caller, rest)) /\ LeftOf(On(caller, rest)) = t \o LeftOf(rest)
    BY <2>6, <2>10, LeftOn
  <2>13. IsCalls(stack') /\ LeftOf(stack') = b \o (t \o LeftOf(rest))
    BY <2>9, <2>11, <2>12, LeftOn
  <2>14. stack' # <<>>
    BY <2>11, <2>12, StackFacts DEF IsCalls
  <2> QED
    BY <2>1, <2>6, <2>13, <2>14 DEF ReadInv
<1>10. CASE UnpackLeaf
  <2>1. phase = "decoding" /\ NextElement.is = "ok"
    BY <1>10 DEF UnpackLeaf, Fits, More
  <2>2. CASE phase' # "decoding"
    BY <1>2, <2>2
  <2>3. CASE phase' = "decoding"
    <3>1. /\ UNCHANGED sent
          /\ \E v : stack' = <<[Top EXCEPT !.bytes = NextElement.value.tail, !.values = v]>> \o Tail(stack)
      BY <1>10, <2>3 DEF UnpackLeaf, Fail
    <3>2. IsCalls(stack) /\ stack # <<>> /\ EndOf(LeftOf(stack), Encoded(sent))
      BY <2>1 DEF ReadInv
    <3>3. PICK rest : rest = Tail(stack)
      OBVIOUS
    <3>4. PICK t \in Seq(Nat) : t = NextElement.value.tail
      BY <2>1, <3>2, ReadNext
    <3>5. IsCall(Top) /\ IsCalls(rest) /\ IsStack(rest) /\ EndOf(t \o LeftOf(rest), Encoded(sent))
      BY <2>1, <3>2, <3>3, <3>4, ReadNext DEF IsCalls
    <3>6. PICK v : stack' = <<[Top EXCEPT !.bytes = t, !.values = v]>> \o rest
      BY <3>1, <3>3, <3>4
    <3>7. PICK call : call = Advanced(Top, t, v)
      OBVIOUS
    <3>8. IsCall(call) /\ call.bytes = t
      <4>1. PICK top : top = Top /\ IsCall(top)
        BY <3>5
      <4> QED
        BY <3>4, <3>7, <4>1, CallParts
    <3>9. stack' = On(call, rest)
      BY <3>6, <3>7 DEF On, Advanced
    <3>10. IsCalls(stack') /\ LeftOf(stack') = t \o LeftOf(rest) /\ stack' # <<>>
      BY <3>5, <3>8, <3>9, LeftOn, StackFacts
    <3> QED
      BY <3>1, <3>5, <3>10 DEF ReadInv
  <2> QED
    BY <2>2, <2>3
<1>11. CASE RefuseTooFew
  BY <1>2, <1>11 DEF RefuseTooFew, Fail
<1>12. CASE Leave
  <2>1. /\ phase = "decoding" /\ Top.bytes = <<>> /\ Len(stack) > 1 /\ UNCHANGED <<sent, phase>>
        /\ \E v : stack' = <<[stack[2] EXCEPT !.values = v]>> \o SubSeq(stack, 3, Len(stack))
    BY <1>12 DEF Leave, Complete
  <2>2. IsCalls(stack) /\ stack # <<>> /\ EndOf(LeftOf(stack), Encoded(sent))
    BY <2>1 DEF ReadInv
  <2>3. PICK top : top = Top
    OBVIOUS
  <2>4. PICK under : under = Tail(stack)
    OBVIOUS
  <2>5. stack = On(top, under) /\ IsCall(top) /\ IsCalls(under) /\ top.bytes = <<>> /\ IsStack(under)
    BY <2>1, <2>2, <2>3, <2>4, OnParts DEF Top, IsCalls
  <2>6. under # <<>>
    <3>1. Len(On(top, under)) = Len(under) + 1 /\ Len(<<>>) = 0
      BY <2>5, StackFacts
    <3> QED
      BY <2>1, <2>5, <3>1
  <2>7. PICK caller : caller = Head(under)
    OBVIOUS
  <2>8. PICK rest : rest = Tail(under)
    OBVIOUS
  <2>9. under = On(caller, rest) /\ IsCall(caller) /\ IsCalls(rest) /\ IsStack(rest)
    BY <2>5, <2>6, <2>7, <2>8, OnParts DEF IsCalls
  <2>10. stack[2] = caller /\ SubSeq(stack, 3, Len(stack)) = rest
    BY <2>5, <2>9, CallFacts
  <2>11. PICK v : stack' = <<[caller EXCEPT !.values = v]>> \o rest
    BY <2>1, <2>10
  <2>12. PICK call : call = WithValues(caller, v)
    OBVIOUS
  <2>13. IsCall(call) /\ call.bytes = caller.bytes
    <3>1. <<>> \in Seq(Nat)
      OBVIOUS
    <3> QED
      BY <2>9, <2>12, <3>1, CallParts
  <2>14. stack' = On(call, rest)
    BY <2>11, <2>12 DEF On, WithValues
  <2>15. IsCalls(stack') /\ LeftOf(stack') = caller.bytes \o LeftOf(rest) /\ stack' # <<>>
    BY <2>9, <2>13, <2>14, LeftOn, StackFacts
  <2>16. LeftOf(stack) = LeftOf(under) /\ LeftOf(under) = caller.bytes \o LeftOf(rest)
    <3>1. LeftOf(stack) = <<>> \o LeftOf(under) /\ LeftOf(under) \in Seq(Nat)
      BY <2>5, LeftOn
    <3>2. LeftOf(under) = caller.bytes \o LeftOf(rest)
      BY <2>9, LeftOn
    <3> QED
      BY <3>1, <3>2, ConcatEmptySeq
  <2> QED
    BY <2>1, <2>2, <2>15, <2>16 DEF ReadInv
<1>13. CASE End
  BY <1>2, <1>13 DEF End
<1> QED
  BY <1>3, <1>4, <1>5, <1>6, <1>7, <1>8, <1>9, <1>10, <1>11, <1>12, <1>13 DEF Next

\* Between two elements what is left to the calls that are not finished is the end of the frame.
THEOREM EveryByteReadOnce == Spec => []ReadOnce
<1>1. Init => SentInv /\ ReadInv
  BY SentNext, ReadStart
<1>2. SentInv /\ ReadInv /\ [Next]_vars => SentInv' /\ ReadInv'
  BY SentStep, ReadStep
<1>3. SentInv /\ ReadInv => ReadOnce
  <2> SUFFICES ASSUME SentInv, ReadInv, phase = "decoding" PROVE ReadOnce
    BY DEF ReadOnce
  <2>1. /\ sent \in Sendings /\ frame = OnTheWire(sent) /\ sent.damage.kind # "cut"
        /\ IsCalls(stack) /\ stack # <<>> /\ EndOf(LeftOf(stack), Encoded(sent))
    BY DEF SentInv, ReadInv
  <2>2. PICK left \in Seq(Nat) : left = LeftOf(stack)
    <3>1. LeftOf(stack) \in Seq(Nat)
      <4>1. IsCall(Head(stack)) /\ IsCalls(Tail(stack)) /\ stack = On(Head(stack), Tail(stack))
        BY <2>1, OnParts
      <4>2. /\ Head(stack).bytes \in Seq(Nat) /\ LeftOf(Tail(stack)) \in Seq(Nat)
            /\ LeftOf(stack) = Head(stack).bytes \o LeftOf(Tail(stack))
        BY <4>1, LeftOn
      <4> QED
        BY <4>2, JoinFacts
    <3> QED
      BY <3>1
  <2>3. PICK z \in Seq(Nat) : z = Behind(sent)
    BY <2>1, WireFacts
  <2>4. PICK p \in Seq(Nat) : Encoded(sent) = p \o left
    BY <2>1, <2>2, Zenon DEF EndOf
  <2>5. frame = p \o (left \o z)
    <3>1. frame = Encoded(sent) \o z
      BY <2>1, <2>3, WireFacts
    <3>2. (p \o left) \o z = p \o (left \o z)
      BY JoinFacts
    <3> QED
      BY <2>4, <3>1, <3>2
  <2>6. Len(frame) = Len(p) + Len(left) + Len(z) /\ SubSeq(frame, Len(p) + 1, Len(p) + Len(left)) = left
    BY <2>5, JoinedParts
  <2>7. Len(z) = IF sent.damage.kind = "tail" THEN 2 ELSE 0
    BY <2>3 DEF Behind
  <2>8. PICK end : end = Len(frame) - IF sent.damage.kind = "tail" THEN 2 ELSE 0
    OBVIOUS
  <2>9. end = Len(p) + Len(left) /\ end - Len(left) + 1 = Len(p) + 1
    <3>1. PICK a \in Nat : a = Len(p)
      OBVIOUS
    <3>2. PICK b \in Nat : b = Len(left)
      OBVIOUS
    <3>3. PICK c \in Nat : c = Len(z)
      OBVIOUS
    <3>4. end = (a + b + c) - c
      BY <2>6, <2>7, <2>8, <3>1, <3>2, <3>3
    <3>5. end = a + b /\ end - b + 1 = a + 1
      BY <3>4
    <3> QED
      BY <3>1, <3>2, <3>5
  <2>10. left = SubSeq(frame, end - Len(left) + 1, end)
    BY <2>6, <2>9
  <2> QED
    BY <2>2, <2>8, <2>10, Zenon DEF ReadOnce, LeftOf
<1> QED
  BY <1>1, <1>2, <1>3, PTL DEF Spec

-----------------------------------------------------------------------------
(* What each call reads                                                     *)

\* There is an element, and what it is.
Reads(data, class, tag, bytes, tail) ==
  data # <<>> /\ Unmarshal(data) = Value([class |-> class, tag |-> tag, bytes |-> bytes, tail |-> tail])

\* The data of an element that is longer than they are.
TooLong(data) == data # <<>> /\ Unmarshal(data) = Refused

LEMMA PartRead ==
  ASSUME NEW s \in Sendings, NEW list \in Seq(Seq(Nat)), Len(FlattenSeq(list)) \in Lengths,
         NEW k \in Nat, k < Len(list),
         NEW class \in 0 .. 3, NEW tag \in 0 .. 63, NEW bytes \in Seq(Nat), list[k + 1] = Element(s, class, tag, bytes)
  PROVE  /\ Len(bytes) \in Lengths /\ Len(bytes) + 2 <= Len(FlattenSeq(list))
         /\ Reads(Left(list, k), class, tag, bytes, Left(list, k + 1))
         /\ Left(list, k + 1) # <<>> => Reads(Front(Left(list, k)), class, tag, bytes, Front(Left(list, k + 1)))
         /\ Left(list, k + 1) = <<>> => TooLong(Front(Left(list, k)))
<1>1. PICK e \in Seq(Nat) : e = Element(s, class, tag, bytes) /\ 2 <= Len(e)
  <2>1. PICK n \in 0 .. 2 : n = s.lengths
    BY SendingFacts
  <2>2. /\ Tlv(class, tag, bytes, n) \in Seq(Nat) /\ Len(bytes) \in Nat /\ Len(Tlv(class, tag, bytes, n)) \in Nat
        /\ Len(bytes) + 2 <= Len(Tlv(class, tag, bytes, n))
    BY TlvSize DEF TlvIn
  <2>3. Element(s, class, tag, bytes) = Tlv(class, tag, bytes, n)
    BY <2>1, Zenon DEF Element
  <2> QED
    BY <2>2, <2>3
<1>2. k \in 0 .. Len(list) - 1 /\ k \in 0 .. Len(list) /\ k + 1 \in 0 .. Len(list)
  OBVIOUS
<1>3. PICK x \in Seq(Nat) : x = Left(list, k)
  BY <1>2, LeftFacts
<1>4. PICK y \in Seq(Nat) : y = Left(list, k + 1)
  BY <1>2, LeftFacts
<1>5. x = e \o y
  BY <1>1, <1>2, <1>3, <1>4, LeftFacts
<1>6. Len(x) \in Nat /\ 2 <= Len(x)
  BY <1>1, <1>5
<1>7. Front(x) # <<>>
  <2>1. Front(x) \in Seq(Nat) /\ Len(Front(x)) = Len(x) - 1
    BY <1>6, FrontFacts
  <2> QED
    BY <1>6, <2>1
<1>8. TakesPart(list, k, class, tag, bytes)
  BY ReadElement
<1>9. Front(Left(list, k)) # <<>>
  BY <1>3, <1>7, Zenon
<1>10. Reads(Left(list, k), class, tag, bytes, Left(list, k + 1))
  BY <1>8, Zenon DEF TakesPart, Reads
<1>11. Left(list, k + 1) # <<>> => Reads(Front(Left(list, k)), class, tag, bytes, Front(Left(list, k + 1)))
  BY <1>8, <1>9, Zenon DEF TakesPart, Reads
<1>12. Left(list, k + 1) = <<>> => TooLong(Front(Left(list, k)))
  BY <1>8, <1>9, Zenon DEF TakesPart, TooLong
<1> QED
  BY <1>8, <1>10, <1>11, <1>12, Zenon DEF TakesPart

\* The elements of a sequence of a message, by their number.
LEMMA ElementsAt ==
  ASSUME NEW s \in Sendings, NEW at, NEW list \in Seq(Seq(Nat)), Hit(s, "few", at) => list # <<>>
  PROVE  /\ Elements(s, at, list) \in Seq(Seq(Nat))
         /\ Len(list) \in Nat /\ Len(Elements(s, at, list)) \in Nat
         /\ Hit(s, "few", at) => Len(Elements(s, at, list)) = Len(list) - 1
         /\ Hit(s, "many", at) => /\ Len(Elements(s, at, list)) = Len(list) + 1
                                  /\ Elements(s, at, list)[Len(list) + 1] = Element(s, 0, 2, IntBytesOf(0))
         /\ ~ Hit(s, "few", at) /\ ~ Hit(s, "many", at) => Len(Elements(s, at, list)) = Len(list)
         /\ \A i \in 1 .. Len(list) : i <= Len(Elements(s, at, list)) => Elements(s, at, list)[i] = list[i]
<1>1. Integer(s, 0) \in Seq(Nat)
  <2>1. IntOK(0)
    BY SendingFacts
  <2>2. TlvIn(Nat) /\ Seq(Byte) \subseteq Seq(Nat)
    BY TlvSize, BytesFacts
  <2> QED
    BY <2>1, <2>2, IntegerIn
<1>2. /\ Elements(s, at, list) \in Seq(Seq(Nat))
      /\ Len(list) \in Nat
      /\ Hit(s, "few", at) => Len(Elements(s, at, list)) = Len(list) - 1
      /\ Hit(s, "many", at) => /\ Len(Elements(s, at, list)) = Len(list) + 1
                               /\ Elements(s, at, list)[Len(list) + 1] = Integer(s, 0)
      /\ ~ Hit(s, "few", at) /\ ~ Hit(s, "many", at) => Elements(s, at, list) = list
      /\ \A i \in 1 .. Len(list) : i <= Len(Elements(s, at, list)) => Elements(s, at, list)[i] = list[i]
  BY <1>1, ElementsFacts
<1>3. Len(Elements(s, at, list)) \in Nat
  BY <1>2, LenProperties
<1>4. Integer(s, 0) = Element(s, 0, 2, IntBytesOf(0))
  BY Zenon DEF Integer
<1> QED
  BY <1>2, <1>3, <1>4

\* Nothing is left after the last of them.
LEMMA NoneLeft ==
  ASSUME NEW list \in Seq(Seq(Nat)), NEW n, n = Len(list)
  PROVE  Left(list, n) = <<>>
BY LeftFacts

LEMMA MessageReads ==
  ASSUME NEW s \in Sendings
  PROVE  /\ Reads(Left(OfMessage(s), 0), 0, 2, IntBytesOf(s.message.version), Left(OfMessage(s), 1))
         /\ Reads(Left(OfMessage(s), 1), 0, TagOf(s, "community", 4), s.message.community, Left(OfMessage(s), 2))
         /\ Hit(s, "few", "message") => Left(OfMessage(s), 2) = <<>>
         /\ ~ Hit(s, "few", "message") =>
              /\ Len(FlattenSeq(OfPdu(s))) \in Lengths
              /\ Reads(Left(OfMessage(s), 2), 2, s.message.tag, Shortened(s, FlattenSeq(OfPdu(s))),
                       Left(OfMessage(s), 3))
         /\ ~ Hit(s, "few", "message") /\ ~ Hit(s, "many", "message") => Left(OfMessage(s), 3) = <<>>
         /\ Hit(s, "many", "message") => Left(OfMessage(s), 3) # <<>>
<1>1. /\ MessageList(s) \in Seq(Seq(Nat)) /\ OfMessage(s) \in Seq(Seq(Nat)) /\ OfPdu(s) \in Seq(Seq(Nat))
  BY TlvSize, BytesFacts, ListsIn
<1>2. PICK list \in Seq(Seq(Nat)) : list = MessageList(s)
  BY <1>1
<1>3. PICK all \in Seq(Seq(Nat)) : all = OfMessage(s)
  BY <1>1
<1>4. /\ Len(list) = 3 /\ list[1] = Integer(s, s.message.version) /\ list[2] = Community(s) /\ list[3] = PduElement(s)
      /\ list # <<>>
  BY <1>2 DEF MessageList
<1>5. all = Elements(s, "message", list)
  BY <1>2, <1>3, Lists
<1>6. /\ Len(all) \in Nat
      /\ Hit(s, "few", "message") => Len(all) = 2
      /\ Hit(s, "many", "message") => Len(all) = 4 /\ all[4] = Element(s, 0, 2, IntBytesOf(0))
      /\ ~ Hit(s, "few", "message") /\ ~ Hit(s, "many", "message") => Len(all) = 3
      /\ \A i \in 1 .. 3 : i <= Len(all) => all[i] = list[i]
  <2>1. list \in Seq(Seq(Nat)) /\ list # <<>>
    BY <1>4
  <2>2. /\ Len(Elements(s, "message", list)) \in Nat
        /\ Hit(s, "few", "message") => Len(Elements(s, "message", list)) = Len(list) - 1
        /\ Hit(s, "many", "message") =>
             /\ Len(Elements(s, "message", list)) = Len(list) + 1
             /\ Elements(s, "message", list)[Len(list) + 1] = Element(s, 0, 2, IntBytesOf(0))
        /\ ~ Hit(s, "few", "message") /\ ~ Hit(s, "many", "message") => Len(Elements(s, "message", list)) = Len(list)
        /\ \A i \in 1 .. Len(list) :
             i <= Len(Elements(s, "message", list)) => Elements(s, "message", list)[i] = list[i]
    BY <2>1, ElementsAt, Zenon
  <2> QED
    BY <1>4, <1>5, <2>2
<1>7. 2 <= Len(all) /\ (~ Hit(s, "few", "message") => 3 <= Len(all))
  <2>1. \A n \in Nat : (n = 2 => 2 <= n) /\ (n \in {3, 4} => 2 <= n /\ 3 <= n)
    OBVIOUS
  <2>2. /\ Len(all) \in Nat /\ Len(all) \in {2, 3, 4}
        /\ ~ Hit(s, "few", "message") => Len(all) \in {3, 4}
    BY <1>6, Zenon
  <2> QED
    BY <2>1, <2>2, Zenon
<1>8. Len(FlattenSeq(all)) \in Lengths
  BY <1>3, WireFacts
<1>9. Reads(Left(all, 0), 0, 2, IntBytesOf(s.message.version), Left(all, 1))
  <2>1. IntBytesOf(s.message.version) \in Seq(Nat)
    BY SendingFacts, IntBytesSeq, BytesFacts DEF MessageOK
  <2>2. all[0 + 1] = Element(s, 0, 2, IntBytesOf(s.message.version))
    <3>1. all[1] = Integer(s, s.message.version)
      BY <1>4, <1>6, <1>7
    <3> QED
      BY <3>1 DEF Integer
  <2>3. /\ 0 \in Nat /\ 0 < Len(all) /\ 0 + 1 = 1 /\ 0 \in 0 .. 3 /\ 2 \in 0 .. 63
    BY <1>7
  <2> QED
    BY <1>8, <2>1, <2>2, <2>3, PartRead
<1>10. Reads(Left(all, 1), 0, TagOf(s, "community", 4), s.message.community, Left(all, 2))
  <2>1. s.message.community \in Seq(Nat)
    BY SendingFacts, BytesFacts DEF MessageOK
  <2>2. all[1 + 1] = Element(s, 0, TagOf(s, "community", 4), s.message.community)
    <3>1. all[2] = Community(s)
      BY <1>4, <1>6, <1>7
    <3> QED
      BY <3>1 DEF Community
  <2>3. /\ 1 \in Nat /\ 1 < Len(all) /\ 1 + 1 = 2 /\ 0 \in 0 .. 3
    BY <1>6, <1>7
  <2>4. TagOf(s, "community", 4) \in 0 .. 63
    BY TagFacts
  <2> QED
    BY <1>8, <2>1, <2>2, <2>3, <2>4, PartRead
<1>11. Hit(s, "few", "message") => Left(all, 2) = <<>>
  BY <1>6, NoneLeft
<1>12. ~ Hit(s, "few", "message") /\ ~ Hit(s, "many", "message") => Left(all, 3) = <<>>
  BY <1>6, NoneLeft
<1>13. Hit(s, "many", "message") => Left(all, 3) # <<>>
  <2> SUFFICES ASSUME Hit(s, "many", "message") PROVE Left(all, 3) # <<>>
    OBVIOUS
  <2>1. IntBytesOf(0) \in Seq(Nat)
    BY SendingFacts, IntBytesSeq, BytesFacts
  <2>2. all[3 + 1] = Element(s, 0, 2, IntBytesOf(0))
    BY <1>6
  <2>3. /\ 3 \in Nat /\ 3 < Len(all) /\ 0 \in 0 .. 3 /\ 2 \in 0 .. 63
    <3>1. Len(all) = 4
      BY <1>6, Zenon
    <3> QED
      BY <3>1
  <2>4. Reads(Left(all, 3), 0, 2, IntBytesOf(0), Left(all, 3 + 1))
    BY <1>8, <2>1, <2>2, <2>3, PartRead
  <2> QED
    BY <2>4 DEF Reads
<1>14. ASSUME ~ Hit(s, "few", "message")
       PROVE  /\ Len(FlattenSeq(OfPdu(s))) \in Lengths
              /\ Reads(Left(all, 2), 2, s.message.tag, Shortened(s, FlattenSeq(OfPdu(s))), Left(all, 3))
  <2>1. PICK pdu \in Seq(Nat) : pdu = FlattenSeq(OfPdu(s))
    BY <1>1, FlattenFacts
  <2>2. PICK cut : cut = Shortened(s, pdu)
    OBVIOUS
  <2>3. cut \in Seq(Nat) /\ Len(cut) \in Nat /\ Len(pdu) \in Nat /\ Len(pdu) <= Len(cut) + 1
    <3>1. CASE s.damage.kind = "inner" /\ pdu # <<>>
      BY <2>2, <3>1, FrontFacts DEF Shortened
    <3>2. CASE s.damage.kind = "inner" /\ pdu = <<>>
      <4>1. Front(pdu) \in Seq(Nat) /\ Len(pdu) = 0
        BY <3>2, FrontFacts
      <4> QED
        BY <2>2, <3>2, <4>1 DEF Shortened
    <3>3. CASE s.damage.kind # "inner"
      BY <2>2, <3>3 DEF Shortened
    <3> QED
      BY <3>1, <3>2, <3>3
  <2>4. s.message.tag \in 0 .. 63
    BY SendingFacts DEF MessageOK
  <2>5. all[2 + 1] = Element(s, 2, s.message.tag, cut)
    <3>1. all[3] = PduElement(s)
      BY <1>4, <1>6, <1>7, <1>14
    <3> QED
      BY <2>1, <2>2, <3>1 DEF PduElement
  <2>6. 2 \in Nat /\ 2 < Len(all) /\ 2 + 1 = 3 /\ 2 \in 0 .. 3
    BY <1>6, <1>7, <1>14
  <2>7. /\ Reads(Left(all, 2), 2, s.message.tag, cut, Left(all, 3))
        /\ Len(cut) + 2 <= Len(FlattenSeq(all))
    BY <1>8, <2>3, <2>4, <2>5, <2>6, PartRead
  <2>8. Len(pdu) \in Lengths
    <3>1. Len(FlattenSeq(all)) \in Nat /\ \A m \in Nat : m <= Len(FlattenSeq(all)) => m \in Lengths
      BY <1>8, LengthsFacts
    <3>2. Len(pdu) <= Len(FlattenSeq(all))
      BY <2>3, <2>7, <3>1
    <3> QED
      BY <2>3, <3>1, <3>2
  <2> QED
    BY <2>1, <2>2, <2>7, <2>8
<1> QED
  BY <1>3, <1>9, <1>10, <1>11, <1>12, <1>13, <1>14

\* What is read of a part, whether or not the last byte after it is missing.
LEMMA ShortRead ==
  ASSUME NEW s \in Sendings, NEW list \in Seq(Seq(Nat)), Len(FlattenSeq(list)) \in Lengths,
         NEW k \in Nat, k + 1 < Len(list),
         NEW class \in 0 .. 3, NEW tag \in 0 .. 63, NEW bytes \in Seq(Nat), list[k + 1] = Element(s, class, tag, bytes),
         Left(list, k + 1) # <<>>
  PROVE  Reads(Shortened(s, Left(list, k)), class, tag, bytes, Shortened(s, Left(list, k + 1)))
<1>1. k < Len(list)
  OBVIOUS
<1>2. /\ Reads(Left(list, k), class, tag, bytes, Left(list, k + 1))
      /\ Reads(Front(Left(list, k)), class, tag, bytes, Front(Left(list, k + 1)))
  BY <1>1, PartRead
<1> QED
  BY <1>2, Zenon DEF Shortened

LEMMA PduReads ==
  ASSUME NEW s \in Sendings, ~ Hit(s, "few", "message")
  PROVE  /\ Shortened(s, Left(OfPdu(s), 0)) = Shortened(s, FlattenSeq(OfPdu(s)))
         /\ Reads(Shortened(s, Left(OfPdu(s), 0)), 0, TagOf(s, "id", 2), IdBytes(s), Shortened(s, Left(OfPdu(s), 1)))
         /\ Reads(Shortened(s, Left(OfPdu(s), 1)), 0, 2, IntBytesOf(s.message.status), Shortened(s, Left(OfPdu(s), 2)))
         /\ Reads(Shortened(s, Left(OfPdu(s), 2)), 0, 2, IntBytesOf(s.message.index), Shortened(s, Left(OfPdu(s), 3)))
         /\ Hit(s, "few", "pdu") => Shortened(s, Left(OfPdu(s), 3)) = <<>>
         /\ s.damage.kind = "inner" => TooLong(Shortened(s, Left(OfPdu(s), 3)))
         /\ s.damage.kind # "inner" /\ ~ Hit(s, "few", "pdu") =>
              /\ Len(FlattenSeq(OfBinds(s))) \in Lengths
              /\ Reads(Shortened(s, Left(OfPdu(s), 3)), 0, TagOf(s, "binds", 48), FlattenSeq(OfBinds(s)),
                       Shortened(s, Left(OfPdu(s), 4)))
         /\ s.damage.kind # "inner" /\ ~ Hit(s, "few", "pdu") /\ ~ Hit(s, "many", "pdu") =>
              Shortened(s, Left(OfPdu(s), 4)) = <<>>
         /\ Hit(s, "many", "pdu") => Shortened(s, Left(OfPdu(s), 4)) # <<>>
<1>1. PduList(s) \in Seq(Seq(Nat)) /\ OfPdu(s) \in Seq(Seq(Nat)) /\ OfBinds(s) \in Seq(Seq(Nat))
  BY TlvSize, BytesFacts, ListsIn
<1>2. PICK list \in Seq(Seq(Nat)) : list = PduList(s)
  BY <1>1
<1>3. PICK all \in Seq(Seq(Nat)) : all = OfPdu(s)
  BY <1>1
<1>4. /\ Len(list) = 4 /\ list[1] = IdElement(s) /\ list[2] = Integer(s, s.message.status)
      /\ list[3] = Integer(s, s.message.index) /\ list[4] = BindsElement(s) /\ list # <<>>
  BY <1>2 DEF PduList
<1>5. all = Elements(s, "pdu", list)
  BY <1>2, <1>3, Lists
<1>6. /\ Len(all) \in Nat
      /\ Hit(s, "few", "pdu") => Len(all) = 3
      /\ Hit(s, "many", "pdu") => Len(all) = 5 /\ all[5] = Element(s, 0, 2, IntBytesOf(0))
      /\ ~ Hit(s, "few", "pdu") /\ ~ Hit(s, "many", "pdu") => Len(all) = 4
      /\ \A i \in 1 .. 4 : i <= Len(all) => all[i] = list[i]
  <2>1. list \in Seq(Seq(Nat)) /\ list # <<>>
    BY <1>4
  <2>2. /\ Len(Elements(s, "pdu", list)) \in Nat
        /\ Hit(s, "few", "pdu") => Len(Elements(s, "pdu", list)) = Len(list) - 1
        /\ Hit(s, "many", "pdu") =>
             /\ Len(Elements(s, "pdu", list)) = Len(list) + 1
             /\ Elements(s, "pdu", list)[Len(list) + 1] = Element(s, 0, 2, IntBytesOf(0))
        /\ ~ Hit(s, "few", "pdu") /\ ~ Hit(s, "many", "pdu") => Len(Elements(s, "pdu", list)) = Len(list)
        /\ \A i \in 1 .. Len(list) :
             i <= Len(Elements(s, "pdu", list)) => Elements(s, "pdu", list)[i] = list[i]
    BY <2>1, ElementsAt, Zenon
  <2> QED
    BY <1>4, <1>5, <2>2
<1>7. 3 <= Len(all) /\ (~ Hit(s, "few", "pdu") => 4 <= Len(all))
  <2>1. \A n \in Nat : (n = 3 => 3 <= n) /\ (n \in {4, 5} => 3 <= n /\ 4 <= n)
    OBVIOUS
  <2>2. /\ Len(all) \in Nat /\ Len(all) \in {3, 4, 5}
        /\ ~ Hit(s, "few", "pdu") => Len(all) \in {4, 5}
    BY <1>6, Zenon
  <2> QED
    BY <2>1, <2>2, Zenon
<1>8. Len(FlattenSeq(all)) \in Lengths
  BY <1>3, MessageReads
<1>9. s.damage.kind = "inner" => ~ Hit(s, "few", "pdu") /\ ~ Hit(s, "many", "pdu")
  BY DEF Hit
\* The elements, by their number.
<1>10. IdBytes(s) \in Seq(Nat) /\ TagOf(s, "id", 2) \in 0 .. 63 /\ all[0 + 1] = Element(s, 0, TagOf(s, "id", 2), IdBytes(s))
  <2>1. all[1] = IdElement(s)
    BY <1>4, <1>6, <1>7
  <2>2. IdBytes(s) \in Seq(Nat)
    BY IdBytesSeq, BytesFacts
  <2>3. TagOf(s, "id", 2) \in 0 .. 63
    BY TagFacts
  <2> QED
    BY <2>1, <2>2, <2>3 DEF IdElement
<1>11. /\ IntBytesOf(s.message.status) \in Seq(Nat) /\ all[1 + 1] = Element(s, 0, 2, IntBytesOf(s.message.status))
       /\ IntBytesOf(s.message.index) \in Seq(Nat) /\ all[2 + 1] = Element(s, 0, 2, IntBytesOf(s.message.index))
       /\ IntBytesOf(0) \in Seq(Nat)
  <2>1. all[2] = Integer(s, s.message.status) /\ all[3] = Integer(s, s.message.index)
    BY <1>4, <1>6, <1>7
  <2>2. /\ IntBytesOf(s.message.status) \in Seq(Nat)
        /\ IntBytesOf(s.message.index) \in Seq(Nat)
        /\ IntBytesOf(0) \in Seq(Nat)
    BY SendingFacts, IntBytesSeq, BytesFacts DEF MessageOK
  <2> QED
    BY <2>1, <2>2 DEF Integer
<1>12. PICK binds \in Seq(Nat) : binds = FlattenSeq(OfBinds(s))
  BY <1>1, FlattenFacts
<1>13. TagOf(s, "binds", 48) \in 0 .. 63
  BY TagFacts
<1>14. ~ Hit(s, "few", "pdu") => all[3 + 1] = Element(s, 0, TagOf(s, "binds", 48), binds)
  <2>1. ~ Hit(s, "few", "pdu") => all[4] = BindsElement(s)
    BY <1>4, <1>6, <1>7
  <2> QED
    BY <1>12, <2>1 DEF BindsElement
<1>15. 0 \in 0 .. 3 /\ 2 \in 0 .. 63
  OBVIOUS
\* What is left of them.
<1>16. /\ Reads(Left(all, 0), 0, TagOf(s, "id", 2), IdBytes(s), Left(all, 1))
       /\ Reads(Left(all, 1), 0, 2, IntBytesOf(s.message.status), Left(all, 2))
       /\ Reads(Left(all, 2), 0, 2, IntBytesOf(s.message.index), Left(all, 3))
  <2>1. 0 \in Nat /\ 1 \in Nat /\ 2 \in Nat /\ 0 < Len(all) /\ 1 < Len(all) /\ 2 < Len(all)
    BY <1>6, <1>7
  <2>2. 0 + 1 = 1 /\ 1 + 1 = 2 /\ 2 + 1 = 3
    OBVIOUS
  <2>3. Reads(Left(all, 0), 0, TagOf(s, "id", 2), IdBytes(s), Left(all, 0 + 1))
    BY <1>8, <1>10, <1>15, <2>1, PartRead
  <2>4. Reads(Left(all, 1), 0, 2, IntBytesOf(s.message.status), Left(all, 1 + 1))
    BY <1>8, <1>11, <1>15, <2>1, PartRead
  <2>5. Reads(Left(all, 2), 0, 2, IntBytesOf(s.message.index), Left(all, 2 + 1))
    BY <1>8, <1>11, <1>15, <2>1, PartRead
  <2> QED
    BY <2>2, <2>3, <2>4, <2>5
<1>17. ASSUME ~ Hit(s, "few", "pdu")
       PROVE  /\ Len(binds) \in Lengths
              /\ Reads(Left(all, 3), 0, TagOf(s, "binds", 48), binds, Left(all, 4))
              /\ Left(all, 4) = <<>> => TooLong(Front(Left(all, 3)))
  <2>1. 3 \in Nat /\ 3 < Len(all) /\ 3 + 1 = 4
    BY <1>6, <1>7, <1>17
  <2> QED
    BY <1>8, <1>13, <1>14, <1>15, <1>17, <2>1, PartRead
<1>18. ~ Hit(s, "few", "pdu") /\ ~ Hit(s, "many", "pdu") => Left(all, 4) = <<>>
  BY <1>6, NoneLeft
<1>19. Hit(s, "few", "pdu") => Left(all, 3) = <<>>
  BY <1>6, NoneLeft
<1>20. Hit(s, "many", "pdu") => Left(all, 4) # <<>>
  <2> SUFFICES ASSUME Hit(s, "many", "pdu") PROVE Left(all, 4) # <<>>
    OBVIOUS
  <2>1. all[4 + 1] = Element(s, 0, 2, IntBytesOf(0)) /\ 4 \in Nat
    BY <1>6
  <2>2. 4 < Len(all)
    <3>1. Len(all) = 5
      BY <1>6, Zenon
    <3> QED
      BY <3>1
  <2>3. Reads(Left(all, 4), 0, 2, IntBytesOf(0), Left(all, 4 + 1))
    BY <1>8, <1>11, <1>15, <2>1, <2>2, PartRead
  <2> QED
    BY <2>3 DEF Reads
<1>21. Left(all, 0) = FlattenSeq(all)
  BY LeftFacts
<1>22. CASE s.damage.kind # "inner"
  <2>1. \A x : Shortened(s, x) = x
    BY <1>22 DEF Shortened
  <2> QED
    BY <1>3, <1>12, <1>16, <1>17, <1>18, <1>19, <1>20, <1>21, <1>22, <2>1, Zenon
<1>23. CASE s.damage.kind = "inner"
  <2>1. \A x : Shortened(s, x) = Front(x)
    BY <1>23 DEF Shortened
  <2>2. ~ Hit(s, "few", "pdu") /\ ~ Hit(s, "many", "pdu") /\ TooLong(Front(Left(all, 3)))
    BY <1>9, <1>17, <1>18, <1>23, Zenon
  <2>3. 0 \in Nat /\ 1 \in Nat /\ 2 \in Nat /\ 0 + 1 < Len(all) /\ 1 + 1 < Len(all) /\ 2 + 1 < Len(all)
    <3>1. Len(all) \in Nat /\ 4 <= Len(all)
      BY <1>6, <1>7, <2>2, Zenon
    <3> QED
      BY <3>1
  <2>4. 0 + 1 = 1 /\ 1 + 1 = 2 /\ 2 + 1 = 3
    OBVIOUS
  <2>5. Left(all, 1) # <<>> /\ Left(all, 2) # <<>> /\ Left(all, 3) # <<>>
    BY <1>16, <1>17, <2>2 DEF Reads
  <2>6. Reads(Shortened(s, Left(all, 0)), 0, TagOf(s, "id", 2), IdBytes(s), Shortened(s, Left(all, 0 + 1)))
    BY <1>8, <1>10, <1>15, <2>3, <2>4, <2>5, ShortRead
  <2>7. Reads(Shortened(s, Left(all, 1)), 0, 2, IntBytesOf(s.message.status), Shortened(s, Left(all, 1 + 1)))
    BY <1>8, <1>11, <1>15, <2>3, <2>4, <2>5, ShortRead
  <2>8. Reads(Shortened(s, Left(all, 2)), 0, 2, IntBytesOf(s.message.index), Shortened(s, Left(all, 2 + 1)))
    BY <1>8, <1>11, <1>15, <2>3, <2>4, <2>5, ShortRead
  <2> QED
    BY <1>3, <1>21, <1>23, <2>1, <2>2, <2>4, <2>6, <2>7, <2>8
<1> QED
  BY <1>22, <1>23

LEMMA BindsReads ==
  ASSUME NEW s \in Sendings, Len(FlattenSeq(OfBinds(s))) \in Lengths
  PROVE  /\ Len(s.message.binds) \in Nat
         /\ Left(OfBinds(s), 0) = FlattenSeq(OfBinds(s))
         /\ \A j \in 1 .. Len(s.message.binds) :
              /\ Len(FlattenSeq(OfBind(s, s.message.binds[j]))) \in Lengths
              /\ Reads(Left(OfBinds(s), j - 1), 0, 48, FlattenSeq(OfBind(s, s.message.binds[j])), Left(OfBinds(s), j))
         /\ Hit(s, "many", "binds") =>
              Reads(Left(OfBinds(s), Len(s.message.binds)), 0, 2, IntBytesOf(0),
                    Left(OfBinds(s), Len(s.message.binds) + 1))
         /\ ~ Hit(s, "many", "binds") => Left(OfBinds(s), Len(s.message.binds)) = <<>>
<1>1. BindsList(s) \in Seq(Seq(Nat)) /\ OfBinds(s) \in Seq(Seq(Nat))
  BY TlvSize, BytesFacts, ListsIn
<1>2. PICK list \in Seq(Seq(Nat)) : list = BindsList(s)
  BY <1>1
<1>3. PICK all \in Seq(Seq(Nat)) : all = OfBinds(s)
  BY <1>1
<1>4. PICK n \in Nat : n = Len(s.message.binds) /\ DOMAIN s.message.binds = 1 .. n
  <2>1. s.message.binds \in Seq(ToSet(s.message.binds))
    BY SendingFacts DEF MessageOK
  <2> QED
    BY <2>1
<1>5. Len(list) = n /\ \A j \in 1 .. n : list[j] = BindElement(s, s.message.binds[j])
  BY <1>2, <1>4 DEF BindsList
<1>6. all = Elements(s, "binds", list)
  BY <1>2, <1>3, Lists
<1>7. ~ Hit(s, "few", "binds")
  <2>1. DamageOK(s)
    BY SendingFacts
  <2> QED
    BY <2>1 DEF DamageOK, Hit, Whole
<1>8. /\ Len(all) \in Nat
      /\ Hit(s, "many", "binds") => Len(all) = n + 1 /\ all[n + 1] = Element(s, 0, 2, IntBytesOf(0))
      /\ ~ Hit(s, "many", "binds") => Len(all) = n
      /\ \A i \in 1 .. n : i <= Len(all) => all[i] = list[i]
  <2>1. list \in Seq(Seq(Nat))
    BY <1>5
  <2>2. /\ Len(Elements(s, "binds", list)) \in Nat
        /\ Hit(s, "many", "binds") =>
             /\ Len(Elements(s, "binds", list)) = Len(list) + 1
             /\ Elements(s, "binds", list)[Len(list) + 1] = Element(s, 0, 2, IntBytesOf(0))
        /\ ~ Hit(s, "few", "binds") /\ ~ Hit(s, "many", "binds") => Len(Elements(s, "binds", list)) = Len(list)
        /\ \A i \in 1 .. Len(list) :
             i <= Len(Elements(s, "binds", list)) => Elements(s, "binds", list)[i] = list[i]
    BY <1>7, <2>1, ElementsAt, Zenon
  <2> QED
    BY <1>5, <1>6, <1>7, <2>2
<1>9. n <= Len(all)
  <2>1. \A l \in Nat : (l = n => n <= l) /\ (l = n + 1 => n <= l)
    BY <1>4
  <2>2. Len(all) \in Nat /\ (Len(all) = n \/ Len(all) = n + 1)
    BY <1>8, Zenon
  <2> QED
    BY <2>1, <2>2, Zenon
<1>10. Len(FlattenSeq(all)) \in Lengths
  BY <1>3
<1>11. 0 \in 0 .. 3 /\ 2 \in 0 .. 63 /\ 48 \in 0 .. 63
  OBVIOUS
<1>12. ASSUME NEW j \in 1 .. n
       PROVE  /\ Len(FlattenSeq(OfBind(s, s.message.binds[j]))) \in Lengths
              /\ Reads(Left(all, j - 1), 0, 48, FlattenSeq(OfBind(s, s.message.binds[j])), Left(all, j))
  <2>1. j <= Len(all) /\ j \in Nat
    BY <1>4, <1>8, <1>9
  <2>2. PICK k \in Nat : k = j - 1 /\ k + 1 = j /\ k < Len(all)
    BY <1>8, <2>1
  <2>3. OfBind(s, s.message.binds[j]) \in Seq(Seq(Nat))
    BY <1>4, TlvSize, BytesFacts, ListsIn
  <2>4. PICK bytes \in Seq(Nat) : bytes = FlattenSeq(OfBind(s, s.message.binds[j]))
    BY <2>3, FlattenFacts
  <2>5. all[k + 1] = Element(s, 0, 48, bytes)
    <3>1. all[j] = BindElement(s, s.message.binds[j])
      BY <1>5, <1>8, <2>1
    <3> QED
      BY <2>2, <2>4, <3>1 DEF BindElement
  <2>6. Len(bytes) \in Lengths /\ Reads(Left(all, k), 0, 48, bytes, Left(all, k + 1))
    BY <1>10, <1>11, <2>2, <2>5, PartRead
  <2> QED
    BY <2>2, <2>4, <2>6
<1>13. ASSUME Hit(s, "many", "binds")
       PROVE  Reads(Left(all, n), 0, 2, IntBytesOf(0), Left(all, n + 1))
  <2>1. IntBytesOf(0) \in Seq(Nat)
    BY SendingFacts, IntBytesSeq, BytesFacts
  <2>2. n < Len(all) /\ all[n + 1] = Element(s, 0, 2, IntBytesOf(0))
    BY <1>8, <1>13
  <2> QED
    BY <1>10, <1>11, <2>1, <2>2, PartRead
<1>14. ~ Hit(s, "many", "binds") => Left(all, n) = <<>>
  BY <1>8, NoneLeft
<1>15. Left(all, 0) = FlattenSeq(all)
  BY LeftFacts
<1> QED
  BY <1>3, <1>4, <1>12, <1>13, <1>14, <1>15

LEMMA BindReads ==
  ASSUME NEW s \in Sendings, NEW j \in 1 .. Len(s.message.binds), NEW b, b = s.message.binds[j],
         Len(FlattenSeq(OfBind(s, b))) \in Lengths
  PROVE  /\ BindOK(b)
         /\ Left(OfBind(s, b), 0) = FlattenSeq(OfBind(s, b))
         /\ Reads(Left(OfBind(s, b), 0), 0, TagOf(s, "oid", 6), OidBytes(b.oid), Left(OfBind(s, b), 1))
         /\ Hit(s, "few", "bind") => Left(OfBind(s, b), 1) = <<>>
         /\ ~ Hit(s, "few", "bind") => Reads(Left(OfBind(s, b), 1), b.class, b.tag, b.bytes, Left(OfBind(s, b), 2))
         /\ ~ Hit(s, "few", "bind") /\ ~ Hit(s, "many", "bind") => Left(OfBind(s, b), 2) = <<>>
         /\ Hit(s, "many", "bind") => Left(OfBind(s, b), 2) # <<>>
<1>1. /\ BindOK(b) /\ OidOK(b.oid) /\ b.class \in 0 .. 3 /\ b.tag \in 0 .. 63 /\ b.bytes \in Seq(Nat)
      /\ BindList(s, b) \in Seq(Seq(Nat)) /\ OfBind(s, b) \in Seq(Seq(Nat))
  <2>1. j \in DOMAIN s.message.binds
    <3>1. s.message.binds \in Seq(ToSet(s.message.binds))
      BY SendingFacts DEF MessageOK
    <3> QED
      BY <3>1
  <2>2. BindOK(b)
    BY <2>1, SendingFacts DEF MessageOK
  <2> QED
    BY <2>1, <2>2, TlvSize, BytesFacts, ListsIn DEF BindOK
<1>2. PICK list \in Seq(Seq(Nat)) : list = BindList(s, b)
  BY <1>1
<1>3. PICK all \in Seq(Seq(Nat)) : all = OfBind(s, b)
  BY <1>1
<1>4. Len(list) = 2 /\ list[1] = OidElement(s, b) /\ list[2] = ValueElement(s, b) /\ list # <<>>
  BY <1>2 DEF BindList
<1>5. all = Elements(s, "bind", list)
  BY <1>2, <1>3, Lists
<1>6. /\ Len(all) \in Nat
      /\ Hit(s, "few", "bind") => Len(all) = 1
      /\ Hit(s, "many", "bind") => Len(all) = 3 /\ all[3] = Element(s, 0, 2, IntBytesOf(0))
      /\ ~ Hit(s, "few", "bind") /\ ~ Hit(s, "many", "bind") => Len(all) = 2
      /\ \A i \in 1 .. 2 : i <= Len(all) => all[i] = list[i]
  <2>1. list \in Seq(Seq(Nat)) /\ list # <<>>
    BY <1>4
  <2>2. /\ Len(Elements(s, "bind", list)) \in Nat
        /\ Hit(s, "few", "bind") => Len(Elements(s, "bind", list)) = Len(list) - 1
        /\ Hit(s, "many", "bind") =>
             /\ Len(Elements(s, "bind", list)) = Len(list) + 1
             /\ Elements(s, "bind", list)[Len(list) + 1] = Element(s, 0, 2, IntBytesOf(0))
        /\ ~ Hit(s, "few", "bind") /\ ~ Hit(s, "many", "bind") => Len(Elements(s, "bind", list)) = Len(list)
        /\ \A i \in 1 .. Len(list) :
             i <= Len(Elements(s, "bind", list)) => Elements(s, "bind", list)[i] = list[i]
    BY <2>1, ElementsAt, Zenon
  <2> QED
    BY <1>4, <1>5, <2>2
<1>7. 1 <= Len(all) /\ (~ Hit(s, "few", "bind") => 2 <= Len(all))
  <2>1. \A n \in Nat : (n = 1 => 1 <= n) /\ (n \in {2, 3} => 1 <= n /\ 2 <= n)
    OBVIOUS
  <2>2. /\ Len(all) \in Nat /\ Len(all) \in {1, 2, 3}
        /\ ~ Hit(s, "few", "bind") => Len(all) \in {2, 3}
    BY <1>6, Zenon
  <2> QED
    BY <2>1, <2>2, Zenon
<1>8. Len(FlattenSeq(all)) \in Lengths
  BY <1>3
<1>9. 0 \in 0 .. 3 /\ 2 \in 0 .. 63
  OBVIOUS
<1>10. Reads(Left(all, 0), 0, TagOf(s, "oid", 6), OidBytes(b.oid), Left(all, 1))
  <2>1. OidBytes(b.oid) \in Seq(Nat) /\ TagOf(s, "oid", 6) \in 0 .. 63
    BY <1>1, OidBytesSeq, BytesFacts, TagFacts
  <2>2. all[0 + 1] = Element(s, 0, TagOf(s, "oid", 6), OidBytes(b.oid))
    <3>1. all[1] = OidElement(s, b)
      BY <1>4, <1>6, <1>7
    <3> QED
      BY <3>1 DEF OidElement
  <2>3. 0 \in Nat /\ 0 < Len(all) /\ 0 + 1 = 1
    BY <1>6, <1>7
  <2> QED
    BY <1>8, <1>9, <2>1, <2>2, <2>3, PartRead
<1>11. ASSUME ~ Hit(s, "few", "bind")
       PROVE  Reads(Left(all, 1), b.class, b.tag, b.bytes, Left(all, 2))
  <2>1. all[1 + 1] = Element(s, b.class, b.tag, b.bytes)
    <3>1. all[2] = ValueElement(s, b)
      BY <1>4, <1>6, <1>7, <1>11
    <3> QED
      BY <3>1 DEF ValueElement
  <2>2. 1 \in Nat /\ 1 < Len(all) /\ 1 + 1 = 2
    BY <1>6, <1>7, <1>11
  <2> QED
    BY <1>1, <1>8, <2>1, <2>2, PartRead
<1>12. Hit(s, "few", "bind") => Left(all, 1) = <<>>
  BY <1>6, NoneLeft
<1>13. ~ Hit(s, "few", "bind") /\ ~ Hit(s, "many", "bind") => Left(all, 2) = <<>>
  BY <1>6, NoneLeft
<1>14. Hit(s, "many", "bind") => Left(all, 2) # <<>>
  <2> SUFFICES ASSUME Hit(s, "many", "bind") PROVE Left(all, 2) # <<>>
    OBVIOUS
  <2>1. IntBytesOf(0) \in Seq(Nat)
    BY SendingFacts, IntBytesSeq, BytesFacts
  <2>2. all[2 + 1] = Element(s, 0, 2, IntBytesOf(0)) /\ 2 \in Nat
    BY <1>6
  <2>3. 2 < Len(all)
    <3>1. Len(all) = 3
      BY <1>6, Zenon
    <3> QED
      BY <3>1
  <2>4. Reads(Left(all, 2), 0, 2, IntBytesOf(0), Left(all, 2 + 1))
    BY <1>8, <1>9, <2>1, <2>2, <2>3, PartRead
  <2> QED
    BY <2>4 DEF Reads
<1>15. Left(all, 0) = FlattenSeq(all)
  BY LeftFacts
<1> QED
  BY <1>1, <1>3, <1>10, <1>11, <1>12, <1>13, <1>14, <1>15

-----------------------------------------------------------------------------
(* What a call does next                                                    *)

CallOf(type, class, tag, bytes, values) ==
  [type |-> type, class |-> class, tag |-> tag, bytes |-> bytes, values |-> values]

\* The fields of a call have been read, or what is the next one.
IsFull(type, values)    == type \in Structs /\ Len(values) = Len(Fields[type])
FieldAfter(type, values) == IF type \in Structs THEN Fields[type][Len(values) + 1] ELSE "VarBind"

LeafOf(field, class, tag, bytes) ==
  CASE field = "int"    -> IF class = 0 /\ tag # 2 THEN Refused ELSE GetInt(bytes)
    [] field = "string" -> Value(bytes)
    [] field = "OID"    -> IF tag # 6 THEN Refused ELSE GetOid(bytes)
    [] field = "Value"  -> Value([class |-> class, tag |-> tag, bytes |-> bytes])

\* A step of the decoder, and what comes of it.
Decode         == RefuseTooMany \/ RefuseElement \/ Enter \/ UnpackLeaf \/ RefuseTooFew \/ Leave \/ End
Becomes(st)    == phase' = "decoding" /\ stack' = st /\ UNCHANGED <<sent, frame, message>>
Ends(answer)   == phase' = "decoded" /\ message' = answer /\ stack' = <<>> /\ UNCHANGED <<sent, frame>>

\* A call is the innermost one.
Innermost(type, class, tag, data, values, rest) ==
  IsStack(rest) /\ stack = On(CallOf(type, class, tag, data, values), rest)

TagFits(field, tag) == (field = "string" => tag = 4) /\ (field = "VarBinds" => tag = 48)

LEMMA CallUpdates ==
  ASSUME NEW type, NEW class, NEW tag, NEW data, NEW values, NEW t, NEW w
  PROVE  /\ WithLeft(CallOf(type, class, tag, data, values), t) = CallOf(type, class, tag, t, values)
         /\ WithValues(CallOf(type, class, tag, data, values), w) = CallOf(type, class, tag, data, w)
         /\ Advanced(CallOf(type, class, tag, data, values), t, w) = CallOf(type, class, tag, t, w)
<1>1. WithLeft(CallOf(type, class, tag, data, values), t) = CallOf(type, class, tag, t, values)
  BY DEF CallOf, WithLeft
<1>2. \A x : WithValues(CallOf(type, class, tag, x, values), w) = CallOf(type, class, tag, x, w)
  BY DEF CallOf, WithValues
<1>3. \A c : Advanced(c, t, w) = WithValues(WithLeft(c, t), w)
  BY DEF WithLeft, WithValues, Advanced
<1> QED
  BY <1>1, <1>2, <1>3

LEMMA TopFacts ==
  ASSUME NEW type, NEW class, NEW tag, NEW data, NEW values, NEW rest,
         Innermost(type, class, tag, data, values, rest)
  PROVE  /\ Tail(stack) = rest /\ IsStack(rest) /\ Top.bytes = data /\ Top.type = type /\ Top.values = values
         /\ NextElement = Unmarshal(data)
         /\ Full <=> IsFull(type, values)
         /\ Type = FieldAfter(type, values)
<1>1. Top = CallOf(type, class, tag, data, values) /\ Tail(stack) = rest /\ IsStack(rest)
  BY StackFacts DEF Top, Innermost
<1>2. Top.bytes = data /\ Top.type = type /\ Top.values = values
  BY <1>1 DEF CallOf
<1>3. NextElement = Unmarshal(data)
  BY <1>2, Zenon DEF NextElement
<1>4. Full <=> IsFull(type, values)
  BY <1>2, Zenon DEF Full, IsFull
<1>5. Type = FieldAfter(type, values)
  BY <1>2, Zenon DEF Type, FieldAfter
<1> QED
  BY <1>1, <1>2, <1>3, <1>4, <1>5

LEMMA TopUpdates ==
  ASSUME NEW type, NEW class, NEW tag, NEW data, NEW values, NEW rest,
         Innermost(type, class, tag, data, values, rest), NEW t, NEW w
  PROVE  /\ WithLeft(Top, t) = CallOf(type, class, tag, t, values)
         /\ Advanced(Top, t, w) = CallOf(type, class, tag, t, w)
<1>1. Top = CallOf(type, class, tag, data, values)
  BY StackFacts DEF Top, Innermost
<1> QED
  BY <1>1, CallUpdates

\* There is an element, and a field for it.
LEMMA ReadsFacts ==
  ASSUME NEW data, NEW class, NEW tag, NEW bytes, NEW tail, Reads(data, class, tag, bytes, tail)
  PROVE  /\ data # <<>> /\ Unmarshal(data).is = "ok"
         /\ Unmarshal(data).value.class = class /\ Unmarshal(data).value.tag = tag
         /\ Unmarshal(data).value.bytes = bytes /\ Unmarshal(data).value.tail = tail
BY DEF Reads, Value

LEMMA LeafMove ==
  ASSUME NEW type, NEW cl, NEW tg, NEW data, NEW values, NEW rest,
         Innermost(type, cl, tg, data, values, rest), phase = "decoding", Decode,
         NEW class, NEW tag, NEW bytes, NEW tail, Reads(data, class, tag, bytes, tail),
         ~ IsFull(type, values), NEW field, field = FieldAfter(type, values), field \notin Calls,
         TagFits(field, tag), NEW leaf, leaf = LeafOf(field, class, tag, bytes)
  PROVE  /\ \A v : leaf = Value(v) => Becomes(On(CallOf(type, cl, tg, tail, Append(values, v)), rest))
         /\ leaf = Refused => Fail("refused")
         /\ leaf = Panics => Fail("panicked")
<1>1. /\ Top.bytes # <<>> /\ ~ Full /\ Type = field /\ Tail(stack) = rest /\ Top.values = values
      /\ NextElement.is = "ok" /\ NextElement.value.class = class /\ NextElement.value.tag = tag
      /\ NextElement.value.bytes = bytes /\ NextElement.value.tail = tail
  <2>1. /\ Tail(stack) = rest /\ Top.bytes = data /\ Top.values = values /\ NextElement = Unmarshal(data)
    BY TopFacts
  <2>2. (Full <=> IsFull(type, values)) /\ Type = FieldAfter(type, values)
    BY TopFacts
  <2>3. /\ data # <<>> /\ Unmarshal(data).is = "ok"
        /\ Unmarshal(data).value.class = class /\ Unmarshal(data).value.tag = tag
        /\ Unmarshal(data).value.bytes = bytes /\ Unmarshal(data).value.tail = tail
    BY ReadsFacts, Zenon
  <2> QED
    BY <2>1, <2>2, <2>3, Zenon
<1>2. \A w : Advanced(Top, tail, w) = CallOf(type, cl, tg, tail, w)
  BY TopUpdates
<1>3. TagOK
  BY <1>1 DEF TagOK, TagFits
<1>4. Leaf(NextElement.value) = leaf
  BY <1>1, Zenon DEF Leaf, LeafOf
<1>5. UnpackLeaf
  <2>1. ~ RefuseTooMany
    BY <1>1, Zenon DEF RefuseTooMany
  <2>2. ~ RefuseElement
    BY <1>1, <1>3, Zenon DEF RefuseElement, Fits
  <2>3. ~ Enter
    BY <1>1, Zenon DEF Enter
  <2>4. ~ RefuseTooFew
    BY <1>1, Zenon DEF RefuseTooFew
  <2>5. ~ Leave /\ ~ End
    BY <1>1, Zenon DEF Leave, End, Complete
  <2> QED
    BY <2>1, <2>2, <2>3, <2>4, <2>5, Zenon DEF Decode
<1>6. \/ /\ leaf.is = "ok"
         /\ stack' = << Advanced(Top, NextElement.value.tail, Append(Top.values, leaf.value)) >> \o Tail(stack)
         /\ UNCHANGED <<sent, frame, phase, message>>
      \/ leaf.is = "refused" /\ Fail("refused")
      \/ leaf.is = "panics" /\ Fail("panicked")
  BY <1>4, <1>5 DEF UnpackLeaf, Advanced
<1>7. ASSUME NEW v, leaf = Value(v)
      PROVE  Becomes(On(CallOf(type, cl, tg, tail, Append(values, v)), rest))
  <2>1. leaf.is = "ok" /\ leaf.value = v
    BY <1>7 DEF Value
  <2>2. /\ stack' = << Advanced(Top, tail, Append(values, v)) >> \o rest
        /\ UNCHANGED <<sent, frame, phase, message>>
    BY <1>1, <1>6, <2>1
  <2>3. stack' = <<CallOf(type, cl, tg, tail, Append(values, v))>> \o rest
    BY <1>2, <2>2
  <2> QED
    BY <2>2, <2>3 DEF Becomes, On
<1>8. leaf = Refused => Fail("refused")
  <2>1. Refused.is = "refused"
    BY DEF Refused
  <2> QED
    BY <1>6, <2>1
<1>9. leaf = Panics => Fail("panicked")
  <2>1. Panics.is = "panics"
    BY DEF Panics
  <2> QED
    BY <1>6, <2>1
<1> QED
  BY <1>7, <1>8, <1>9

LEMMA EnterMove ==
  ASSUME NEW type, NEW cl, NEW tg, NEW data, NEW values, NEW rest,
         Innermost(type, cl, tg, data, values, rest), phase = "decoding", Decode,
         NEW class, NEW tag, NEW bytes, NEW tail, Reads(data, class, tag, bytes, tail),
         ~ IsFull(type, values), NEW field, field = FieldAfter(type, values), field \in Calls,
         TagFits(field, tag)
  PROVE  Becomes(On(CallOf(field, class, tag, bytes, <<>>), On(CallOf(type, cl, tg, tail, values), rest)))
<1>1. /\ Top.bytes # <<>> /\ ~ Full /\ Type = field /\ Tail(stack) = rest /\ Top.values = values
      /\ NextElement.is = "ok" /\ NextElement.value.class = class /\ NextElement.value.tag = tag
      /\ NextElement.value.bytes = bytes /\ NextElement.value.tail = tail
  <2>1. /\ Tail(stack) = rest /\ Top.bytes = data /\ Top.values = values /\ NextElement = Unmarshal(data)
    BY TopFacts
  <2>2. (Full <=> IsFull(type, values)) /\ Type = FieldAfter(type, values)
    BY TopFacts
  <2>3. /\ data # <<>> /\ Unmarshal(data).is = "ok"
        /\ Unmarshal(data).value.class = class /\ Unmarshal(data).value.tag = tag
        /\ Unmarshal(data).value.bytes = bytes /\ Unmarshal(data).value.tail = tail
    BY ReadsFacts, Zenon
  <2> QED
    BY <2>1, <2>2, <2>3, Zenon
<1>2. WithLeft(Top, tail) = CallOf(type, cl, tg, tail, values)
  BY TopUpdates
<1>3. TagOK
  BY <1>1 DEF TagOK, TagFits
<1>4. Enter
  <2>1. ~ RefuseTooMany
    BY <1>1, Zenon DEF RefuseTooMany
  <2>2. ~ RefuseElement
    BY <1>1, <1>3, Zenon DEF RefuseElement, Fits
  <2>3. ~ UnpackLeaf
    BY <1>1, Zenon DEF UnpackLeaf
  <2>4. ~ RefuseTooFew
    BY <1>1, Zenon DEF RefuseTooFew
  <2>5. ~ Leave /\ ~ End
    BY <1>1, Zenon DEF Leave, End, Complete
  <2> QED
    BY <2>1, <2>2, <2>3, <2>4, <2>5, Zenon DEF Decode
<1>5. /\ stack' = <<Call(field, NextElement.value), CallOf(type, cl, tg, tail, values)>> \o rest
      /\ UNCHANGED <<sent, frame, phase, message>>
  BY <1>1, <1>2, <1>4 DEF Enter, WithLeft
<1>6. Call(field, NextElement.value) = CallOf(field, class, tag, bytes, <<>>)
  BY <1>1, Zenon DEF Call, CallOf
<1>7. stack' = On(CallOf(field, class, tag, bytes, <<>>), On(CallOf(type, cl, tg, tail, values), rest))
  <2>1. IsStack(rest)
    BY TopFacts, Zenon
  <2> QED
    BY <1>5, <1>6, <2>1, CallFacts
<1> QED
  BY <1>5, <1>7 DEF Becomes

LEMMA ElementMove ==
  ASSUME NEW type, NEW cl, NEW tg, NEW data, NEW values, NEW rest,
         Innermost(type, cl, tg, data, values, rest), phase = "decoding", Decode,
         ~ IsFull(type, values),
         \/ TooLong(data)
         \/ \E class, tag, bytes, tail : Reads(data, class, tag, bytes, tail) /\ ~ TagFits(FieldAfter(type, values), tag)
  PROVE  Fail("refused")
<1>1. Top.bytes = data /\ NextElement = Unmarshal(data)
  BY TopFacts
<1>2. (Full <=> IsFull(type, values)) /\ Type = FieldAfter(type, values)
  BY TopFacts
<1>3. ~ Fits /\ Top.bytes # <<>> /\ ~ Full
  <2>1. CASE TooLong(data)
    <3>1. Refused.is # "ok"
      BY DEF Refused
    <3> QED
      BY <1>1, <1>2, <2>1, <3>1 DEF TooLong, Fits
  <2>2. ASSUME NEW class, NEW tag, NEW bytes, NEW tail, Reads(data, class, tag, bytes, tail),
               ~ TagFits(FieldAfter(type, values), tag)
        PROVE  ~ Fits /\ Top.bytes # <<>> /\ ~ Full
    <3>1. Unmarshal(data).value.tag = tag /\ data # <<>>
      BY <2>2, ReadsFacts
    <3>2. ~ TagOK
      BY <1>1, <1>2, <2>2, <3>1 DEF TagOK, TagFits
    <3> QED
      BY <1>1, <1>2, <3>1, <3>2 DEF Fits
  <2> QED
    BY <2>1, <2>2
<1>4. RefuseElement
  <2>1. ~ RefuseTooMany
    BY <1>3, Zenon DEF RefuseTooMany
  <2>2. ~ Enter /\ ~ UnpackLeaf
    BY <1>3, Zenon DEF Enter, UnpackLeaf
  <2>3. ~ RefuseTooFew
    BY <1>3, Zenon DEF RefuseTooFew
  <2>4. ~ Leave /\ ~ End
    BY <1>3, Zenon DEF Leave, End, Complete
  <2> QED
    BY <2>1, <2>2, <2>3, <2>4, Zenon DEF Decode
<1> QED
  BY <1>4, Zenon DEF RefuseElement

LEMMA ManyMove ==
  ASSUME NEW type, NEW cl, NEW tg, NEW data, NEW values, NEW rest,
         Innermost(type, cl, tg, data, values, rest), phase = "decoding", Decode,
         IsFull(type, values), data # <<>>
  PROVE  Fail("refused")
<1>1. Top.bytes = data /\ (Full <=> IsFull(type, values))
  BY TopFacts
<1>2. Top.bytes # <<>> /\ Full
  BY <1>1
<1>3. RefuseTooMany
  <2>1. ~ RefuseElement
    BY <1>2, Zenon DEF RefuseElement, More
  <2>2. ~ Enter /\ ~ UnpackLeaf
    BY <1>2, Zenon DEF Enter, UnpackLeaf, Fits, More
  <2>3. ~ RefuseTooFew
    BY <1>2, Zenon DEF RefuseTooFew
  <2>4. ~ Leave /\ ~ End
    BY <1>2, Zenon DEF Leave, End, Complete
  <2> QED
    BY <2>1, <2>2, <2>3, <2>4, Zenon DEF Decode
<1> QED
  BY <1>3, Zenon DEF RefuseTooMany

LEMMA FewMove ==
  ASSUME NEW type, NEW cl, NEW tg, NEW data, NEW values, NEW rest,
         Innermost(type, cl, tg, data, values, rest), phase = "decoding", Decode,
         type \in Structs, ~ IsFull(type, values), data = <<>>
  PROVE  Fail("refused")
<1>1. Top.bytes = data /\ Top.type = type /\ (Full <=> IsFull(type, values))
  BY TopFacts
<1>2. Top.bytes = <<>> /\ Top.type \in Structs /\ ~ Full
  BY <1>1
<1>3. RefuseTooFew
  <2>1. ~ RefuseElement /\ ~ RefuseTooMany
    BY <1>2, Zenon DEF RefuseElement, RefuseTooMany, More
  <2>2. ~ Enter /\ ~ UnpackLeaf
    BY <1>2, Zenon DEF Enter, UnpackLeaf, Fits, More
  <2>3. ~ Leave /\ ~ End
    BY <1>2, Zenon DEF Leave, End, Complete
  <2> QED
    BY <2>1, <2>2, <2>3, Zenon DEF Decode
<1> QED
  BY <1>3, Zenon DEF RefuseTooFew

\* All of a call has been read.
IsRead(type, data, values) == data = <<>> /\ (type \in Structs => IsFull(type, values))
AnswerOf(type, class, tag, values) == IF type = "PDU" THEN [class |-> class, tag |-> tag, values |-> values] ELSE values

LEMMA ReadAllFacts ==
  ASSUME NEW type, NEW cl, NEW tg, NEW data, NEW values, NEW rest,
         Innermost(type, cl, tg, data, values, rest), IsRead(type, data, values), phase = "decoding", Decode
  PROVE  (Leave \/ End) /\ Answer(Top) = AnswerOf(type, cl, tg, values)
<1>1. Top.bytes = data /\ Top.type = type /\ (Full <=> IsFull(type, values))
  BY TopFacts
<1>2. Complete /\ Top.bytes = <<>>
  BY <1>1 DEF Complete, IsRead
<1>3. ~ RefuseElement /\ ~ RefuseTooMany /\ ~ RefuseTooFew
  BY <1>2, Zenon DEF RefuseElement, RefuseTooMany, RefuseTooFew, More
<1>4. ~ Enter /\ ~ UnpackLeaf
  BY <1>2, Zenon DEF Enter, UnpackLeaf, Fits, More
<1>5. Leave \/ End
  BY <1>3, <1>4, Zenon DEF Decode
<1>6. Top = CallOf(type, cl, tg, data, values)
  BY StackFacts DEF Innermost, Top
<1>7. Answer(CallOf(type, cl, tg, data, values)) = AnswerOf(type, cl, tg, values)
  BY DEF Answer, CallOf, AnswerOf
<1> QED
  BY <1>5, <1>6, <1>7

LEMMA LeaveMove ==
  ASSUME NEW type, NEW cl, NEW tg, NEW data, NEW values, NEW caller, NEW cl2, NEW tg2, NEW data2, NEW values2, NEW rest,
         IsStack(rest), Innermost(type, cl, tg, data, values, On(CallOf(caller, cl2, tg2, data2, values2), rest)),
         IsRead(type, data, values), phase = "decoding", Decode
  PROVE  Becomes(On(CallOf(caller, cl2, tg2, data2, Append(values2, AnswerOf(type, cl, tg, values))), rest))
<1>1. (Leave \/ End) /\ Answer(Top) = AnswerOf(type, cl, tg, values)
  BY ReadAllFacts
<1>2. PICK a : a = CallOf(caller, cl2, tg2, data2, values2)
  OBVIOUS
<1>3. stack = On(CallOf(type, cl, tg, data, values), On(a, rest))
  BY <1>2 DEF Innermost
<1>4. Len(stack) > 1 /\ stack[2] = a /\ SubSeq(stack, 3, Len(stack)) = rest
  BY <1>3, CallFacts
<1>5. Leave
  <2>1. ~ (Len(stack) = 1)
    <3>1. Len(On(CallOf(type, cl, tg, data, values), On(a, rest))) = Len(On(a, rest)) + 1 /\ Len(On(a, rest)) = Len(rest) + 1
          /\ Len(rest) \in Nat
      BY StackFacts
    <3> QED
      BY <1>3, <3>1
  <2> QED
    BY <1>1, <2>1 DEF End
<1>6. PICK v : v = Answer(Top)
  OBVIOUS
<1>7. stack' = << WithValues(a, Append(a.values, v)) >> \o rest /\ UNCHANGED <<sent, frame, phase, message>>
  BY <1>4, <1>5, <1>6 DEF Leave, WithValues
<1>8. a.values = values2
  BY <1>2 DEF CallOf
<1>9. WithValues(a, Append(values2, v)) = CallOf(caller, cl2, tg2, data2, Append(values2, v))
  BY <1>2, CallUpdates
<1> QED
  BY <1>1, <1>6, <1>7, <1>8, <1>9 DEF Becomes, On

LEMMA EndMove ==
  ASSUME NEW type, NEW cl, NEW tg, NEW data, NEW values,
         Innermost(type, cl, tg, data, values, <<>>), IsRead(type, data, values), phase = "decoding", Decode
  PROVE  Ends(AnswerOf(type, cl, tg, values))
<1>1. (Leave \/ End) /\ Answer(Top) = AnswerOf(type, cl, tg, values)
  BY ReadAllFacts
<1>2. Len(stack) = 1
  <2>1. stack = On(CallOf(type, cl, tg, data, values), <<>>) /\ IsStack(<<>>) /\ Len(<<>>) = 0
    BY DEF Innermost
  <2>2. Len(On(CallOf(type, cl, tg, data, values), <<>>)) = Len(<<>>) + 1
    BY <2>1, StackFacts
  <2> QED
    BY <2>1, <2>2
<1>3. ~ Leave
  BY <1>2 DEF Leave
<1> QED
  BY <1>1, <1>3 DEF End, Ends

-----------------------------------------------------------------------------
(* The stacks of a message                                                  *)

\* The values of a message, and what is answered of its parts.
BindValue(b)  == <<b.oid, [class |-> b.class, tag |-> b.tag, bytes |-> b.bytes]>>
BindValues(m) == [i \in DOMAIN m.binds |-> BindValue(m.binds[i])]
PduValues(m)  == <<m.id, m.status, m.index, BindValues(m)>>
PduAnswer(m)  == [class |-> 2, tag |-> m.tag, values |-> PduValues(m)]

LEMMA PrefixFacts ==
  ASSUME NEW v, IsStack(v)
  PROVE  /\ Len(v) \in Nat
         /\ First(v, 0) = <<>> /\ First(v, Len(v)) = v
         /\ \A k \in 0 .. Len(v) : Len(First(v, k)) = k
         /\ \A k \in 0 .. Len(v) - 1 : Append(First(v, k), v[k + 1]) = First(v, k + 1)
<1>1. PICK S : v \in Seq(S)
  BY DEF IsStack
<1>2. PICK w \in Seq(S) : w = v
  BY <1>1
<1>3. /\ Len(w) \in Nat
      /\ First(w, 0) = <<>> /\ First(w, Len(w)) = w
      /\ \A k \in 0 .. Len(w) : Len(First(w, k)) = k
      /\ \A k \in 0 .. Len(w) - 1 : First(w, k + 1) = Append(First(w, k), w[k + 1])
  BY FirstFacts
<1> QED
  BY <1>2, <1>3

LEMMA MeantIs ==
  ASSUME NEW m
  PROVE  Meant(m) = <<m.version, m.community, PduAnswer(m)>>
BY Zenon DEF Meant, PduAnswer, PduValues, BindValues, BindValue

LEMMA MessageValues ==
  ASSUME NEW m
  PROVE  /\ First(Meant(m), 0) = <<>>
         /\ Append(First(Meant(m), 0), m.version) = First(Meant(m), 1)
         /\ Append(First(Meant(m), 1), m.community) = First(Meant(m), 2)
         /\ Append(First(Meant(m), 2), PduAnswer(m)) = First(Meant(m), 3)
         /\ First(Meant(m), 3) = Meant(m)
         /\ Len(First(Meant(m), 0)) = 0 /\ Len(First(Meant(m), 1)) = 1
         /\ Len(First(Meant(m), 2)) = 2 /\ Len(First(Meant(m), 3)) = 3
<1>1. PICK a : a = m.version
  OBVIOUS
<1>2. PICK b : b = m.community
  OBVIOUS
<1>3. PICK c : c = PduAnswer(m)
  OBVIOUS
<1>4. PICK v : v = <<a, b, c>>
  OBVIOUS
<1>5. v \in Seq({a, b, c}) /\ Len(v) = 3 /\ v[1] = a /\ v[2] = b /\ v[3] = c
  BY <1>4
<1>6. IsStack(v)
  BY <1>5 DEF IsStack
<1>70. /\ Len(v) \in Nat /\ First(v, 0) = <<>> /\ First(v, Len(v)) = v
       /\ \A k \in 0 .. Len(v) : Len(First(v, k)) = k
       /\ \A k \in 0 .. Len(v) - 1 : Append(First(v, k), v[k + 1]) = First(v, k + 1)
  BY <1>6, PrefixFacts, Zenon
<1>7. /\ First(v, 0) = <<>> /\ First(v, 3) = v
      /\ \A k \in 0 .. 3 : Len(First(v, k)) = k
      /\ \A k \in 0 .. 2 : Append(First(v, k), v[k + 1]) = First(v, k + 1)
  BY <1>5, <1>70
<1>8. /\ Append(First(v, 0), a) = First(v, 1) /\ Append(First(v, 1), b) = First(v, 2)
      /\ Append(First(v, 2), c) = First(v, 3)
  BY <1>5, <1>7
<1>9. /\ Len(First(v, 0)) = 0 /\ Len(First(v, 1)) = 1 /\ Len(First(v, 2)) = 2 /\ Len(First(v, 3)) = 3
  BY <1>7
<1>10. v = Meant(m)
  BY <1>1, <1>2, <1>3, <1>4, MeantIs, Zenon
<1> QED
  BY <1>1, <1>2, <1>3, <1>7, <1>8, <1>9, <1>10

LEMMA PduValuesFacts ==
  ASSUME NEW m
  PROVE  /\ First(PduValues(m), 0) = <<>>
         /\ Append(First(PduValues(m), 0), m.id) = First(PduValues(m), 1)
         /\ Append(First(PduValues(m), 1), m.status) = First(PduValues(m), 2)
         /\ Append(First(PduValues(m), 2), m.index) = First(PduValues(m), 3)
         /\ Append(First(PduValues(m), 3), BindValues(m)) = First(PduValues(m), 4)
         /\ AnswerOf("PDU", 2, m.tag, First(PduValues(m), 4)) = PduAnswer(m)
         /\ Len(First(PduValues(m), 0)) = 0 /\ Len(First(PduValues(m), 1)) = 1
         /\ Len(First(PduValues(m), 2)) = 2 /\ Len(First(PduValues(m), 3)) = 3
         /\ Len(First(PduValues(m), 4)) = 4
<1>1. PICK a : a = m.id
  OBVIOUS
<1>2. PICK b : b = m.status
  OBVIOUS
<1>3. PICK c : c = m.index
  OBVIOUS
<1>4. PICK d : d = BindValues(m)
  OBVIOUS
<1>5. PICK v : v = <<a, b, c, d>>
  OBVIOUS
<1>6. v \in Seq({a, b, c, d}) /\ Len(v) = 4 /\ v[1] = a /\ v[2] = b /\ v[3] = c /\ v[4] = d
  BY <1>5
<1>7. IsStack(v)
  BY <1>6 DEF IsStack
<1>80. /\ Len(v) \in Nat /\ First(v, 0) = <<>> /\ First(v, Len(v)) = v
       /\ \A k \in 0 .. Len(v) : Len(First(v, k)) = k
       /\ \A k \in 0 .. Len(v) - 1 : Append(First(v, k), v[k + 1]) = First(v, k + 1)
  BY <1>7, PrefixFacts, Zenon
<1>8. /\ First(v, 0) = <<>> /\ First(v, 4) = v
      /\ \A k \in 0 .. 4 : Len(First(v, k)) = k
      /\ \A k \in 0 .. 3 : Append(First(v, k), v[k + 1]) = First(v, k + 1)
  BY <1>6, <1>80
<1>9. /\ Append(First(v, 0), a) = First(v, 1) /\ Append(First(v, 1), b) = First(v, 2)
      /\ Append(First(v, 2), c) = First(v, 3) /\ Append(First(v, 3), d) = First(v, 4)
  BY <1>6, <1>8
<1>10. /\ Len(First(v, 0)) = 0 /\ Len(First(v, 1)) = 1 /\ Len(First(v, 2)) = 2 /\ Len(First(v, 3)) = 3
       /\ Len(First(v, 4)) = 4
  BY <1>8
<1>11. v = PduValues(m)
  BY <1>1, <1>2, <1>3, <1>4, <1>5, Zenon DEF PduValues
<1>12. AnswerOf("PDU", 2, m.tag, v) = PduAnswer(m)
  BY <1>11 DEF AnswerOf, PduAnswer
<1> QED
  BY <1>1, <1>2, <1>3, <1>4, <1>8, <1>9, <1>10, <1>11, <1>12

LEMMA BindValueFacts ==
  ASSUME NEW b
  PROVE  /\ First(BindValue(b), 0) = <<>>
         /\ Append(First(BindValue(b), 0), b.oid) = First(BindValue(b), 1)
         /\ Append(First(BindValue(b), 1), [class |-> b.class, tag |-> b.tag, bytes |-> b.bytes])
              = First(BindValue(b), 2)
         /\ AnswerOf("VarBind", 0, 48, First(BindValue(b), 2)) = BindValue(b)
         /\ Len(First(BindValue(b), 0)) = 0 /\ Len(First(BindValue(b), 1)) = 1
         /\ Len(First(BindValue(b), 2)) = 2
<1>1. PICK x : x = b.oid
  OBVIOUS
<1>2. PICK y : y = [class |-> b.class, tag |-> b.tag, bytes |-> b.bytes]
  OBVIOUS
<1>3. PICK v : v = <<x, y>>
  OBVIOUS
<1>4. v \in Seq({x, y}) /\ Len(v) = 2 /\ v[1] = x /\ v[2] = y
  BY <1>3
<1>5. IsStack(v)
  BY <1>4 DEF IsStack
<1>60. /\ Len(v) \in Nat /\ First(v, 0) = <<>> /\ First(v, Len(v)) = v
       /\ \A k \in 0 .. Len(v) : Len(First(v, k)) = k
       /\ \A k \in 0 .. Len(v) - 1 : Append(First(v, k), v[k + 1]) = First(v, k + 1)
  BY <1>5, PrefixFacts, Zenon
<1>6. /\ First(v, 0) = <<>> /\ First(v, 2) = v
      /\ \A k \in 0 .. 2 : Len(First(v, k)) = k
      /\ \A k \in 0 .. 1 : Append(First(v, k), v[k + 1]) = First(v, k + 1)
  BY <1>4, <1>60
<1>7. Append(First(v, 0), x) = First(v, 1) /\ Append(First(v, 1), y) = First(v, 2)
  BY <1>4, <1>6
<1>8. Len(First(v, 0)) = 0 /\ Len(First(v, 1)) = 1 /\ Len(First(v, 2)) = 2
  BY <1>6
<1>9. v = BindValue(b)
  BY <1>1, <1>2, <1>3, Zenon DEF BindValue
<1>10. AnswerOf("VarBind", 0, 48, v) = v
  BY DEF AnswerOf
<1> QED
  BY <1>1, <1>2, <1>6, <1>7, <1>8, <1>9, <1>10

LEMMA BindsValuesFacts ==
  ASSUME NEW s \in Sendings
  PROVE  LET n == Len(s.message.binds)
             v == BindValues(s.message)
         IN  /\ n \in Nat
             /\ First(v, 0) = <<>>
             /\ \A j \in 1 .. n : Append(First(v, j - 1), BindValue(s.message.binds[j])) = First(v, j)
             /\ AnswerOf("VarBinds", 0, TagOf(s, "binds", 48), First(v, n)) = v
<1>1. PICK n \in Nat : n = Len(s.message.binds) /\ DOMAIN s.message.binds = 1 .. n
  <2>1. s.message.binds \in Seq(ToSet(s.message.binds))
    BY SendingFacts DEF MessageOK
  <2> QED
    BY <2>1
<1>2. PICK v : v = BindValues(s.message)
  OBVIOUS
<1> DEFINE S == {BindValue(s.message.binds[i]) : i \in 1 .. n}
<1>3. v \in [1 .. n -> S] /\ \A j \in 1 .. n : v[j] = BindValue(s.message.binds[j])
  BY <1>1, <1>2 DEF BindValues
<1> HIDE DEF S
<1>4. v \in Seq(S) /\ Len(v) = n
  BY <1>3, FunctionSeq
<1>5. IsStack(v)
  BY <1>4 DEF IsStack
<1>6. /\ First(v, 0) = <<>> /\ First(v, n) = v
      /\ \A k \in 0 .. n - 1 : Append(First(v, k), v[k + 1]) = First(v, k + 1)
  BY <1>4, <1>5, PrefixFacts
<1>7. ASSUME NEW j \in 1 .. n PROVE Append(First(v, j - 1), BindValue(s.message.binds[j])) = First(v, j)
  <2>1. PICK k \in 0 .. n - 1 : k = j - 1 /\ k + 1 = j
    OBVIOUS
  <2> QED
    BY <1>3, <1>6, <2>1
<1>8. AnswerOf("VarBinds", 0, TagOf(s, "binds", 48), v) = v
  BY DEF AnswerOf
<1> QED
  BY <1>1, <1>2, <1>6, <1>7, <1>8

\* A call of each type, so many values of which are read, and what is left after so many elements.
SequenceTag == 48

MessageCall(s, k, n) == CallOf("Message", 0, SequenceTag, Left(OfMessage(s), n), First(Meant(s.message), k))
PduCall(s, k, n)     == CallOf("PDU", 2, s.message.tag, Shortened(s, Left(OfPdu(s), n)), First(PduValues(s.message), k))
BindsCall(s, k, n)   == CallOf("VarBinds", 0, TagOf(s, "binds", SequenceTag), Left(OfBinds(s), n), First(BindValues(s.message), k))
BindCall(s, b, k)    == CallOf("VarBind", 0, SequenceTag, Left(OfBind(s, b), k), First(BindValue(b), k))
ExtraCall            == CallOf("VarBind", 0, 2, IntBytesOf(0), <<>>)

\* The stacks: the call that is read, and the calls around it.
AroundPdu(s)        == On(MessageCall(s, 2, 3), <<>>)
AroundBinds(s)      == On(PduCall(s, 3, 4), AroundPdu(s))
AroundBind(s, k, n) == On(BindsCall(s, k, n), AroundBinds(s))

InMessage(s, k) == On(MessageCall(s, k, k), <<>>)
InPdu(s, k)     == On(PduCall(s, k, k), AroundPdu(s))
InBinds(s, k)   == On(BindsCall(s, k, k), AroundBinds(s))
InBind(s, j, k) == On(BindCall(s, s.message.binds[j], k), AroundBind(s, j - 1, j))
InExtra(s)      == On(ExtraCall, AroundBind(s, Len(s.message.binds), Len(s.message.binds) + 1))

\* What is known of a frame when so much of it has been read: none of the damage that would
\* have been seen by now was done to it.
PastCommunity(s) == ~ Hit(s, "tag", "community")
PastMessage(s)   == PastCommunity(s) /\ ~ Hit(s, "few", "message")
PastId(s)        == PastMessage(s) /\ s.damage.kind \notin {"long", "negative"} /\ ~ Hit(s, "tag", "id")
PastPdu(s)       == PastId(s) /\ s.damage.kind # "inner" /\ ~ Hit(s, "few", "pdu") /\ ~ Hit(s, "tag", "binds")
PastOid(s)       == PastPdu(s) /\ ~ Hit(s, "tag", "oid")
PastValue(s)     == PastOid(s) /\ ~ Hit(s, "few", "bind")
PastBind(s)      == PastValue(s) /\ ~ Hit(s, "many", "bind")
PastBinds(s)     == PastPdu(s) /\ (s.message.binds # <<>> => PastBind(s)) /\ ~ Hit(s, "many", "binds")
PastAnswer(s)    == PastBinds(s) /\ ~ Hit(s, "many", "pdu")

\* The stacks there are while a frame is decoded.
ShapeOf(s, st) ==
  \/ st = InMessage(s, 0) \/ st = InMessage(s, 1)
  \/ st = InMessage(s, 2) /\ PastCommunity(s)
  \/ st = InMessage(s, 3) /\ PastAnswer(s)
  \/ st = InPdu(s, 0) /\ PastMessage(s)
  \/ (st = InPdu(s, 1) \/ st = InPdu(s, 2) \/ st = InPdu(s, 3)) /\ PastId(s)
  \/ st = InPdu(s, 4) /\ PastBinds(s)
  \/ \E k \in 0 .. Len(s.message.binds) : st = InBinds(s, k) /\ PastPdu(s) /\ (k # 0 => PastBind(s))
  \/ \E j \in 1 .. Len(s.message.binds) : \/ st = InBind(s, j, 0) /\ PastPdu(s)
                                          \/ st = InBind(s, j, 1) /\ PastOid(s)
                                          \/ st = InBind(s, j, 2) /\ PastValue(s)
  \/ st = InExtra(s) /\ PastPdu(s) /\ Hit(s, "many", "binds")

\* What a step may come to: another of these stacks, an error if the frame is damaged, or
\* the message if it is whole.
StepOK(s) ==
  \/ \E st : ShapeOf(s, st) /\ Becomes(st)
  \/ s.damage.kind \notin Whole /\ (Fail("refused") \/ Fail("panicked"))
  \/ s.damage.kind \in Whole /\ Ends(Meant(s.message))

LEMMA NotWhole ==
  ASSUME NEW s
  PROVE  /\ \A at : Hit(s, "tag", at) \/ Hit(s, "few", at) \/ Hit(s, "many", at) => s.damage.kind \notin Whole
         /\ s.damage.kind \in {"long", "negative", "inner", "cut"} => s.damage.kind \notin Whole
BY DEF Hit, Whole

LEMMA RestFacts ==
  ASSUME NEW s
  PROVE  /\ IsStack(<<>>) /\ IsStack(AroundPdu(s)) /\ IsStack(AroundBinds(s))
         /\ \A k, n : IsStack(AroundBind(s, k, n))
<1>1. IsStack(<<>>)
  BY LeftNone, Zenon DEF IsCalls
<1>2. \A call, rest : IsStack(rest) => IsStack(On(call, rest))
  BY StackFacts, Zenon
<1>3. IsStack(AroundPdu(s))
  BY <1>1, <1>2, Zenon DEF AroundPdu
<1>4. IsStack(AroundBinds(s))
  BY <1>2, <1>3, Zenon DEF AroundBinds
<1>5. ASSUME NEW k, NEW n PROVE IsStack(AroundBind(s, k, n))
  BY <1>2, <1>4, Zenon DEF AroundBind
<1> QED
  BY <1>1, <1>3, <1>4, <1>5, Zenon

\* The field that is next after so many values, or that there is none.
NextIs(type, n, field) == \A v : Len(v) = n => ~ IsFull(type, v) /\ FieldAfter(type, v) = field
FullAt(type, n)        == \A v : Len(v) = n => IsFull(type, v)

LEMMA FieldFacts ==
  /\ NextIs("Message", 0, "int") /\ NextIs("Message", 1, "string") /\ NextIs("Message", 2, "PDU") /\ FullAt("Message", 3)
  /\ NextIs("PDU", 0, "int") /\ NextIs("PDU", 1, "int") /\ NextIs("PDU", 2, "int") /\ NextIs("PDU", 3, "VarBinds")
  /\ FullAt("PDU", 4)
  /\ NextIs("VarBind", 0, "OID") /\ NextIs("VarBind", 1, "Value") /\ FullAt("VarBind", 2)
  /\ \A v : ~ IsFull("VarBinds", v) /\ FieldAfter("VarBinds", v) = "VarBind"
<1>1. "Message" \in Structs /\ "PDU" \in Structs /\ "VarBind" \in Structs /\ "VarBinds" \notin Structs
  BY DEF Structs, Fields
<1>2. ASSUME NEW type \in Structs, NEW f, f = Fields[type], NEW n \in Nat, n < Len(f), Len(f) \in Nat
      PROVE  NextIs(type, n, f[n + 1]) /\ FullAt(type, Len(f))
  <2>1. ASSUME NEW v, Len(v) = n PROVE ~ IsFull(type, v) /\ FieldAfter(type, v) = f[n + 1]
    <3>1. Len(v) # Len(f)
      BY <1>2, <2>1
    <3> QED
      BY <1>2, <2>1, <3>1, Zenon DEF IsFull, FieldAfter
  <2>2. ASSUME NEW v, Len(v) = Len(f) PROVE IsFull(type, v)
    BY <1>2, <2>2, Zenon DEF IsFull
  <2> QED
    BY <2>1, <2>2, Zenon DEF NextIs, FullAt
<1>3. /\ NextIs("Message", 0, "int") /\ NextIs("Message", 1, "string") /\ NextIs("Message", 2, "PDU")
      /\ FullAt("Message", 3)
  <2>1. PICK f : f = Fields["Message"]
    OBVIOUS
  <2>2. f = <<"int", "string", "PDU">>
    BY <2>1 DEF Fields
  <2>3. Len(f) = 3 /\ f[1] = "int" /\ f[2] = "string" /\ f[3] = "PDU"
    BY <2>2
  <2>4. Len(f) \in Nat
    BY <2>3
  <2>6. \A n \in Nat : n < Len(f) => NextIs("Message", n, f[n + 1]) /\ FullAt("Message", Len(f))
    BY <1>1, <1>2, <2>1, <2>4, Zenon
  <2>5. NextIs("Message", 0, f[1]) /\ NextIs("Message", 1, f[2]) /\ NextIs("Message", 2, f[3]) /\ FullAt("Message", 3)
    BY <2>3, <2>6
  <2> QED
    BY <2>3, <2>5, Zenon
<1>4. /\ NextIs("PDU", 0, "int") /\ NextIs("PDU", 1, "int") /\ NextIs("PDU", 2, "int") /\ NextIs("PDU", 3, "VarBinds")
      /\ FullAt("PDU", 4)
  <2>1. PICK f : f = Fields["PDU"]
    OBVIOUS
  <2>2. f = <<"int", "int", "int", "VarBinds">>
    BY <2>1 DEF Fields
  <2>3. Len(f) = 4 /\ f[1] = "int" /\ f[2] = "int" /\ f[3] = "int" /\ f[4] = "VarBinds"
    BY <2>2
  <2>4. Len(f) \in Nat
    BY <2>3
  <2>6. \A n \in Nat : n < Len(f) => NextIs("PDU", n, f[n + 1]) /\ FullAt("PDU", Len(f))
    BY <1>1, <1>2, <2>1, <2>4, Zenon
  <2>5. /\ NextIs("PDU", 0, f[1]) /\ NextIs("PDU", 1, f[2]) /\ NextIs("PDU", 2, f[3]) /\ NextIs("PDU", 3, f[4])
        /\ FullAt("PDU", 4)
    BY <2>3, <2>6
  <2> QED
    BY <2>3, <2>5, Zenon
<1>6. NextIs("VarBind", 0, "OID") /\ NextIs("VarBind", 1, "Value") /\ FullAt("VarBind", 2)
  <2>1. PICK f : f = Fields["VarBind"]
    OBVIOUS
  <2>2. f = <<"OID", "Value">>
    BY <2>1 DEF Fields
  <2>3. Len(f) = 2 /\ f[1] = "OID" /\ f[2] = "Value"
    BY <2>2
  <2>4. Len(f) \in Nat
    BY <2>3
  <2>6. \A n \in Nat : n < Len(f) => NextIs("VarBind", n, f[n + 1]) /\ FullAt("VarBind", Len(f))
    BY <1>1, <1>2, <2>1, <2>4, Zenon
  <2>5. NextIs("VarBind", 0, f[1]) /\ NextIs("VarBind", 1, f[2]) /\ FullAt("VarBind", 2)
    BY <2>3, <2>6
  <2> QED
    BY <2>3, <2>5, Zenon
<1>5. \A v : ~ IsFull("VarBinds", v) /\ FieldAfter("VarBinds", v) = "VarBind"
  BY <1>1, Zenon DEF IsFull, FieldAfter
<1> QED
  BY <1>3, <1>4, <1>5, <1>6, Zenon

LEMMA TypesFacts ==
  /\ {"Message", "PDU", "VarBind"} = Structs /\ Calls = {"Message", "PDU", "VarBind", "VarBinds"}
  /\ "int" \notin Calls /\ "string" \notin Calls /\ "OID" \notin Calls /\ "Value" \notin Calls
  /\ "PDU" \in Calls /\ "VarBind" \in Calls /\ "VarBinds" \in Calls /\ "Message" \in Calls
  /\ "Message" \in Structs /\ "PDU" \in Structs /\ "VarBind" \in Structs /\ "VarBinds" \notin Structs
<1>1. Structs = {"Message", "PDU", "VarBind"}
  BY DEF Structs, Fields
<1> QED
  BY <1>1 DEF Calls

LEMMA TagsFit ==
  /\ \A tag : TagFits("int", tag) /\ TagFits("PDU", tag) /\ TagFits("OID", tag) /\ TagFits("Value", tag)
              /\ TagFits("VarBind", tag)
  /\ \A s : TagFits("string", TagOf(s, "community", 4)) <=> ~ Hit(s, "tag", "community")
  /\ \A s : TagFits("VarBinds", TagOf(s, "binds", SequenceTag)) <=> ~ Hit(s, "tag", "binds")
BY DEF TagFits, TagOf, SequenceTag

LEMMA LeafIs ==
  /\ \A n : IntOK(n) => LeafOf("int", 0, 2, IntBytesOf(n)) = Value(n)
  /\ \A bytes, class, tag : LeafOf("string", class, tag, bytes) = Value(bytes)
  /\ \A bytes, class, tag : LeafOf("Value", class, tag, bytes) = Value([class |-> class, tag |-> tag, bytes |-> bytes])
  /\ \A s, oid : OidOK(oid) =>
       LeafOf("OID", 0, TagOf(s, "oid", 6), OidBytes(oid)) = IF Hit(s, "tag", "oid") THEN Refused ELSE Value(oid)
  /\ \A s : LeafOf("int", 0, TagOf(s, "id", 2), IdBytes(s)) = IF Hit(s, "tag", "id") THEN Refused ELSE GetInt(IdBytes(s))
<1>1. ASSUME NEW n, IntOK(n) PROVE LeafOf("int", 0, 2, IntBytesOf(n)) = Value(n)
  <2>1. LeafOf("int", 0, 2, IntBytesOf(n)) = GetInt(IntBytesOf(n))
    BY DEF LeafOf
  <2> QED
    BY <1>1, <2>1, GetIntFacts, Zenon
<1>2. ASSUME NEW bytes, NEW class, NEW tag
      PROVE  /\ LeafOf("string", class, tag, bytes) = Value(bytes)
             /\ LeafOf("Value", class, tag, bytes) = Value([class |-> class, tag |-> tag, bytes |-> bytes])
  BY DEF LeafOf
<1>3. ASSUME NEW s, NEW oid, OidOK(oid)
      PROVE  LeafOf("OID", 0, TagOf(s, "oid", 6), OidBytes(oid)) = IF Hit(s, "tag", "oid") THEN Refused ELSE Value(oid)
  <2>1. LeafOf("OID", 0, TagOf(s, "oid", 6), OidBytes(oid)) = IF Hit(s, "tag", "oid") THEN Refused ELSE GetOid(OidBytes(oid))
    BY DEF LeafOf, TagOf
  <2>2. GetOid(OidBytes(oid)) = Value(oid)
    BY <1>3, GetOidFacts, Zenon
  <2> QED
    BY <2>1, <2>2, Zenon
<1>4. ASSUME NEW s
      PROVE  LeafOf("int", 0, TagOf(s, "id", 2), IdBytes(s)) = IF Hit(s, "tag", "id") THEN Refused ELSE GetInt(IdBytes(s))
  BY DEF LeafOf, TagOf
<1> QED
  BY <1>1, <1>2, <1>3, <1>4, Zenon

LEMMA SentNumbers ==
  ASSUME NEW s \in Sendings
  PROVE  /\ DamageOK(s)
         /\ IntOK(s.message.version) /\ IntOK(s.message.id) /\ IntOK(s.message.status) /\ IntOK(s.message.index)
<1>1. MessageOK(s.message) /\ DamageOK(s)
  BY SendingFacts
<1> QED
  BY <1>1 DEF MessageOK

\* Where there is none of the damage, there is none.
LEMMA AllPast ==
  ASSUME NEW s \in Sendings, PastAnswer(s), ~ Hit(s, "many", "message"), s.damage.kind # "cut"
  PROVE  s.damage.kind \in Whole
<1>1. DamageOK(s)
  BY SentNumbers, Zenon
<1>2. PICK kind : kind = s.damage.kind
  OBVIOUS
<1>3. PICK at : at = s.damage.at
  OBVIOUS
<1>4. /\ kind # "inner" /\ kind # "long" /\ kind # "negative"
      /\ \A k, a : Hit(s, k, a) <=> kind = k /\ at = a
  BY <1>2, <1>3 DEF Hit, PastAnswer, PastBinds, PastPdu, PastId
<1>5. /\ ~ Hit(s, "tag", "community") /\ ~ Hit(s, "few", "message") /\ ~ Hit(s, "tag", "id")
      /\ ~ Hit(s, "few", "pdu") /\ ~ Hit(s, "tag", "binds") /\ ~ Hit(s, "many", "binds") /\ ~ Hit(s, "many", "pdu")
      /\ s.message.binds # <<>> =>
           ~ Hit(s, "tag", "oid") /\ ~ Hit(s, "few", "bind") /\ ~ Hit(s, "many", "bind")
  BY Zenon DEF PastAnswer, PastBinds, PastBind, PastValue, PastOid, PastPdu, PastId, PastMessage, PastCommunity
<1>6. \/ kind \in Whole \cup {"inner", "long", "negative"}
      \/ kind = "cut"
      \/ /\ <<kind, at>> \in ({"few", "many"} \X {"message", "pdu", "bind"}) \cup {<<"many", "binds">>}
                               \cup ({"tag"} \X {"community", "id", "binds", "oid"})
         /\ at \in {"bind", "oid"} => s.message.binds # <<>>
  BY <1>1, <1>2, <1>3, Zenon DEF DamageOK
<1>7. \/ kind \in Whole \/ kind = "cut"
      \/ /\ \/ kind \in {"few", "many"} /\ at \in {"message", "pdu", "bind"}
            \/ kind = "many" /\ at = "binds"
            \/ kind = "tag" /\ at \in {"community", "id", "binds", "oid"}
         /\ at \in {"bind", "oid"} => s.message.binds # <<>>
  BY <1>4, <1>6
<1> QED
  BY <1>2, <1>4, <1>5, <1>7

\* The version.
LEMMA MessageVersion ==
  ASSUME NEW s \in Sendings, phase = "decoding", Decode, stack = InMessage(s, 0)
  PROVE  StepOK(s)
<1>1. Innermost("Message", 0, SequenceTag, Left(OfMessage(s), 0), First(Meant(s.message), 0), <<>>)
  BY RestFacts, Zenon DEF Innermost, InMessage, MessageCall
<1>2. Reads(Left(OfMessage(s), 0), 0, 2, IntBytesOf(s.message.version), Left(OfMessage(s), 1))
  BY MessageReads, Zenon
<1>3. ~ IsFull("Message", First(Meant(s.message), 0)) /\ FieldAfter("Message", First(Meant(s.message), 0)) = "int"
  BY MessageValues, FieldFacts, Zenon DEF NextIs
<1>4. LeafOf("int", 0, 2, IntBytesOf(s.message.version)) = Value(s.message.version)
  <2>1. IntOK(s.message.version)
    BY SentNumbers, Zenon
  <2> QED
    BY <2>1, LeafIs, Zenon
<1>5. "int" \notin Calls /\ TagFits("int", 2)
  BY TypesFacts, TagsFit, Zenon
<1>6. Becomes(On(CallOf("Message", 0, SequenceTag, Left(OfMessage(s), 1), Append(First(Meant(s.message), 0), s.message.version)), <<>>))
  BY <1>1, <1>2, <1>3, <1>4, <1>5, LeafMove, Zenon
<1>7. Becomes(InMessage(s, 1))
  BY <1>6, MessageValues, Zenon DEF InMessage, MessageCall
<1> QED
  BY <1>7, Zenon DEF StepOK, ShapeOf

\* The community, which must have the tag of a string.
LEMMA MessageCommunity ==
  ASSUME NEW s \in Sendings, phase = "decoding", Decode, stack = InMessage(s, 1)
  PROVE  StepOK(s)
<1> DEFINE v == First(Meant(s.message), 1)
           tag == TagOf(s, "community", 4)
<1>1. Innermost("Message", 0, SequenceTag, Left(OfMessage(s), 1), v, <<>>)
  BY RestFacts, Zenon DEF Innermost, InMessage, MessageCall
<1>2. Reads(Left(OfMessage(s), 1), 0, tag, s.message.community, Left(OfMessage(s), 2))
  BY MessageReads, Zenon
<1>3. ~ IsFull("Message", v) /\ FieldAfter("Message", v) = "string"
  BY MessageValues, FieldFacts, Zenon DEF NextIs
<1>4. LeafOf("string", 0, tag, s.message.community) = Value(s.message.community)
  BY LeafIs, Zenon
<1>5. "string" \notin Calls /\ (TagFits("string", tag) <=> ~ Hit(s, "tag", "community"))
  BY TypesFacts, TagsFit, Zenon
<1>6. CASE Hit(s, "tag", "community")
  <2>1. Fail("refused")
    BY <1>1, <1>2, <1>3, <1>5, <1>6, ElementMove, Zenon
  <2> QED
    BY <1>6, <2>1, NotWhole, Zenon DEF StepOK
<1>7. CASE ~ Hit(s, "tag", "community")
  <2>1. Becomes(On(CallOf("Message", 0, SequenceTag, Left(OfMessage(s), 2), Append(v, s.message.community)), <<>>))
    BY <1>1, <1>2, <1>3, <1>4, <1>5, <1>7, LeafMove, Zenon
  <2>2. Becomes(InMessage(s, 2))
    BY <2>1, MessageValues, Zenon DEF InMessage, MessageCall
  <2> QED
    BY <1>7, <2>2, Zenon DEF StepOK, ShapeOf, PastCommunity
<1> QED
  BY <1>6, <1>7

\* The PDU, unless it is missing.
LEMMA MessagePdu ==
  ASSUME NEW s \in Sendings, phase = "decoding", Decode, stack = InMessage(s, 2), PastCommunity(s)
  PROVE  StepOK(s)
<1> DEFINE v == First(Meant(s.message), 2)
<1>1. Innermost("Message", 0, SequenceTag, Left(OfMessage(s), 2), v, <<>>)
  BY RestFacts, Zenon DEF Innermost, InMessage, MessageCall
<1>2. ~ IsFull("Message", v) /\ FieldAfter("Message", v) = "PDU"
  BY MessageValues, FieldFacts, Zenon DEF NextIs
<1>3. "PDU" \in Calls /\ "Message" \in Structs /\ TagFits("PDU", s.message.tag)
  BY TypesFacts, TagsFit, Zenon
<1>4. CASE Hit(s, "few", "message")
  <2>1. Left(OfMessage(s), 2) = <<>>
    BY <1>4, MessageReads, Zenon
  <2>2. Fail("refused")
    BY <1>1, <1>2, <1>3, <2>1, FewMove, Zenon
  <2> QED
    BY <1>4, <2>2, NotWhole, Zenon DEF StepOK
<1>5. CASE ~ Hit(s, "few", "message")
  <2> DEFINE bytes == Shortened(s, FlattenSeq(OfPdu(s)))
  <2>1. Reads(Left(OfMessage(s), 2), 2, s.message.tag, bytes, Left(OfMessage(s), 3))
    BY <1>5, MessageReads, Zenon
  <2>2. Becomes(On(CallOf("PDU", 2, s.message.tag, bytes, <<>>),
                   On(CallOf("Message", 0, SequenceTag, Left(OfMessage(s), 3), v), <<>>)))
    BY <1>1, <1>2, <1>3, <2>1, EnterMove, Zenon
  <2>3. bytes = Shortened(s, Left(OfPdu(s), 0)) /\ First(PduValues(s.message), 0) = <<>>
    BY <1>5, PduReads, PduValuesFacts, Zenon
  <2>4. Becomes(InPdu(s, 0))
    BY <2>2, <2>3, Zenon DEF InPdu, PduCall, AroundPdu, MessageCall
  <2> QED
    BY <1>5, <2>4, Zenon DEF StepOK, ShapeOf, PastMessage
<1> QED
  BY <1>4, <1>5

\* The end of the message, unless there is one more element.
LEMMA MessageEnd ==
  ASSUME NEW s \in Sendings, phase = "decoding", Decode, stack = InMessage(s, 3), PastAnswer(s), s.damage.kind # "cut"
  PROVE  StepOK(s)
<1> DEFINE v == First(Meant(s.message), 3)
<1>1. Innermost("Message", 0, SequenceTag, Left(OfMessage(s), 3), v, <<>>)
  BY RestFacts, Zenon DEF Innermost, InMessage, MessageCall
<1>2. IsFull("Message", v)
  BY MessageValues, FieldFacts, Zenon DEF FullAt
<1>3. CASE Hit(s, "many", "message")
  <2>1. Left(OfMessage(s), 3) # <<>>
    BY <1>3, MessageReads, Zenon
  <2>2. Fail("refused")
    BY <1>1, <1>2, <2>1, ManyMove, Zenon
  <2> QED
    BY <1>3, <2>2, NotWhole, Zenon DEF StepOK
<1>4. CASE ~ Hit(s, "many", "message")
  <2>1. ~ Hit(s, "few", "message")
    BY Zenon DEF PastAnswer, PastBinds, PastPdu, PastId, PastMessage
  <2>2. IsRead("Message", Left(OfMessage(s), 3), v)
    BY <1>2, <1>4, <2>1, MessageReads, Zenon DEF IsRead
  <2>3. Ends(AnswerOf("Message", 0, SequenceTag, v))
    BY <1>1, <2>2, EndMove, Zenon
  <2>4. AnswerOf("Message", 0, SequenceTag, v) = Meant(s.message)
    BY MessageValues DEF AnswerOf
  <2>5. s.damage.kind \in Whole
    BY <1>4, AllPast, Zenon
  <2> QED
    BY <2>3, <2>4, <2>5, Zenon DEF StepOK
<1> QED
  BY <1>3, <1>4

LEMMA PastFacts ==
  ASSUME NEW s
  PROVE  /\ PastMessage(s) => ~ Hit(s, "few", "message")
         /\ PastId(s) => ~ Hit(s, "few", "message") /\ PastMessage(s)
         /\ PastPdu(s) => /\ ~ Hit(s, "few", "message") /\ s.damage.kind # "inner" /\ ~ Hit(s, "few", "pdu")
                          /\ PastId(s)
         /\ PastOid(s) => PastPdu(s)
         /\ PastValue(s) => PastPdu(s) /\ ~ Hit(s, "few", "bind")
         /\ PastBinds(s) => PastPdu(s)
BY Zenon DEF PastBinds, PastValue, PastOid, PastPdu, PastId, PastMessage

\* The id of the request: of another tag, too long for an int, or as it was sent.
LEMMA PduId ==
  ASSUME NEW s \in Sendings, phase = "decoding", Decode, stack = InPdu(s, 0), PastMessage(s)
  PROVE  StepOK(s)
<1> DEFINE v == First(PduValues(s.message), 0)
           data == Shortened(s, Left(OfPdu(s), 0))
           tail == Shortened(s, Left(OfPdu(s), 1))
           tag == TagOf(s, "id", 2)
<1>1. Innermost("PDU", 2, s.message.tag, data, v, AroundPdu(s))
  BY RestFacts, Zenon DEF Innermost, InPdu, PduCall
<1>2. Reads(data, 0, tag, IdBytes(s), tail)
  BY PduReads, PastFacts, Zenon
<1>3. ~ IsFull("PDU", v) /\ FieldAfter("PDU", v) = "int"
  BY PduValuesFacts, FieldFacts, Zenon DEF NextIs
<1>4. "int" \notin Calls /\ TagFits("int", tag)
  BY TypesFacts, TagsFit, Zenon
<1> DEFINE leaf == LeafOf("int", 0, tag, IdBytes(s))
<1>5. leaf = IF Hit(s, "tag", "id") THEN Refused ELSE GetInt(IdBytes(s))
  BY LeafIs, Zenon
<1>6. /\ \A x : leaf = Value(x) => Becomes(On(CallOf("PDU", 2, s.message.tag, tail, Append(v, x)), AroundPdu(s)))
      /\ leaf = Refused => Fail("refused")
      /\ leaf = Panics => Fail("panicked")
  BY <1>1, <1>2, <1>3, <1>4, LeafMove, Zenon
<1> HIDE DEF leaf
<1>7. CASE Hit(s, "tag", "id")
  BY <1>5, <1>6, <1>7, NotWhole, Zenon DEF StepOK
<1>8. CASE ~ Hit(s, "tag", "id") /\ s.damage.kind = "long"
  <2>1. s.damage.kind \notin Whole
    BY <1>8 DEF Whole
  <2>2. GetInt(IdBytes(s)) = Refused
    BY <1>8, IdLeaf, Zenon
  <2> QED
    BY <1>5, <1>6, <1>8, <2>1, <2>2, Zenon DEF StepOK
<1>9. CASE ~ Hit(s, "tag", "id") /\ s.damage.kind = "negative"
  <2>1. s.damage.kind \notin Whole
    BY <1>9 DEF Whole
  <2>2. GetInt(IdBytes(s)) = Panics
    BY <1>9, IdLeaf, Zenon
  <2> QED
    BY <1>5, <1>6, <1>9, <2>1, <2>2, Zenon DEF StepOK
<1>10. CASE ~ Hit(s, "tag", "id") /\ s.damage.kind # "long" /\ s.damage.kind # "negative"
  <2>1. s.damage.kind \notin {"long", "negative"}
    BY <1>10
  <2>2. leaf = Value(s.message.id)
    BY <1>5, <1>10, <2>1, IdLeaf, Zenon
  <2>3. Becomes(InPdu(s, 1))
    BY <1>6, <2>2, PduValuesFacts, Zenon DEF InPdu, PduCall
  <2> QED
    BY <1>10, <2>1, <2>3, Zenon DEF StepOK, ShapeOf, PastId
<1> QED
  BY <1>7, <1>8, <1>9, <1>10

\* The binds as they are read when the PDU has been: what is in them is no longer than a datagram.
LEMMA BindsStart ==
  ASSUME NEW s \in Sendings, PastPdu(s)
  PROVE  /\ Len(FlattenSeq(OfBinds(s))) \in Lengths
         /\ Len(s.message.binds) \in Nat /\ 0 \in 0 .. Len(s.message.binds)
         /\ FlattenSeq(OfBinds(s)) = Left(OfBinds(s), 0) /\ First(BindValues(s.message), 0) = <<>>
<1>1. Len(FlattenSeq(OfBinds(s))) \in Lengths
  <2>1. ~ Hit(s, "few", "message") /\ s.damage.kind # "inner" /\ ~ Hit(s, "few", "pdu")
    BY PastFacts, Zenon
  <2> QED
    BY <2>1, PduReads
<1>2. Len(s.message.binds) \in Nat /\ FlattenSeq(OfBinds(s)) = Left(OfBinds(s), 0)
  BY <1>1, BindsReads
<1>3. First(BindValues(s.message), 0) = <<>>
  BY BindsValuesFacts
<1> QED
  BY <1>1, <1>2, <1>3

\* The error status.
LEMMA PduStatus ==
  ASSUME NEW s \in Sendings, phase = "decoding", Decode, stack = InPdu(s, 1), PastId(s)
  PROVE  StepOK(s)
<1>1. Innermost("PDU", 2, s.message.tag, Shortened(s, Left(OfPdu(s), 1)), First(PduValues(s.message), 1), AroundPdu(s))
  BY RestFacts, Zenon DEF Innermost, InPdu, PduCall
<1>2. Reads(Shortened(s, Left(OfPdu(s), 1)), 0, 2, IntBytesOf(s.message.status), Shortened(s, Left(OfPdu(s), 2)))
  BY PduReads, PastFacts, Zenon
<1>3. ~ IsFull("PDU", First(PduValues(s.message), 1)) /\ FieldAfter("PDU", First(PduValues(s.message), 1)) = "int"
  BY PduValuesFacts, FieldFacts, Zenon DEF NextIs
<1>4. LeafOf("int", 0, 2, IntBytesOf(s.message.status)) = Value(s.message.status)
  <2>1. IntOK(s.message.status)
    BY SentNumbers, Zenon
  <2> QED
    BY <2>1, LeafIs, Zenon
<1>5. "int" \notin Calls /\ TagFits("int", 2)
  BY TypesFacts, TagsFit, Zenon
<1>6. Becomes(On(CallOf("PDU", 2, s.message.tag, Shortened(s, Left(OfPdu(s), 2)), Append(First(PduValues(s.message), 1), s.message.status)), AroundPdu(s)))
  BY <1>1, <1>2, <1>3, <1>4, <1>5, LeafMove, Zenon
<1>7. Becomes(InPdu(s, 2))
  BY <1>6, PduValuesFacts, Zenon DEF InPdu, PduCall
<1> QED
  BY <1>7, Zenon DEF StepOK, ShapeOf

\* The error index.
LEMMA PduIndex ==
  ASSUME NEW s \in Sendings, phase = "decoding", Decode, stack = InPdu(s, 2), PastId(s)
  PROVE  StepOK(s)
<1>1. Innermost("PDU", 2, s.message.tag, Shortened(s, Left(OfPdu(s), 2)), First(PduValues(s.message), 2), AroundPdu(s))
  BY RestFacts, Zenon DEF Innermost, InPdu, PduCall
<1>2. Reads(Shortened(s, Left(OfPdu(s), 2)), 0, 2, IntBytesOf(s.message.index), Shortened(s, Left(OfPdu(s), 3)))
  BY PduReads, PastFacts, Zenon
<1>3. ~ IsFull("PDU", First(PduValues(s.message), 2)) /\ FieldAfter("PDU", First(PduValues(s.message), 2)) = "int"
  BY PduValuesFacts, FieldFacts, Zenon DEF NextIs
<1>4. LeafOf("int", 0, 2, IntBytesOf(s.message.index)) = Value(s.message.index)
  <2>1. IntOK(s.message.index)
    BY SentNumbers, Zenon
  <2> QED
    BY <2>1, LeafIs, Zenon
<1>5. "int" \notin Calls /\ TagFits("int", 2)
  BY TypesFacts, TagsFit, Zenon
<1>6. Becomes(On(CallOf("PDU", 2, s.message.tag, Shortened(s, Left(OfPdu(s), 3)), Append(First(PduValues(s.message), 2), s.message.index)), AroundPdu(s)))
  BY <1>1, <1>2, <1>3, <1>4, <1>5, LeafMove, Zenon
<1>7. Becomes(InPdu(s, 3))
  BY <1>6, PduValuesFacts, Zenon DEF InPdu, PduCall
<1> QED
  BY <1>7, Zenon DEF StepOK, ShapeOf

\* The binds: missing, longer than the PDU, of another tag, or as they were sent.
LEMMA PduBinds ==
  ASSUME NEW s \in Sendings, phase = "decoding", Decode, stack = InPdu(s, 3), PastId(s)
  PROVE  StepOK(s)
<1> DEFINE v == First(PduValues(s.message), 3)
           data == Shortened(s, Left(OfPdu(s), 3))
           tail == Shortened(s, Left(OfPdu(s), 4))
           bytes == FlattenSeq(OfBinds(s))
           tag == TagOf(s, "binds", SequenceTag)
<1>1. Innermost("PDU", 2, s.message.tag, data, v, AroundPdu(s))
  BY RestFacts, Zenon DEF Innermost, InPdu, PduCall
<1>2. ~ IsFull("PDU", v) /\ FieldAfter("PDU", v) = "VarBinds"
  BY PduValuesFacts, FieldFacts, Zenon DEF NextIs
<1>3. "VarBinds" \in Calls /\ "PDU" \in Structs /\ (TagFits("VarBinds", tag) <=> ~ Hit(s, "tag", "binds"))
  BY TypesFacts, TagsFit, Zenon
<1>4. CASE Hit(s, "few", "pdu")
  <2>1. data = <<>>
    BY <1>4, PduReads, PastFacts, Zenon
  <2>2. Fail("refused")
    BY <1>1, <1>2, <1>3, <2>1, FewMove, Zenon
  <2> QED
    BY <1>4, <2>2, NotWhole, Zenon DEF StepOK
<1>5. CASE s.damage.kind = "inner"
  <2>1. TooLong(data)
    BY <1>5, PduReads, PastFacts, Zenon
  <2>2. Fail("refused")
    BY <1>1, <1>2, <2>1, ElementMove, Zenon
  <2>3. s.damage.kind \notin Whole
    BY <1>5 DEF Whole
  <2> QED
    BY <2>2, <2>3, Zenon DEF StepOK
<1>6. CASE ~ Hit(s, "few", "pdu") /\ s.damage.kind # "inner"
  <2>1. Reads(data, 0, tag, bytes, tail)
    <3>1. Reads(data, 0, TagOf(s, "binds", 48), bytes, tail)
      BY <1>6, PduReads, PastFacts
    <3> QED
      BY <3>1 DEF SequenceTag
  <2>2. CASE Hit(s, "tag", "binds")
    <3>1. Fail("refused")
      BY <1>1, <1>2, <1>3, <2>1, <2>2, ElementMove, Zenon
    <3> QED
      BY <2>2, <3>1, NotWhole, Zenon DEF StepOK
  <2>3. CASE ~ Hit(s, "tag", "binds")
    <3>1. Becomes(On(CallOf("VarBinds", 0, tag, bytes, <<>>),
                     On(CallOf("PDU", 2, s.message.tag, tail, v), AroundPdu(s))))
      BY <1>1, <1>2, <1>3, <2>1, <2>3, EnterMove, Zenon
    <3>2. PastPdu(s)
      BY <1>6, <2>3, Zenon DEF PastPdu
    <3>3. bytes = Left(OfBinds(s), 0) /\ First(BindValues(s.message), 0) = <<>>
      BY <3>2, BindsStart, Zenon
    <3>4. Becomes(InBinds(s, 0))
      BY <3>1, <3>3, Zenon DEF InBinds, BindsCall, AroundBinds, PduCall
    <3> QED
      BY <3>2, <3>4, BindsStart, Zenon DEF StepOK, ShapeOf
  <2> QED
    BY <2>2, <2>3
<1> QED
  BY <1>4, <1>5, <1>6

\* The end of the PDU, unless there is one more element.
LEMMA PduEnd ==
  ASSUME NEW s \in Sendings, phase = "decoding", Decode, stack = InPdu(s, 4), PastBinds(s)
  PROVE  StepOK(s)
<1> DEFINE v == First(PduValues(s.message), 4)
           data == Shortened(s, Left(OfPdu(s), 4))
           w == First(Meant(s.message), 2)
<1>1. Innermost("PDU", 2, s.message.tag, data, v, On(CallOf("Message", 0, SequenceTag, Left(OfMessage(s), 3), w), <<>>))
  BY RestFacts, Zenon DEF Innermost, InPdu, PduCall, AroundPdu, MessageCall
<1>2. IsFull("PDU", v)
  BY PduValuesFacts, FieldFacts, Zenon DEF FullAt
<1>3. CASE Hit(s, "many", "pdu")
  <2>1. data # <<>>
    BY <1>3, PduReads, PastFacts, Zenon
  <2>2. Fail("refused")
    BY <1>1, <1>2, <2>1, ManyMove, Zenon
  <2> QED
    BY <1>3, <2>2, NotWhole, Zenon DEF StepOK
<1>4. CASE ~ Hit(s, "many", "pdu")
  <2>1. IsRead("PDU", data, v)
    BY <1>2, <1>4, PduReads, PastFacts, Zenon DEF IsRead
  <2>2. Becomes(On(CallOf("Message", 0, SequenceTag, Left(OfMessage(s), 3), Append(w, AnswerOf("PDU", 2, s.message.tag, v))), <<>>))
    BY <1>1, <2>1, LeaveMove, RestFacts, Zenon
  <2>3. Append(w, AnswerOf("PDU", 2, s.message.tag, v)) = First(Meant(s.message), 3)
    BY PduValuesFacts, MessageValues, Zenon
  <2>4. Becomes(InMessage(s, 3))
    BY <2>2, <2>3, Zenon DEF InMessage, MessageCall
  <2> QED
    BY <1>4, <2>4, Zenon DEF StepOK, ShapeOf, PastAnswer
<1> QED
  BY <1>3, <1>4

\* What is read of the binds and of one of them.
LEMMA BindsAre ==
  ASSUME NEW s \in Sendings, PastPdu(s), NEW n, n = Len(s.message.binds)
  PROVE  /\ n \in Nat
         /\ \A j \in 1 .. n :
              Reads(Left(OfBinds(s), j - 1), 0, SequenceTag, FlattenSeq(OfBind(s, s.message.binds[j])), Left(OfBinds(s), j))
         /\ Hit(s, "many", "binds") => Reads(Left(OfBinds(s), n), 0, 2, IntBytesOf(0), Left(OfBinds(s), n + 1))
         /\ ~ Hit(s, "many", "binds") => Left(OfBinds(s), n) = <<>>
         /\ AnswerOf("VarBinds", 0, TagOf(s, "binds", SequenceTag), First(BindValues(s.message), n)) = BindValues(s.message)
         /\ \A j \in 1 .. n : Append(First(BindValues(s.message), j - 1), BindValue(s.message.binds[j]))
                                = First(BindValues(s.message), j)
<1>1. Len(FlattenSeq(OfBinds(s))) \in Lengths
  BY BindsStart, Zenon
<1>2. /\ \A j \in 1 .. n :
           Reads(Left(OfBinds(s), j - 1), 0, 48, FlattenSeq(OfBind(s, s.message.binds[j])), Left(OfBinds(s), j))
      /\ Hit(s, "many", "binds") => Reads(Left(OfBinds(s), n), 0, 2, IntBytesOf(0), Left(OfBinds(s), n + 1))
      /\ ~ Hit(s, "many", "binds") => Left(OfBinds(s), n) = <<>>
  BY <1>1, BindsReads
<1>3. /\ n \in Nat
      /\ AnswerOf("VarBinds", 0, TagOf(s, "binds", 48), First(BindValues(s.message), n)) = BindValues(s.message)
      /\ \A j \in 1 .. n : Append(First(BindValues(s.message), j - 1), BindValue(s.message.binds[j]))
                             = First(BindValues(s.message), j)
  BY BindsValuesFacts
<1> QED
  BY <1>2, <1>3 DEF SequenceTag

LEMMA BindIs ==
  ASSUME NEW s \in Sendings, PastPdu(s), NEW j \in 1 .. Len(s.message.binds), NEW b, b = s.message.binds[j]
  PROVE  /\ OidOK(b.oid)
         /\ Left(OfBind(s, b), 0) = FlattenSeq(OfBind(s, b))
         /\ Reads(Left(OfBind(s, b), 0), 0, TagOf(s, "oid", 6), OidBytes(b.oid), Left(OfBind(s, b), 1))
         /\ Hit(s, "few", "bind") => Left(OfBind(s, b), 1) = <<>>
         /\ ~ Hit(s, "few", "bind") => Reads(Left(OfBind(s, b), 1), b.class, b.tag, b.bytes, Left(OfBind(s, b), 2))
         /\ ~ Hit(s, "few", "bind") /\ ~ Hit(s, "many", "bind") => Left(OfBind(s, b), 2) = <<>>
         /\ Hit(s, "many", "bind") => Left(OfBind(s, b), 2) # <<>>
<1>1. Len(FlattenSeq(OfBinds(s))) \in Lengths
  BY BindsStart, Zenon
<1>2. Len(FlattenSeq(OfBind(s, b))) \in Lengths
  BY <1>1, BindsReads
<1>3. /\ BindOK(b)
      /\ Left(OfBind(s, b), 0) = FlattenSeq(OfBind(s, b))
      /\ Reads(Left(OfBind(s, b), 0), 0, TagOf(s, "oid", 6), OidBytes(b.oid), Left(OfBind(s, b), 1))
      /\ Hit(s, "few", "bind") => Left(OfBind(s, b), 1) = <<>>
      /\ ~ Hit(s, "few", "bind") => Reads(Left(OfBind(s, b), 1), b.class, b.tag, b.bytes, Left(OfBind(s, b), 2))
      /\ ~ Hit(s, "few", "bind") /\ ~ Hit(s, "many", "bind") => Left(OfBind(s, b), 2) = <<>>
      /\ Hit(s, "many", "bind") => Left(OfBind(s, b), 2) # <<>>
  BY <1>2, BindReads
<1> QED
  BY <1>3 DEF BindOK

\* The next bind.
LEMMA BindsNext ==
  ASSUME NEW s \in Sendings, phase = "decoding", Decode, PastPdu(s),
         NEW j \in 1 .. Len(s.message.binds), stack = InBinds(s, j - 1)
  PROVE  StepOK(s)
<1> DEFINE v == First(BindValues(s.message), j - 1)
           tag == TagOf(s, "binds", SequenceTag)
<1>1. PICK b : b = s.message.binds[j]
  OBVIOUS
<1>2. Innermost("VarBinds", 0, tag, Left(OfBinds(s), j - 1), v, AroundBinds(s))
  BY RestFacts, Zenon DEF Innermost, InBinds, BindsCall
<1>3. ~ IsFull("VarBinds", v) /\ FieldAfter("VarBinds", v) = "VarBind"
  BY FieldFacts, Zenon
<1>4. "VarBind" \in Calls /\ TagFits("VarBind", SequenceTag)
  BY TypesFacts, TagsFit, Zenon
<1>5. Reads(Left(OfBinds(s), j - 1), 0, SequenceTag, FlattenSeq(OfBind(s, b)), Left(OfBinds(s), j))
  BY <1>1, BindsAre, Zenon
<1>6. Becomes(On(CallOf("VarBind", 0, SequenceTag, FlattenSeq(OfBind(s, b)), <<>>),
                 On(CallOf("VarBinds", 0, tag, Left(OfBinds(s), j), v), AroundBinds(s))))
  BY <1>2, <1>3, <1>4, <1>5, EnterMove, Zenon
<1>7. FlattenSeq(OfBind(s, b)) = Left(OfBind(s, b), 0) /\ First(BindValue(b), 0) = <<>>
  BY <1>1, BindIs, BindValueFacts, Zenon
<1>8. Becomes(InBind(s, j, 0))
  BY <1>1, <1>6, <1>7, Zenon DEF InBind, BindCall, AroundBind, BindsCall
<1> QED
  BY <1>8, Zenon DEF StepOK, ShapeOf

\* The end of the binds, or one element more.
LEMMA BindsEnd ==
  ASSUME NEW s \in Sendings, phase = "decoding", Decode, PastPdu(s), NEW n, n = Len(s.message.binds),
         s.message.binds # <<>> => PastBind(s), stack = InBinds(s, n)
  PROVE  StepOK(s)
<1> DEFINE v == First(BindValues(s.message), n)
           tag == TagOf(s, "binds", SequenceTag)
           w == First(PduValues(s.message), 3)
           tail == Shortened(s, Left(OfPdu(s), 4))
<1>1. Innermost("VarBinds", 0, tag, Left(OfBinds(s), n), v, AroundBinds(s))
  BY RestFacts, Zenon DEF Innermost, InBinds, BindsCall
<1>2. CASE Hit(s, "many", "binds")
  <2>1. ~ IsFull("VarBinds", v) /\ FieldAfter("VarBinds", v) = "VarBind"
    BY FieldFacts, Zenon
  <2>2. "VarBind" \in Calls /\ TagFits("VarBind", 2)
    BY TypesFacts, TagsFit, Zenon
  <2>3. Reads(Left(OfBinds(s), n), 0, 2, IntBytesOf(0), Left(OfBinds(s), n + 1))
    BY <1>2, BindsAre, Zenon
  <2>4. Becomes(On(CallOf("VarBind", 0, 2, IntBytesOf(0), <<>>),
                   On(CallOf("VarBinds", 0, tag, Left(OfBinds(s), n + 1), v), AroundBinds(s))))
    BY <1>1, <2>1, <2>2, <2>3, EnterMove, Zenon
  <2>5. Becomes(InExtra(s))
    BY <2>4, Zenon DEF InExtra, ExtraCall, AroundBind, BindsCall
  <2> QED
    BY <1>2, <2>5, Zenon DEF StepOK, ShapeOf
<1>3. CASE ~ Hit(s, "many", "binds")
  <2>1. Left(OfBinds(s), n) = <<>>
    BY <1>3, BindsAre, Zenon
  <2>2. IsRead("VarBinds", Left(OfBinds(s), n), v)
    BY <2>1, TypesFacts, Zenon DEF IsRead
  <2>3. Innermost("VarBinds", 0, tag, Left(OfBinds(s), n), v, On(CallOf("PDU", 2, s.message.tag, tail, w), AroundPdu(s)))
    BY <1>1, Zenon DEF AroundBinds, PduCall
  <2>4. Becomes(On(CallOf("PDU", 2, s.message.tag, tail, Append(w, AnswerOf("VarBinds", 0, tag, v))), AroundPdu(s)))
    BY <2>2, <2>3, LeaveMove, RestFacts, Zenon
  <2>5. Append(w, AnswerOf("VarBinds", 0, tag, v)) = First(PduValues(s.message), 4)
    BY BindsAre, PduValuesFacts, Zenon
  <2>6. Becomes(InPdu(s, 4))
    BY <2>4, <2>5, Zenon DEF InPdu, PduCall
  <2> QED
    BY <1>3, <2>6, Zenon DEF StepOK, ShapeOf, PastBinds
<1> QED
  BY <1>2, <1>3

\* The object identifier of a bind, which must have its tag.
LEMMA BindOid ==
  ASSUME NEW s \in Sendings, phase = "decoding", Decode, PastPdu(s),
         NEW j \in 1 .. Len(s.message.binds), stack = InBind(s, j, 0)
  PROVE  StepOK(s)
<1> DEFINE rest == AroundBind(s, j - 1, j)
           tag == TagOf(s, "oid", 6)
<1>1. PICK b : b = s.message.binds[j]
  OBVIOUS
<1> DEFINE v == First(BindValue(b), 0)
<1>2. Innermost("VarBind", 0, SequenceTag, Left(OfBind(s, b), 0), v, rest)
  BY <1>1, RestFacts, Zenon DEF Innermost, InBind, BindCall
<1>3. Reads(Left(OfBind(s, b), 0), 0, tag, OidBytes(b.oid), Left(OfBind(s, b), 1)) /\ OidOK(b.oid)
  BY <1>1, BindIs, Zenon
<1>4. ~ IsFull("VarBind", v) /\ FieldAfter("VarBind", v) = "OID"
  BY BindValueFacts, FieldFacts, Zenon DEF NextIs
<1>5. "OID" \notin Calls /\ TagFits("OID", tag)
  BY TypesFacts, TagsFit, Zenon
<1> DEFINE leaf == LeafOf("OID", 0, tag, OidBytes(b.oid))
<1>6. leaf = IF Hit(s, "tag", "oid") THEN Refused ELSE Value(b.oid)
  BY <1>3, LeafIs, Zenon
<1>7. /\ \A x : leaf = Value(x) => Becomes(On(CallOf("VarBind", 0, SequenceTag, Left(OfBind(s, b), 1), Append(v, x)), rest))
      /\ leaf = Refused => Fail("refused")
  BY <1>2, <1>3, <1>4, <1>5, LeafMove, Zenon
<1> HIDE DEF leaf
<1>8. CASE Hit(s, "tag", "oid")
  BY <1>6, <1>7, <1>8, NotWhole, Zenon DEF StepOK
<1>9. CASE ~ Hit(s, "tag", "oid")
  <2>1. Becomes(InBind(s, j, 1))
    BY <1>1, <1>6, <1>7, <1>9, BindValueFacts, Zenon DEF InBind, BindCall
  <2> QED
    BY <1>9, <2>1, Zenon DEF StepOK, ShapeOf, PastOid
<1> QED
  BY <1>8, <1>9

\* The value of a bind, unless it is missing.
LEMMA BindData ==
  ASSUME NEW s \in Sendings, phase = "decoding", Decode, PastOid(s),
         NEW j \in 1 .. Len(s.message.binds), stack = InBind(s, j, 1)
  PROVE  StepOK(s)
<1> DEFINE rest == AroundBind(s, j - 1, j)
<1>1. PICK b : b = s.message.binds[j]
  OBVIOUS
<1> DEFINE v == First(BindValue(b), 1)
           value == [class |-> b.class, tag |-> b.tag, bytes |-> b.bytes]
<1>2. Innermost("VarBind", 0, SequenceTag, Left(OfBind(s, b), 1), v, rest)
  BY <1>1, RestFacts, Zenon DEF Innermost, InBind, BindCall
<1>3. ~ IsFull("VarBind", v) /\ FieldAfter("VarBind", v) = "Value"
  BY BindValueFacts, FieldFacts, Zenon DEF NextIs
<1>4. "Value" \notin Calls /\ TagFits("Value", b.tag) /\ "VarBind" \in Structs
  BY TypesFacts, TagsFit, Zenon
<1>5. PastPdu(s)
  BY PastFacts, Zenon
<1>6. CASE Hit(s, "few", "bind")
  <2>1. Left(OfBind(s, b), 1) = <<>>
    BY <1>1, <1>5, <1>6, BindIs, Zenon
  <2>2. Fail("refused")
    BY <1>2, <1>3, <1>4, <2>1, FewMove, Zenon
  <2> QED
    BY <1>6, <2>2, NotWhole, Zenon DEF StepOK
<1>7. CASE ~ Hit(s, "few", "bind")
  <2>1. Reads(Left(OfBind(s, b), 1), b.class, b.tag, b.bytes, Left(OfBind(s, b), 2))
    BY <1>1, <1>5, <1>7, BindIs, Zenon
  <2>2. LeafOf("Value", b.class, b.tag, b.bytes) = Value(value)
    BY LeafIs, Zenon
  <2>3. Becomes(On(CallOf("VarBind", 0, SequenceTag, Left(OfBind(s, b), 2), Append(v, value)), rest))
    BY <1>2, <1>3, <1>4, <2>1, <2>2, LeafMove, Zenon
  <2>4. Becomes(InBind(s, j, 2))
    BY <1>1, <2>3, BindValueFacts, Zenon DEF InBind, BindCall
  <2> QED
    BY <1>7, <2>4, Zenon DEF StepOK, ShapeOf, PastValue
<1> QED
  BY <1>6, <1>7

\* The end of a bind, unless there is one more element.
LEMMA BindEnd ==
  ASSUME NEW s \in Sendings, phase = "decoding", Decode, PastValue(s),
         NEW j \in 1 .. Len(s.message.binds), stack = InBind(s, j, 2)
  PROVE  StepOK(s)
<1>1. PICK b : b = s.message.binds[j]
  OBVIOUS
<1> DEFINE v == First(BindValue(b), 2)
           w == First(BindValues(s.message), j - 1)
           tag == TagOf(s, "binds", SequenceTag)
<1>2. Innermost("VarBind", 0, SequenceTag, Left(OfBind(s, b), 2), v,
                On(CallOf("VarBinds", 0, tag, Left(OfBinds(s), j), w), AroundBinds(s)))
  BY <1>1, RestFacts, Zenon DEF Innermost, InBind, BindCall, AroundBind, BindsCall
<1>3. IsFull("VarBind", v)
  BY BindValueFacts, FieldFacts, Zenon DEF FullAt
<1>4. PastPdu(s) /\ ~ Hit(s, "few", "bind")
  BY PastFacts, Zenon
<1>5. CASE Hit(s, "many", "bind")
  <2>1. Left(OfBind(s, b), 2) # <<>>
    BY <1>1, <1>4, <1>5, BindIs, Zenon
  <2>2. Fail("refused")
    BY <1>2, <1>3, <2>1, ManyMove, Zenon
  <2> QED
    BY <1>5, <2>2, NotWhole, Zenon DEF StepOK
<1>6. CASE ~ Hit(s, "many", "bind")
  <2>1. IsRead("VarBind", Left(OfBind(s, b), 2), v)
    BY <1>1, <1>3, <1>4, <1>6, BindIs, Zenon DEF IsRead
  <2>2. Becomes(On(CallOf("VarBinds", 0, tag, Left(OfBinds(s), j), Append(w, AnswerOf("VarBind", 0, SequenceTag, v))), AroundBinds(s)))
    BY <1>2, <2>1, LeaveMove, RestFacts, Zenon
  <2>3. AnswerOf("VarBind", 0, SequenceTag, v) = BindValue(b)
    BY BindValueFacts DEF SequenceTag
  <2>4. Append(w, AnswerOf("VarBind", 0, SequenceTag, v)) = First(BindValues(s.message), j)
    BY <1>1, <1>4, <2>3, BindsAre, Zenon
  <2>5. Becomes(InBinds(s, j))
    BY <2>2, <2>4, Zenon DEF InBinds, BindsCall
  <2>6. PastBind(s)
    BY <1>6, Zenon DEF PastBind
  <2>7. j \in 0 .. Len(s.message.binds)
    <3>1. Len(s.message.binds) \in Nat
      BY <1>4, BindsStart, Zenon
    <3> QED
      BY <3>1
  <2> QED
    BY <1>4, <2>5, <2>6, <2>7, Zenon DEF StepOK, ShapeOf
<1> QED
  BY <1>5, <1>6

\* One element more than the binds is an integer, and nothing that is left in it can be the first
\* element of a bind.
LEMMA BindsExtra ==
  ASSUME NEW s \in Sendings, phase = "decoding", Decode, PastPdu(s), Hit(s, "many", "binds"), stack = InExtra(s)
  PROVE  StepOK(s)
<1>1. TooLong(IntBytesOf(0))
  <2>1. IntOK(0)
    BY SendingFacts
  <2>2. PICK k \in 1 .. IntBytes : IntBytesAre(0, k) /\ k = 1
    BY <2>1, IntWidth
  <2>3. PICK x : x = Digit(0, 256, 1, 1)
    OBVIOUS
  <2>4. IntBytesOf(0) = [i \in 1 .. 1 |-> Digit(0, 256, 1, i)]
    BY <2>2 DEF IntBytesAre
  <2>5. Len(IntBytesOf(0)) = 1
    <3>1. PICK f : f = [i \in 1 .. 1 |-> Digit(0, 256, 1, i)]
      OBVIOUS
    <3>2. \A i \in 1 .. 1 : Digit(0, 256, 1, i) = x
      BY <2>3
    <3>3. f \in [1 .. 1 -> {x}]
      BY <3>1, <3>2
    <3>4. f \in Seq({x}) /\ Len(f) = 1
      <4>1. 1 \in Nat
        OBVIOUS
      <4> QED
        BY <3>3, <4>1, FunctionSeq
    <3> QED
      BY <2>4, <3>1, <3>4
  <2>6. ~ Enough(IntBytesOf(0))
    <3>1. \A n \in {1} : n < 2
      OBVIOUS
    <3>2. 1 \in {1}
      OBVIOUS
    <3>3. 1 < 2
      BY <3>1, <3>2
    <3>4. Len(IntBytesOf(0)) < 2
      BY <2>5, <3>3, Zenon
    <3> QED
      BY <3>4, Zenon DEF Enough
  <2>7. IntBytesOf(0) # <<>>
    BY <2>5
  <2> QED
    BY <2>6, <2>7, UnmarshalIs, Zenon DEF TooLong
<1> DEFINE rest == AroundBind(s, Len(s.message.binds), Len(s.message.binds) + 1)
<1>2. Innermost("VarBind", 0, 2, IntBytesOf(0), <<>>, rest)
  BY RestFacts, Zenon DEF Innermost, InExtra, ExtraCall
<1>3. ~ IsFull("VarBind", <<>>)
  <2>1. Len(<<>>) = 0
    OBVIOUS
  <2> QED
    BY <2>1, FieldFacts, Zenon DEF NextIs
<1>4. Fail("refused")
  BY <1>1, <1>2, <1>3, ElementMove, Zenon
<1> QED
  BY <1>4, NotWhole, Zenon DEF StepOK

\* Every step from one of the stacks.
LEMMA DecodeStep ==
  ASSUME NEW s \in Sendings, s.damage.kind # "cut", phase = "decoding", Decode, ShapeOf(s, stack)
  PROVE  StepOK(s)
<1>1. CASE stack = InMessage(s, 0) \/ stack = InMessage(s, 1)
  BY <1>1, MessageVersion, MessageCommunity, Zenon
<1>2. CASE stack = InMessage(s, 2) /\ PastCommunity(s)
  BY <1>2, MessagePdu, Zenon
<1>3. CASE stack = InMessage(s, 3) /\ PastAnswer(s)
  BY <1>3, MessageEnd, Zenon
<1>4. CASE stack = InPdu(s, 0) /\ PastMessage(s)
  BY <1>4, PduId, Zenon
<1>5. CASE (stack = InPdu(s, 1) \/ stack = InPdu(s, 2) \/ stack = InPdu(s, 3)) /\ PastId(s)
  BY <1>5, PduStatus, PduIndex, PduBinds, Zenon
<1>6. CASE stack = InPdu(s, 4) /\ PastBinds(s)
  BY <1>6, PduEnd, Zenon
<1>7. ASSUME NEW k \in 0 .. Len(s.message.binds), stack = InBinds(s, k), PastPdu(s), k # 0 => PastBind(s)
      PROVE  StepOK(s)
  <2>1. PICK n \in Nat : n = Len(s.message.binds)
    BY <1>7, BindsStart, Zenon
  <2>2. CASE k = n
    <3>1. s.message.binds # <<>> => k # 0
      <4>1. s.message.binds \in Seq(ToSet(s.message.binds))
        BY SendingFacts DEF MessageOK
      <4> QED
        BY <2>1, <2>2, <4>1
    <3> QED
      BY <1>7, <2>1, <2>2, <3>1, BindsEnd, Zenon
  <2>3. CASE k # n
    <3>1. PICK j \in 1 .. n : k = j - 1
      <4>1. k + 1 \in 1 .. n /\ k = (k + 1) - 1
        BY <1>7, <2>1, <2>3
      <4> QED
        BY <4>1
    <3> QED
      BY <1>7, <2>1, <3>1, BindsNext, Zenon
  <2> QED
    BY <2>2, <2>3
<1>8. ASSUME NEW j \in 1 .. Len(s.message.binds),
             \/ stack = InBind(s, j, 0) /\ PastPdu(s)
             \/ stack = InBind(s, j, 1) /\ PastOid(s)
             \/ stack = InBind(s, j, 2) /\ PastValue(s)
      PROVE  StepOK(s)
  BY <1>8, BindOid, BindData, BindEnd, Zenon
<1>9. CASE stack = InExtra(s) /\ PastPdu(s) /\ Hit(s, "many", "binds")
  BY <1>9, BindsExtra, Zenon
<1> QED
  BY <1>1, <1>2, <1>3, <1>4, <1>5, <1>6, <1>7, <1>8, <1>9, Zenon DEF ShapeOf

-----------------------------------------------------------------------------
(* What is decoded                                                          *)

\* The calls that are not finished are one of the stacks of what was sent, and an answer or an
\* error is the right one.
ShapeInv ==
  /\ phase \in {"sending", "arrived"} => stack = <<>>
  /\ phase = "decoding" => ShapeOf(sent, stack)
  /\ phase = "decoded" => sent.damage.kind \in Whole /\ message = Meant(sent.message) /\ stack = <<>>
  /\ phase \in {"refused", "panicked"} => sent.damage.kind \notin Whole /\ (stack = <<>> \/ ShapeOf(sent, stack))

LEMMA ShapeStart == Init => ShapeInv
BY DEF Init, ShapeInv

LEMMA ShapeBegin ==
  ASSUME SentInv, Begin
  PROVE  ShapeOf(sent, stack') /\ phase' = "decoding" /\ UNCHANGED sent
<1>1. /\ sent \in Sendings /\ frame = OnTheWire(sent) /\ phase' = "decoding" /\ UNCHANGED sent
      /\ Unmarshal(frame).is = "ok" /\ stack' = << Call("Message", Unmarshal(frame).value) >>
  BY DEF SentInv, Begin
<1>2. PICK e : e = [class |-> 0, tag |-> SequenceTag, bytes |-> FlattenSeq(OfMessage(sent)), tail |-> Behind(sent)]
  OBVIOUS
<1>3. Unmarshal(frame) = Value(e)
  <2>1. sent.damage.kind # "cut"
    <3>1. Refused.is # "ok"
      BY DEF Refused
    <3> QED
      BY <1>1, <3>1, WireFacts
  <2> QED
    BY <1>1, <1>2, <2>1, WireFacts DEF SequenceTag
<1>4. Call("Message", Unmarshal(frame).value) = CallOf("Message", 0, SequenceTag, FlattenSeq(OfMessage(sent)), <<>>)
  <2>1. Unmarshal(frame).value = e
    BY <1>3 DEF Value
  <2>2. e.class = 0 /\ e.tag = SequenceTag /\ e.bytes = FlattenSeq(OfMessage(sent))
    BY <1>2
  <2> QED
    BY <2>1, <2>2, Zenon DEF Call, CallOf
<1>5. FlattenSeq(OfMessage(sent)) = Left(OfMessage(sent), 0)
  <2>1. OfMessage(sent) \in Seq(Seq(Nat))
    BY <1>1, TlvSize, BytesFacts, ListsIn
  <2> QED
    BY <2>1, LeftFacts
<1>6. \A c : << c >> = On(c, <<>>)
  BY DEF On
<1>7. stack' = InMessage(sent, 0)
  BY <1>1, <1>4, <1>5, <1>6, MessageValues, Zenon DEF InMessage, MessageCall
<1> QED
  BY <1>1, <1>7, Zenon DEF ShapeOf

LEMMA ShapeStep == SentInv /\ ShapeInv /\ [Next]_vars => ShapeInv'
<1> SUFFICES ASSUME SentInv, ShapeInv, [Next]_vars PROVE ShapeInv'
  OBVIOUS
<1>1. sent \in Sendings /\ (phase = "decoding" => sent.damage.kind # "cut")
  BY DEF SentInv
<1>2. CASE UNCHANGED vars
  BY <1>2, Zenon DEF vars, ShapeInv
<1>3. CASE Send
  BY <1>3 DEF Send, ShapeInv
<1>4. CASE Begin
  <2>1. ShapeOf(sent, stack') /\ phase' = "decoding" /\ UNCHANGED sent
    BY <1>4, ShapeBegin, Zenon
  <2>2. ShapeOf(sent', stack')
    BY <2>1, Zenon
  <2> QED
    BY <2>1, <2>2 DEF ShapeInv
<1>5. CASE RefuseFrame
  <2>1. Unmarshal(OnTheWire(sent)).is # "ok" /\ phase' = "refused" /\ UNCHANGED <<sent, stack>> /\ stack = <<>>
    BY <1>5 DEF RefuseFrame, Fail, SentInv, ShapeInv
  <2>2. sent.damage.kind = "cut"
    <3>1. \A v : Value(v).is = "ok"
      BY DEF Value
    <3> QED
      BY <1>1, <2>1, <3>1, WireFacts
  <2>3. sent.damage.kind \notin Whole
    BY <2>2 DEF Whole
  <2> QED
    BY <2>1, <2>3 DEF ShapeInv
<1>6. CASE Decode
  <2>1. phase = "decoding"
    BY <1>6, Zenon DEF Decode, RefuseTooMany, RefuseElement, Enter, UnpackLeaf, RefuseTooFew, Leave, End, Fits, More
  <2>2. ShapeOf(sent, stack)
    BY <2>1, Zenon DEF ShapeInv
  <2>3. StepOK(sent)
    BY <1>1, <1>6, <2>1, <2>2, DecodeStep, Zenon
  <2>4. ASSUME NEW st, ShapeOf(sent, st), Becomes(st) PROVE ShapeInv'
    <3>1. phase' = "decoding" /\ ShapeOf(sent', stack')
      BY <2>4, Zenon DEF Becomes
    <3> QED
      BY <3>1 DEF ShapeInv
  <2>5. ASSUME sent.damage.kind \notin Whole, Fail("refused") \/ Fail("panicked") PROVE ShapeInv'
    <3>1. phase' \in {"refused", "panicked"} /\ UNCHANGED <<sent, stack>>
      BY <2>5 DEF Fail
    <3>2. sent'.damage.kind \notin Whole /\ ShapeOf(sent', stack')
      BY <2>2, <2>5, <3>1, Zenon
    <3> QED
      BY <3>1, <3>2 DEF ShapeInv
  <2>6. ASSUME sent.damage.kind \in Whole, Ends(Meant(sent.message)) PROVE ShapeInv'
    <3>1. phase' = "decoded" /\ message' = Meant(sent'.message) /\ stack' = <<>> /\ sent'.damage.kind \in Whole
      BY <2>6, Zenon DEF Ends
    <3> QED
      BY <3>1 DEF ShapeInv
  <2> QED
    BY <2>3, <2>4, <2>5, <2>6, Zenon DEF StepOK
<1> QED
  BY <1>2, <1>3, <1>4, <1>5, <1>6, Zenon DEF Next, Decode

\* A message that was sent whole is neither refused nor does it stop the program.
THEOREM NoWholeMessageRefused == Spec => []WholeIsDecoded
<1>1. Init => SentInv /\ ShapeInv
  BY SentNext, ShapeStart
<1>2. SentInv /\ ShapeInv /\ [Next]_vars => SentInv' /\ ShapeInv'
  BY SentStep, ShapeStep
<1>3. ShapeInv => WholeIsDecoded
  BY Zenon DEF ShapeInv, WholeIsDecoded
<1> QED
  BY <1>1, <1>2, <1>3, PTL DEF Spec

-----------------------------------------------------------------------------
(* The types                                                                *)

CallTyped(call) == call.type \in Calls /\ ValuesOK(call)
StackTyped(st)  == IsStack(st) /\ \A i \in DOMAIN st : CallTyped(st[i])

LEMMA TypedOn ==
  ASSUME NEW call, CallTyped(call), NEW rest, StackTyped(rest)
  PROVE  StackTyped(On(call, rest)) /\ On(call, rest) # <<>>
<1>1. IsStack(rest)
  BY Zenon DEF StackTyped
<1>2. /\ IsStack(On(call, rest)) /\ On(call, rest) # <<>> /\ Len(rest) \in Nat /\ On(call, rest)[1] = call
      /\ \A i \in 1 .. Len(rest) : On(call, rest)[i + 1] = rest[i]
      /\ DOMAIN On(call, rest) = 1 .. Len(rest) + 1
  BY <1>1, StackFacts
<1>3. DOMAIN rest = 1 .. Len(rest)
  BY <1>1 DEF IsStack
<1>4. ASSUME NEW i \in 1 .. Len(rest) + 1 PROVE CallTyped(On(call, rest)[i])
  <2>1. CASE i = 1
    BY <1>2, <2>1
  <2>2. CASE i # 1
    <3>1. PICK j \in 1 .. Len(rest) : i = j + 1
      <4>1. i - 1 \in 1 .. Len(rest) /\ i = (i - 1) + 1
        BY <1>2, <2>2
      <4> QED
        BY <4>1
    <3>2. CallTyped(rest[j])
      BY <1>3, <3>1, Zenon DEF StackTyped
    <3> QED
      BY <1>2, <3>1, <3>2
  <2> QED
    BY <2>1, <2>2
<1> QED
  BY <1>2, <1>4, Zenon DEF StackTyped

\* The values of a struct have as many as it has fields, and those that are integers fit an int.
LEMMA StructTyped ==
  ASSUME NEW type \in Structs, NEW class, NEW tag, NEW bytes, NEW v, IsStack(v), NEW k \in 0 .. Len(v),
         Len(v) = Len(Fields[type]),
         \A i \in 1 .. Len(v) : Fields[type][i] = "int" => FitsBytes(v[i], IntBytes)
  PROVE  CallTyped(CallOf(type, class, tag, bytes, First(v, k)))
<1>1. PICK S : v \in Seq(S)
  BY DEF IsStack
<1>2. PICK w \in Seq(S) : w = v
  BY <1>1
<1>3. Len(w) \in Nat /\ First(w, k) \in Seq(S) /\ Len(First(w, k)) = k /\ \A i \in 1 .. k : First(w, k)[i] = w[i]
  BY <1>2, FirstFacts
<1>4. PICK u \in Seq(S) : u = First(v, k) /\ Len(u) = k /\ \A i \in 1 .. k : u[i] = v[i]
  BY <1>2, <1>3
<1>5. /\ CallOf(type, class, tag, bytes, u).type = type
      /\ CallOf(type, class, tag, bytes, u).values = u
  BY DEF CallOf
<1>6. Len(u) <= Len(Fields[type])
  BY <1>2, <1>3, <1>4
<1>7. ASSUME NEW i \in DOMAIN u, Fields[type][i] = "int" PROVE FitsBytes(u[i], IntBytes)
  <2>1. i \in 1 .. k /\ i \in 1 .. Len(v)
    BY <1>2, <1>3, <1>4
  <2>2. u[i] = v[i]
    BY <1>4, <2>1
  <2> QED
    BY <1>7, <2>1, <2>2
<1>8. ValuesOK(CallOf(type, class, tag, bytes, u))
  BY <1>5, <1>6, <1>7, Zenon DEF ValuesOK
<1>9. type \in Calls
  BY DEF Calls
<1> QED
  BY <1>4, <1>5, <1>8, <1>9, Zenon DEF CallTyped

LEMMA MessageTyped ==
  ASSUME NEW s \in Sendings, NEW k \in 0 .. 3, NEW n
  PROVE  CallTyped(MessageCall(s, k, n))
<1>1. PICK a : a = s.message.version
  OBVIOUS
<1>2. PICK b : b = s.message.community
  OBVIOUS
<1>3. PICK c : c = PduAnswer(s.message)
  OBVIOUS
<1>4. PICK v : v = <<a, b, c>>
  OBVIOUS
<1>5. v = Meant(s.message)
  BY <1>1, <1>2, <1>3, <1>4, MeantIs, Zenon
<1>6. v \in Seq({a, b, c}) /\ Len(v) = 3 /\ v[1] = a
  BY <1>4
<1>7. IsStack(v)
  BY <1>6 DEF IsStack
<1>8. FitsBytes(a, IntBytes)
  BY <1>1, SentNumbers, Zenon DEF IntOK
<1>9. PICK f : f = Fields["Message"]
  OBVIOUS
<1>10. f = <<"int", "string", "PDU">>
  BY <1>9 DEF Fields
<1>11. Len(f) = 3 /\ f[2] # "int" /\ f[3] # "int"
  BY <1>10
<1>12. \A i \in 1 .. 3 : f[i] = "int" => v[i] = a
  BY <1>6, <1>11
<1>13. Len(v) = Len(f) /\ k \in 0 .. Len(v) /\ \A i \in 1 .. Len(v) : f[i] = "int" => FitsBytes(v[i], IntBytes)
  BY <1>6, <1>8, <1>11, <1>12
<1>14. CallTyped(CallOf("Message", 0, SequenceTag, Left(OfMessage(s), n), First(v, k)))
  BY <1>7, <1>9, <1>13, TypesFacts, StructTyped, Zenon
<1> QED
  BY <1>5, <1>14, Zenon DEF MessageCall

LEMMA PduTyped ==
  ASSUME NEW s \in Sendings, NEW k \in 0 .. 4, NEW n
  PROVE  CallTyped(PduCall(s, k, n))
<1>1. PICK a : a = s.message.id
  OBVIOUS
<1>2. PICK b : b = s.message.status
  OBVIOUS
<1>3. PICK c : c = s.message.index
  OBVIOUS
<1>4. PICK d : d = BindValues(s.message)
  OBVIOUS
<1>5. PICK v : v = <<a, b, c, d>>
  OBVIOUS
<1>6. v = PduValues(s.message)
  BY <1>1, <1>2, <1>3, <1>4, <1>5, Zenon DEF PduValues
<1>7. v \in Seq({a, b, c, d}) /\ Len(v) = 4 /\ v[1] = a /\ v[2] = b /\ v[3] = c
  BY <1>5
<1>8. IsStack(v)
  BY <1>7 DEF IsStack
<1>9. FitsBytes(a, IntBytes) /\ FitsBytes(b, IntBytes) /\ FitsBytes(c, IntBytes)
  BY <1>1, <1>2, <1>3, SentNumbers, Zenon DEF IntOK
<1>10. PICK f : f = Fields["PDU"]
  OBVIOUS
<1>11. f = <<"int", "int", "int", "VarBinds">>
  BY <1>10 DEF Fields
<1>12. Len(f) = 4 /\ f[4] # "int"
  BY <1>11
<1>13. \A i \in 1 .. 4 : f[i] = "int" => v[i] = a \/ v[i] = b \/ v[i] = c
  BY <1>7, <1>12
<1>14. Len(v) = Len(f) /\ k \in 0 .. Len(v) /\ \A i \in 1 .. Len(v) : f[i] = "int" => FitsBytes(v[i], IntBytes)
  BY <1>7, <1>9, <1>12, <1>13
<1>15. CallTyped(CallOf("PDU", 2, s.message.tag, Shortened(s, Left(OfPdu(s), n)), First(v, k)))
  BY <1>8, <1>10, <1>14, TypesFacts, StructTyped, Zenon
<1> QED
  BY <1>6, <1>15, Zenon DEF PduCall

LEMMA BindTyped ==
  ASSUME NEW s, NEW bind, NEW k \in 0 .. 2
  PROVE  CallTyped(BindCall(s, bind, k))
<1>1. PICK a : a = bind.oid
  OBVIOUS
<1>2. PICK b : b = [class |-> bind.class, tag |-> bind.tag, bytes |-> bind.bytes]
  OBVIOUS
<1>3. PICK v : v = <<a, b>>
  OBVIOUS
<1>4. v = BindValue(bind)
  BY <1>1, <1>2, <1>3, Zenon DEF BindValue
<1>5. v \in Seq({a, b}) /\ Len(v) = 2
  BY <1>3
<1>6. IsStack(v)
  BY <1>5 DEF IsStack
<1>7. PICK f : f = Fields["VarBind"]
  OBVIOUS
<1>8. f = <<"OID", "Value">>
  BY <1>7 DEF Fields
<1>9. Len(f) = 2 /\ f[1] # "int" /\ f[2] # "int"
  BY <1>8
<1>10. Len(v) = Len(f) /\ k \in 0 .. Len(v) /\ \A i \in 1 .. Len(v) : f[i] = "int" => FitsBytes(v[i], IntBytes)
  BY <1>5, <1>9
<1>11. CallTyped(CallOf("VarBind", 0, SequenceTag, Left(OfBind(s, bind), k), First(v, k)))
  BY <1>6, <1>7, <1>10, TypesFacts, StructTyped, Zenon
<1> QED
  BY <1>4, <1>11, Zenon DEF BindCall

LEMMA OtherTyped ==
  ASSUME NEW s, NEW k, NEW n
  PROVE  CallTyped(BindsCall(s, k, n)) /\ CallTyped(ExtraCall)
<1>1. CallTyped(BindsCall(s, k, n))
  <2>1. BindsCall(s, k, n).type = "VarBinds"
    BY DEF BindsCall, CallOf
  <2> QED
    BY <2>1, TypesFacts, Zenon DEF CallTyped, ValuesOK
<1>2. CallTyped(ExtraCall)
  <2>1. ExtraCall.type = "VarBind" /\ ExtraCall.values = <<>>
    BY DEF ExtraCall, CallOf
  <2>2. Len(Fields["VarBind"]) = 2
    BY DEF Fields
  <2>3. Len(<<>>) <= 2 /\ DOMAIN <<>> = {}
    OBVIOUS
  <2>4. ValuesOK(ExtraCall)
    BY <2>1, <2>2, <2>3 DEF ValuesOK
  <2> QED
    BY <2>1, <2>4, TypesFacts, Zenon DEF CallTyped
<1> QED
  BY <1>1, <1>2

LEMMA ShapeTyped ==
  ASSUME NEW s \in Sendings, NEW st, ShapeOf(s, st)
  PROVE  StackTyped(st) /\ st # <<>>
<1>1. StackTyped(<<>>)
  <2>1. IsStack(<<>>)
    BY RestFacts, Zenon
  <2>2. DOMAIN <<>> = {}
    OBVIOUS
  <2> QED
    BY <2>1, <2>2, Zenon DEF StackTyped
<1>2. /\ \A n : CallTyped(MessageCall(s, 0, n)) /\ CallTyped(MessageCall(s, 1, n))
      /\ \A n : CallTyped(MessageCall(s, 2, n)) /\ CallTyped(MessageCall(s, 3, n))
  BY MessageTyped
<1>3. /\ \A n : CallTyped(PduCall(s, 0, n)) /\ CallTyped(PduCall(s, 1, n)) /\ CallTyped(PduCall(s, 2, n))
      /\ \A n : CallTyped(PduCall(s, 3, n)) /\ CallTyped(PduCall(s, 4, n))
  BY PduTyped
<1>4. \A b : CallTyped(BindCall(s, b, 0)) /\ CallTyped(BindCall(s, b, 1)) /\ CallTyped(BindCall(s, b, 2))
  BY BindTyped
<1>5. StackTyped(AroundPdu(s))
  BY <1>1, <1>2, TypedOn, Zenon DEF AroundPdu
<1>6. StackTyped(AroundBinds(s))
  BY <1>3, <1>5, TypedOn, Zenon DEF AroundBinds
<1>7. \A k, n : StackTyped(AroundBind(s, k, n))
  BY <1>6, OtherTyped, TypedOn, Zenon DEF AroundBind
<1>8. ASSUME st = InMessage(s, 0) \/ st = InMessage(s, 1) \/ st = InMessage(s, 2) \/ st = InMessage(s, 3)
      PROVE  StackTyped(st) /\ st # <<>>
  BY <1>1, <1>2, <1>8, TypedOn, Zenon DEF InMessage
<1>9. ASSUME \/ st = InPdu(s, 0) \/ st = InPdu(s, 1) \/ st = InPdu(s, 2) \/ st = InPdu(s, 3) \/ st = InPdu(s, 4)
      PROVE  StackTyped(st) /\ st # <<>>
  BY <1>3, <1>5, <1>9, TypedOn, Zenon DEF InPdu
<1>10. ASSUME NEW k, st = InBinds(s, k) PROVE StackTyped(st) /\ st # <<>>
  BY <1>6, <1>10, OtherTyped, TypedOn, Zenon DEF InBinds
<1>11. ASSUME NEW j, st = InBind(s, j, 0) \/ st = InBind(s, j, 1) \/ st = InBind(s, j, 2)
       PROVE  StackTyped(st) /\ st # <<>>
  BY <1>4, <1>7, <1>11, TypedOn, Zenon DEF InBind
<1>12. ASSUME st = InExtra(s) PROVE StackTyped(st) /\ st # <<>>
  BY <1>7, <1>12, OtherTyped, TypedOn, Zenon DEF InExtra
<1> QED
  BY <1>8, <1>9, <1>10, <1>11, <1>12, Zenon DEF ShapeOf

\* The types, and nothing that passes for another message: what DecodeFrame answers is what was
\* sent, and no damage was done to it but that something may come after it.
THEOREM OnlyMeantIsDecoded == Spec => []FrameInv
<1>1. Init => SentInv /\ ShapeInv
  BY SentNext, ShapeStart
<1>2. SentInv /\ ShapeInv /\ [Next]_vars => SentInv' /\ ShapeInv'
  BY SentStep, ShapeStep
<1>3. SentInv /\ ShapeInv => FrameInv
  <2> SUFFICES ASSUME SentInv, ShapeInv PROVE FrameInv
    OBVIOUS
  <2>1. sent \in Sendings /\ phase \in Phases /\ frame = IF phase = "sending" THEN <<>> ELSE OnTheWire(sent)
    BY DEF SentInv
  <2>2. \A i \in DOMAIN frame : frame[i] \in Byte
    <3>1. frame \in Seq(Byte)
      <4>1. OnTheWire(sent) \in Seq(Byte)
        BY <2>1, WireFacts
      <4>2. <<>> \in Seq(Byte)
        OBVIOUS
      <4> QED
        BY <2>1, <4>1, <4>2, Zenon
    <3> QED
      BY <3>1, ElementOfSeq
  <2>3. (stack = <<>> /\ phase # "decoding") \/ ShapeOf(sent, stack)
    BY <2>1 DEF ShapeInv, Phases
  <2>4. (phase = "decoding" => stack # <<>>) /\ \A i \in DOMAIN stack : CallTyped(stack[i])
    <3>1. CASE stack = <<>> /\ phase # "decoding"
      <4>1. DOMAIN <<>> = {}
        OBVIOUS
      <4> QED
        BY <3>1, <4>1, Zenon
    <3>2. CASE ShapeOf(sent, stack)
      BY <2>1, <3>2, ShapeTyped, Zenon DEF StackTyped
    <3> QED
      BY <2>3, <3>1, <3>2
  <2>5. TypeOK
    BY <2>1, <2>2, <2>4, Zenon DEF TypeOK, CallTyped
  <2>6. OnlyWhatWasSent
    BY Zenon DEF ShapeInv, OnlyWhatWasSent
  <2> QED
    BY <2>5, <2>6 DEF FrameInv
<1> QED
  BY <1>1, <1>2, <1>3, PTL DEF Spec
=============================================================================
