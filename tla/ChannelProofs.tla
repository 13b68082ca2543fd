--------------------------- MODULE ChannelProofs ----------------------------
(***************************************************************************)
(* Proofs about Channel: what is under way always decodes to what the far  *)
(* end has not heard yet, and the channel implements FrameChannel, for     *)
(* every width of the fields, every number of nonces and every segment.    *)
(***************************************************************************)
EXTENDS Channel, WellFoundedInduction, TLAPS

-----------------------------------------------------------------------------
(* Induction, over sets of numbers: what is to be shown of every number is  *)
(* the set of those of which it is true.                                    *)

\* A set of numbers has a least one.
LEMMA LeastOf ==
  ASSUME NEW T, T \subseteq Nat, T # {}
  PROVE  \E x \in T : \A y \in T : x <= y
<1> DEFINE R == OpToRel(<, Nat)
<1>1. IsWellFoundedOn(R, Nat)
  BY NatLessThanWellFounded
<1>2. \A x, y \in Nat : y < x => <<y, x>> \in R
  BY DEF OpToRel
<1> HIDE DEF R
<1>3. PICK x \in T : \A y \in T : ~ (<<y, x>> \in R)
  BY <1>1, WFMin
<1>4. \A y \in T : ~ (y < x)
  BY <1>2, <1>3
<1>5. \A y \in T : y \in Nat /\ x \in Nat
  OBVIOUS
<1> QED BY <1>4, <1>5

\* A set that has 0, and with a number the next, has all.
LEMMA SetInduction ==
  ASSUME NEW S, 0 \in S, \A n \in Nat : n \in S => n + 1 \in S
  PROVE  Nat \subseteq S
<1> SUFFICES ASSUME NEW m \in Nat, m \notin S PROVE FALSE
  OBVIOUS
<1> DEFINE T == {n \in Nat : n \notin S}
<1>1. PICK x \in T : \A y \in T : x <= y
  <2>1. T \subseteq Nat /\ T # {}
    OBVIOUS
  <2> HIDE DEF T
  <2> QED BY <2>1, LeastOf
<1>2. x # 0 /\ x \in Nat
  OBVIOUS
<1>3. x - 1 \in Nat
  BY <1>2
<1>4. x - 1 \in S
  BY <1>1, <1>2, <1>3
<1> QED BY <1>2, <1>3, <1>4

-----------------------------------------------------------------------------
(* Weights and digits *)

\* The numbers up to n have weights.
LEMMA WeightUpTo ==
  ASSUME NEW n \in Nat
  PROVE  \E g \in [0..n -> Nat \ {0}] :
           \A i \in 0..n : g[i] = IF i = 0 THEN 1 ELSE Base * g[i - 1]
<1> DEFINE P(g, k) == \A i \in 0..k : g[i] = IF i = 0 THEN 1 ELSE Base * g[i - 1]
           S == {k \in Nat : \E g \in [0..k -> Nat \ {0}] : P(g, k)}
<1>0. Base \in Nat \ {0}
  BY ChannelAssumption
<1>1. 0 \in S
  <2>1. [i \in 0..0 |-> 1] \in [0..0 -> Nat \ {0}] /\ P([i \in 0..0 |-> 1], 0)
    OBVIOUS
  <2> QED BY <2>1
<1>2. ASSUME NEW k \in Nat, k \in S PROVE k + 1 \in S
  <2>1. PICK g \in [0..k -> Nat \ {0}] : P(g, k)
    BY <1>2
  <2> DEFINE h == [i \in 0..(k + 1) |-> IF i = k + 1 THEN Base * g[k] ELSE g[i]]
  <2>2. h \in [0..(k + 1) -> Nat \ {0}]
    <3>1. g[k] \in Nat \ {0} /\ Base * g[k] \in Nat \ {0}
      BY <1>0
    <3>2. \A i \in 0..(k + 1) : i # k + 1 => i \in 0..k
      OBVIOUS
    <3> QED BY <3>1, <3>2
  <2>3. P(h, k + 1)
    <3> SUFFICES ASSUME NEW i \in 0..(k + 1) PROVE h[i] = IF i = 0 THEN 1 ELSE Base * h[i - 1]
      OBVIOUS
    <3>1. CASE i = k + 1
      BY <3>1
    <3>2. CASE i # k + 1
      <4>1. i \in 0..k /\ (i # 0 => i - 1 \in 0..k)
        BY <3>2
      <4>2. g[i] = IF i = 0 THEN 1 ELSE Base * g[i - 1]
        BY <2>1, <4>1
      <4> QED BY <3>2, <4>1, <4>2
    <3> QED BY <3>1, <3>2
  <2> HIDE DEF h, P
  <2>4. \E a \in [0..(k + 1) -> Nat \ {0}] : P(a, k + 1)
    BY <2>2, <2>3
  <2> QED BY <2>4
<1>3. n \in S
  <2> HIDE DEF S
  <2> QED BY <1>1, <1>2, SetInduction
<1> QED BY <1>3

\* A weight is Base times the one before.
LEMMA WeightIs ==
  /\ Weight \in [Nat -> Nat \ {0}]
  /\ \A i \in Nat : Weight[i] = IF i = 0 THEN 1 ELSE Base * Weight[i - 1]
<1> DEFINE P(g, n) == \A i \in 0..n : g[i] = IF i = 0 THEN 1 ELSE Base * g[i - 1]
           G(n) == CHOOSE g \in [0..n -> Nat \ {0}] : P(g, n)
           F == [n \in Nat |-> G(n)[n]]
<1>1. \A n \in Nat : G(n) \in [0..n -> Nat \ {0}] /\ P(G(n), n)
  <2> SUFFICES ASSUME NEW n \in Nat PROVE G(n) \in [0..n -> Nat \ {0}] /\ P(G(n), n)
    OBVIOUS
  <2>1. \E g \in [0..n -> Nat \ {0}] : P(g, n)
    BY WeightUpTo
  <2> HIDE DEF P
  <2> QED BY <2>1
<1> HIDE DEF G
<1>2. ASSUME NEW n \in Nat PROVE \A i \in 0..n : G(n)[i] = G(n + 1)[i]
  <2> DEFINE S == {i \in Nat : i <= n => G(n)[i] = G(n + 1)[i]}
  <2>1. P(G(n), n) /\ P(G(n + 1), n + 1)
    <3>1. n + 1 \in Nat
      OBVIOUS
    <3> HIDE DEF P
    <3> QED BY <1>1, <3>1
  <2>2. 0 \in S
    BY <2>1
  <2>3. ASSUME NEW i \in Nat, i \in S PROVE i + 1 \in S
    <3> SUFFICES ASSUME i + 1 <= n PROVE G(n)[i + 1] = G(n + 1)[i + 1]
      OBVIOUS
    <3>1. i + 1 \in 0..n /\ i + 1 \in 0..(n + 1) /\ i + 1 # 0 /\ (i + 1) - 1 = i
      OBVIOUS
    <3>2. G(n)[i + 1] = Base * G(n)[i] /\ G(n + 1)[i + 1] = Base * G(n + 1)[i]
      BY <2>1, <3>1
    <3> QED BY <2>3, <3>2
  <2>4. Nat \subseteq S
    <3> HIDE DEF S
    <3> QED BY <2>2, <2>3, SetInduction
  <2> QED BY <2>4
<1>3. F \in [Nat -> Nat \ {0}]
  BY <1>1
<1>4. \A i \in Nat : F[i] = IF i = 0 THEN 1 ELSE Base * F[i - 1]
  <2> SUFFICES ASSUME NEW i \in Nat PROVE F[i] = IF i = 0 THEN 1 ELSE Base * F[i - 1]
    OBVIOUS
  <2>1. CASE i = 0
    BY <1>1, <2>1
  <2>2. CASE i # 0
    <3>1. PICK k \in Nat : i = k + 1
      <4>1. i - 1 \in Nat /\ i = (i - 1) + 1
        BY <2>2
      <4> QED BY <4>1
    <3>2. G(i)[i] = Base * G(i)[i - 1]
      BY <1>1, <2>2
    <3>3. G(i)[k] = G(k)[k]
      BY <1>2, <3>1
    <3> QED BY <2>2, <3>1, <3>2, <3>3
  <2> QED BY <2>1, <2>2
<1>5. F = [i \in Nat |-> IF i = 0 THEN 1 ELSE Base * F[i - 1]]
  <2> HIDE DEF F
  <2> QED BY <1>3, <1>4
<1> HIDE DEF F
<1>6. Weight = [i \in Nat |-> IF i = 0 THEN 1 ELSE Base * Weight[i - 1]]
  BY <1>5, Zenon DEF Weight
<1>7. \A i \in Nat : Weight[i] = IF i = 0 THEN 1 ELSE Base * Weight[i - 1]
  BY <1>6
<1>8. Weight = F
  <2> DEFINE S == {i \in Nat : Weight[i] = F[i]}
  <2>1. 0 \in S
    BY <1>4, <1>7
  <2>2. ASSUME NEW i \in Nat, i \in S PROVE i + 1 \in S
    BY <1>4, <1>7, <2>2
  <2>3. Nat \subseteq S
    <3> HIDE DEF S
    <3> QED BY <2>1, <2>2, SetInduction
  <2>4. \A i \in Nat : Weight[i] = F[i]
    BY <2>3
  <2> QED BY <1>3, <1>6, <2>4
<1> QED BY <1>3, <1>7, <1>8

\* The digits of a number are those of its quotient and of its remainder.
LEMMA SplitDigit ==
  ASSUME NEW v \in Nat, NEW P \in Nat \ {0}, NEW B \in Nat \ {0}
  PROVE  v % (B * P) = (v % P) + ((v \div P) % B) * P
<1> DEFINE q == v \div P
           r == v % P
           q2 == q \div B
           r2 == q % B
<1>1. q \in Nat /\ r \in Nat /\ r < P /\ v = q * P + r
  BY SMT
<1>2. q2 \in Nat /\ r2 \in Nat /\ r2 < B /\ q = q2 * B + r2
  BY <1>1, SMT
<1> HIDE DEF q, r, q2, r2
<1>3. v = q2 * (B * P) + (r2 * P + r)
  BY <1>1, <1>2, SMT
<1>4. r2 * P + r < B * P
  <2>1. r2 * P <= (B - 1) * P
    BY <1>1, <1>2, SMT
  <2> QED BY <2>1, <1>1, <1>2, SMT
<1>5. r2 * P + r \in Nat /\ B * P \in Nat \ {0}
  BY <1>1, <1>2, SMT
<1>6. ASSUME NEW M \in Nat \ {0}, NEW a \in Nat, NEW k \in Nat, a < M PROVE (k * M + a) % M = a
  BY <1>6, SMT
<1>7. v % (B * P) = r2 * P + r
  <2>1. PICK M : M = B * P
    OBVIOUS
  <2>2. PICK a : a = r2 * P + r
    OBVIOUS
  <2> QED BY <2>1, <2>2, <1>3, <1>4, <1>5, <1>6, <1>2
<1> QED BY <1>7 DEF q, r, q2, r2

\* Digit i of v, lowest first
Digit(v, i) == (v \div Weight[i - 1]) % Base

\* A digit is below Base.
LEMMA DigitType == ASSUME NEW v \in Nat, NEW i \in Nat \ {0} PROVE Digit(v, i) \in 0..(Base - 1)
<1>1. i - 1 \in Nat
  OBVIOUS
<1>2. PICK P : P = Weight[i - 1]
  OBVIOUS
<1>3. P \in Nat \ {0} /\ Base \in Nat \ {0}
  BY <1>1, <1>2, WeightIs, ChannelAssumption
<1>4. v \div P \in Nat
  BY <1>3
<1>5. (v \div P) % Base \in 0..(Base - 1)
  BY <1>3, <1>4
<1> QED BY <1>2, <1>5 DEF Digit

\* serialize() writes one clear byte for each digit.
LEMMA Serialized ==
  ASSUME NEW v \in Nat, NEW w \in Nat
  PROVE  /\ Serialize(v, w) \in Seq({Clear(d) : d \in 0..(Base - 1)})
         /\ Len(Serialize(v, w)) = w
         /\ \A i \in 1..w : Serialize(v, w)[i] = Clear(Digit(v, i))
<1>1. \A i \in 1..w : Serialize(v, w)[i] = Clear(Digit(v, i))
  BY DEF Serialize, Digit
<1>2. \A i \in 1..w : Clear(Digit(v, i)) \in {Clear(d) : d \in 0..(Base - 1)}
  BY DigitType
<1>3. Serialize(v, w) = [i \in 1..w |-> Clear(Digit(v, i))]
  BY DEF Serialize, Digit
<1> QED BY <1>2, <1>3

\* deserialize() puts the digits of a number together again.
LEMMA Deserialized ==
  ASSUME NEW w \in Nat, NEW v \in Nat, v < Weight[w],
         NEW cells, \A i \in 1..w : cells[i][1] = Digit(v, i)
  PROVE  Deserialize(cells, w) = v
<1> DEFINE Sum(f) == f = [i \in 0..w |-> IF i = 0 THEN 0
                                         ELSE f[i - 1] + cells[i][1] * Weight[i - 1]]
           g == [i \in 0..w |-> v % Weight[i]]
           f == CHOOSE up : Sum(up)
<1>1. \A i \in Nat : Weight[i] \in Nat \ {0}
  BY WeightIs
<1>2. ASSUME NEW i \in 1..w PROVE v % Weight[i] = (v % Weight[i - 1]) + cells[i][1] * Weight[i - 1]
  <2>1. i \in Nat /\ i - 1 \in Nat /\ i # 0
    OBVIOUS
  <2>2. PICK P : P = Weight[i - 1]
    OBVIOUS
  <2>3. P \in Nat \ {0} /\ Base \in Nat \ {0} /\ Weight[i] = Base * P
    BY <2>1, <2>2, WeightIs, ChannelAssumption
  <2>4. v % (Base * P) = (v % P) + ((v \div P) % Base) * P
    BY <2>3, SplitDigit
  <2>5. cells[i][1] = (v \div P) % Base
    BY <2>2 DEF Digit
  <2> QED BY <2>2, <2>3, <2>4, <2>5
<1>3. Sum(g)
  <2>1. \A i \in 0..w : g[i] = IF i = 0 THEN 0 ELSE g[i - 1] + cells[i][1] * Weight[i - 1]
    <3> SUFFICES ASSUME NEW i \in 0..w
                 PROVE  g[i] = IF i = 0 THEN 0 ELSE g[i - 1] + cells[i][1] * Weight[i - 1]
      OBVIOUS
    <3>1. CASE i = 0
      BY <3>1, WeightIs
    <3>2. CASE i # 0
      <4>1. i \in 1..w /\ i - 1 \in 0..w
        BY <3>2
      <4> QED BY <3>2, <4>1, <1>2
    <3> QED BY <3>1, <3>2
  <2>2. g = [i \in 0..w |-> g[i]]
    OBVIOUS
  <2> HIDE DEF g
  <2> QED BY <2>1, <2>2
<1>4. Sum(f)
  <2> HIDE DEF Sum, g
  <2> QED BY <1>3, Zenon
<1>5. \A i \in 0..w : f[i] = IF i = 0 THEN 0 ELSE f[i - 1] + cells[i][1] * Weight[i - 1]
  <2> HIDE DEF f
  <2> QED BY <1>4
<1> HIDE DEF f
<1> DEFINE S == {i \in Nat : i <= w => f[i] = v % Weight[i]}
<1>6. 0 \in S
  BY <1>5, WeightIs
<1>7. ASSUME NEW i \in Nat, i \in S PROVE i + 1 \in S
  <2> SUFFICES ASSUME i + 1 <= w PROVE f[i + 1] = v % Weight[i + 1]
    OBVIOUS
  <2>1. i + 1 \in 1..w /\ i + 1 \in 0..w /\ (i + 1) - 1 = i /\ i <= w /\ i + 1 # 0
    OBVIOUS
  <2>2. f[i + 1] = f[i] + cells[i + 1][1] * Weight[i]
    BY <1>5, <2>1
  <2>3. f[i] = v % Weight[i]
    BY <1>7, <2>1
  <2>4. v % Weight[i + 1] = (v % Weight[i]) + cells[i + 1][1] * Weight[i]
    BY <1>2, <2>1
  <2> QED BY <2>2, <2>3, <2>4
<1>8. f[w] = v % Weight[w]
  <2>1. Nat \subseteq S
    <3> HIDE DEF S
    <3> QED BY <1>6, <1>7, SetInduction
  <2> QED BY <2>1
<1>9. Deserialize(cells, w) = f[w]
  BY DEF Deserialize, f
<1>10. v % Weight[w] = v
  <2>1. PICK P : P = Weight[w]
    OBVIOUS
  <2>2. P \in Nat \ {0} /\ v < P
    BY <1>1, <2>1
  <2> QED BY <2>1, <2>2
<1> QED BY <1>8, <1>9, <1>10

-----------------------------------------------------------------------------
(* Frames in a sequence of bytes *)

\* A byte that is not enciphered
ClearCell == {Clear(d) : d \in 0..(Base - 1)}

\* What is sent: a topic and a body, on a stream one byte.
Message == (0..(Weight[TopicWidth] - 1)) \X
           {body \in Seq(ClearCell) : body # <<>> /\ Len(body) < Weight[LenWidth]}

\* The bytes before the body
HeadLen(p) == IF p = "stream" THEN 0
              ELSE IF p = "plain" THEN TopicWidth + LenWidth ELSE TopicWidth + 1 + LenWidth

\* After the first n bytes of Q there is a frame of message m, enciphered if enc is 1.
IsFrame(p, key, Q, n, m, enc, nonce) ==
  /\ n + HeadLen(p) + Len(m[2]) <= Len(Q)
  /\ p # "stream" =>
       /\ \A i \in 1..TopicWidth : Q[n + i][1] = Digit(m[1], i)
       /\ \A i \in 1..LenWidth : Q[n + (HeadLen(p) - LenWidth) + i][1] = Digit(Len(m[2]), i)
  /\ p = "secure" => Q[n + TopicWidth + 1][1] = enc
  /\ \A i \in 1..Len(m[2]) :
       Q[n + HeadLen(p) + i] = IF enc = 1 THEN <<m[2][i][1], key, nonce>> ELSE m[2][i]

\* The widths are positive.
LEMMA Widths ==
  /\ TopicWidth \in Nat \ {0} /\ LenWidth \in Nat \ {0} /\ Nonces \in Nat \ {0}
  /\ Base \in Nat /\ Base > 1
  /\ Weight[TopicWidth] \in Nat \ {0} /\ Weight[LenWidth] \in Nat /\ Weight[LenWidth] > 2
BY ChannelAssumption, WeightIs

\* The headers of the three protocols
LEMMA HeadLens ==
  /\ HeadLen("stream") = 0
  /\ HeadLen("plain") = TopicWidth + LenWidth
  /\ HeadLen("secure") = TopicWidth + 1 + LenWidth
  /\ \A p : HeadLen(p) \in Nat
BY Widths DEF HeadLen

\* A clear byte is a byte of the wire.
LEMMA ClearIsCell == ClearCell \subseteq Cells
BY Widths DEF ClearCell, Cells, Clear

\* The bytes of Q after the first a, up to b
Part(Q, a, b) == SubSeq(Q, a + 1, b)

\* A part of a sequence
LEMMA Parts ==
  ASSUME NEW Q \in Seq(Cells), NEW a \in Nat, NEW b \in Nat, a <= b, b <= Len(Q)
  PROVE  /\ Part(Q, a, b) \in Seq(Cells)
         /\ Len(Part(Q, a, b)) = b - a
         /\ \A i \in 1..(b - a) : Part(Q, a, b)[i] = Q[a + i]
BY DEF Part

\* Sequences are the same if their elements are.
LEMMA SameSeq ==
  ASSUME NEW x \in Seq(Cells), NEW y \in Seq(Cells), Len(x) = Len(y), \A i \in 1..Len(x) : x[i] = y[i]
  PROVE  x = y
OBVIOUS

\* A part of a part
LEMMA PartOfPart ==
  ASSUME NEW Q \in Seq(Cells), NEW a \in Nat, NEW b \in Nat, a <= b, b <= Len(Q),
         NEW c \in Nat, NEW d \in Nat, c <= d, d <= b - a
  PROVE  Part(Part(Q, a, b), c, d) = Part(Q, a + c, a + d)
<1>1. PICK R : R = Part(Q, a, b)
  OBVIOUS
<1>2. R \in Seq(Cells) /\ Len(R) = b - a /\ \A i \in 1..(b - a) : R[i] = Q[a + i]
  BY <1>1, Parts
<1>3. PICK U : U = Part(R, c, d)
  OBVIOUS
<1>4. U \in Seq(Cells) /\ Len(U) = d - c /\ \A i \in 1..(d - c) : U[i] = R[c + i]
  <2>1. d <= Len(R)
    BY <1>2
  <2> QED BY <1>2, <1>3, <2>1, Parts
<1>5. PICK V : V = Part(Q, a + c, a + d)
  OBVIOUS
<1>6. V \in Seq(Cells) /\ Len(V) = d - c /\ \A i \in 1..(d - c) : V[i] = Q[(a + c) + i]
  <2>1. PICK x \in Nat : x = a + c
    OBVIOUS
  <2>2. PICK y \in Nat : y = a + d
    OBVIOUS
  <2>3. x <= y /\ y <= Len(Q) /\ y - x = d - c
    BY <2>1, <2>2
  <2>4. Part(Q, x, y) \in Seq(Cells) /\ Len(Part(Q, x, y)) = y - x
        /\ \A i \in 1..(y - x) : Part(Q, x, y)[i] = Q[x + i]
    BY <2>3, Parts
  <2> QED BY <1>5, <2>1, <2>2, <2>3, <2>4
<1>7. \A i \in 1..(d - c) : U[i] = V[i]
  <2> SUFFICES ASSUME NEW i \in 1..(d - c) PROVE U[i] = V[i]
    OBVIOUS
  <2>1. c + i \in 1..(b - a) /\ a + (c + i) = (a + c) + i
    OBVIOUS
  <2> QED BY <1>2, <1>4, <1>6, <2>1
<1>8. U = V
  BY <1>4, <1>6, <1>7, SameSeq
<1> QED BY <1>1, <1>3, <1>5, <1>8

\* A part, byte by byte
LEMMA SamePart ==
  ASSUME NEW Q \in Seq(Cells), NEW a \in Nat, NEW s \in Seq(Cells), NEW b \in Nat, b = a + Len(s),
         b <= Len(Q), \A i \in 1..Len(s) : Q[a + i] = s[i]
  PROVE  Part(Q, a, b) = s
<1>1. PICK n \in Nat : n = Len(s)
  OBVIOUS
<1>2. Part(Q, a, b) \in Seq(Cells) /\ Len(Part(Q, a, b)) = b - a
      /\ \A i \in 1..(b - a) : Part(Q, a, b)[i] = Q[a + i]
  <2>1. a <= b
    BY <1>1
  <2> QED BY <2>1, Parts
<1>3. b - a = n
  BY <1>1
<1> QED BY <1>1, <1>2, <1>3, SameSeq

\* length_delimited::decode() of a payload of n bytes that has begun to arrive
LEMMA LengthDecoded ==
  ASSUME NEW src \in Seq(Cells), NEW n \in Nat, n < Weight[LenWidth],
         \A i \in 1..LenWidth : i <= Len(src) => src[i][1] = Digit(n, i)
  PROVE  /\ Len(src) >= LenWidth + n => LengthDecode(src) = Part(src, LenWidth, LenWidth + n)
         /\ Len(src) < LenWidth + n => LengthDecode(src) = <<>>
<1>1. PICK len \in Nat : len = Len(src)
  OBVIOUS
<1>2. ASSUME len >= LenWidth PROVE Deserialize(src, LenWidth) = n
  <2>1. \A i \in 1..LenWidth : src[i][1] = Digit(n, i)
    BY <1>1, <1>2, Widths
  <2> QED BY <2>1, Widths, Deserialized
<1>3. CASE len < LenWidth
  BY <1>1, <1>3, Widths DEF LengthDecode
<1>4. CASE len >= LenWidth
  BY <1>1, <1>2, <1>4, Widths DEF LengthDecode, Part
<1> QED BY <1>1, <1>3, <1>4, Widths

\* plain_protocol::decode() of bytes that begin with a frame, or with part of one
LEMMA PlainDecoded ==
  ASSUME NEW key, NEW nonce, NEW Q \in Seq(Cells), NEW a \in Nat, NEW b \in Nat, a <= b, b <= Len(Q),
         NEW m \in Message, IsFrame("plain", key, Q, a, m, 0, nonce)
  PROVE  /\ a + (HeadLen("plain") + Len(m[2])) <= b =>
              PlainDecode(Part(Q, a, b)) =
                [used |-> HeadLen("plain") + Len(m[2]), topic |-> m[1], body |-> m[2], enc |-> FALSE]
         /\ a + (HeadLen("plain") + Len(m[2])) > b => PlainDecode(Part(Q, a, b)) = Nothing
<1> DEFINE B == Part(Q, a, b)
           C == Part(B, TopicWidth, Len(B))
<1>1. PICK n \in Nat : n = Len(m[2])
  BY DEF Message
<1>2. m[1] \in Nat /\ m[1] < Weight[TopicWidth] /\ n < Weight[LenWidth] /\ n # 0
      /\ m[2] \in Seq(ClearCell)
  BY <1>1, Widths DEF Message
<1>3. B \in Seq(Cells) /\ Len(B) = b - a /\ \A i \in 1..(b - a) : B[i] = Q[a + i]
  BY Parts
<1>4. /\ a + (TopicWidth + LenWidth) + n <= Len(Q)
      /\ \A i \in 1..TopicWidth : Q[a + i][1] = Digit(m[1], i)
      /\ \A i \in 1..LenWidth : Q[a + ((TopicWidth + LenWidth) - LenWidth) + i][1] = Digit(n, i)
      /\ \A i \in 1..n : Q[a + (TopicWidth + LenWidth) + i] = m[2][i]
  BY <1>1 DEF IsFrame, HeadLen
<1>5. \A i \in 1..LenWidth : Q[a + TopicWidth + i][1] = Digit(n, i)
  <2>1. a + ((TopicWidth + LenWidth) - LenWidth) = a + TopicWidth
    BY Widths
  <2> QED BY <1>4, <2>1
<1> HIDE DEF B
<1>0. SUFFICES /\ a + (TopicWidth + LenWidth + n) <= b =>
                    PlainDecode(B) = [used |-> TopicWidth + LenWidth + n, topic |-> m[1],
                                      body |-> m[2], enc |-> FALSE]
               /\ a + (TopicWidth + LenWidth + n) > b => PlainDecode(B) = Nothing
  BY <1>1, HeadLens DEF B
<1>6. CASE b - a <= TopicWidth + LenWidth
  <2>1. PlainDecode(B) = Nothing
    BY <1>3, <1>6 DEF PlainDecode
  <2>2. a + (TopicWidth + LenWidth + n) > b
    BY <1>2, <1>6, Widths
  <2> QED BY <2>1, <2>2, Widths
<1>7. CASE b - a > TopicWidth + LenWidth
  <2>1. PICK t \in Nat : t = (b - a) - TopicWidth
    BY <1>3, <1>7, Widths
  <2>2. C \in Seq(Cells) /\ Len(C) = t /\ \A i \in 1..t : C[i] = B[TopicWidth + i]
    <3>1. TopicWidth \in Nat /\ TopicWidth <= b - a /\ b - a \in Nat /\ b - a <= Len(B)
      BY <1>3, <1>7, Widths
    <3>2. /\ Part(B, TopicWidth, b - a) \in Seq(Cells)
          /\ Len(Part(B, TopicWidth, b - a)) = (b - a) - TopicWidth
          /\ \A i \in 1..((b - a) - TopicWidth) : Part(B, TopicWidth, b - a)[i] = B[TopicWidth + i]
      BY <1>3, <3>1, Parts
    <3> QED BY <1>3, <2>1, <3>2
  <2> HIDE DEF C
  <2>3. \A i \in 1..LenWidth : i <= Len(C) => C[i][1] = Digit(n, i)
    <3> SUFFICES ASSUME NEW i \in 1..LenWidth, i <= Len(C) PROVE C[i][1] = Digit(n, i)
      OBVIOUS
    <3>1. i \in 1..t /\ TopicWidth + i \in 1..(b - a) /\ a + (TopicWidth + i) = a + TopicWidth + i
      BY <2>1, <2>2, Widths
    <3> QED BY <1>3, <1>5, <2>2, <3>1
  <2>4. /\ Len(C) >= LenWidth + n => LengthDecode(C) = Part(C, LenWidth, LenWidth + n)
        /\ Len(C) < LenWidth + n => LengthDecode(C) = <<>>
    BY <1>2, <2>2, <2>3, LengthDecoded
  <2>5. CASE t < LenWidth + n
    <3>1. PlainDecode(B) = Nothing
      BY <2>2, <2>4, <2>5 DEF PlainDecode, C, Part
    <3>2. a + (TopicWidth + LenWidth + n) > b
      BY <2>1, <2>5, Widths
    <3> QED BY <3>1, <3>2, Widths
  <2>6. CASE t >= LenWidth + n
    <3>1. Part(C, LenWidth, LenWidth + n) = m[2]
      <4>1. m[2] \in Seq(Cells) /\ LenWidth \in Nat /\ LenWidth + Len(m[2]) <= Len(C)
        BY <1>1, <1>2, <2>2, <2>6, Widths, ClearIsCell
      <4>2. \A i \in 1..Len(m[2]) : C[LenWidth + i] = m[2][i]
        <5> SUFFICES ASSUME NEW i \in 1..n PROVE C[LenWidth + i] = m[2][i]
          BY <1>1
        <5>1. /\ LenWidth + i \in 1..t /\ TopicWidth + (LenWidth + i) \in 1..(b - a)
              /\ a + (TopicWidth + (LenWidth + i)) = a + (TopicWidth + LenWidth) + i
          BY <2>1, <2>6, Widths
        <5> QED BY <1>3, <1>4, <2>2, <5>1
      <4>3. PICK e \in Nat : e = LenWidth + n
        BY Widths
      <4>4. e = LenWidth + Len(m[2]) /\ e <= Len(C)
        BY <1>1, <4>1, <4>3
      <4>5. C \in Seq(Cells)
        BY <2>2
      <4>6. Part(C, LenWidth, e) = m[2]
        BY <4>1, <4>2, <4>4, <4>5, SamePart
      <4> QED BY <4>3, <4>6
    <3>2. LengthDecode(C) = m[2]
      BY <2>2, <2>4, <2>6, <3>1
    <3>3. Deserialize(B, TopicWidth) = m[1]
      <4>1. \A i \in 1..TopicWidth : B[i][1] = Digit(m[1], i)
        <5>1. \A i \in 1..TopicWidth : i \in 1..(b - a)
          BY <1>7, Widths
        <5> QED BY <1>3, <1>4, <5>1
      <4> QED BY <1>2, <4>1, Widths, Deserialized
    <3>4. m[2] # <<>>
      BY DEF Message
    <3>5. ~ (Len(B) <= TopicWidth + LenWidth)
      BY <1>3, <1>7, Widths
    <3>6. PlainDecode(B) = [used |-> TopicWidth + LenWidth + n, topic |-> m[1],
                            body |-> m[2], enc |-> FALSE]
      BY <1>1, <3>2, <3>3, <3>4, <3>5 DEF PlainDecode, C, Part
    <3>7. a + (TopicWidth + LenWidth + n) <= b
      BY <2>1, <2>6, Widths
    <3> QED BY <3>6, <3>7, Widths
  <2> QED BY <2>1, <2>5, <2>6, Widths
<1> QED BY <1>6, <1>7, Widths

\* secure_protocol::decode() of bytes that begin with a frame, or with part of one
LEMMA SecureDecoded ==
  ASSUME NEW key, NEW nonce, NEW enc, enc = 0 \/ enc = 1,
         NEW Q \in Seq(Cells), NEW a \in Nat, NEW b \in Nat, a <= b, b <= Len(Q),
         NEW m \in Message, IsFrame("secure", key, Q, a, m, enc, nonce)
  PROVE  /\ a + (HeadLen("secure") + Len(m[2])) <= b =>
              /\ SecureDecode(Part(Q, a, b)).used = HeadLen("secure") + Len(m[2])
              /\ SecureDecode(Part(Q, a, b)).topic = m[1]
              /\ SecureDecode(Part(Q, a, b)).body =
                   Part(Q, a + HeadLen("secure"), a + (HeadLen("secure") + Len(m[2])))
              /\ SecureDecode(Part(Q, a, b)).enc <=> enc = 1
         /\ a + (HeadLen("secure") + Len(m[2])) > b => SecureDecode(Part(Q, a, b)) = Nothing
<1> DEFINE B == Part(Q, a, b)
<1>1. PICK n \in Nat : n = Len(m[2])
  BY DEF Message
<1>2. m[1] \in Nat /\ m[1] < Weight[TopicWidth] /\ n < Weight[LenWidth] /\ n # 0
  BY <1>1, Widths DEF Message
<1>3. B \in Seq(Cells) /\ Len(B) = b - a /\ \A i \in 1..(b - a) : B[i] = Q[a + i]
  BY Parts
<1>4. PICK h \in Nat : h = TopicWidth + 1 + LenWidth
  BY Widths
<1>5. /\ a + h + n <= Len(Q)
      /\ \A i \in 1..TopicWidth : Q[a + i][1] = Digit(m[1], i)
      /\ \A i \in 1..LenWidth : Q[a + (h - LenWidth) + i][1] = Digit(n, i)
      /\ Q[a + TopicWidth + 1][1] = enc
  BY <1>1, <1>4 DEF IsFrame, HeadLen
<1> HIDE DEF B
<1>6. CASE b - a <= h
  <2>1. SecureDecode(B) = Nothing
    BY <1>3, <1>4, <1>6 DEF SecureDecode
  <2>2. a + (h + n) > b
    BY <1>2, <1>6
  <2> QED BY <1>1, <1>4, <2>1, <2>2 DEF HeadLen, B
<1>7. CASE b - a > h
  <2> DEFINE C == SubSeq(B, TopicWidth + 2, h)
  <2>1. C \in Seq(Cells) /\ \A i \in 1..LenWidth : C[i] = B[(TopicWidth + 1) + i]
    <3>1. TopicWidth + 1 \in Nat /\ TopicWidth + 1 <= h /\ h <= b - a /\ h - (TopicWidth + 1) = LenWidth
          /\ (TopicWidth + 1) + 1 = TopicWidth + 2
      BY <1>4, <1>7, Widths
    <3>0. PICK k \in Nat : k = TopicWidth + 1
      BY <3>1
    <3>2. /\ Part(B, k, h) \in Seq(Cells)
          /\ \A i \in 1..(h - k) : Part(B, k, h)[i] = B[k + i]
      <4>1. h \in Nat /\ k <= h /\ h <= Len(B)
        BY <1>3, <3>0, <3>1
      <4> QED BY <1>3, <4>1, Parts
    <3> QED BY <3>0, <3>1, <3>2 DEF Part
  <2> HIDE DEF C
  <2>2. \A i \in 1..LenWidth : C[i][1] = Digit(n, i)
    <3> SUFFICES ASSUME NEW i \in 1..LenWidth PROVE C[i][1] = Digit(n, i)
      OBVIOUS
    <3>1. /\ (TopicWidth + 1) + i \in 1..(b - a)
          /\ a + ((TopicWidth + 1) + i) = a + (h - LenWidth) + i
      BY <1>4, <1>7, Widths
    <3> QED BY <1>3, <1>5, <2>1, <3>1
  <2>3. Deserialize(C, LenWidth) = n
    BY <1>2, <2>2, Widths, Deserialized
  <2>4. Deserialize(B, TopicWidth) = m[1]
    <3>1. \A i \in 1..TopicWidth : B[i][1] = Digit(m[1], i)
      <4>1. \A i \in 1..TopicWidth : i \in 1..(b - a)
        BY <1>4, <1>7, Widths
      <4> QED BY <1>3, <1>5, <4>1
    <3> QED BY <1>2, <3>1, Widths, Deserialized
  <2>5. (B[TopicWidth + 1][1] # 0) = (enc = 1)
    <3>1. TopicWidth + 1 \in 1..(b - a) /\ a + (TopicWidth + 1) = a + TopicWidth + 1
      BY <1>4, <1>7, Widths
    <3> QED BY <1>3, <1>5, <3>1
  <2>6. CASE b - a < h + n
    <3>1. SecureDecode(B) = Nothing
      BY <1>3, <1>4, <2>3, <2>6 DEF SecureDecode, C
    <3>2. a + (h + n) > b
      BY <2>6
    <3> QED BY <1>1, <1>4, <3>1, <3>2 DEF HeadLen, B
  <2>7. CASE b - a >= h + n
    <3>1. SubSeq(B, h + 1, h + n) = Part(Q, a + h, a + (h + n))
      <4>1. PICK e \in Nat : e = h + n
        OBVIOUS
      <4>2. h <= e /\ e <= b - a
        BY <2>7, <4>1
      <4>3. Part(Part(Q, a, b), h, e) = Part(Q, a + h, a + e)
        BY <4>2, PartOfPart
      <4> QED BY <4>1, <4>3 DEF B, Part
    <3>2. ~ (Len(B) <= h \/ Len(B) < h + n)
      BY <1>3, <1>7, <2>7
    <3>3. SecureDecode(B) = [used |-> h + n, topic |-> m[1],
                             body |-> Part(Q, a + h, a + (h + n)), enc |-> B[TopicWidth + 1][1] # 0]
      BY <1>4, <2>3, <2>4, <3>1, <3>2 DEF SecureDecode, C
    <3>4. a + (h + n) <= b
      BY <2>7
    <3>5. h + n = HeadLen("secure") + Len(m[2]) /\ h = HeadLen("secure")
      BY <1>1, <1>4 DEF HeadLen
    <3>6. /\ SecureDecode(B).used = h + n /\ SecureDecode(B).topic = m[1]
          /\ SecureDecode(B).body = Part(Q, a + h, a + (h + n))
          /\ SecureDecode(B).enc <=> enc = 1
      <4>1. SecureDecode(B).enc = (B[TopicWidth + 1][1] # 0)
        BY <3>3
      <4>2. /\ SecureDecode(B).used = h + n /\ SecureDecode(B).topic = m[1]
            /\ SecureDecode(B).body = Part(Q, a + h, a + (h + n))
        BY <3>3
      <4> QED BY <2>5, <4>1, <4>2
    <3> QED BY <3>4, <3>5, <3>6, SMTT(20) DEF B
  <2> QED BY <2>6, <2>7
<1> QED BY <1>6, <1>7

\* What was enciphered is deciphered with the same key and nonce.
LEMMA Deciphered ==
  ASSUME NEW key, key # "none", NEW nonce, NEW Q \in Seq(Cells), NEW a \in Nat,
         NEW body \in Seq(ClearCell), NEW b \in Nat, b = a + Len(body), b <= Len(Q),
         \A i \in 1..Len(body) : Q[a + i] = <<body[i][1], key, nonce>>
  PROVE  Xor(Part(Q, a, b), key, nonce) = body
<1>1. PICK n \in Nat : n = Len(body)
  OBVIOUS
<1> DEFINE B == Part(Q, a, b)
<1>2. B \in Seq(Cells) /\ Len(B) = n /\ \A i \in 1..n : B[i] = Q[a + i]
  <2>1. a <= b /\ b - a = n
    BY <1>1
  <2>2. Part(Q, a, b) \in Seq(Cells) /\ Len(Part(Q, a, b)) = b - a
        /\ \A i \in 1..(b - a) : Part(Q, a, b)[i] = Q[a + i]
    BY <2>1, Parts
  <2> QED BY <2>1, <2>2
<1> HIDE DEF B
<1>3. DOMAIN B = 1..n /\ DOMAIN body = 1..n
  BY <1>1, <1>2
<1>4. \A i \in 1..n : B[i] = <<body[i][1], key, nonce>>
  BY <1>1, <1>2
<1>5. \A i \in 1..n : body[i] = Clear(body[i][1])
  BY <1>1 DEF ClearCell, Clear
<1>6. \A i \in 1..n : Xor(B, key, nonce)[i] = body[i]
  <2> SUFFICES ASSUME NEW i \in 1..n PROVE Xor(B, key, nonce)[i] = body[i]
    OBVIOUS
  <2>1. B[i][1] = body[i][1] /\ B[i][2] = key /\ B[i][3] = nonce
    BY <1>4
  <2>2. key # "none"
    OBVIOUS
  <2>3. Xor(B, key, nonce)[i] = Clear(body[i][1])
    BY <1>3, <2>1, <2>2 DEF Xor
  <2> QED BY <1>5, <2>3
<1>7. Xor(B, key, nonce) = [i \in 1..n |-> Xor(B, key, nonce)[i]]
  BY <1>3 DEF Xor
<1>8. body = [i \in 1..n |-> body[i]]
  BY <1>3
<1> QED BY <1>1, <1>6, <1>7, <1>8 DEF B

-----------------------------------------------------------------------------
(* All that was sent to an end, and how it is heard *)

\* The fields of sodium_handshake and of the ciphers, with their ranges
HandshakeStates ==
  [keyReceived : BOOLEAN, established : BOOLEAN,
   rxKey : {"none", "toClient", "toServer"}, txKey : {"none", "toClient", "toServer"},
   rxNonce : 0..(Nonces - 1), txNonce : 0..(Nonces - 1)]

\* The messages S were sent as the last of the bytes Q, after the cut[0] of the
\* handshake: message i ends after cut[i] bytes, enc[i] is 1 if it was enciphered,
\* else 0, and nc[i] is the nonce after it.
History(p, key, S, Q, cut, nc, enc) ==
  /\ cut \in [0..Len(S) -> Nat] /\ nc \in [0..Len(S) -> 0..(Nonces - 1)]
  /\ enc \in [1..Len(S) -> {0, 1}]
  /\ cut[Len(S)] = Len(Q)
  /\ \A i \in 1..Len(S) :
       /\ cut[i] = cut[i - 1] + HeadLen(p) + Len(S[i][2])
       /\ nc[i] = IF enc[i] = 1 THEN (nc[i - 1] + 1) % Nonces ELSE nc[i - 1]
       /\ enc[i] = 1 => p = "secure"
       /\ p = "stream" => S[i][1] = 0 /\ Len(S[i][2]) = 1
       /\ IsFrame(p, key, Q, cut[i - 1], S[i], enc[i], nc[i - 1])

\* The state of recv_frames()
Reader(b, h, g) == [buf |-> b, hs |-> h, got |-> g]

\* The handshake with another nonce for what it receives
WithNonce(h, nonce) == [h EXCEPT !.rxNonce = nonce]

\* An end that has heard i messages, with m bytes of Q received in all
Heard(h, S, Q, cut, nc, m, i) == Reader(Part(Q, cut[i], m), WithNonce(h, nc[i]), SubSeq(S, 1, i))

\* Each message takes at least a byte more than its header.
LEMMA CutsApart ==
  ASSUME NEW p, NEW key, NEW S \in Seq(Message), NEW Q \in Seq(Cells), NEW cut, NEW nc, NEW enc,
         History(p, key, S, Q, cut, nc, enc),
         NEW i \in 0..Len(S), NEW j \in i..Len(S)
  PROVE  cut[i] + (j - i) * (HeadLen(p) + 1) <= cut[j]
<1>1. PICK s \in Nat : s = HeadLen(p) + 1
  BY HeadLens
<1>2. PICK n \in Nat : n = Len(S)
  OBVIOUS
<1> DEFINE T == {d \in Nat : i + d <= n => cut[i] + d * s <= cut[i + d]}
<1>3. \A k \in 0..n : cut[k] \in Nat
  BY <1>2 DEF History
<1>4. \A k \in 1..n : cut[k - 1] + s <= cut[k]
  <2> SUFFICES ASSUME NEW k \in 1..n PROVE cut[k - 1] + s <= cut[k]
    OBVIOUS
  <2>1. S[k] \in Message
    BY <1>2
  <2>2. Len(S[k][2]) \in Nat /\ Len(S[k][2]) # 0
    BY <2>1 DEF Message
  <2>3. cut[k] = cut[k - 1] + HeadLen(p) + Len(S[k][2])
    BY <1>2 DEF History
  <2>4. k - 1 \in 0..n
    OBVIOUS
  <2>5. PICK h \in Nat, l \in Nat : h = HeadLen(p) /\ l = Len(S[k][2])
    BY <2>2, HeadLens
  <2>6. cut[k] = cut[k - 1] + h + l /\ s = h + 1 /\ l # 0 /\ cut[k - 1] \in Nat
    BY <1>1, <1>3, <2>2, <2>3, <2>4, <2>5
  <2> QED BY <2>6
<1>5. 0 \in T
  BY <1>2, <1>3
<1>6. ASSUME NEW d \in Nat, d \in T PROVE d + 1 \in T
  <2> SUFFICES ASSUME i + (d + 1) <= n PROVE cut[i] + (d + 1) * s <= cut[i + (d + 1)]
    OBVIOUS
  <2>1. cut[i] + d * s <= cut[i + d]
    BY <1>2, <1>6
  <2>2. PICK k \in 1..n : k = i + (d + 1)
    BY <1>2
  <2>3. k - 1 = i + d /\ k - 1 \in 0..n
    BY <1>2, <2>2
  <2>4. cut[i + d] + s <= cut[i + (d + 1)]
    BY <1>4, <2>2, <2>3
  <2>5. (d + 1) * s = d * s + s
    BY SMT
  <2>6. cut[i] \in Nat /\ cut[i + d] \in Nat /\ cut[i + (d + 1)] \in Nat /\ d * s \in Nat
    BY <1>2, <1>3, <2>2, <2>3
  <2>7. PICK v \in Nat : v = d * s
    BY <2>6
  <2>8. cut[i] + v + s <= cut[i + (d + 1)]
    BY <2>1, <2>4, <2>6, <2>7
  <2> QED BY <2>5, <2>6, <2>7, <2>8
<1>7. Nat \subseteq T
  <2> HIDE DEF T
  <2> QED BY <1>5, <1>6, SetInduction
<1>8. PICK d \in Nat : d = j - i /\ i + d = j
  <2>1. j - i \in Nat /\ i + (j - i) = j
    OBVIOUS
  <2> QED BY <2>1
<1>9. cut[i] + d * s <= cut[j]
  <2>1. d \in T
    BY <1>7
  <2>2. i + d <= n
    BY <1>2, <1>8
  <2> QED BY <1>8, <2>1, <2>2
<1> QED BY <1>1, <1>8, <1>9

\* Where a message ends, and the nonce after it
LEMMA HistoryAt ==
  ASSUME NEW p, NEW key, NEW S \in Seq(Message), NEW Q \in Seq(Cells), NEW cut, NEW nc, NEW enc,
         History(p, key, S, Q, cut, nc, enc), NEW i \in 0..Len(S)
  PROVE  i \in Nat /\ cut[i] \in Nat /\ cut[i] <= Len(Q) /\ nc[i] \in 0..(Nonces - 1)
<1>0. /\ cut \in [0..Len(S) -> Nat] /\ nc \in [0..Len(S) -> 0..(Nonces - 1)]
      /\ cut[Len(S)] = Len(Q)
  BY Zenon DEF History
<1>1. cut[i] \in Nat /\ nc[i] \in 0..(Nonces - 1) /\ cut[Len(S)] = Len(Q) /\ cut[Len(S)] \in Nat
  BY <1>0
<1>2. PICK n \in Nat : n = Len(S)
  OBVIOUS
<1>3. i \in 0..n /\ n \in i..n
  BY <1>2
<1>4. cut[i] + (n - i) * (HeadLen(p) + 1) <= cut[n]
  BY <1>2, <1>3, CutsApart
<1>5. PICK k \in Nat : k = (n - i) * (HeadLen(p) + 1)
  <2>1. PICK x \in Nat : x = n - i
    BY <1>3
  <2>2. PICK y \in Nat : y = HeadLen(p) + 1
    BY HeadLens
  <2>3. x * y \in Nat
    OBVIOUS
  <2> QED BY <2>1, <2>2, <2>3
<1>6. cut[i] <= Len(Q)
  <2>1. cut[i] + k <= cut[n] /\ cut[n] = Len(Q) /\ cut[n] \in Nat
    BY <1>1, <1>2, <1>4, <1>5
  <2> QED BY <1>1, <2>1
<1> QED BY <1>1, <1>3, <1>6

\* The message after it
LEMMA HistoryNext ==
  ASSUME NEW p, NEW key, NEW S \in Seq(Message), NEW Q \in Seq(Cells), NEW cut, NEW nc, NEW enc,
         History(p, key, S, Q, cut, nc, enc), NEW i \in 0..(Len(S) - 1)
  PROVE  /\ i + 1 \in 1..Len(S) /\ S[i + 1] \in Message /\ i \in 0..Len(S)
         /\ cut[i + 1] = cut[i] + HeadLen(p) + Len(S[i + 1][2])
         /\ nc[i + 1] = IF enc[i + 1] = 1 THEN (nc[i] + 1) % Nonces ELSE nc[i]
         /\ enc[i + 1] = 1 => p = "secure"
         /\ enc[i + 1] \in {0, 1}
         /\ p = "stream" => S[i + 1][1] = 0 /\ Len(S[i + 1][2]) = 1
         /\ IsFrame(p, key, Q, cut[i], S[i + 1], enc[i + 1], nc[i])
<1>1. PICK n \in Nat : n = Len(S)
  OBVIOUS
<1>2. PICK j \in 1..n : j = i + 1 /\ j - 1 = i
  <2>1. i + 1 \in 1..n /\ (i + 1) - 1 = i
    BY <1>1
  <2> QED BY <2>1
<1>3. /\ cut[j] = cut[j - 1] + HeadLen(p) + Len(S[j][2])
      /\ nc[j] = IF enc[j] = 1 THEN (nc[j - 1] + 1) % Nonces ELSE nc[j - 1]
      /\ enc[j] = 1 => p = "secure"
      /\ enc[j] \in {0, 1}
      /\ p = "stream" => S[j][1] = 0 /\ Len(S[j][2]) = 1
      /\ IsFrame(p, key, Q, cut[j - 1], S[j], enc[j], nc[j - 1])
  BY <1>1 DEF History
<1>4. i + 1 \in 1..Len(S) /\ S[i + 1] \in Message /\ i \in 0..Len(S)
  BY <1>1, <1>2
<1> QED BY <1>2, <1>3, <1>4

\* recv_frames() at s: with handshake h, after a bytes of Q have been consumed
\* and m received, message msg of u bytes is next.
Turning(s, key, Q, a, m, msg, u, x, c, h, g, after) ==
  /\ proto \in {"plain", "secure"} /\ key # "none"
  /\ Q \in Seq(Cells) /\ a \in Nat /\ m \in Nat /\ a <= m /\ m <= Len(Q)
  /\ msg \in Message /\ (x = 0 \/ x = 1) /\ (x = 1 => proto = "secure")
  /\ c \in 0..(Nonces - 1) /\ IsFrame(proto, key, Q, a, msg, x, c)
  /\ h \in HandshakeStates /\ h.rxNonce = c /\ (proto = "secure" => h.rxKey = key)
  /\ u \in Nat /\ u = HeadLen(proto) + Len(msg[2])
  /\ s = Reader(Part(Q, a, m), h, g)
  /\ after = IF x = 1 THEN (c + 1) % Nonces ELSE c

\* A turn of recv_frames() on framed protocols takes the next message, if it is
\* there whole, and otherwise nothing.
LEMMA FrameTaken ==
  ASSUME NEW s, NEW key, NEW Q, NEW a, NEW m, NEW msg, NEW u, NEW x, NEW c, NEW h, NEW g, NEW after,
         Turning(s, key, Q, a, m, msg, u, x, c, h, g, after)
  PROVE  /\ a + u > m => RecvFrame(s) = s
         /\ a + u <= m =>
              RecvFrame(s) = Reader(Part(Q, a + u, m), WithNonce(h, after), g \o <<msg>>)
<1> /\ proto \in {"plain", "secure"} /\ key # "none"
    /\ Q \in Seq(Cells) /\ a \in Nat /\ m \in Nat /\ a <= m /\ m <= Len(Q)
    /\ msg \in Message /\ (x = 0 \/ x = 1) /\ (x = 1 => proto = "secure")
    /\ c \in 0..(Nonces - 1) /\ IsFrame(proto, key, Q, a, msg, x, c)
    /\ h \in HandshakeStates /\ h.rxNonce = c /\ (proto = "secure" => h.rxKey = key)
    /\ u \in Nat /\ u = HeadLen(proto) + Len(msg[2])
    /\ s = [buf |-> Part(Q, a, m), hs |-> h, got |-> g]
    /\ after = IF x = 1 THEN (c + 1) % Nonces ELSE c
  BY DEF Turning, Reader
<1> DEFINE B == Part(Q, a, m)
<1>1. PICK n \in Nat \ {0} : n = Len(msg[2])
  BY DEF Message
<1>2. PICK k \in Nat : k = HeadLen(proto)
  BY HeadLens
<1>3. u = k + n
  BY <1>1, <1>2
<1>4. B \in Seq(Cells) /\ Len(B) = m - a
  BY Parts
<1>5. msg[2] \in Seq(ClearCell) /\ msg[1] \in Nat /\ msg = <<msg[1], msg[2]>> /\ msg[2] \in Seq(Cells)
  BY Widths, ClearIsCell DEF Message
<1>6. s.buf = B /\ s.hs = h /\ s.got = g
  OBVIOUS
<1> HIDE DEF B
<1>7. CASE a + u > m
  <2>1. Decode(B) = Nothing
    <3>1. CASE proto = "plain"
      <4>1. IsFrame("plain", key, Q, a, msg, 0, c)
        <5>1. x = 0
          BY <3>1
        <5> QED BY <3>1, <5>1
      <4>2. a + (HeadLen("plain") + Len(msg[2])) > m
        BY <1>7, <3>1
      <4>3. PlainDecode(Part(Q, a, m)) = Nothing
        BY <4>1, <4>2, PlainDecoded
      <4> QED BY <3>1, <4>3 DEF Decode, B
    <3>2. CASE proto = "secure"
      <4>1. IsFrame("secure", key, Q, a, msg, x, c)
        BY <3>2
      <4>2. a + (HeadLen("secure") + Len(msg[2])) > m
        BY <1>7, <3>2
      <4>3. SecureDecode(Part(Q, a, m)) = Nothing
        BY <4>1, <4>2, SecureDecoded
      <4> QED BY <3>2, <4>3 DEF Decode, B
    <3> QED BY <3>1, <3>2
  <2>2. RecvFrame(s) = s
    BY <1>6, <2>1 DEF RecvFrame, Nothing
  <2> QED BY <1>7, <2>2
<1>8. CASE a + u <= m
  <2> DEFINE f == Decode(B)
             d == IF f.enc THEN CipherDecode(h, f.body) ELSE [hs |-> h, cells |-> f.body]
  <2>1. (a + k) + n = a + u /\ a + u <= Len(Q) /\ a + k \in Nat /\ c \in Nat
    BY <1>3, <1>8
  <2>2. \A y \in 1..n : Q[(a + k) + y] = IF x = 1 THEN <<msg[2][y][1], key, c>> ELSE msg[2][y]
    BY <1>1, <1>2 DEF IsFrame
  <2>3. /\ f.used = u /\ f.topic = msg[1] /\ (f.enc <=> x = 1)
        /\ x = 0 => f.body = msg[2]
        /\ x = 1 => f.body = Part(Q, a + k, a + u)
    <3>1. CASE proto = "plain"
      <4>0. x = 0
        BY <3>1
      <4>1. IsFrame("plain", key, Q, a, msg, 0, c)
        BY <3>1, <4>0
      <4>2. a + (HeadLen("plain") + Len(msg[2])) <= m /\ HeadLen("plain") + Len(msg[2]) = u
        BY <1>8, <3>1
      <4>3. PlainDecode(Part(Q, a, m)) =
              [used |-> HeadLen("plain") + Len(msg[2]), topic |-> msg[1], body |-> msg[2], enc |-> FALSE]
        BY <4>1, <4>2, PlainDecoded
      <4>4. f = [used |-> u, topic |-> msg[1], body |-> msg[2], enc |-> FALSE]
        BY <3>1, <4>2, <4>3 DEF Decode, B
      <4> HIDE DEF f
      <4> QED BY <4>0, <4>4
    <3>2. CASE proto = "secure"
      <4>1. IsFrame("secure", key, Q, a, msg, x, c)
        BY <3>2
      <4>2. a + (HeadLen("secure") + Len(msg[2])) <= m /\ HeadLen("secure") + Len(msg[2]) = u
            /\ HeadLen("secure") = k
        BY <1>2, <1>8, <3>2
      <4>3. /\ SecureDecode(Part(Q, a, m)).used = HeadLen("secure") + Len(msg[2])
            /\ SecureDecode(Part(Q, a, m)).topic = msg[1]
            /\ SecureDecode(Part(Q, a, m)).body =
                 Part(Q, a + HeadLen("secure"), a + (HeadLen("secure") + Len(msg[2])))
            /\ SecureDecode(Part(Q, a, m)).enc <=> x = 1
        BY <4>1, <4>2, SecureDecoded
      <4>6. f = SecureDecode(Part(Q, a, m))
        BY <3>2 DEF Decode, B
      <4>4. f.used = u /\ f.topic = msg[1] /\ f.body = Part(Q, a + k, a + u) /\ (f.enc <=> x = 1)
        BY <4>2, <4>3, <4>6
      <4>5. x = 0 => Part(Q, a + k, a + u) = msg[2]
        <5> SUFFICES ASSUME x = 0 PROVE Part(Q, a + k, a + u) = msg[2]
          OBVIOUS
        <5>1. \A y \in 1..Len(msg[2]) : Q[(a + k) + y] = msg[2][y]
          BY <1>1, <2>2
        <5>2. PICK y \in Nat : y = a + k
          BY <2>1
        <5>3. PICK z \in Nat : z = a + u
          OBVIOUS
        <5>4. z = y + Len(msg[2]) /\ z <= Len(Q)
          BY <1>1, <2>1, <5>2, <5>3
        <5>5. msg[2] \in Seq(Cells) /\ \A i \in 1..Len(msg[2]) : Q[y + i] = msg[2][i]
          BY <1>5, <5>1, <5>2
        <5>6. Part(Q, y, z) = msg[2]
          <6>1. PICK body : body = msg[2]
            OBVIOUS
          <6>2. body \in Seq(Cells) /\ z = y + Len(body) /\ z <= Len(Q)
                /\ \A i \in 1..Len(body) : Q[y + i] = body[i]
            BY <5>4, <5>5, <6>1
          <6>3. Part(Q, y, z) = body
            BY <6>2, SamePart
          <6> QED BY <6>1, <6>3
        <5> QED BY <5>2, <5>3, <5>6
      <4> HIDE DEF f
      <4> QED BY <4>4, <4>5
    <3> QED BY <3>1, <3>2
  <2>4. ASSUME x = 1 PROVE Xor(f.body, key, c) = msg[2]
    <3>1. \A y \in 1..Len(msg[2]) : Q[(a + k) + y] = <<msg[2][y][1], key, c>>
      BY <1>1, <2>2, <2>4
    <3>2. PICK y \in Nat : y = a + k
      BY <2>1
    <3>3. PICK z \in Nat : z = a + u
      OBVIOUS
    <3>4. z = y + Len(msg[2]) /\ z <= Len(Q)
      BY <1>1, <2>1, <3>2, <3>3
    <3>7. PICK body : body = msg[2]
      OBVIOUS
    <3>6. body \in Seq(ClearCell) /\ key # "none" /\ z = y + Len(body)
          /\ \A i \in 1..Len(body) : Q[y + i] = <<body[i][1], key, c>>
      BY <1>5, <2>1, <3>1, <3>2, <3>4, <3>7
    <3>8. Xor(Part(Q, y, z), key, c) = body
      <4>1. Q \in Seq(Cells) /\ z <= Len(Q)
        BY <3>4
      <4> QED BY <3>6, <4>1, Deciphered, SMTT(20)
    <3>5. Xor(Part(Q, y, z), key, c) = msg[2]
      BY <3>7, <3>8
    <3> HIDE DEF f
    <3> QED BY <2>3, <2>4, <3>2, <3>3, <3>5
  <2> HIDE DEF f
  <2>5. d.cells = msg[2] /\ d.hs = [h EXCEPT !.rxNonce = after]
    <3>1. CASE x = 1
      <4>1. h.rxNonce = c /\ h.rxKey = key
        BY <3>1
      <4>2. d = CipherDecode(h, f.body)
        <5>1. f.enc
          BY <2>3, <3>1
        <5> QED BY <5>1
      <4>3. d.cells = Xor(f.body, key, c) /\ d.hs = [h EXCEPT !.rxNonce = (c + 1) % Nonces]
        BY <4>1, <4>2 DEF CipherDecode
      <4> QED BY <2>4, <3>1, <4>3
    <3>2. CASE x = 0
      <4>1. d = [hs |-> h, cells |-> f.body]
        <5>1. ~ f.enc
          BY <2>3, <3>2
        <5> QED BY <5>1
      <4>2. h = [h EXCEPT !.rxNonce = c]
        BY DEF HandshakeStates
      <4>3. after = c
        BY <3>2
      <4> HIDE DEF d
      <4> QED BY <2>3, <3>2, <4>1, <4>2, <4>3
    <3> QED BY <3>1, <3>2
  <2> HIDE DEF d
  <2>6. SubSeq(B, u + 1, Len(B)) = Part(Q, a + u, m)
    <3>1. PICK l \in Nat : l = m - a
      OBVIOUS
    <3>2. u <= l /\ l <= m - a /\ a + l = m /\ Len(B) = l
      BY <1>4, <1>8, <3>1
    <3>3. Part(Part(Q, a, m), u, l) = Part(Q, a + u, a + l)
      BY <3>2, PartOfPart
    <3> QED BY <3>2, <3>3 DEF B, Part
  <2>7. g \o Units(f.topic, d.cells) = g \o <<msg>>
    <3>1. Units(f.topic, d.cells) = <<<<msg[1], msg[2]>>>>
      BY <2>3, <2>5 DEF Units
    <3> QED BY <1>5, <3>1
  <2>8. f.used # 0
    BY <1>3, <2>3
  <2>9. RecvFrame(s) = [buf |-> SubSeq(B, u + 1, Len(B)), hs |-> d.hs, got |-> g \o Units(f.topic, d.cells)]
    BY <1>6, <2>3, <2>8 DEF RecvFrame, f, d
  <2>10. RecvFrame(s) = [buf |-> Part(Q, a + u, m), hs |-> [h EXCEPT !.rxNonce = after], got |-> g \o <<msg>>]
    BY <2>5, <2>6, <2>7, <2>9
  <2> QED BY <1>8, <2>10 DEF Reader, WithNonce
<1> QED BY <1>7, <1>8

\* What recv_frames() returns, given the state after each of its turns
LEMMA Turns ==
  ASSUME NEW s, NEW k \in Nat, k = Len(s.buf) \div Shortest,
         NEW w, w[0] = s, \A i \in 1..k : w[i] = RecvFrame(w[i - 1])
  PROVE  RecvFrames(s) = w[k]
<1> DEFINE Turn(f) == f = [i \in 0..k |-> IF i = 0 THEN s ELSE RecvFrame(f[i - 1])]
           g == [i \in 0..k |-> w[i]]
           f == CHOOSE t : Turn(t)
<1>1. Turn(g)
  <2>1. \A i \in 0..k : g[i] = IF i = 0 THEN s ELSE RecvFrame(g[i - 1])
    <3> SUFFICES ASSUME NEW i \in 0..k PROVE g[i] = IF i = 0 THEN s ELSE RecvFrame(g[i - 1])
      OBVIOUS
    <3>1. CASE i = 0
      BY <3>1
    <3>2. CASE i # 0
      <4>1. i \in 1..k /\ i - 1 \in 0..k
        BY <3>2
      <4>2. g[i] = w[i] /\ g[i - 1] = w[i - 1]
        BY <4>1
      <4> HIDE DEF g
      <4> QED BY <3>2, <4>1, <4>2
    <3> QED BY <3>1, <3>2
  <2>2. g = [i \in 0..k |-> g[i]]
    OBVIOUS
  <2> HIDE DEF g
  <2> QED BY <2>1, <2>2
<1>2. Turn(f)
  <2> HIDE DEF Turn, g
  <2> QED BY <1>1, Zenon
<1>3. \A i \in 0..k : f[i] = IF i = 0 THEN s ELSE RecvFrame(f[i - 1])
  <2> HIDE DEF f
  <2> QED BY <1>2
<1>4. RecvFrames(s) = f[k]
  BY DEF RecvFrames, f
<1> HIDE DEF f
<1> DEFINE S == {i \in Nat : i <= k => f[i] = w[i]}
<1>5. 0 \in S
  BY <1>3
<1>6. ASSUME NEW i \in Nat, i \in S PROVE i + 1 \in S
  <2> SUFFICES ASSUME i + 1 <= k PROVE f[i + 1] = w[i + 1]
    OBVIOUS
  <2>1. i + 1 \in 1..k /\ i + 1 \in 0..k /\ (i + 1) - 1 = i /\ i <= k /\ i + 1 # 0
    OBVIOUS
  <2>2. f[i + 1] = RecvFrame(f[i]) /\ w[i + 1] = RecvFrame(w[i])
    BY <1>3, <2>1
  <2>3. f[i] = w[i]
    BY <1>6, <2>1
  <2> QED BY <2>2, <2>3
<1>7. Nat \subseteq S
  <2> HIDE DEF S
  <2> QED BY <1>5, <1>6, SetInduction
<1> QED BY <1>4, <1>7

\* recv_frames() at an end that has heard i messages
Hearing(key, S, Q, cut, nc, enc, h, m, i) ==
  /\ proto \in {"stream", "plain", "secure"} /\ key # "none"
  /\ S \in Seq(Message) /\ Q \in Seq(Cells)
  /\ History(proto, key, S, Q, cut, nc, enc) /\ (proto = "stream" => cut[0] = 0)
  /\ h \in HandshakeStates /\ (proto = "secure" => h.rxKey = key)
  /\ m \in Nat /\ m <= Len(Q) /\ i \in 0..Len(S) /\ cut[i] <= m

\* A turn of it, framed protocols
LEMMA TurnHears ==
  ASSUME NEW key, NEW S, NEW Q, NEW cut, NEW nc, NEW enc, NEW h, NEW m, NEW i,
         Hearing(key, S, Q, cut, nc, enc, h, m, i), proto # "stream"
  PROVE  /\ i < Len(S) /\ cut[i + 1] <= m =>
              RecvFrame(Heard(h, S, Q, cut, nc, m, i)) = Heard(h, S, Q, cut, nc, m, i + 1)
         /\ i = Len(S) \/ cut[i + 1] > m =>
              RecvFrame(Heard(h, S, Q, cut, nc, m, i)) = Heard(h, S, Q, cut, nc, m, i)
<1> /\ proto \in {"plain", "secure"} /\ key # "none"
    /\ S \in Seq(Message) /\ Q \in Seq(Cells)
    /\ History(proto, key, S, Q, cut, nc, enc)
    /\ h \in HandshakeStates /\ (proto = "secure" => h.rxKey = key)
    /\ m \in Nat /\ m <= Len(Q) /\ i \in 0..Len(S) /\ cut[i] <= m
  BY DEF Hearing
<1>1. PICK p : p = proto
  OBVIOUS
<1>2. PICK n \in Nat : n = Len(S)
  OBVIOUS
<1>3. History(p, key, S, Q, cut, nc, enc)
  BY <1>1
<1>4. i \in Nat /\ cut[i] \in Nat /\ cut[i] <= Len(Q) /\ nc[i] \in 0..(Nonces - 1)
  BY <1>3, HistoryAt
<1>5. PICK g \in HandshakeStates : g = WithNonce(h, nc[i])
  BY <1>4 DEF HandshakeStates, WithNonce
<1>6. g.rxNonce = nc[i] /\ g.rxKey = h.rxKey
  BY <1>5 DEF HandshakeStates, WithNonce
<1>7. CASE i = n
  <2>1. cut[i] = Len(Q) /\ m = cut[i]
    <3>1. cut[i] = Len(Q)
      BY <1>2, <1>3, <1>7 DEF History
    <3> QED BY <1>4, <3>1
  <2>2. Part(Q, cut[i], m) = <<>>
    BY <1>4, <2>1 DEF Part
  <2>3. Decode(<<>>) = Nothing
    BY Widths DEF Decode, PlainDecode, SecureDecode
  <2>4. PICK s : s = Heard(h, S, Q, cut, nc, m, i)
    OBVIOUS
  <2>5. s.buf = <<>>
    BY <2>2, <2>4 DEF Heard, Reader
  <2>6. RecvFrame(s) = s
    <3>1. Decode(s.buf).used = 0
      BY <2>3, <2>5 DEF Nothing
    <3> QED BY <3>1, Zenon DEF RecvFrame
  <2> QED BY <1>2, <1>7, <2>4, <2>6
<1>8. CASE i # n
  <2>1. i \in 0..(n - 1) /\ i < n
    BY <1>2, <1>8
  <2>2. /\ i + 1 \in 1..Len(S) /\ S[i + 1] \in Message
        /\ cut[i + 1] = cut[i] + HeadLen(p) + Len(S[i + 1][2])
        /\ nc[i + 1] = IF enc[i + 1] = 1 THEN (nc[i] + 1) % Nonces ELSE nc[i]
        /\ enc[i + 1] = 1 => p = "secure"
        /\ enc[i + 1] \in {0, 1}
        /\ IsFrame(p, key, Q, cut[i], S[i + 1], enc[i + 1], nc[i])
    <3>1. i \in 0..(Len(S) - 1)
      BY <1>2, <2>1
    <3> QED BY <1>3, <3>1, HistoryNext
  <2>3. PICK a \in Nat : a = cut[i]
    BY <1>4
  <2>4. PICK msg \in Message : msg = S[i + 1]
    BY <2>2
  <2>5. PICK x \in {0, 1} : x = enc[i + 1]
    BY <2>2
  <2>6. PICK c \in 0..(Nonces - 1) : c = nc[i]
    BY <1>4
  <2>7. PICK u \in Nat : u = HeadLen(proto) + Len(msg[2])
    BY HeadLens DEF Message
  <2>8. PICK got0 : got0 = SubSeq(S, 1, i)
    OBVIOUS
  <2>9. cut[i + 1] = a + u
    <3>1. PICK y \in Nat : y = HeadLen(proto)
      BY HeadLens
    <3>2. PICK z \in Nat : z = Len(msg[2])
      BY DEF Message
    <3>3. cut[i + 1] = a + y + z
      BY <1>1, <2>2, <2>3, <2>4, <3>1, <3>2
    <3> QED BY <2>7, <3>1, <3>2, <3>3, SMTT(20)
  <2>10. nc[i + 1] = IF x = 1 THEN (c + 1) % Nonces ELSE c
    BY <2>2, <2>5, <2>6
  <2>11. PICK s : s = Reader(Part(Q, a, m), g, got0)
    OBVIOUS
  <2>12. s = Heard(h, S, Q, cut, nc, m, i)
    BY <1>5, <2>3, <2>8, <2>11 DEF Heard
  <2>13. /\ a <= m /\ key # "none" /\ (x = 0 \/ x = 1) /\ (x = 1 => proto = "secure") /\ IsFrame(proto, key, Q, a, msg, x, c)
         /\ g.rxNonce = c /\ (proto = "secure" => g.rxKey = key)
    BY <1>1, <1>6, <2>2, <2>3, <2>4, <2>5, <2>6
  <2>14. /\ a + u > m => RecvFrame(s) = s
         /\ a + u <= m =>
              RecvFrame(s) = Reader(Part(Q, a + u, m), WithNonce(g, nc[i + 1]), got0 \o <<msg>>)
    <3>1. PICK after : after = nc[i + 1]
      OBVIOUS
    <3>2. after = IF x = 1 THEN (c + 1) % Nonces ELSE c
      BY <2>10, <3>1
    <3>3. /\ a + u > m => RecvFrame(s) = s
          /\ a + u <= m =>
               RecvFrame(s) = Reader(Part(Q, a + u, m), WithNonce(g, after), got0 \o <<msg>>)
      <4>1. Turning(s, key, Q, a, m, msg, u, x, c, g, got0, after)
        BY <2>7, <2>11, <2>13, <3>2 DEF Turning
      <4> QED BY <4>1, FrameTaken
    <3> QED BY <3>1, <3>3
  <2>15. CASE a + u > m
    <3>1. RecvFrame(s) = s
      BY <2>14, <2>15
    <3> QED BY <1>2, <1>8, <2>9, <2>12, <2>15, <3>1
  <2>16. CASE a + u <= m
    <3>1. got0 \o <<msg>> = SubSeq(S, 1, i + 1)
      BY <1>2, <1>4, <2>1, <2>4, <2>8
    <3>2. WithNonce(g, nc[i + 1]) = WithNonce(h, nc[i + 1])
      BY <1>5 DEF HandshakeStates, WithNonce
    <3>3. RecvFrame(s) = Reader(Part(Q, cut[i + 1], m), WithNonce(h, nc[i + 1]), SubSeq(S, 1, i + 1))
      BY <2>9, <2>14, <2>16, <3>1, <3>2
    <3>4. RecvFrame(s) = Heard(h, S, Q, cut, nc, m, i + 1)
      BY <3>3 DEF Heard
    <3> QED BY <1>2, <1>8, <2>9, <2>12, <2>16, <3>4
  <2> QED BY <2>3, <2>7, <2>15, <2>16
<1> QED BY <1>7, <1>8

\* Message i is byte i.
ByteByByte(S, Q, cut, nc) ==
  /\ Len(Q) = Len(S)
  /\ \A i \in 0..Len(S) : cut[i] = i /\ nc[i] = nc[0]
  /\ \A i \in 1..Len(S) : S[i] = <<0, <<Q[i]>>>>

\* On a stream it is.
LEMMA StreamAt ==
  ASSUME NEW key, NEW S \in Seq(Message), NEW Q \in Seq(Cells), NEW cut, NEW nc, NEW enc,
         History("stream", key, S, Q, cut, nc, enc), cut[0] = 0
  PROVE  ByteByByte(S, Q, cut, nc)
<1>1. PICK n \in Nat : n = Len(S)
  OBVIOUS
<1> DEFINE T == {i \in Nat : i <= n => cut[i] = i /\ nc[i] = nc[0]}
<1>2. ASSUME NEW i \in Nat, i < n
      PROVE  /\ S[i + 1] \in Message /\ Len(S[i + 1][2]) = 1 /\ S[i + 1][1] = 0
             /\ cut[i + 1] = cut[i] + 1 /\ nc[i + 1] = nc[i]
             /\ Q[cut[i] + 1] = S[i + 1][2][1] /\ cut[i] \in Nat
  <2>1. i \in 0..(Len(S) - 1)
    BY <1>1, <1>2
  <2>0. PICK p : p = "stream"
    OBVIOUS
  <2>8. /\ S[i + 1] \in Message /\ i \in 0..Len(S)
        /\ cut[i + 1] = cut[i] + HeadLen(p) + Len(S[i + 1][2])
        /\ nc[i + 1] = IF enc[i + 1] = 1 THEN (nc[i] + 1) % Nonces ELSE nc[i]
        /\ enc[i + 1] = 1 => p = "secure"
        /\ p = "stream" => S[i + 1][1] = 0 /\ Len(S[i + 1][2]) = 1
        /\ IsFrame(p, key, Q, cut[i], S[i + 1], enc[i + 1], nc[i])
    <3>1. History(p, key, S, Q, cut, nc, enc)
      BY <2>0
    <3> QED BY <2>1, <3>1, HistoryNext
  <2>2. /\ S[i + 1] \in Message /\ i \in 0..Len(S)
        /\ cut[i + 1] = cut[i] + HeadLen("stream") + Len(S[i + 1][2])
        /\ nc[i + 1] = IF enc[i + 1] = 1 THEN (nc[i] + 1) % Nonces ELSE nc[i]
        /\ enc[i + 1] # 1
        /\ S[i + 1][1] = 0 /\ Len(S[i + 1][2]) = 1
        /\ IsFrame("stream", key, Q, cut[i], S[i + 1], enc[i + 1], nc[i])
    BY <2>0, <2>8
  <2>3. cut[i] \in Nat
    BY <2>2, HistoryAt
  <2>4. enc[i + 1] # 1
    BY <2>2
  <2>5. cut[i + 1] = cut[i] + 1
    BY <2>2, <2>3, HeadLens
  <2>6. Q[cut[i] + HeadLen("stream") + 1] = S[i + 1][2][1]
    BY <2>2, <2>4 DEF IsFrame
  <2>7. cut[i] + HeadLen("stream") + 1 = cut[i] + 1
    BY <2>3, HeadLens
  <2> QED BY <2>2, <2>3, <2>4, <2>5, <2>6, <2>7
<1>3. Nat \subseteq T
  <2>1. 0 \in T
    OBVIOUS
  <2>2. ASSUME NEW i \in Nat, i \in T PROVE i + 1 \in T
    BY <1>2, <2>2
  <2> HIDE DEF T
  <2> QED BY <2>1, <2>2, SetInduction
<1>4. \A i \in 0..n : cut[i] = i /\ nc[i] = nc[0]
  BY <1>3
<1>5. Len(Q) = n
  <2>1. cut[n] = Len(Q)
    BY <1>1 DEF History
  <2> QED BY <1>4, <2>1
<1>6. ASSUME NEW j \in 1..n PROVE S[j] = <<0, <<Q[j]>>>>
  <2>1. PICK i \in Nat : i = j - 1 /\ i + 1 = j /\ i < n
    <3>1. j - 1 \in Nat /\ (j - 1) + 1 = j /\ j - 1 < n
      OBVIOUS
    <3> QED BY <3>1
  <2>2. cut[i] = i
    BY <1>4, <2>1
  <2>3. S[j] \in Message /\ Len(S[j][2]) = 1 /\ S[j][1] = 0 /\ Q[j] = S[j][2][1]
    BY <1>2, <2>1, <2>2
  <2>4. S[j] = <<S[j][1], S[j][2]>> /\ S[j][2] \in Seq(ClearCell)
    BY <2>3 DEF Message
  <2>5. S[j][2] = <<S[j][2][1]>>
    BY <2>3, <2>4
  <2> QED BY <2>3, <2>4, <2>5
<1> QED BY <1>1, <1>4, <1>5, <1>6 DEF ByteByByte

\* A turn of recv_frames() takes all there is of a stream.
LEMMA StreamTurn ==
  ASSUME NEW key, NEW S, NEW Q, NEW cut, NEW nc, NEW enc, NEW h, NEW m, NEW i,
         Hearing(key, S, Q, cut, nc, enc, h, m, i), proto = "stream"
  PROVE  RecvFrame(Heard(h, S, Q, cut, nc, m, i)) = Heard(h, S, Q, cut, nc, m, m)
<1> /\ S \in Seq(Message) /\ Q \in Seq(Cells)
    /\ History("stream", key, S, Q, cut, nc, enc) /\ cut[0] = 0
    /\ h \in HandshakeStates
    /\ m \in Nat /\ m <= Len(Q) /\ i \in 0..Len(S) /\ cut[i] <= m
  BY DEF Hearing
<1>1. PICK n \in Nat : n = Len(S)
  OBVIOUS
<1>2. /\ Len(Q) = n /\ (\A k \in 0..n : cut[k] = k /\ nc[k] = nc[0])
      /\ \A k \in 1..n : S[k] = <<0, <<Q[k]>>>>
  <2>1. ByteByByte(S, Q, cut, nc)
    BY StreamAt
  <2> QED BY <1>1, <2>1 DEF ByteByByte
<1>3. cut[i] = i /\ i \in Nat /\ i <= m /\ m <= n /\ cut[m] = m /\ nc[i] = nc[m]
  BY <1>1, <1>2
<1> DEFINE B == Part(Q, i, m)
<1>4. B \in Seq(Cells) /\ Len(B) = m - i /\ \A k \in 1..(m - i) : B[k] = Q[i + k]
  <2>1. i \in Nat /\ i <= m
    BY <1>3
  <2> QED BY <2>1, Parts
<1> HIDE DEF B
<1>5. PICK s : s = Heard(h, S, Q, cut, nc, m, i)
  OBVIOUS
<1>6. s = Reader(B, WithNonce(h, nc[m]), SubSeq(S, 1, i))
  BY <1>3, <1>5 DEF Heard, B
<1>7. s.buf = B /\ s.hs = WithNonce(h, nc[m]) /\ s.got = SubSeq(S, 1, i)
  BY <1>6 DEF Reader
<1>8. Decode(B) = [used |-> Len(B), topic |-> 0, body |-> B, enc |-> FALSE]
  BY DEF Decode, StreamDecode
<1>9. CASE i = m
  <2>1. Decode(s.buf).used = 0
    BY <1>4, <1>7, <1>8, <1>9
  <2>2. RecvFrame(s) = s
    BY <2>1, Zenon DEF RecvFrame
  <2> QED BY <1>5, <1>9, <2>2
<1>10. CASE i # m
  <2>1. Decode(s.buf).used # 0
    BY <1>3, <1>4, <1>7, <1>8, <1>10
  <2>2. RecvFrame(s) = Reader(SubSeq(B, Len(B) + 1, Len(B)), WithNonce(h, nc[m]),
                              SubSeq(S, 1, i) \o Units(0, B))
    BY <1>7, <1>8, <2>1 DEF RecvFrame, Reader
  <2>3. SubSeq(B, Len(B) + 1, Len(B)) = Part(Q, cut[m], m)
    <3>1. SubSeq(B, Len(B) + 1, Len(B)) = <<>>
      BY <1>4
    <3>2. Part(Q, m, m) = <<>>
      BY DEF Part
    <3> QED BY <1>3, <3>1, <3>2
  <2>4. SubSeq(S, 1, i) \o Units(0, B) = SubSeq(S, 1, m)
    <3>1. PICK d \in Nat : d = m - i
      BY <1>3
    <3>2. Units(0, B) = [k \in 1..d |-> <<0, <<B[k]>>>>]
      BY <1>4, <3>1 DEF Units
    <3>3. \A k \in 1..d : Units(0, B)[k] = S[i + k]
      <4> SUFFICES ASSUME NEW k \in 1..d PROVE Units(0, B)[k] = S[i + k]
        OBVIOUS
      <4>1. i + k \in 1..n
        BY <1>3, <3>1
      <4>2. S[i + k] = <<0, <<Q[i + k]>>>>
        BY <1>2, <4>1
      <4>3. B[k] = Q[i + k]
        BY <1>4, <3>1
      <4>4. Units(0, B)[k] = <<0, <<B[k]>>>>
        BY <3>2
      <4> QED BY <4>2, <4>3, <4>4
    <3>4. Units(0, B) \in Seq(Message) /\ Len(Units(0, B)) = d
      <4>1. \A k \in 1..d : S[i + k] \in Message
        BY <1>1, <1>3, <3>1
      <4>2. \A k \in 1..d : <<0, <<B[k]>>>> \in Message
        BY <3>2, <3>3, <4>1
      <4> QED BY <3>2, <4>2
    <3>5. PICK U \in Seq(Message) : U = Units(0, B) /\ Len(U) = d /\ \A k \in 1..d : U[k] = S[i + k]
      BY <3>3, <3>4
    <3>6. SubSeq(S, 1, i) \in Seq(Message) /\ Len(SubSeq(S, 1, i)) = i
          /\ \A k \in 1..i : SubSeq(S, 1, i)[k] = S[k]
      BY <1>1, <1>3
    <3>7. SubSeq(S, 1, m) \in Seq(Message) /\ Len(SubSeq(S, 1, m)) = m
          /\ \A k \in 1..m : SubSeq(S, 1, m)[k] = S[k]
      BY <1>1, <1>3
    <3>8. PICK a \in Seq(Message) : a = SubSeq(S, 1, i)
      BY <3>6
    <3>9. PICK b \in Seq(Message) : b = SubSeq(S, 1, m)
      BY <3>7
    <3>10. a \o U = b
      <4>1. Len(a) = i /\ Len(b) = m /\ (\A k \in 1..i : a[k] = S[k]) /\ \A k \in 1..m : b[k] = S[k]
        BY <3>6, <3>7, <3>8, <3>9
      <4>2. a \o U \in Seq(Message) /\ Len(a \o U) = m
        BY <1>3, <3>1, <3>5, <4>1
      <4>3. ASSUME NEW k \in 1..m PROVE (a \o U)[k] = b[k]
        <5>1. CASE k <= i
          <6>1. k \in 1..Len(a) /\ k \in 1..i /\ k \in 1..m
            BY <1>3, <4>1, <5>1
          <6>2. (a \o U)[k] = a[k]
            BY <6>1
          <6> QED BY <4>1, <6>1, <6>2
        <5>2. CASE k > i
          <6>1. k - i \in 1..d /\ i + (k - i) = k
            BY <1>3, <3>1, <5>2
          <6>2. (a \o U)[k] = U[k - i]
            BY <1>3, <3>1, <3>5, <4>1, <5>2, <6>1, SMTT(20)
          <6> QED BY <3>5, <4>1, <6>1, <6>2
        <5>3. k <= i \/ k > i
          BY <1>3
        <5> QED BY <5>1, <5>2, <5>3
      <4> QED BY <4>1, <4>2, <4>3
    <3> QED BY <3>5, <3>8, <3>9, <3>10
  <2>5. RecvFrame(s) = Heard(h, S, Q, cut, nc, m, m)
    BY <2>2, <2>3, <2>4 DEF Heard
  <2> QED BY <1>5, <2>5
<1> QED BY <1>9, <1>10

\* Messages end in their order.
LEMMA CutsGrow ==
  ASSUME NEW p, NEW key, NEW S \in Seq(Message), NEW Q \in Seq(Cells), NEW cut, NEW nc, NEW enc,
         History(p, key, S, Q, cut, nc, enc),
         NEW i \in 0..Len(S), NEW j \in i..Len(S)
  PROVE  cut[i] <= cut[j]
<1>1. cut[i] + (j - i) * (HeadLen(p) + 1) <= cut[j]
  BY CutsApart
<1>2. j \in 0..Len(S)
  OBVIOUS
<1>3. cut[i] \in Nat
  BY HistoryAt
<1>4. cut[j] \in Nat
  BY <1>2, HistoryAt
<1>5. PICK k \in Nat : k = (j - i) * (HeadLen(p) + 1)
  <2>1. PICK x \in Nat : x = j - i
    OBVIOUS
  <2>2. PICK y \in Nat : y = HeadLen(p) + 1
    BY HeadLens
  <2>3. x * y \in Nat
    OBVIOUS
  <2> QED BY <2>1, <2>2, <2>3
<1> QED BY <1>1, <1>3, <1>4, <1>5

\* A quotient
LEMMA DivAtLeast ==
  ASSUME NEW a \in Nat, NEW s \in Nat \ {0}, NEW d \in Nat, d * s <= a
  PROVE  a \div s \in Nat /\ d <= a \div s
<1>1. PICK q \in Nat : q = a \div s
  OBVIOUS
<1>2. PICK r \in Nat : r = a % s
  OBVIOUS
<1>3. a = q * s + r /\ r < s
  BY <1>1, <1>2, SMT
<1>4. ASSUME d > q PROVE FALSE
  <2>1. d >= q + 1
    BY <1>4
  <2>2. d * s >= (q + 1) * s
    BY <2>1, SMT
  <2>3. (q + 1) * s = q * s + s
    BY SMT
  <2> QED BY <1>3, <2>2, <2>3, SMT
<1> QED BY <1>1, <1>4

\* j messages have come whole.
Complete(S, cut, m, j) == cut[j] <= m /\ (j # Len(S) => cut[j + 1] > m)

\* There is a last message that has come whole.
LEMMA LastComplete ==
  ASSUME NEW p, NEW key, NEW S \in Seq(Message), NEW Q \in Seq(Cells), NEW cut, NEW nc, NEW enc,
         History(p, key, S, Q, cut, nc, enc), NEW m \in Nat, NEW g \in 0..Len(S), cut[g] <= m
  PROVE  \E j \in g..Len(S) : Complete(S, cut, m, j)
<1>1. PICK n \in Nat : n = Len(S)
  OBVIOUS
<1> DEFINE T == {i \in Nat : g <= i /\ i <= n /\ (i = n \/ cut[i + 1] > m)}
<1>2. T \subseteq Nat /\ n \in T
  BY <1>1
<1>3. PICK j \in T : \A y \in T : j <= y
  <2>1. T # {}
    BY <1>2
  <2> HIDE DEF T
  <2> QED BY <1>2, <2>1, LeastOf
<1>4. j \in Nat /\ g <= j /\ j <= n /\ (j = n \/ cut[j + 1] > m)
  OBVIOUS
<1>5. cut[j] <= m
  <2>1. CASE j = g
    BY <2>1
  <2>2. CASE j # g
    <3>1. PICK i \in Nat : i = j - 1 /\ i + 1 = j
      <4>1. j - 1 \in Nat /\ (j - 1) + 1 = j
        BY <1>4, <2>2
      <4> QED BY <4>1
    <3>2. i \notin T
      <4> HIDE DEF T
      <4> QED BY <1>3, <3>1
    <3>3. g <= i /\ i <= n /\ i # n
      BY <1>4, <2>2, <3>1
    <3>4. ~ (cut[j] > m)
      BY <3>1, <3>2, <3>3
    <3>5. j \in 0..Len(S)
      BY <1>1, <1>4
    <3>6. cut[j] \in Nat
      BY <3>5, HistoryAt
    <3> QED BY <3>4, <3>6
  <2> QED BY <2>1, <2>2
<1> QED BY <1>1, <1>4, <1>5 DEF Complete

\* recv_frames() hears every message that has come whole.
LEMMA Hears ==
  ASSUME NEW key, NEW S, NEW Q, NEW cut, NEW nc, NEW enc, NEW h, NEW m, NEW g,
         Hearing(key, S, Q, cut, nc, enc, h, m, g)
  PROVE  \E j \in g..Len(S) :
           /\ Complete(S, cut, m, j)
           /\ RecvFrames(Heard(h, S, Q, cut, nc, m, g)) = Heard(h, S, Q, cut, nc, m, j)
<1> /\ proto \in {"stream", "plain", "secure"}
    /\ S \in Seq(Message) /\ Q \in Seq(Cells)
    /\ History(proto, key, S, Q, cut, nc, enc) /\ (proto = "stream" => cut[0] = 0)
    /\ m \in Nat /\ m <= Len(Q) /\ g \in 0..Len(S) /\ cut[g] <= m
  BY DEF Hearing
<1>1. PICK n \in Nat : n = Len(S)
  OBVIOUS
<1>2. PICK p : p = proto
  OBVIOUS
<1>3. History(p, key, S, Q, cut, nc, enc)
  BY <1>2
<1>4. g \in Nat /\ cut[g] \in Nat
  BY <1>3, HistoryAt
<1>5. PICK s : s = Heard(h, S, Q, cut, nc, m, g)
  OBVIOUS
<1>6. PICK a \in Nat : a = m - cut[g]
  BY <1>4
<1>7. Len(s.buf) = a
  <2>1. Len(Part(Q, cut[g], m)) = m - cut[g]
    BY <1>4, Parts
  <2> QED BY <1>5, <1>6, <2>1 DEF Heard, Reader
<1>8. Shortest = HeadLen(p) + 1
  BY <1>2, Widths DEF Shortest, HeadLen
<1>9. PICK z \in Nat \ {0} : z = Shortest
  BY <1>8, HeadLens
<1>10. PICK k \in Nat : k = a \div z
  <2>1. 0 * z <= a
    BY SMT
  <2>2. a \div z \in Nat
    BY <2>1, DivAtLeast
  <2> QED BY <2>2
<1>11. k = Len(s.buf) \div Shortest
  BY <1>7, <1>9, <1>10
<1>12. CASE proto = "stream"
  <2>0. ByteByByte(S, Q, cut, nc)
    BY <1>12, StreamAt
  <2>1. Len(Q) = n /\ \A i \in 0..n : cut[i] = i
    BY <1>1, <2>0 DEF ByteByByte
  <2>2. cut[g] = g /\ cut[m] = m /\ m \in g..n /\ m \in 0..n /\ g <= m
    BY <1>1, <2>1
  <2>3. Complete(S, cut, m, m)
    <3>1. m # n => cut[m + 1] = m + 1
      BY <2>1, <2>2
    <3> QED BY <1>1, <2>2, <3>1 DEF Complete
  <2>4. PICK f : f = Heard(h, S, Q, cut, nc, m, m)
    OBVIOUS
  <2>5. RecvFrame(s) = f
    BY <1>5, <1>12, <2>4, StreamTurn
  <2>6. RecvFrame(f) = f
    <3>1. Hearing(key, S, Q, cut, nc, enc, h, m, m)
      BY <1>1, <2>2 DEF Hearing
    <3> QED BY <1>12, <2>4, <3>1, StreamTurn
  <2>7. PICK w : w = [t \in Nat |-> IF t = 0 THEN s ELSE f]
    OBVIOUS
  <2>8. w[0] = s
    BY <2>7
  <2>9. \A i \in 1..k : w[i] = RecvFrame(w[i - 1])
    <3> SUFFICES ASSUME NEW i \in 1..k PROVE w[i] = RecvFrame(w[i - 1])
      OBVIOUS
    <3>1. i \in Nat /\ i # 0 /\ i - 1 \in Nat
      OBVIOUS
    <3>2. w[i] = f /\ (w[i - 1] = s \/ w[i - 1] = f)
      BY <2>7, <3>1
    <3> QED BY <2>5, <2>6, <3>2
  <2>10. RecvFrames(s) = w[k]
    BY <1>11, <2>8, <2>9, Turns
  <2>11. z = 1
    BY <1>9, <1>12 DEF Shortest
  <2>12. k = m - g
    BY <1>6, <1>10, <2>2, <2>11
  <2>13. w[k] = f
    <3>1. CASE k = 0
      <4>1. m = g
        BY <1>4, <2>12, <3>1
      <4> QED BY <1>5, <2>4, <2>8, <3>1, <4>1
    <3>2. CASE k # 0
      BY <2>7, <3>2
    <3> QED BY <3>1, <3>2
  <2> QED BY <1>1, <1>5, <2>2, <2>3, <2>4, <2>10, <2>13
<1>13. CASE proto # "stream"
  <2>1. PICK j \in g..Len(S) : Complete(S, cut, m, j)
    BY <1>3, LastComplete
  <2>2. j \in Nat /\ j \in g..n /\ g <= j /\ j <= n /\ j \in 0..n
    BY <1>1, <1>4, <2>1
  <2>3. cut[j] <= m /\ (j # n => cut[j + 1] > m)
    BY <1>1, <2>1 DEF Complete
  <2>4. cut[g] + (j - g) * z <= cut[j]
    <3>1. cut[g] + (j - g) * (HeadLen(p) + 1) <= cut[j]
      BY <1>3, CutsApart
    <3> QED BY <1>8, <1>9, <3>1
  <2>5. PICK d \in Nat : d = j - g
    BY <2>2, <1>4
  <2>6. d <= k
    <3>1. cut[j] \in Nat
      BY <1>1, <1>3, <2>2, HistoryAt
    <3>2. d * z <= a
      <4>1. PICK y \in Nat : y = d * z
        OBVIOUS
      <4>2. cut[g] + y <= cut[j]
        BY <2>4, <2>5, <4>1
      <4> QED BY <1>4, <1>6, <2>3, <3>1, <4>1, <4>2
    <3> QED BY <1>10, <3>2, DivAtLeast
  <2> DEFINE F(i) == Heard(h, S, Q, cut, nc, m, i)
  <2>7. PICK w : w = [t \in Nat |-> IF t <= d THEN F(g + t) ELSE F(j)]
    OBVIOUS
  <2>8. w[0] = s /\ w[k] = F(j)
    <3>1. w[0] = F(g + 0) /\ g + 0 = g
      BY <1>4, <2>7
    <3>2. w[k] = F(j)
      <4>1. k <= d => g + k = j
        BY <1>4, <2>2, <2>5, <2>6
      <4> QED BY <2>7, <4>1
    <3> QED BY <1>5, <3>1, <3>2
  <2>9. RecvFrame(F(j)) = F(j)
    <3>1. Hearing(key, S, Q, cut, nc, enc, h, m, j)
      BY <1>1, <2>2, <2>3 DEF Hearing
    <3>2. j = Len(S) \/ cut[j + 1] > m
      BY <1>1, <2>3
    <3> QED BY <1>13, <3>1, <3>2, TurnHears
  <2>10. ASSUME NEW i \in g..n, i < j PROVE RecvFrame(F(i)) = F(i + 1)
    <3>1. i \in Nat /\ i \in 0..Len(S) /\ i + 1 \in 0..Len(S) /\ j \in i..Len(S) /\ j \in (i + 1)..Len(S)
      BY <1>1, <1>4, <2>2, <2>10
    <3>2. cut[i] <= cut[j] /\ cut[i + 1] <= cut[j]
      <4>1. cut[i] <= cut[j]
        BY <1>3, <3>1, CutsGrow
      <4>2. PICK y \in 0..Len(S) : y = i + 1
        BY <3>1
      <4>3. j \in y..Len(S)
        BY <3>1, <4>2
      <4>4. cut[y] <= cut[j]
        BY <1>3, <4>3, CutsGrow
      <4> QED BY <4>1, <4>2, <4>4
    <3>3. cut[i] \in Nat /\ cut[j] \in Nat
      BY <1>1, <1>3, <2>2, <3>1, HistoryAt
    <3>4. cut[i + 1] \in Nat
      BY <1>3, <3>1, HistoryAt
    <3>5. cut[i] <= m /\ cut[i + 1] <= m
      BY <2>3, <3>2, <3>3, <3>4
    <3>6. Hearing(key, S, Q, cut, nc, enc, h, m, i)
      BY <3>1, <3>5 DEF Hearing
    <3>7. i < Len(S)
      BY <1>1, <2>2, <2>10, <3>1
    <3> QED BY <1>13, <3>5, <3>6, <3>7, TurnHears
  <2> HIDE DEF F
  <2>11. \A i \in 1..k : w[i] = RecvFrame(w[i - 1])
    <3> SUFFICES ASSUME NEW i \in 1..k PROVE w[i] = RecvFrame(w[i - 1])
      OBVIOUS
    <3>1. PICK y \in Nat : y = i - 1 /\ y + 1 = i
      <4>1. i - 1 \in Nat /\ (i - 1) + 1 = i
        OBVIOUS
      <4> QED BY <4>1
    <3>2. CASE i <= d
      <4>1. g + y \in g..n /\ g + y < j /\ (g + y) + 1 = g + i
        BY <1>4, <2>2, <2>5, <3>1, <3>2
      <4>2. RecvFrame(F(g + y)) = F(g + i)
        <5>1. PICK x \in g..n : x = g + y
          BY <4>1
        <5>2. RecvFrame(F(x)) = F(x + 1)
          BY <2>10, <4>1, <5>1
        <5> QED BY <4>1, <5>1, <5>2
      <4>3. w[i] = F(g + i) /\ w[y] = F(g + y)
        BY <2>7, <3>1, <3>2
      <4> QED BY <3>1, <4>2, <4>3
    <3>3. CASE i > d
      <4>1. w[i] = F(j)
        BY <2>7, <3>3
      <4>2. w[y] = F(j)
        <5>1. y <= d => g + y = j
          BY <1>4, <2>2, <2>5, <3>1, <3>3
        <5> QED BY <2>7, <5>1
      <4> QED BY <2>9, <3>1, <4>1, <4>2
    <3> QED BY <3>2, <3>3
  <2>12. RecvFrames(s) = w[k]
    BY <1>11, <2>8, <2>11, Turns
  <2> QED BY <1>5, <2>1, <2>8, <2>12 DEF F
<1> QED BY <1>12, <1>13

-----------------------------------------------------------------------------
(* Bytes that follow each other *)

\* Sequences of bytes are the same if their bytes are.
LEMMA SameBytes ==
  ASSUME NEW x \in Seq(Cells), NEW y \in Seq(Cells), NEW n \in Nat, Len(x) = n, Len(y) = n,
         \A i \in 1..n : x[i] = y[i]
  PROVE  x = y
OBVIOUS

\* The bytes of A, then those of x
LEMMA Appended ==
  ASSUME NEW A \in Seq(Cells), NEW x \in Seq(Cells)
  PROVE  /\ A \o x \in Seq(Cells)
         /\ Len(A \o x) = Len(A) + Len(x)
         /\ \A i \in 1..Len(A) : (A \o x)[i] = A[i]
         /\ \A i \in 1..Len(x) : (A \o x)[Len(A) + i] = x[i]
OBVIOUS

\* B begins with A.
Extends(A, B) == Len(A) <= Len(B) /\ \A i \in 1..Len(A) : B[i] = A[i]

\* What is appended to is extended.
LEMMA AppendExtends == ASSUME NEW A \in Seq(Cells), NEW x \in Seq(Cells) PROVE Extends(A, A \o x)
BY DEF Extends

\* A part of A is that part of what extends A.
LEMMA PartOfExtended ==
  ASSUME NEW A \in Seq(Cells), NEW B \in Seq(Cells), Extends(A, B),
         NEW a \in Nat, NEW b \in Nat, a <= b, b <= Len(A)
  PROVE  Part(B, a, b) = Part(A, a, b)
<1>1. b <= Len(B)
  BY DEF Extends
<1>2. PICK n \in Nat : n = b - a
  OBVIOUS
<1>3. PICK x : x = Part(B, a, b)
  OBVIOUS
<1>4. PICK y : y = Part(A, a, b)
  OBVIOUS
<1>5. x \in Seq(Cells) /\ Len(x) = b - a /\ \A i \in 1..(b - a) : x[i] = B[a + i]
  BY <1>1, <1>3, Parts
<1>6. y \in Seq(Cells) /\ Len(y) = b - a /\ \A i \in 1..(b - a) : y[i] = A[a + i]
  BY <1>4, Parts
<1>7. ASSUME NEW i \in 1..n PROVE x[i] = y[i]
  <2>1. i \in 1..(b - a) /\ a + i \in 1..Len(A)
    BY <1>2
  <2>2. B[a + i] = A[a + i]
    BY <2>1 DEF Extends
  <2> QED BY <1>5, <1>6, <2>1, <2>2
<1>8. x = y
  BY <1>2, <1>5, <1>6, <1>7, SameBytes
<1> QED BY <1>3, <1>4, <1>8

\* Two parts that follow each other
LEMMA JoinParts ==
  ASSUME NEW A \in Seq(Cells), NEW a \in Nat, NEW b \in Nat, NEW c \in Nat,
         a <= b, b <= c, c <= Len(A)
  PROVE  Part(A, a, b) \o Part(A, b, c) = Part(A, a, c)
<1>1. PICK x : x = Part(A, a, b)
  OBVIOUS
<1>2. PICK y : y = Part(A, b, c)
  OBVIOUS
<1>3. PICK z : z = Part(A, a, c)
  OBVIOUS
<1>4. b <= Len(A) /\ a <= c
  OBVIOUS
<1>5. x \in Seq(Cells) /\ Len(x) = b - a /\ \A i \in 1..(b - a) : x[i] = A[a + i]
  BY <1>1, <1>4, Parts
<1>6. y \in Seq(Cells) /\ Len(y) = c - b /\ \A i \in 1..(c - b) : y[i] = A[b + i]
  BY <1>2, Parts
<1>7. z \in Seq(Cells) /\ Len(z) = c - a /\ \A i \in 1..(c - a) : z[i] = A[a + i]
  BY <1>3, <1>4, Parts
<1>8. PICK m \in Nat : m = b - a
  OBVIOUS
<1>9. PICK n \in Nat : n = c - b
  OBVIOUS
<1>10. PICK v : v = x \o y
  OBVIOUS
<1>11. /\ v \in Seq(Cells) /\ Len(v) = Len(x) + Len(y)
       /\ \A i \in 1..Len(x) : v[i] = x[i]
       /\ \A i \in 1..Len(y) : v[Len(x) + i] = y[i]
  BY <1>5, <1>6, <1>10, Appended
<1>12. m + n = c - a /\ Len(v) = m + n /\ Len(z) = m + n /\ Len(x) = m /\ Len(y) = n
  BY <1>5, <1>6, <1>7, <1>8, <1>9, <1>11
<1>13. ASSUME NEW i \in 1..(m + n) PROVE v[i] = z[i]
  <2>1. z[i] = A[a + i]
    BY <1>7, <1>12
  <2>2. CASE i <= m
    <3>1. i \in 1..m
      BY <2>2
    <3>2. v[i] = x[i] /\ x[i] = A[a + i]
      BY <1>5, <1>8, <1>11, <1>12, <3>1
    <3> QED BY <2>1, <3>2
  <2>3. CASE i > m
    <3>1. PICK k \in 1..n : k = i - m /\ i = m + k
      <4>1. i - m \in 1..n /\ i = m + (i - m)
        BY <2>3
      <4> QED BY <4>1
    <3>2. v[m + k] = y[k] /\ y[k] = A[b + k]
      BY <1>6, <1>9, <1>11, <1>12, <3>1
    <3>3. b + k = a + i
      BY <1>8, <3>1
    <3> QED BY <2>1, <3>1, <3>2, <3>3
  <2> QED BY <2>2, <2>3
<1>14. m + n \in Nat
  OBVIOUS
<1>15. v = z
  BY <1>7, <1>11, <1>12, <1>13, <1>14, SameBytes
<1> QED BY <1>1, <1>2, <1>3, <1>10, <1>15

\* A part up to the end, when more is appended
LEMMA PartAppended ==
  ASSUME NEW A \in Seq(Cells), NEW x \in Seq(Cells), NEW a \in Nat, a <= Len(A)
  PROVE  Part(A \o x, a, Len(A \o x)) = Part(A, a, Len(A)) \o x
<1>1. PICK B : B = A \o x
  OBVIOUS
<1>2. PICK l \in Nat : l = Len(A)
  OBVIOUS
<1>3. PICK n \in Nat : n = Len(x)
  OBVIOUS
<1>4. PICK t \in Nat : t = Len(B)
  BY <1>1
<1>5. B \in Seq(Cells) /\ t = l + n /\ (\A i \in 1..n : B[l + i] = x[i]) /\ Extends(A, B)
  BY <1>1, <1>2, <1>3, <1>4, Appended, AppendExtends
<1>6. a <= l /\ l <= t /\ t <= Len(B) /\ l <= Len(A)
  BY <1>2, <1>4, <1>5
<1>7. Part(B, a, l) \o Part(B, l, t) = Part(B, a, t)
  BY <1>5, <1>6, JoinParts
<1>8. Part(B, l, t) = x
  BY <1>3, <1>5, <1>6, SamePart
<1>9. Part(B, a, l) = Part(A, a, l)
  BY <1>5, <1>6, PartOfExtended
<1> QED BY <1>1, <1>2, <1>4, <1>7, <1>8, <1>9

-----------------------------------------------------------------------------
(* The invariant: what one end has sent to the other, and how much of it has *)
(* been heard.  p is the protocol, e the end that hears; so and se are the    *)
(* stages of the sender and of e, po and pe their phases, S the messages sent *)
(* and G the ones heard, W the bytes under way and B those received.          *)

\* The key of what end e receives
KeyTo(e) == IF e = "client" THEN "toClient" ELSE "toServer"

\* How far a handshake is: 2 when established, 1 when the key is received.
Phase(p, h) == IF p # "secure" \/ h.established THEN 2 ELSE IF h.keyReceived THEN 1 ELSE 0

\* The length of a message of the handshake, with its length field
ShakeLen == LenWidth + 2

\* After n bytes of A there is the message <<u, v>> of the handshake.
MsgAt(A, n, u, v) ==
  /\ n + ShakeLen <= Len(A)
  /\ \A i \in 1..LenWidth : A[n + i][1] = Digit(2, i)
  /\ A[n + LenWidth + 1] = u /\ A[n + LenWidth + 2] = v

\* The bytes of the handshake sent so far
Opening(p, so, po) == IF p # "secure" \/ so = "new" THEN 0
                      ELSE IF po = 0 THEN ShakeLen ELSE ShakeLen + ShakeLen

\* The messages of the handshake that e has not taken yet; orx is the nonce with
\* which the sender will decipher.
Opened(p, e, so, po, pe, orx, A) ==
  /\ p = "secure" /\ so # "new" /\ pe = 0 => MsgAt(A, 0, KeyMark, Clear(PublicKey(Other(e))))
  /\ p = "secure" /\ po # 0 /\ pe # 2 => MsgAt(A, ShakeLen, NonceMark, Sealed(orx, PublicKey(e)))

\* e is established only once the sender has received the key of e; nobody sends
\* before it is established.
Phases(p, so, po, pe, S, g) ==
  /\ po \in {0, 1, 2} /\ pe \in {0, 1, 2}
  /\ p # "secure" => po = 2 /\ pe = 2
  /\ p = "secure" /\ so = "new" => po = 0 /\ pe = 0
  /\ pe = 2 => po # 0
  /\ po # 2 => S = <<>>
  /\ pe # 2 => g = 0

\* How much e has taken
Pos(pe, cut, g) == IF pe = 2 THEN cut[g] ELSE IF pe = 1 THEN ShakeLen ELSE 0

\* Of the bytes A sent, e has taken pos, received m, and will receive t.
Received(so, A, pos, W, B, m, t) ==
  /\ m \in Nat /\ t \in Nat /\ pos <= m /\ m <= t /\ t <= Len(A)
  /\ B = Part(A, pos, m) /\ W = Part(A, m, t)
  /\ so # "closed" => t = Len(A)

\* What e has not decoded of the bytes A is in its buffer and on the wire,
\* unless e closed.
UnderWay(so, se, A, pos, W, B) == se # "closed" => \E m, t : Received(so, A, pos, W, B, m, t)

\* The link, with its history
Linked(p, e, so, se, po, pe, rx, tx, orx, S, G, W, B, A, cut, nc, enc, g) ==
  /\ p \in {"stream", "plain", "secure"}
  /\ S \in Seq(Message) /\ A \in Seq(Cells) /\ W \in Seq(Cells) /\ B \in Seq(Cells)
  /\ g \in 0..Len(S) /\ G = SubSeq(S, 1, g)
  /\ History(p, KeyTo(e), S, A, cut, nc, enc)
  /\ cut[0] = Opening(p, so, po)
  /\ Opened(p, e, so, po, pe, orx, A)
  /\ Phases(p, so, po, pe, S, g)
  /\ pe # 0 => nc[g] = rx
  /\ po = 2 => nc[Len(S)] = tx
  /\ UnderWay(so, se, A, Pos(pe, cut, g), W, B)

\* The state of one direction is that of some history of it.
Link(p, e, so, se, po, pe, rx, tx, orx, S, G, W, B) ==
  \E A, cut, nc, enc, g : Linked(p, e, so, se, po, pe, rx, tx, orx, S, G, W, B, A, cut, nc, enc, g)

\* At the start nothing was sent.
LEMMA LinkInit ==
  ASSUME NEW p \in {"stream", "plain", "secure"}, NEW e, NEW ph,
         ph = IF p = "secure" THEN 0 ELSE 2
  PROVE  Link(p, e, "new", "new", ph, ph, 0, 0, 0, <<>>, <<>>, <<>>, <<>>)
<1> DEFINE cut == [i \in 0..0 |-> 0]
           enc == [i \in 1..0 |-> 0]
<1>1. <<>> \in Seq(Message) /\ <<>> \in Seq(Cells) /\ Len(<<>>) = 0 /\ SubSeq(<<>>, 1, 0) = <<>>
  OBVIOUS
<1>2. History(p, KeyTo(e), <<>>, <<>>, cut, cut, enc)
  BY <1>1, Widths DEF History
<1>3. Part(<<>>, 0, 0) = <<>>
  BY DEF Part
<1>4. Pos(ph, cut, 0) = 0
  BY DEF Pos
<1>5. Received("new", <<>>, 0, <<>>, <<>>, 0, 0)
  BY <1>1, <1>3 DEF Received
<1>6. UnderWay("new", "new", <<>>, Pos(ph, cut, 0), <<>>, <<>>)
  BY <1>4, <1>5 DEF UnderWay
<1>7. Opened(p, e, "new", ph, ph, 0, <<>>) /\ Phases(p, "new", ph, ph, <<>>, 0)
  BY DEF Opened, Phases
<1>8. cut[0] = Opening(p, "new", ph)
  BY DEF Opening
<1>9. cut[0] = 0
  OBVIOUS
<1> HIDE DEF cut, enc
<1>10. Linked(p, e, "new", "new", ph, ph, 0, 0, 0, <<>>, <<>>, <<>>, <<>>, <<>>, cut, cut, enc, 0)
  BY <1>1, <1>2, <1>6, <1>7, <1>8, <1>9 DEF Linked
<1> QED BY <1>10 DEF Link

\* The hearing end is started.
LEMMA LinkStarted ==
  ASSUME NEW p, NEW e, NEW so, NEW se, se # "closed", NEW po, NEW pe, NEW rx, NEW tx, NEW orx, NEW S, NEW G, NEW W, NEW B,
         Link(p, e, so, se, po, pe, rx, tx, orx, S, G, W, B)
  PROVE  Link(p, e, so, "open", po, pe, rx, tx, orx, S, G, W, B)
<1>1. PICK A, cut, nc, enc, g : Linked(p, e, so, se, po, pe, rx, tx, orx, S, G, W, B, A, cut, nc, enc, g)
  BY Zenon DEF Link
<1>2. Linked(p, e, so, "open", po, pe, rx, tx, orx, S, G, W, B, A, cut, nc, enc, g)
  BY <1>1 DEF Linked, UnderWay
<1> QED BY <1>2 DEF Link

\* The hearing end is closed, with nothing more under way to it.
LEMMA LinkHearerClosed ==
  ASSUME NEW p, NEW e, NEW so, NEW se, NEW po, NEW pe, NEW rx, NEW tx, NEW orx, NEW S, NEW G, NEW W, NEW B,
         Link(p, e, so, se, po, pe, rx, tx, orx, S, G, W, B)
  PROVE  Link(p, e, so, "closed", po, pe, rx, tx, orx, S, G, <<>>, B)
<1>1. PICK A, cut, nc, enc, g : Linked(p, e, so, se, po, pe, rx, tx, orx, S, G, W, B, A, cut, nc, enc, g)
  BY Zenon DEF Link
<1>2. <<>> \in Seq(Cells)
  OBVIOUS
<1>3. Linked(p, e, so, "closed", po, pe, rx, tx, orx, S, G, <<>>, B, A, cut, nc, enc, g)
  BY <1>1, <1>2 DEF Linked, UnderWay
<1> QED BY <1>3 DEF Link

\* What e has taken is a number of bytes.
LEMMA PosIsNat ==
  ASSUME NEW p, NEW e, NEW so, NEW se, NEW po, NEW pe, NEW rx, NEW tx, NEW orx, NEW S, NEW G, NEW W, NEW B,
         NEW A, NEW cut, NEW nc, NEW enc, NEW g,
         Linked(p, e, so, se, po, pe, rx, tx, orx, S, G, W, B, A, cut, nc, enc, g)
  PROVE  Pos(pe, cut, g) \in Nat
<1>1. S \in Seq(Message) /\ A \in Seq(Cells) /\ g \in 0..Len(S) /\ History(p, KeyTo(e), S, A, cut, nc, enc)
  BY DEF Linked
<1>2. cut[g] \in Nat
  BY <1>1, HistoryAt
<1>3. ShakeLen \in Nat
  BY Widths DEF ShakeLen
<1> QED BY <1>2, <1>3 DEF Pos

\* n bytes arrive.
LEMMA ReceivedMoves ==
  ASSUME NEW so, NEW A \in Seq(Cells), NEW pos \in Nat, NEW W \in Seq(Cells), NEW B \in Seq(Cells), NEW m, NEW t,
         Received(so, A, pos, W, B, m, t), NEW n \in Nat, n <= Len(W)
  PROVE  /\ Received(so, A, pos, SubSeq(W, n + 1, Len(W)), B \o SubSeq(W, 1, n), m + n, t)
         /\ SubSeq(W, n + 1, Len(W)) \in Seq(Cells) /\ B \o SubSeq(W, 1, n) \in Seq(Cells)
<1>1. /\ m \in Nat /\ t \in Nat /\ pos <= m /\ m <= t /\ t <= Len(A)
      /\ B = Part(A, pos, m) /\ W = Part(A, m, t)
      /\ so # "closed" => t = Len(A)
  BY DEF Received
<1>2. Len(W) = t - m
  BY <1>1, Parts
<1>3. PICK k \in Nat : k = m + n
  BY <1>1
<1>4. pos <= k /\ k <= t /\ m <= k /\ k <= Len(A)
  BY <1>1, <1>2, <1>3
<1>5. SubSeq(W, 1, n) = Part(A, m, k)
  <2>1. 0 <= n /\ n <= t - m
    BY <1>2
  <2>2. Part(Part(A, m, t), 0, n) = Part(A, m + 0, m + n)
    BY <1>1, <2>1, PartOfPart
  <2>3. m + 0 = m
    BY <1>1
  <2> QED BY <1>1, <1>3, <2>2, <2>3 DEF Part
<1>6. SubSeq(W, n + 1, Len(W)) = Part(A, k, t)
  <2>1. PICK l \in Nat : l = t - m
    BY <1>1
  <2>2. n <= l /\ l <= t - m /\ m + l = t /\ Len(W) = l
    BY <1>1, <1>2, <2>1
  <2>3. Part(Part(A, m, t), n, l) = Part(A, m + n, m + l)
    BY <1>1, <2>2, PartOfPart
  <2> QED BY <1>1, <1>3, <2>2, <2>3 DEF Part
<1>7. B \o SubSeq(W, 1, n) = Part(A, pos, k)
  <2>0. m \in Nat /\ pos <= m /\ m <= k /\ k <= Len(A)
    BY <1>1, <1>4
  <2>1. Part(A, pos, m) \o Part(A, m, k) = Part(A, pos, k)
    BY <2>0, JoinParts
  <2> QED BY <1>1, <1>5, <2>1
<1>8. Part(A, pos, k) \in Seq(Cells) /\ Part(A, k, t) \in Seq(Cells)
  BY <1>1, <1>4, Parts
<1>9. Received(so, A, pos, Part(A, k, t), Part(A, pos, k), k, t)
  BY <1>1, <1>4 DEF Received
<1> QED BY <1>3, <1>6, <1>7, <1>8, <1>9

\* A segment moves from the wire to the buffer: the history is the same.
LEMMA LinkMoves ==
  ASSUME NEW p, NEW e, NEW so, NEW se, NEW po, NEW pe, NEW rx, NEW tx, NEW orx, NEW S, NEW G, NEW W, NEW B,
         Link(p, e, so, se, po, pe, rx, tx, orx, S, G, W, B), se # "closed", NEW n \in Nat, n <= Len(W)
  PROVE  Link(p, e, so, se, po, pe, rx, tx, orx, S, G, SubSeq(W, n + 1, Len(W)), B \o SubSeq(W, 1, n))
<1>1. PICK A, cut, nc, enc, g : Linked(p, e, so, se, po, pe, rx, tx, orx, S, G, W, B, A, cut, nc, enc, g)
  BY Zenon DEF Link
<1>2. PICK pos \in Nat : pos = Pos(pe, cut, g)
  BY <1>1, PosIsNat
<1>3. A \in Seq(Cells) /\ W \in Seq(Cells) /\ B \in Seq(Cells) /\ UnderWay(so, se, A, pos, W, B)
  BY <1>1, <1>2 DEF Linked
<1>4. PICK m, t : Received(so, A, pos, W, B, m, t)
  BY <1>3 DEF UnderWay
<1>5. PICK W2 : W2 = SubSeq(W, n + 1, Len(W))
  OBVIOUS
<1>6. PICK B2 : B2 = B \o SubSeq(W, 1, n)
  OBVIOUS
<1>7. Received(so, A, pos, W2, B2, m + n, t) /\ W2 \in Seq(Cells) /\ B2 \in Seq(Cells)
  BY <1>3, <1>4, <1>5, <1>6, ReceivedMoves
<1>8. UnderWay(so, se, A, pos, W2, B2)
  BY <1>7 DEF UnderWay
<1>9. Linked(p, e, so, se, po, pe, rx, tx, orx, S, G, W2, B2, A, cut, nc, enc, g)
  BY <1>1, <1>2, <1>7, <1>8 DEF Linked
<1> QED BY <1>5, <1>6, <1>9 DEF Link

\* The sending end is closed; k of the bytes under way still arrive.
LEMMA LinkSenderClosed ==
  ASSUME NEW p, NEW e, NEW so, NEW se, NEW po, NEW pe, NEW rx, NEW tx, NEW orx, NEW S, NEW G, NEW W, NEW B,
         Link(p, e, so, se, po, pe, rx, tx, orx, S, G, W, B), so # "new", NEW k \in Nat, k <= Len(W)
  PROVE  Link(p, e, "closed", se, po, pe, rx, tx, orx, S, G, SubSeq(W, 1, k), B)
<1>1. PICK A, cut, nc, enc, g : Linked(p, e, so, se, po, pe, rx, tx, orx, S, G, W, B, A, cut, nc, enc, g)
  BY Zenon DEF Link
<1>2. PICK pos \in Nat : pos = Pos(pe, cut, g)
  BY <1>1, PosIsNat
<1>3. A \in Seq(Cells) /\ W \in Seq(Cells) /\ B \in Seq(Cells) /\ UnderWay(so, se, A, pos, W, B)
  BY <1>1, <1>2 DEF Linked
<1>4. PICK W2 : W2 = SubSeq(W, 1, k)
  OBVIOUS
<1>5. W2 \in Seq(Cells)
  BY <1>3, <1>4
<1>6. UnderWay("closed", se, A, pos, W2, B)
  <2> SUFFICES ASSUME se # "closed" PROVE \E m, t : Received("closed", A, pos, W2, B, m, t)
    BY DEF UnderWay
  <2>1. PICK m, t : Received(so, A, pos, W, B, m, t)
    BY <1>3 DEF UnderWay
  <2>2. /\ m \in Nat /\ t \in Nat /\ pos <= m /\ m <= t /\ t <= Len(A)
        /\ B = Part(A, pos, m) /\ W = Part(A, m, t)
    BY <2>1 DEF Received
  <2>3. Len(W) = t - m
    BY <1>3, <2>2, Parts
  <2>4. 0 <= k /\ k <= t - m
    BY <2>3
  <2>5. Part(Part(A, m, t), 0, k) = Part(A, m + 0, m + k)
    BY <1>3, <2>2, <2>4, PartOfPart
  <2>6. PICK u \in Nat : u = m + k
    BY <2>2
  <2>7. m + 0 = m /\ m <= u /\ u <= Len(A)
    BY <2>2, <2>4, <2>6
  <2>8. W2 = Part(A, m, u)
    BY <1>4, <2>2, <2>5, <2>6, <2>7 DEF Part
  <2>9. Received("closed", A, pos, W2, B, m, u)
    BY <2>2, <2>7, <2>8 DEF Received
  <2> QED BY <2>9
<1>7. Opening(p, "closed", po) = Opening(p, so, po)
  BY DEF Opening
<1>8. Opened(p, e, "closed", po, pe, orx, A) /\ Phases(p, "closed", po, pe, S, g)
  BY <1>1 DEF Linked, Opened, Phases
<1>9. Linked(p, e, "closed", se, po, pe, rx, tx, orx, S, G, W2, B, A, cut, nc, enc, g)
  BY <1>1, <1>2, <1>5, <1>6, <1>7, <1>8 DEF Linked
<1> QED BY <1>4, <1>9 DEF Link

\* The nonce of the sender moves once e no longer waits for it.
LEMMA LinkNonceMoved ==
  ASSUME NEW p, NEW e, NEW so, NEW se, NEW po, NEW pe, NEW rx, NEW tx, NEW orx, NEW S, NEW G, NEW W, NEW B,
         Link(p, e, so, se, po, pe, rx, tx, orx, S, G, W, B), NEW orx2, orx2 = orx \/ pe = 2
  PROVE  Link(p, e, so, se, po, pe, rx, tx, orx2, S, G, W, B)
<1>1. PICK A, cut, nc, enc, g : Linked(p, e, so, se, po, pe, rx, tx, orx, S, G, W, B, A, cut, nc, enc, g)
  BY Zenon DEF Link
<1>2. Opened(p, e, so, po, pe, orx2, A)
  BY <1>1 DEF Linked, Opened
<1>3. Linked(p, e, so, se, po, pe, rx, tx, orx2, S, G, W, B, A, cut, nc, enc, g)
  BY <1>1, <1>2 DEF Linked
<1> QED BY <1>3 DEF Link

\* An established end takes the frames that are whole: all of them if all bytes
\* have arrived.
LEMMA LinkHears ==
  ASSUME NEW e, NEW so, NEW se, NEW po, NEW rx, NEW tx, NEW orx, NEW S, NEW G, NEW W, NEW B,
         Link(proto, e, so, se, po, 2, rx, tx, orx, S, G, W, B), se # "closed",
         NEW h \in HandshakeStates, h.rxNonce = rx, proto = "secure" => h.rxKey = KeyTo(e)
  PROVE  \E rx2, j, B2 :
           /\ RecvFrames(Reader(B, h, G)) = Reader(B2, WithNonce(h, rx2), SubSeq(S, 1, j))
           /\ j \in Len(G)..Len(S) /\ rx2 \in 0..(Nonces - 1) /\ (S = <<>> => rx2 = rx)
           /\ Link(proto, e, so, se, po, 2, rx2, tx, orx, S, SubSeq(S, 1, j), W, B2)
           /\ W = <<>> /\ so # "closed" => j = Len(S) /\ B2 = <<>>
<1>0. PICK p : p = proto
  OBVIOUS
<1>1. PICK A, cut, nc, enc, g : Linked(p, e, so, se, po, 2, rx, tx, orx, S, G, W, B, A, cut, nc, enc, g)
  BY <1>0, Zenon DEF Link
<1>2. /\ p \in {"stream", "plain", "secure"}
      /\ S \in Seq(Message) /\ A \in Seq(Cells) /\ W \in Seq(Cells) /\ B \in Seq(Cells)
      /\ g \in 0..Len(S) /\ G = SubSeq(S, 1, g)
      /\ History(p, KeyTo(e), S, A, cut, nc, enc)
      /\ cut[0] = Opening(p, so, po)
      /\ nc[g] = rx
      /\ UnderWay(so, se, A, Pos(2, cut, g), W, B)
  BY <1>1 DEF Linked
<1>3. Pos(2, cut, g) = cut[g] /\ cut[g] \in Nat /\ g \in Nat
  BY <1>2, HistoryAt DEF Pos
<1>4. PICK m, t : Received(so, A, cut[g], W, B, m, t)
  BY <1>2, <1>3 DEF UnderWay
<1>5. /\ m \in Nat /\ t \in Nat /\ cut[g] <= m /\ m <= t /\ t <= Len(A)
      /\ B = Part(A, cut[g], m) /\ W = Part(A, m, t)
      /\ so # "closed" => t = Len(A)
  BY <1>4 DEF Received
<1>6. h = WithNonce(h, nc[g])
  BY <1>2 DEF WithNonce, HandshakeStates
<1>7. Reader(B, h, G) = Heard(h, S, A, cut, nc, m, g)
  BY <1>2, <1>5, <1>6 DEF Heard
<1>8. m <= Len(A)
  BY <1>2, <1>5
<1>9. Hearing(KeyTo(e), S, A, cut, nc, enc, h, m, g)
  <2>1. KeyTo(e) # "none"
    BY DEF KeyTo
  <2>2. p = "stream" => cut[0] = 0
    BY <1>2 DEF Opening
  <2> QED BY <1>0, <1>2, <1>5, <1>8, <2>1, <2>2 DEF Hearing
<1>10. PICK j \in g..Len(S) : /\ Complete(S, cut, m, j)
                              /\ RecvFrames(Heard(h, S, A, cut, nc, m, g)) = Heard(h, S, A, cut, nc, m, j)
  BY <1>9, Hears
<1>11. j \in 0..Len(S) /\ j \in Nat
  BY <1>3
<1>12. cut[j] \in Nat /\ nc[j] \in 0..(Nonces - 1) /\ cut[j] <= m /\ (j # Len(S) => cut[j + 1] > m)
  BY <1>2, <1>10, <1>11, HistoryAt DEF Complete
<1>13. PICK rx2 : rx2 = nc[j]
  OBVIOUS
<1>14. PICK B2 : B2 = Part(A, cut[j], m)
  OBVIOUS
<1>15. RecvFrames(Reader(B, h, G)) = Reader(B2, WithNonce(h, rx2), SubSeq(S, 1, j))
  BY <1>7, <1>10, <1>13, <1>14 DEF Heard
<1>16. Len(G) = g
  BY <1>2, <1>3
<1>17. S = <<>> => rx2 = rx
  <2>1. S = <<>> => j = 0 /\ g = 0
    BY <1>2, <1>11
  <2> QED BY <1>2, <1>13, <2>1
<1>18. B2 \in Seq(Cells)
  <2>1. PICK c \in Nat : c = cut[j]
    BY <1>12
  <2>2. A \in Seq(Cells) /\ m \in Nat /\ c <= m
    BY <1>2, <1>5, <1>12, <2>1
  <2>3. Part(A, c, m) \in Seq(Cells)
    BY <1>8, <2>2, Parts
  <2> QED BY <1>14, <2>1, <2>3
<1>19. Link(p, e, so, se, po, 2, rx2, tx, orx, S, SubSeq(S, 1, j), W, B2)
  <2>1. Received(so, A, cut[j], W, B2, m, t)
    BY <1>5, <1>12, <1>14 DEF Received
  <2>2. UnderWay(so, se, A, Pos(2, cut, j), W, B2)
    BY <2>1 DEF UnderWay, Pos
  <2>3. Phases(p, so, po, 2, S, j)
    BY <1>1 DEF Linked, Phases
  <2>4. PICK G2 : G2 = SubSeq(S, 1, j)
    OBVIOUS
  <2>5. Linked(p, e, so, se, po, 2, rx2, tx, orx, S, G2, W, B2, A, cut, nc, enc, j)
    BY <1>1, <1>11, <1>13, <1>18, <2>2, <2>3, <2>4 DEF Linked
  <2> QED BY <2>4, <2>5 DEF Link
<1>20. ASSUME W = <<>>, so # "closed" PROVE j = Len(S) /\ B2 = <<>>
  <2>1. m = Len(A)
    <3>1. Len(W) = t - m
      BY <1>2, <1>5, Parts
    <3>2. Len(W) = 0
      BY <1>20
    <3> QED BY <1>5, <1>20, <3>1, <3>2
  <2>2. j = Len(S)
    <3> SUFFICES ASSUME j # Len(S) PROVE FALSE
      OBVIOUS
    <3>1. PICK i \in 0..Len(S) : i = j + 1
      BY <1>2, <1>11
    <3>2. cut[i] \in Nat /\ cut[i] <= Len(A)
      BY <1>2, HistoryAt
    <3> QED BY <1>5, <1>12, <2>1, <3>1, <3>2
  <2>3. cut[j] = Len(A)
    BY <1>2, <2>2 DEF History
  <2>4. Part(A, m, m) = <<>>
    BY <1>5 DEF Part
  <2> QED BY <1>14, <2>1, <2>2, <2>3, <2>4
<1> QED BY <1>0, <1>10, <1>12, <1>13, <1>15, <1>16, <1>17, <1>19, <1>20

\* length_delimited::decode() of a message of the handshake
LEMMA ShakeDecoded ==
  ASSUME NEW A \in Seq(Cells), NEW pos \in Nat, NEW m \in Nat, pos <= m, m <= Len(A),
         NEW u, NEW v, MsgAt(A, pos, u, v)
  PROVE  /\ m >= pos + ShakeLen => LengthDecode(Part(A, pos, m)) = <<u, v>>
         /\ m < pos + ShakeLen => LengthDecode(Part(A, pos, m)) = <<>>
<1>1. PICK B : B = Part(A, pos, m)
  OBVIOUS
<1>2. PICK n \in Nat : n = m - pos
  OBVIOUS
<1>3. B \in Seq(Cells) /\ Len(B) = n /\ \A i \in 1..n : B[i] = A[pos + i]
  <2>1. B \in Seq(Cells) /\ Len(B) = m - pos /\ \A i \in 1..(m - pos) : B[i] = A[pos + i]
    BY <1>1, Parts
  <2> QED BY <1>2, <2>1
<1>4. \A i \in 1..LenWidth : i <= Len(B) => B[i][1] = Digit(2, i)
  <2> SUFFICES ASSUME NEW i \in 1..LenWidth, i <= Len(B) PROVE B[i][1] = Digit(2, i)
    OBVIOUS
  <2>1. i \in 1..n
    BY <1>3, Widths
  <2>2. A[pos + i][1] = Digit(2, i)
    BY DEF MsgAt
  <2> QED BY <1>3, <2>1, <2>2
<1>5. 2 < Weight[LenWidth]
  BY Widths
<1>6. /\ Len(B) >= LenWidth + 2 => LengthDecode(B) = Part(B, LenWidth, LenWidth + 2)
      /\ Len(B) < LenWidth + 2 => LengthDecode(B) = <<>>
  BY <1>3, <1>4, <1>5, LengthDecoded
<1>7. CASE n < LenWidth + 2
  BY <1>1, <1>2, <1>3, <1>6, <1>7, Widths DEF ShakeLen
<1>8. CASE n >= LenWidth + 2
  <2>1. PICK x \in Nat : x = LenWidth
    BY Widths
  <2>2. PICK y \in Nat : y = x + 2
    OBVIOUS
  <2>3. LengthDecode(B) = Part(B, x, y)
    BY <1>3, <1>6, <1>8, <2>1, <2>2
  <2>4. x <= y /\ y <= Len(B) /\ y - x = 2 /\ x + 1 \in 1..n /\ x + 2 \in 1..n
    BY <1>3, <1>8, <2>1, <2>2
  <2>5. PICK P : P = Part(B, x, y)
    OBVIOUS
  <2>6. P \in Seq(Cells) /\ Len(P) = 2 /\ P[1] = B[x + 1] /\ P[2] = B[x + 2]
    <3>0. B \in Seq(Cells) /\ x <= y /\ y <= Len(B)
      BY <1>3, <2>4
    <3>1. P \in Seq(Cells) /\ Len(P) = y - x /\ \A i \in 1..(y - x) : P[i] = B[x + i]
      BY <3>0, <2>5, Parts
    <3>2. 1 \in 1..(y - x) /\ 2 \in 1..(y - x)
      BY <2>4
    <3> QED BY <2>4, <3>1, <3>2
  <2>7. B[x + 1] = u /\ B[x + 2] = v
    <3>1. pos + (x + 1) = pos + LenWidth + 1 /\ pos + (x + 2) = pos + LenWidth + 2
      BY <2>1
    <3> QED BY <1>3, <2>4, <3>1 DEF MsgAt
  <2>8. P = <<u, v>>
    BY <2>6, <2>7
  <2>9. m >= pos + ShakeLen
    BY <1>2, <1>8, Widths DEF ShakeLen
  <2> QED BY <1>1, <2>3, <2>5, <2>8, <2>9, Widths DEF ShakeLen
<1> QED BY <1>2, <1>7, <1>8, Widths

\* What is appended begins with a message of the handshake where it begins with one.
LEMMA MsgAppended ==
  ASSUME NEW A \in Seq(Cells), NEW x \in Seq(Cells), NEW n \in Nat, NEW u, NEW v, MsgAt(A, n, u, v)
  PROVE  MsgAt(A \o x, n, u, v)
<1>1. PICK B : B = A \o x
  OBVIOUS
<1>2. PICK l \in Nat : l = Len(A)
  OBVIOUS
<1>3. Len(B) \in Nat /\ l <= Len(B) /\ \A i \in 1..l : B[i] = A[i]
  BY <1>1, <1>2
<1>4. PICK w \in Nat : w = LenWidth
  BY Widths
<1>5. /\ n + (w + 2) <= l
      /\ \A i \in 1..w : A[n + i][1] = Digit(2, i)
      /\ A[n + w + 1] = u /\ A[n + w + 2] = v
  BY <1>2, <1>4 DEF MsgAt, ShakeLen
<1>6. \A i \in 1..w : n + i \in 1..l
  BY <1>5
<1>7. n + w + 1 \in 1..l /\ n + w + 2 \in 1..l
  BY <1>5
<1>8. /\ \A i \in 1..w : B[n + i][1] = Digit(2, i)
      /\ B[n + w + 1] = u /\ B[n + w + 2] = v
  BY <1>3, <1>5, <1>6, <1>7
<1>9. n + (w + 2) <= Len(B)
  BY <1>3, <1>5
<1> QED BY <1>1, <1>4, <1>8, <1>9 DEF MsgAt, ShakeLen

\* A message of the handshake, length field and all
LEMMA MsgSent ==
  ASSUME NEW A \in Seq(Cells), NEW u \in Cells, NEW v \in Cells
  PROVE  /\ LengthEncode(<<u, v>>) \in Seq(Cells) /\ Len(LengthEncode(<<u, v>>)) = ShakeLen
         /\ MsgAt(A \o LengthEncode(<<u, v>>), Len(A), u, v)
<1>1. PICK s : s = Serialize(2, LenWidth)
  OBVIOUS
<1>2. PICK w \in Nat : w = LenWidth
  BY Widths
<1>3. /\ s \in Seq(ClearCell) /\ Len(s) = w
      /\ \A i \in 1..w : s[i] = Clear(Digit(2, i))
  BY <1>1, <1>2, Serialized DEF ClearCell
<1>4. s \in Seq(Cells)
  BY <1>3, ClearIsCell
<1>5. PICK q \in Seq(Cells) : q = <<u, v>>
  <2>1. <<u, v>> \in Seq(Cells)
    OBVIOUS
  <2> QED BY <2>1
<1>6. PICK x : x = s \o q
  OBVIOUS
<1>7. LengthEncode(<<u, v>>) = x
  <2>1. Len(<<u, v>>) = 2
    OBVIOUS
  <2> QED BY <1>1, <1>5, <1>6, <2>1 DEF LengthEncode
<1>8. Len(q) = 2 /\ q[1] = u /\ q[2] = v
  BY <1>5
<1>9. /\ x \in Seq(Cells) /\ Len(x) = w + 2
      /\ (\A i \in 1..w : x[i] = s[i]) /\ x[w + 1] = u /\ x[w + 2] = v
  <2>1. /\ x \in Seq(Cells) /\ Len(x) = Len(s) + Len(q)
        /\ (\A i \in 1..Len(s) : x[i] = s[i]) /\ \A i \in 1..Len(q) : x[Len(s) + i] = q[i]
    BY <1>4, <1>6, Appended
  <2> QED BY <1>3, <1>8, <2>1
<1>10. PICK l \in Nat : l = Len(A)
  OBVIOUS
<1>11. PICK B : B = A \o x
  OBVIOUS
<1>12. /\ Len(B) = l + (w + 2) /\ \A i \in 1..(w + 2) : B[l + i] = x[i]
  <2>1. /\ Len(B) = Len(A) + Len(x) /\ \A i \in 1..Len(x) : B[Len(A) + i] = x[i]
    BY <1>9, <1>11, Appended
  <2> QED BY <1>9, <1>10, <2>1
<1>13. \A i \in 1..w : B[l + i][1] = Digit(2, i)
  <2> SUFFICES ASSUME NEW i \in 1..w PROVE B[l + i][1] = Digit(2, i)
    OBVIOUS
  <2>1. i \in 1..(w + 2)
    OBVIOUS
  <2>2. B[l + i] = Clear(Digit(2, i))
    BY <1>3, <1>9, <1>12, <2>1
  <2> QED BY <2>2 DEF Clear
<1>14. B[l + w + 1] = u /\ B[l + w + 2] = v
  <2>1. /\ w + 1 \in 1..(w + 2) /\ w + 2 \in 1..(w + 2)
        /\ l + (w + 1) = l + w + 1 /\ l + (w + 2) = l + w + 2
    OBVIOUS
  <2> QED BY <1>9, <1>12, <2>1
<1>15. MsgAt(B, l, u, v)
  <2>1. l + (w + 2) <= Len(B)
    BY <1>12
  <2> QED BY <1>2, <1>13, <1>14, <2>1 DEF MsgAt, ShakeLen
<1> QED BY <1>2, <1>7, <1>9, <1>10, <1>11, <1>15 DEF ShakeLen

\* The bytes of the handshake are bytes.
LEMMA ShakeCells ==
  /\ KeyMark \in Cells /\ NonceMark \in Cells
  /\ \A e : Clear(PublicKey(e)) \in Cells
  /\ \A e : \A n \in 0..(Nonces - 1) : Sealed(n, PublicKey(e)) \in Cells
BY Widths DEF KeyMark, NonceMark, Clear, PublicKey, Sealed, Cells

\* More is sent.
LEMMA UnderWayAppends ==
  ASSUME NEW so, NEW se, NEW A \in Seq(Cells), NEW pos \in Nat, NEW W, NEW B,
         UnderWay(so, se, A, pos, W, B), so # "closed", NEW x \in Seq(Cells), NEW so2
  PROVE  UnderWay(so2, se, A \o x, pos, W \o x, B)
<1> SUFFICES ASSUME se # "closed" PROVE \E m, t : Received(so2, A \o x, pos, W \o x, B, m, t)
  BY DEF UnderWay
<1>1. PICK m, t : Received(so, A, pos, W, B, m, t)
  BY DEF UnderWay
<1>2. /\ m \in Nat /\ t \in Nat /\ pos <= m /\ m <= t /\ t = Len(A)
      /\ B = Part(A, pos, m) /\ W = Part(A, m, t)
  BY <1>1 DEF Received
<1>3. PICK A2 : A2 = A \o x
  OBVIOUS
<1>4. A2 \in Seq(Cells) /\ Extends(A, A2) /\ Len(A2) \in Nat /\ Len(A) <= Len(A2)
  BY <1>3, Appended, AppendExtends DEF Extends
<1>5. m <= Len(A)
  BY <1>2
<1>6. Part(A2, m, Len(A2)) = Part(A, m, Len(A)) \o x
  BY <1>2, <1>3, <1>5, PartAppended
<1>7. Part(A2, pos, m) = Part(A, pos, m)
  BY <1>2, <1>4, <1>5, PartOfExtended
<1>8. Received(so2, A2, pos, W \o x, B, m, Len(A2))
  BY <1>2, <1>4, <1>5, <1>6, <1>7 DEF Received
<1> QED BY <1>3, <1>8

\* Nothing was sent after the bytes A of the handshake.
NoneSent(p, key, A, c) ==
  \E cut, nc, enc : History(p, key, <<>>, A, cut, nc, enc) /\ cut[0] = Len(A) /\ nc[0] = c

\* There is a history of nothing.
LEMMA EmptyHistory ==
  ASSUME NEW p, NEW key, NEW A \in Seq(Cells), NEW c \in 0..(Nonces - 1)
  PROVE  NoneSent(p, key, A, c)
<1> DEFINE cut == [i \in 0..0 |-> Len(A)]
           nc == [i \in 0..0 |-> c]
           enc == [i \in 1..0 |-> 0]
<1>1. Len(<<>>) = 0 /\ cut[0] = Len(A) /\ nc[0] = c
  OBVIOUS
<1>2. cut \in [0..0 -> Nat] /\ nc \in [0..0 -> 0..(Nonces - 1)] /\ enc \in [1..0 -> {0, 1}]
  OBVIOUS
<1> HIDE DEF cut, nc, enc
<1>3. History(p, key, <<>>, A, cut, nc, enc)
  BY <1>1, <1>2 DEF History
<1> QED BY <1>1, <1>3 DEF NoneSent

\* The first 0 of no messages
LEMMA NoneHeard == SubSeq(<<>>, 1, 0) = <<>> /\ Len(<<>>) = 0
OBVIOUS

\* A link over which no message was sent yet
LEMMA LinkOfNone ==
  ASSUME NEW p, NEW e, NEW so, NEW se, NEW po, NEW pe, NEW rx, NEW tx, NEW orx, NEW G, NEW W, NEW B,
         NEW A, NEW cut, NEW nc, NEW enc, NEW g,
         Linked(p, e, so, se, po, pe, rx, tx, orx, <<>>, G, W, B, A, cut, nc, enc, g)
  PROVE  /\ p \in {"stream", "plain", "secure"} /\ A \in Seq(Cells) /\ W \in Seq(Cells) /\ B \in Seq(Cells)
         /\ g = 0 /\ G = <<>> /\ Len(A) = Opening(p, so, po)
         /\ nc[0] \in 0..(Nonces - 1) /\ (pe # 0 => nc[0] = rx) /\ cut[0] = Len(A)
<1>1. /\ p \in {"stream", "plain", "secure"} /\ A \in Seq(Cells) /\ W \in Seq(Cells) /\ B \in Seq(Cells)
      /\ g \in 0..Len(<<>>) /\ G = SubSeq(<<>>, 1, g)
      /\ History(p, KeyTo(e), <<>>, A, cut, nc, enc)
      /\ cut[0] = Opening(p, so, po)
      /\ pe # 0 => nc[g] = rx
  BY DEF Linked
<1>2. g = 0
  BY <1>1, NoneHeard
<1>3. nc \in [0..Len(<<>>) -> 0..(Nonces - 1)] /\ cut[Len(<<>>)] = Len(A)
  BY <1>1, Zenon DEF History
<1> QED BY <1>1, <1>2, <1>3, NoneHeard

\* A message of the handshake is longer than its two bytes.
LEMMA ShakeLenIs == ShakeLen \in Nat /\ ShakeLen > 2
BY Widths DEF ShakeLen

\* The sender starts and greets.
LEMMA LinkGreets ==
  ASSUME NEW p, NEW e, NEW se, NEW po, NEW pe, NEW rx, NEW tx, NEW orx, NEW S, NEW G, NEW W, NEW B,
         Link(p, e, "new", se, po, pe, rx, tx, orx, S, G, W, B),
         NEW x, x = IF p = "secure" THEN LengthEncode(SyncKey(Other(e))) ELSE <<>>
  PROVE  Link(p, e, "open", se, po, pe, rx, tx, orx, S, G, W \o x, B)
<1>1. PICK A, cut, nc, enc, g : Linked(p, e, "new", se, po, pe, rx, tx, orx, S, G, W, B, A, cut, nc, enc, g)
  BY Zenon DEF Link
<1>2. CASE p # "secure"
  <2>1. W \o x = W
    BY <1>1, <1>2 DEF Linked
  <2>2. Opening(p, "open", po) = Opening(p, "new", po) /\ Opened(p, e, "open", po, pe, orx, A)
    BY <1>2 DEF Opening, Opened
  <2>3. Phases(p, "open", po, pe, S, g)
    BY <1>1, <1>2 DEF Linked, Phases
  <2>4. UnderWay("open", se, A, Pos(pe, cut, g), W, B)
    BY <1>1 DEF Linked, UnderWay, Received
  <2>5. Linked(p, e, "open", se, po, pe, rx, tx, orx, S, G, W, B, A, cut, nc, enc, g)
    BY <1>1, <2>2, <2>3, <2>4 DEF Linked
  <2> QED BY <2>1, <2>5 DEF Link
<1>3. CASE p = "secure"
  <2>1. Phases(p, "new", po, pe, S, g)
    BY <1>1 DEF Linked
  <2>2. po = 0 /\ pe = 0 /\ S = <<>>
    BY <1>3, <2>1 DEF Phases
  <2>3. Linked(p, e, "new", se, 0, 0, rx, tx, orx, <<>>, G, W, B, A, cut, nc, enc, g)
    BY <1>1, <2>2
  <2>4. /\ A \in Seq(Cells) /\ W \in Seq(Cells) /\ B \in Seq(Cells)
        /\ g = 0 /\ G = <<>> /\ Len(A) = Opening(p, "new", 0) /\ nc[0] \in 0..(Nonces - 1)
    BY <2>3, LinkOfNone
  <2>5. Len(A) = 0
    BY <2>4 DEF Opening
  <2>6. PICK u \in Cells : u = KeyMark
    BY ShakeCells
  <2>7. PICK v \in Cells : v = Clear(PublicKey(Other(e)))
    BY ShakeCells
  <2>8. x = LengthEncode(<<u, v>>)
    BY <1>3, <2>6, <2>7 DEF SyncKey
  <2>9. PICK A2 : A2 = A \o x
    OBVIOUS
  <2>10. x \in Seq(Cells) /\ Len(x) = ShakeLen /\ MsgAt(A2, 0, u, v)
    BY <2>4, <2>5, <2>8, <2>9, MsgSent
  <2>11. A2 \in Seq(Cells) /\ Len(A2) = ShakeLen /\ W \o x \in Seq(Cells)
    <3>1. A2 \in Seq(Cells) /\ Len(A2) = Len(A) + Len(x)
      BY <2>4, <2>9, <2>10, Appended
    <3>2. W \o x \in Seq(Cells)
      BY <2>4, <2>10, Appended
    <3> QED BY <2>5, <2>10, <3>1, <3>2, ShakeLenIs
  <2>12. PICK cut2, nc2, enc2 : History(p, KeyTo(e), <<>>, A2, cut2, nc2, enc2) /\ cut2[0] = Len(A2) /\ nc2[0] = nc[0]
    <3>1. PICK c \in 0..(Nonces - 1) : c = nc[0]
      BY <2>4
    <3>2. NoneSent(p, KeyTo(e), A2, c)
      BY <2>11, EmptyHistory
    <3> QED BY <3>1, <3>2, Zenon DEF NoneSent
  <2>13. UnderWay("open", se, A2, Pos(0, cut2, 0), W \o x, B)
    <3>1. UnderWay("new", se, A, 0, W, B)
      BY <2>3, <2>4 DEF Linked, Pos
    <3>2. UnderWay("open", se, A2, 0, W \o x, B)
      BY <2>4, <2>9, <2>10, <3>1, UnderWayAppends
    <3> QED BY <3>2 DEF Pos
  <2>14. Opened(p, e, "open", 0, 0, orx, A2) /\ cut2[0] = Opening(p, "open", 0) /\ Phases(p, "open", 0, 0, <<>>, 0)
    BY <1>3, <2>6, <2>7, <2>10, <2>11, <2>12 DEF Opened, Opening, Phases
  <2>15. PICK W2 : W2 = W \o x
    OBVIOUS
  <2>16. <<>> \in Seq(Message) /\ 0 \in 0..Len(<<>>)
    OBVIOUS
  <2>17. Linked(p, e, "open", se, 0, 0, rx, tx, orx, <<>>, <<>>, W2, B, A2, cut2, nc2, enc2, 0)
    BY <1>3, <2>4, <2>11, <2>12, <2>13, <2>14, <2>15, <2>16, NoneHeard DEF Linked
  <2> QED BY <2>2, <2>4, <2>15, <2>17 DEF Link
<1> QED BY <1>2, <1>3

\* Before it has the key e hears no other message than the key.
LEMMA LinkTakesKey ==
  ASSUME NEW e, NEW so, NEW se, NEW po, NEW rx, NEW tx, NEW orx, NEW S, NEW G, NEW W, NEW B,
         Link("secure", e, so, se, po, 0, rx, tx, orx, S, G, W, B), po # 2, se # "closed",
         NEW nonce \in 0..(Nonces - 1)
  PROVE  \/ LengthDecode(B) = <<>>
         \/ /\ LengthDecode(B) = SyncKey(Other(e)) /\ B \in Seq(Cells) /\ so # "new"
            /\ Link("secure", e, so, se, po, 1, nonce, tx, orx, S, G, W, Part(B, ShakeLen, Len(B)))
<1>0. PICK p : p = "secure"
  OBVIOUS
<1>1. PICK A, cut, nc, enc, g : Linked(p, e, so, se, po, 0, rx, tx, orx, S, G, W, B, A, cut, nc, enc, g)
  BY <1>0, Zenon DEF Link
<1>2. S = <<>> /\ (so = "new" => po = 0) /\ po \in {0, 1, 2}
  <2>1. Phases(p, so, po, 0, S, g)
    BY <1>1 DEF Linked
  <2> QED BY <1>0, <2>1 DEF Phases
<1>3. Linked(p, e, so, se, po, 0, rx, tx, orx, <<>>, G, W, B, A, cut, nc, enc, g)
  BY <1>1, <1>2
<1>4. /\ A \in Seq(Cells) /\ W \in Seq(Cells) /\ B \in Seq(Cells)
      /\ g = 0 /\ G = <<>> /\ Len(A) = Opening(p, so, po) /\ cut[0] = Len(A)
  BY <1>3, LinkOfNone
<1>5. UnderWay(so, se, A, 0, W, B)
  BY <1>3, <1>4 DEF Linked, Pos
<1>6. PICK m, t : Received(so, A, 0, W, B, m, t)
  BY <1>5 DEF UnderWay
<1>7. /\ m \in Nat /\ t \in Nat /\ 0 <= m /\ m <= t /\ t <= Len(A)
      /\ B = Part(A, 0, m) /\ W = Part(A, m, t)
      /\ so # "closed" => t = Len(A)
  BY <1>6 DEF Received
<1>8. m <= Len(A) /\ Len(B) = m
  <2>1. m <= Len(A)
    BY <1>4, <1>7
  <2>2. Len(B) = m - 0
    BY <1>4, <1>7, <2>1, Parts
  <2> QED BY <1>7, <2>1, <2>2
<1>9. CASE so = "new"
  <2>1. Len(A) = 0
    BY <1>4, <1>9 DEF Opening
  <2>2. Len(B) = 0
    BY <1>7, <1>8, <2>1
  <2>3. LengthDecode(B) = <<>>
    BY <2>2, Widths DEF LengthDecode
  <2> QED BY <2>3
<1>10. CASE so # "new"
  <2>1. PICK u : u = KeyMark
    OBVIOUS
  <2>2. PICK v : v = Clear(PublicKey(Other(e)))
    OBVIOUS
  <2>3. MsgAt(A, 0, u, v)
    BY <1>0, <1>1, <1>10, <2>1, <2>2 DEF Linked, Opened
  <2>4. /\ m >= 0 + ShakeLen => LengthDecode(Part(A, 0, m)) = <<u, v>>
        /\ m < 0 + ShakeLen => LengthDecode(Part(A, 0, m)) = <<>>
    BY <1>4, <1>7, <1>8, <2>3, ShakeDecoded
  <2>5. CASE m < ShakeLen
    BY <1>7, <2>4, <2>5, ShakeLenIs
  <2>6. CASE m >= ShakeLen
    <3>1. LengthDecode(B) = SyncKey(Other(e))
      BY <1>7, <2>1, <2>2, <2>4, <2>6, ShakeLenIs DEF SyncKey
    <3>2. PICK k \in Nat : k = ShakeLen
      BY ShakeLenIs
    <3>3. PICK B2 : B2 = Part(B, k, m)
      OBVIOUS
    <3>4. B2 = Part(A, k, m)
      <4>1. k <= m /\ m <= m - 0 /\ 0 + k = k /\ 0 + m = m
        BY <1>7, <2>6, <3>2
      <4>2. Part(Part(A, 0, m), k, m) = Part(A, 0 + k, 0 + m)
        BY <1>4, <1>7, <1>8, <4>1, PartOfPart
      <4> QED BY <1>7, <3>3, <4>1, <4>2
    <3>5. B2 \in Seq(Cells)
      BY <1>4, <1>7, <1>8, <2>6, <3>2, <3>4, Parts
    <3>6. PICK cut2, nc2, enc2 : History(p, KeyTo(e), <<>>, A, cut2, nc2, enc2) /\ cut2[0] = Len(A) /\ nc2[0] = nonce
      <4>1. NoneSent(p, KeyTo(e), A, nonce)
        BY <1>4, EmptyHistory
      <4> QED BY <4>1, Zenon DEF NoneSent
    <3>7. Received(so, A, k, W, B2, m, t)
      BY <1>7, <2>6, <3>2, <3>4 DEF Received
    <3>8. UnderWay(so, se, A, Pos(1, cut2, 0), W, B2)
      BY <3>2, <3>7 DEF UnderWay, Pos
    <3>9. Opened(p, e, so, po, 1, orx, A)
      BY <1>1 DEF Linked, Opened
    <3>10. Phases(p, so, po, 1, <<>>, 0)
      BY <1>0, <1>2, <1>10 DEF Phases
    <3>11. <<>> \in Seq(Message) /\ 0 \in 0..Len(<<>>)
      OBVIOUS
    <3>12. cut2[0] = Opening(p, so, po)
      BY <1>4, <3>6
    <3>13. Linked(p, e, so, se, po, 1, nonce, tx, orx, <<>>, <<>>, W, B2, A, cut2, nc2, enc2, 0)
      BY <1>0, <1>4, <3>5, <3>6, <3>8, <3>9, <3>10, <3>11, <3>12, NoneHeard, po # 2 DEF Linked
    <3>14. Link(p, e, so, se, po, 1, nonce, tx, orx, S, G, W, B2)
      BY <1>2, <1>4, <3>13 DEF Link
    <3> QED BY <1>0, <1>4, <1>8, <1>10, <3>1, <3>2, <3>3, <3>14
  <2> QED BY <1>7, <2>5, <2>6, ShakeLenIs
<1> QED BY <1>9, <1>10

\* The sender has the key of e, draws its nonce and answers.
LEMMA LinkSendsNonce ==
  ASSUME NEW e, NEW so, NEW se, NEW pe, NEW rx, NEW tx, NEW orx, NEW S, NEW G, NEW W, NEW B,
         Link("secure", e, so, se, 0, pe, rx, tx, orx, S, G, W, B), so # "new", so # "closed",
         NEW nonce \in 0..(Nonces - 1), NEW tx2,
         NEW x, x = LengthEncode(SyncNonce(nonce, PublicKey(e)))
  PROVE  Link("secure", e, so, se, 1, pe, rx, tx2, nonce, S, G, W \o x, B)
<1>0. PICK p : p = "secure"
  OBVIOUS
<1>1. PICK A, cut, nc, enc, g : Linked(p, e, so, se, 0, pe, rx, tx, orx, S, G, W, B, A, cut, nc, enc, g)
  BY <1>0, Zenon DEF Link
<1>2. S = <<>> /\ pe \in {0, 1}
  <2>1. Phases(p, so, 0, pe, S, g)
    BY <1>1 DEF Linked
  <2> QED BY <1>0, <2>1 DEF Phases
<1>3. Linked(p, e, so, se, 0, pe, rx, tx, orx, <<>>, G, W, B, A, cut, nc, enc, g)
  BY <1>1, <1>2
<1>4. /\ A \in Seq(Cells) /\ W \in Seq(Cells) /\ B \in Seq(Cells)
      /\ g = 0 /\ G = <<>> /\ Len(A) = Opening(p, so, 0) /\ nc[0] \in 0..(Nonces - 1) /\ (pe # 0 => nc[0] = rx)
  BY <1>3, LinkOfNone
<1>5. Len(A) = ShakeLen
  BY <1>0, <1>4 DEF Opening
<1>6. PICK u \in Cells : u = NonceMark
  BY ShakeCells
<1>7. PICK v \in Cells : v = Sealed(nonce, PublicKey(e))
  BY ShakeCells
<1>8. x = LengthEncode(<<u, v>>)
  BY <1>6, <1>7 DEF SyncNonce
<1>9. PICK A2 : A2 = A \o x
  OBVIOUS
<1>10. x \in Seq(Cells) /\ Len(x) = ShakeLen /\ MsgAt(A2, ShakeLen, u, v)
  BY <1>4, <1>5, <1>8, <1>9, MsgSent
<1>11. A2 \in Seq(Cells) /\ Len(A2) = ShakeLen + ShakeLen /\ W \o x \in Seq(Cells)
  <2>1. A2 \in Seq(Cells) /\ Len(A2) = Len(A) + Len(x)
    BY <1>4, <1>9, <1>10, Appended
  <2>2. W \o x \in Seq(Cells)
    BY <1>4, <1>10, Appended
  <2> QED BY <1>5, <1>10, <2>1, <2>2
<1>12. PICK cut2, nc2, enc2 : History(p, KeyTo(e), <<>>, A2, cut2, nc2, enc2) /\ cut2[0] = Len(A2) /\ nc2[0] = nc[0]
  <2>1. PICK c \in 0..(Nonces - 1) : c = nc[0]
    BY <1>4
  <2>2. NoneSent(p, KeyTo(e), A2, c)
    BY <1>11, EmptyHistory
  <2> QED BY <2>1, <2>2, Zenon DEF NoneSent
<1>13. UnderWay(so, se, A2, Pos(pe, cut2, 0), W \o x, B)
  <2>1. PICK pos \in Nat : pos = Pos(pe, cut, g) /\ pos = Pos(pe, cut2, 0)
    <3>1. Pos(pe, cut, g) = Pos(pe, cut2, 0) /\ Pos(pe, cut, g) \in Nat
      BY <1>2, ShakeLenIs DEF Pos
    <3> QED BY <3>1
  <2>2. UnderWay(so, se, A, pos, W, B)
    BY <1>3, <2>1 DEF Linked
  <2>3. UnderWay(so, se, A2, pos, W \o x, B)
    BY <1>4, <1>9, <1>10, <2>2, UnderWayAppends
  <2> QED BY <2>1, <2>3
<1>14. Opened(p, e, so, 1, pe, nonce, A2)
  <2>1. ASSUME pe = 0 PROVE MsgAt(A2, 0, KeyMark, Clear(PublicKey(Other(e))))
    <3>1. PICK a : a = KeyMark
      OBVIOUS
    <3>2. PICK b : b = Clear(PublicKey(Other(e)))
      OBVIOUS
    <3>3. MsgAt(A, 0, a, b)
      BY <1>0, <1>3, <2>1, <3>1, <3>2 DEF Linked, Opened
    <3>4. MsgAt(A2, 0, a, b)
      BY <1>4, <1>9, <1>10, <3>3, MsgAppended
    <3> QED BY <3>1, <3>2, <3>4
  <2> QED BY <1>6, <1>7, <1>10, <2>1 DEF Opened
<1>15. cut2[0] = Opening(p, so, 1) /\ Phases(p, so, 1, pe, <<>>, 0)
  BY <1>0, <1>2, <1>11, <1>12 DEF Opening, Phases
<1>16. PICK W2 : W2 = W \o x
  OBVIOUS
<1>17. <<>> \in Seq(Message) /\ 0 \in 0..Len(<<>>)
  OBVIOUS
<1>18. Linked(p, e, so, se, 1, pe, rx, tx2, nonce, <<>>, <<>>, W2, B, A2, cut2, nc2, enc2, 0)
  BY <1>0, <1>4, <1>11, <1>12, <1>13, <1>14, <1>15, <1>16, <1>17, NoneHeard DEF Linked
<1> QED BY <1>0, <1>2, <1>4, <1>16, <1>18 DEF Link

\* The nonce is taken from B, or is not yet there.
NonceTaken(e, so, se, po, rx, tx, orx, S, G, W, B) ==
  \/ LengthDecode(B) = <<>>
  \/ /\ LengthDecode(B) = SyncNonce(orx, PublicKey(e))
     /\ po # 0 /\ B \in Seq(Cells)
     /\ Link("secure", e, so, se, po, 2, rx, tx, orx, S, G, W, Part(B, ShakeLen, Len(B)))

\* Then the nonce, and it is the one with which the sender will decipher.
LEMMA LinkTakesNonce ==
  ASSUME NEW e, NEW so, NEW se, NEW po, NEW rx, NEW tx, NEW orx, NEW S, NEW G, NEW W, NEW B,
         Link("secure", e, so, se, po, 1, rx, tx, orx, S, G, W, B), se # "closed"
  PROVE  NonceTaken(e, so, se, po, rx, tx, orx, S, G, W, B)
<1> USE DEF NonceTaken
<1>0. PICK p : p = "secure"
  OBVIOUS
<1>1. PICK A, cut, nc, enc, g : Linked(p, e, so, se, po, 1, rx, tx, orx, S, G, W, B, A, cut, nc, enc, g)
  BY <1>0, Zenon DEF Link
<1>2. PICK k \in Nat : k = ShakeLen
  BY ShakeLenIs
<1>3. /\ S \in Seq(Message) /\ A \in Seq(Cells) /\ W \in Seq(Cells) /\ B \in Seq(Cells)
      /\ History(p, KeyTo(e), S, A, cut, nc, enc)
      /\ cut[0] = Opening(p, so, po)
      /\ Phases(p, so, po, 1, S, g)
      /\ UnderWay(so, se, A, k, W, B)
  BY <1>1, <1>2 DEF Linked, Pos
<1>4. g = 0 /\ so # "new" /\ po \in {0, 1, 2} /\ (po = 0 => S = <<>>)
  BY <1>0, <1>3 DEF Phases
<1>5. PICK m, t : Received(so, A, k, W, B, m, t)
  BY <1>3 DEF UnderWay
<1>6. /\ m \in Nat /\ t \in Nat /\ k <= m /\ m <= t /\ t <= Len(A)
      /\ B = Part(A, k, m) /\ W = Part(A, m, t)
      /\ so # "closed" => t = Len(A)
  BY <1>5 DEF Received
<1>7. m <= Len(A) /\ Len(B) = m - k
  <2>1. m <= Len(A)
    BY <1>3, <1>6
  <2>2. Len(B) = m - k
    BY <1>3, <1>6, <2>1, Parts
  <2> QED BY <1>6, <2>1, <2>2
<1>8. CASE po = 0
  <2>1. Len(A) = k
    <3>1. Len(A) = Opening(p, so, po)
      <4>1. Linked(p, e, so, se, po, 1, rx, tx, orx, <<>>, G, W, B, A, cut, nc, enc, g)
        BY <1>1, <1>4, <1>8
      <4> QED BY <4>1, LinkOfNone
    <3> QED BY <1>0, <1>2, <1>4, <1>8, <3>1 DEF Opening
  <2>2. Len(B) = 0
    BY <1>6, <1>7, <2>1
  <2>3. LengthDecode(B) = <<>>
    BY <2>2, Widths DEF LengthDecode
  <2> QED BY <2>3
<1>9. CASE po # 0
  <2>1. PICK u : u = NonceMark
    OBVIOUS
  <2>2. PICK v : v = Sealed(orx, PublicKey(e))
    OBVIOUS
  <2>3. MsgAt(A, k, u, v)
    BY <1>0, <1>1, <1>2, <1>9, <2>1, <2>2 DEF Linked, Opened
  <2>4. /\ m >= k + ShakeLen => LengthDecode(Part(A, k, m)) = <<u, v>>
        /\ m < k + ShakeLen => LengthDecode(Part(A, k, m)) = <<>>
    BY <1>3, <1>6, <1>7, <2>3, ShakeDecoded
  <2>5. CASE m < k + k
    BY <1>2, <1>6, <2>4, <2>5
  <2>6. CASE m >= k + k
    <3>1. LengthDecode(B) = SyncNonce(orx, PublicKey(e))
      BY <1>2, <1>6, <2>1, <2>2, <2>4, <2>6 DEF SyncNonce
    <3>2. PICK l \in Nat : l = m - k
      BY <1>6
    <3>3. PICK z \in Nat : z = k + k
      OBVIOUS
    <3>4. PICK B2 : B2 = Part(B, k, l)
      OBVIOUS
    <3>5. B2 = Part(A, z, m)
      <4>1. k <= l /\ l <= m - k /\ k + l = m
        BY <1>6, <2>6, <3>2
      <4>2. Part(Part(A, k, m), k, l) = Part(A, k + k, k + l)
        <5>1. A \in Seq(Cells) /\ m \in Nat /\ k <= m /\ m <= Len(A)
          BY <1>3, <1>6, <1>7
        <5> QED BY <4>1, <5>1, PartOfPart
      <4> QED BY <1>6, <3>3, <3>4, <4>1, <4>2
    <3>6. z <= m
      BY <1>6, <2>6, <3>3
    <3>7. B2 \in Seq(Cells)
      BY <1>3, <1>6, <1>7, <3>5, <3>6, Parts
    <3>8. cut[0] = z
      BY <1>0, <1>2, <1>3, <1>4, <1>9, <3>3 DEF Opening
    <3>9. Received(so, A, z, W, B2, m, t)
      BY <1>6, <3>5, <3>6 DEF Received
    <3>10. UnderWay(so, se, A, Pos(2, cut, g), W, B2)
      BY <1>4, <3>8, <3>9 DEF UnderWay, Pos
    <3>11. Opened(p, e, so, po, 2, orx, A)
      BY <1>1 DEF Linked, Opened
    <3>12. Phases(p, so, po, 2, S, g)
      BY <1>0, <1>3, <1>4, <1>9 DEF Phases
    <3>13. Linked(p, e, so, se, po, 2, rx, tx, orx, S, G, W, B2, A, cut, nc, enc, g)
      BY <1>1, <3>7, <3>10, <3>11, <3>12 DEF Linked
    <3>14. Link(p, e, so, se, po, 2, rx, tx, orx, S, G, W, B2)
      BY <3>13 DEF Link
    <3> QED BY <1>0, <1>2, <1>3, <1>7, <1>9, <3>1, <3>2, <3>4, <3>14
  <2> QED BY <1>6, <2>5, <2>6
<1> QED BY <1>8, <1>9

\* The sender is established: it enciphers with the nonce that e drew.
LEMMA LinkEstablished ==
  ASSUME NEW e, NEW so, NEW se, NEW pe, NEW rx, NEW tx, NEW orx, NEW S, NEW G, NEW W, NEW B,
         Link("secure", e, so, se, 1, pe, rx, tx, orx, S, G, W, B), pe # 0
  PROVE  Link("secure", e, so, se, 2, pe, rx, rx, orx, S, G, W, B)
<1>0. PICK p : p = "secure"
  OBVIOUS
<1>1. PICK A, cut, nc, enc, g : Linked(p, e, so, se, 1, pe, rx, tx, orx, S, G, W, B, A, cut, nc, enc, g)
  BY <1>0, Zenon DEF Link
<1>2. S = <<>> /\ Phases(p, so, 2, pe, S, g)
  <2>1. Phases(p, so, 1, pe, S, g)
    BY <1>1 DEF Linked
  <2> QED BY <1>0, <2>1 DEF Phases
<1>3. Linked(p, e, so, se, 1, pe, rx, tx, orx, <<>>, G, W, B, A, cut, nc, enc, g)
  BY <1>1, <1>2
<1>4. nc[0] = rx
  BY <1>3, LinkOfNone
<1>5. nc[Len(S)] = rx
  BY <1>2, <1>4, NoneHeard
<1>6. Opening(p, so, 2) = Opening(p, so, 1) /\ Opened(p, e, so, 2, pe, orx, A)
  BY <1>1 DEF Opening, Opened, Linked
<1>7. Linked(p, e, so, se, 2, pe, rx, rx, orx, S, G, W, B, A, cut, nc, enc, g)
  BY <1>1, <1>2, <1>5, <1>6 DEF Linked
<1> QED BY <1>0, <1>7 DEF Link

\* A frame in bytes is a frame in what extends them.
LEMMA FrameInExtended ==
  ASSUME NEW p, NEW key, NEW Q \in Seq(Cells), NEW R \in Seq(Cells), Extends(Q, R),
         NEW a \in Nat, NEW m \in Message, NEW x, NEW c, IsFrame(p, key, Q, a, m, x, c)
  PROVE  IsFrame(p, key, R, a, m, x, c)
<1>1. PICK h \in Nat : h = HeadLen(p)
  BY HeadLens
<1>2. PICK n \in Nat : n = Len(m[2])
  BY DEF Message
<1>3. PICK l \in Nat : l = Len(Q)
  OBVIOUS
<1>4. l <= Len(R) /\ Len(R) \in Nat /\ \A i \in 1..l : R[i] = Q[i]
  BY <1>3 DEF Extends
<1>5. a + h + n <= l
  BY <1>1, <1>2, <1>3 DEF IsFrame
<1>6. a + h + n <= Len(R)
  BY <1>4, <1>5
<1>7. \A i \in 1..n : a + h + i \in 1..l
  BY <1>5
<1>8. \A i \in 1..n : R[a + h + i] = IF x = 1 THEN <<m[2][i][1], key, c>> ELSE m[2][i]
  <2>1. \A i \in 1..n : Q[a + h + i] = IF x = 1 THEN <<m[2][i][1], key, c>> ELSE m[2][i]
    BY <1>1, <1>2 DEF IsFrame
  <2> QED BY <1>4, <1>7, <2>1
<1>9. ASSUME p # "stream"
      PROVE  /\ \A i \in 1..TopicWidth : R[a + i][1] = Digit(m[1], i)
             /\ \A i \in 1..LenWidth : R[a + (h - LenWidth) + i][1] = Digit(n, i)
  <2>1. h >= TopicWidth + LenWidth
    BY <1>1, <1>9, Widths DEF HeadLen
  <2>2. \A i \in 1..TopicWidth : a + i \in 1..l
    BY <1>5, <2>1, Widths
  <2>3. \A i \in 1..LenWidth : a + (h - LenWidth) + i \in 1..l
    BY <1>5, <2>1, Widths
  <2>4. /\ \A i \in 1..TopicWidth : Q[a + i][1] = Digit(m[1], i)
        /\ \A i \in 1..LenWidth : Q[a + (h - LenWidth) + i][1] = Digit(n, i)
    BY <1>1, <1>2, <1>9 DEF IsFrame
  <2> QED BY <1>4, <2>2, <2>3, <2>4
<1>10. ASSUME p = "secure" PROVE R[a + TopicWidth + 1][1] = x
  <2>1. h >= TopicWidth + 1
    BY <1>1, <1>10, Widths DEF HeadLen
  <2>2. a + TopicWidth + 1 \in 1..l
    BY <1>5, <2>1, Widths
  <2>3. Q[a + TopicWidth + 1][1] = x
    BY <1>10 DEF IsFrame
  <2> QED BY <1>4, <2>2, <2>3
<1> QED BY <1>1, <1>2, <1>6, <1>8, <1>9, <1>10 DEF IsFrame

\* The history cut2, nc2, enc2 of S2 goes on from cut, nc, enc of S; nonce is the last.
GoesOn(p, key, S, cut, nc, S2, Q2, cut2, nc2, enc2, nonce) ==
  /\ History(p, key, S2, Q2, cut2, nc2, enc2)
  /\ \A i \in 0..Len(S) : cut2[i] = cut[i] /\ nc2[i] = nc[i]
  /\ nc2[Len(S2)] = nonce

\* A frame is sent after the messages S.
SendsFrame(p, key, S, Q, cut, nc, enc, msg, x, cells) ==
  /\ S \in Seq(Message) /\ Q \in Seq(Cells) /\ History(p, key, S, Q, cut, nc, enc)
  /\ msg \in Message /\ (x = 0 \/ x = 1) /\ (x = 1 => p = "secure") /\ p # "stream"
  /\ cells \in Seq(Cells) /\ Len(cells) = HeadLen(p) + Len(msg[2])
  /\ IsFrame(p, key, Q \o cells, Len(Q), msg, x, nc[Len(S)])

\* The history goes on with it.
LEMMA HistoryGrows ==
  ASSUME NEW p, NEW key, NEW S, NEW Q, NEW cut, NEW nc, NEW enc, NEW msg, NEW x, NEW cells,
         SendsFrame(p, key, S, Q, cut, nc, enc, msg, x, cells),
         NEW nonce, nonce = IF x = 1 THEN (nc[Len(S)] + 1) % Nonces ELSE nc[Len(S)]
  PROVE  \E cut2, nc2, enc2 : GoesOn(p, key, S, cut, nc, S \o <<msg>>, Q \o cells, cut2, nc2, enc2, nonce)
<1>0. /\ S \in Seq(Message) /\ Q \in Seq(Cells) /\ History(p, key, S, Q, cut, nc, enc)
      /\ msg \in Message /\ (x = 0 \/ x = 1) /\ (x = 1 => p = "secure") /\ p # "stream"
      /\ cells \in Seq(Cells) /\ Len(cells) = HeadLen(p) + Len(msg[2])
      /\ IsFrame(p, key, Q \o cells, Len(Q), msg, x, nc[Len(S)])
  BY DEF SendsFrame
<1>1. PICK n \in Nat : n = Len(S)
  BY <1>0
<1>2. PICK l \in Nat : l = Len(Q)
  BY <1>0
<1>3. PICK h \in Nat : h = HeadLen(p)
  BY HeadLens
<1>4. PICK b \in Nat : b = Len(msg[2])
  BY <1>0 DEF Message
<1>5. PICK Q2 : Q2 = Q \o cells
  OBVIOUS
<1>6. Q2 \in Seq(Cells) /\ Len(Q2) = l + h + b /\ Extends(Q, Q2)
  <2>1. Q2 \in Seq(Cells) /\ Len(Q2) = Len(Q) + Len(cells) /\ Extends(Q, Q2)
    BY <1>0, <1>5, Appended, AppendExtends
  <2>2. Len(cells) = h + b
    BY <1>0, <1>3, <1>4
  <2> QED BY <1>2, <2>1, <2>2
<1>7. PICK S2 : S2 = S \o <<msg>>
  OBVIOUS
<1>8. S2 \in Seq(Message) /\ Len(S2) = n + 1 /\ (\A i \in 1..n : S2[i] = S[i]) /\ S2[n + 1] = msg
  BY <1>0, <1>1, <1>7
<1> DEFINE cut2 == [i \in 0..(n + 1) |-> IF i = n + 1 THEN l + h + b ELSE cut[i]]
           nc2 == [i \in 0..(n + 1) |-> IF i = n + 1 THEN nonce ELSE nc[i]]
           enc2 == [i \in 1..(n + 1) |-> IF i = n + 1 THEN x ELSE enc[i]]
<1>9. /\ cut \in [0..n -> Nat] /\ nc \in [0..n -> 0..(Nonces - 1)] /\ enc \in [1..n -> {0, 1}]
      /\ cut[n] = l
  BY <1>0, <1>1, <1>2, Zenon DEF History
<1>10. nonce \in 0..(Nonces - 1)
  <2>1. PICK c \in 0..(Nonces - 1) : c = nc[n]
    BY <1>9
  <2>2. (c + 1) % Nonces \in 0..(Nonces - 1)
    BY Widths
  <2> QED BY <1>1, <2>1, <2>2
<1>11. cut2 \in [0..(n + 1) -> Nat] /\ nc2 \in [0..(n + 1) -> 0..(Nonces - 1)] /\ enc2 \in [1..(n + 1) -> {0, 1}]
  <2>1. \A i \in 0..(n + 1) : i # n + 1 => i \in 0..n
    OBVIOUS
  <2>2. \A i \in 1..(n + 1) : i # n + 1 => i \in 1..n
    OBVIOUS
  <2>3. cut2 \in [0..(n + 1) -> Nat]
    BY <1>9, <2>1
  <2>4. nc2 \in [0..(n + 1) -> 0..(Nonces - 1)]
    BY <1>9, <1>10, <2>1
  <2>5. enc2 \in [1..(n + 1) -> {0, 1}]
    BY <1>0, <1>9, <2>2
  <2> QED BY <2>3, <2>4, <2>5
<1>12. /\ cut2[n + 1] = l + h + b /\ nc2[n + 1] = nonce /\ enc2[n + 1] = x
       /\ \A i \in 0..n : cut2[i] = cut[i] /\ nc2[i] = nc[i]
       /\ \A i \in 1..n : enc2[i] = enc[i]
  <2>1. \A i \in 0..n : i # n + 1 /\ i \in 0..(n + 1)
    OBVIOUS
  <2>2. \A i \in 1..n : i # n + 1 /\ i \in 1..(n + 1)
    OBVIOUS
  <2> QED BY <2>1, <2>2
<1> HIDE DEF cut2, nc2, enc2
<1>13. ASSUME NEW j \in 1..(n + 1)
       PROVE  /\ cut2[j] = cut2[j - 1] + HeadLen(p) + Len(S2[j][2])
              /\ nc2[j] = IF enc2[j] = 1 THEN (nc2[j - 1] + 1) % Nonces ELSE nc2[j - 1]
              /\ enc2[j] = 1 => p = "secure"
              /\ p = "stream" => S2[j][1] = 0 /\ Len(S2[j][2]) = 1
              /\ IsFrame(p, key, Q2, cut2[j - 1], S2[j], enc2[j], nc2[j - 1])
  <2>1. CASE j = n + 1
    <3>1. j - 1 = n /\ cut2[j - 1] = l /\ nc2[j - 1] = nc[n] /\ S2[j] = msg
      BY <1>8, <1>9, <1>12, <2>1
    <3>2. IsFrame(p, key, Q2, l, msg, x, nc[n])
      BY <1>0, <1>1, <1>2, <1>5
    <3> QED BY <1>0, <1>1, <1>3, <1>4, <1>12, <2>1, <3>1, <3>2
  <2>2. CASE j # n + 1
    <3>1. PICK i \in 0..(n - 1) : j = i + 1 /\ j - 1 = i
      <4>1. j - 1 \in 0..(n - 1) /\ j = (j - 1) + 1
        BY <2>2
      <4> QED BY <4>1
    <3>2. i \in 0..(Len(S) - 1)
      BY <1>1, <3>1
    <3>3. /\ i + 1 \in 1..Len(S) /\ S[i + 1] \in Message /\ i \in 0..Len(S)
          /\ cut[i + 1] = cut[i] + HeadLen(p) + Len(S[i + 1][2])
          /\ nc[i + 1] = IF enc[i + 1] = 1 THEN (nc[i] + 1) % Nonces ELSE nc[i]
          /\ enc[i + 1] = 1 => p = "secure"
          /\ IsFrame(p, key, Q, cut[i], S[i + 1], enc[i + 1], nc[i])
      <4>1. S \in Seq(Message) /\ Q \in Seq(Cells) /\ History(p, key, S, Q, cut, nc, enc)
        BY <1>0
      <4>2. /\ i + 1 \in 1..Len(S) /\ S[i + 1] \in Message /\ i \in 0..Len(S)
            /\ cut[i + 1] = cut[i] + HeadLen(p) + Len(S[i + 1][2])
            /\ nc[i + 1] = IF enc[i + 1] = 1 THEN (nc[i] + 1) % Nonces ELSE nc[i]
            /\ enc[i + 1] = 1 => p = "secure"
            /\ enc[i + 1] \in {0, 1}
            /\ p = "stream" => S[i + 1][1] = 0 /\ Len(S[i + 1][2]) = 1
            /\ IsFrame(p, key, Q, cut[i], S[i + 1], enc[i + 1], nc[i])
        BY <3>2, <4>1, HistoryNext
      <4> QED BY <4>2, Zenon
    <3>4. j \in 1..n /\ j \in 0..n /\ i \in 0..n
      BY <2>2, <3>1
    <3>5. cut2[j] = cut[j] /\ cut2[i] = cut[i] /\ nc2[j] = nc[j] /\ nc2[i] = nc[i] /\ enc2[j] = enc[j] /\ S2[j] = S[j]
      BY <1>8, <1>12, <3>4
    <3>6. IsFrame(p, key, Q2, cut[i], S[i + 1], enc[i + 1], nc[i])
      <4>1. PICK a \in Nat : a = cut[i]
        BY <1>9, <3>4
      <4>2. PICK m \in Message : m = S[i + 1]
        BY <3>3
      <4>3. PICK y : y = enc[i + 1]
        OBVIOUS
      <4>4. PICK c : c = nc[i]
        OBVIOUS
      <4>5. IsFrame(p, key, Q, a, m, y, c)
        BY <3>3, <4>1, <4>2, <4>3, <4>4
      <4>6. IsFrame(p, key, Q2, a, m, y, c)
        BY <1>0, <1>6, <4>5, FrameInExtended
      <4> QED BY <4>1, <4>2, <4>3, <4>4, <4>6
    <3> QED BY <1>0, <3>1, <3>3, <3>5, <3>6
  <2> QED BY <2>1, <2>2
<1>14. History(p, key, S2, Q2, cut2, nc2, enc2)
  <2>1. cut2[Len(S2)] = Len(Q2)
    BY <1>6, <1>8, <1>12
  <2> QED BY <1>8, <1>11, <1>13, <2>1 DEF History
<1>15. GoesOn(p, key, S, cut, nc, S2, Q2, cut2, nc2, enc2, nonce)
  BY <1>1, <1>8, <1>12, <1>14 DEF GoesOn
<1> QED BY <1>5, <1>7, <1>15

\* So does that of a stream with more bytes.
LEMMA StreamGrows ==
  ASSUME NEW key, NEW S \in Seq(Message), NEW Q \in Seq(Cells), NEW cut, NEW nc, NEW enc,
         History("stream", key, S, Q, cut, nc, enc), cut[0] = 0,
         NEW U \in Seq(Message), NEW cells \in Seq(Cells), Len(U) = Len(cells),
         \A i \in 1..Len(U) : U[i] = <<0, <<cells[i]>>>>,
         NEW nonce, nonce = nc[Len(S)]
  PROVE  \E cut2, nc2, enc2 : GoesOn("stream", key, S, cut, nc, S \o U, Q \o cells, cut2, nc2, enc2, nonce)
<1>1. PICK n \in Nat : n = Len(S)
  OBVIOUS
<1>2. PICK d \in Nat : d = Len(U)
  OBVIOUS
<1>3. ByteByByte(S, Q, cut, nc)
  BY StreamAt
<1>4. /\ Len(Q) = n /\ (\A i \in 0..n : cut[i] = i /\ nc[i] = nc[0])
      /\ \A i \in 1..n : S[i] = <<0, <<Q[i]>>>>
  BY <1>1, <1>3 DEF ByteByByte
<1>5. PICK k \in Nat : k = n + d
  OBVIOUS
<1>6. PICK S2 : S2 = S \o U
  OBVIOUS
<1>7. PICK Q2 : Q2 = Q \o cells
  OBVIOUS
<1>8. S2 \in Seq(Message) /\ Len(S2) = k /\ (\A i \in 1..n : S2[i] = S[i]) /\ \A i \in 1..d : S2[n + i] = U[i]
  <2>1. /\ S2 \in Seq(Message) /\ Len(S2) = Len(S) + Len(U)
        /\ (\A i \in 1..Len(S) : S2[i] = S[i]) /\ \A i \in 1..Len(U) : S2[Len(S) + i] = U[i]
    BY <1>6
  <2> QED BY <1>1, <1>2, <1>5, <2>1
<1>9. Q2 \in Seq(Cells) /\ Len(Q2) = k /\ (\A i \in 1..n : Q2[i] = Q[i]) /\ \A i \in 1..d : Q2[n + i] = cells[i]
  <2>1. /\ Q2 \in Seq(Cells) /\ Len(Q2) = Len(Q) + Len(cells)
        /\ (\A i \in 1..Len(Q) : Q2[i] = Q[i]) /\ \A i \in 1..Len(cells) : Q2[Len(Q) + i] = cells[i]
    BY <1>7, Appended
  <2> QED BY <1>2, <1>4, <1>5, <2>1
<1>10. \A i \in 1..k : S2[i] = <<0, <<Q2[i]>>>>
  <2> SUFFICES ASSUME NEW i \in 1..k PROVE S2[i] = <<0, <<Q2[i]>>>>
    OBVIOUS
  <2>1. CASE i <= n
    <3>1. i \in 1..n
      BY <2>1
    <3> QED BY <1>4, <1>8, <1>9, <3>1
  <2>2. CASE i > n
    <3>1. PICK j \in 1..d : i = n + j
      <4>1. i - n \in 1..d /\ i = n + (i - n)
        BY <1>5, <2>2
      <4> QED BY <4>1
    <3>2. S2[n + j] = U[j] /\ Q2[n + j] = cells[j]
      BY <1>8, <1>9
    <3>3. U[j] = <<0, <<cells[j]>>>>
      BY <1>2
    <3> QED BY <3>1, <3>2, <3>3
  <2> QED BY <2>1, <2>2
<1> DEFINE cut2 == [i \in 0..k |-> i]
           nc2 == [i \in 0..k |-> nc[0]]
           enc2 == [i \in 1..k |-> 0]
<1>11. nc[0] \in 0..(Nonces - 1)
  <2>1. nc \in [0..Len(S) -> 0..(Nonces - 1)]
    BY Zenon DEF History
  <2> QED BY <1>1, <2>1
<1>12. cut2 \in [0..k -> Nat] /\ nc2 \in [0..k -> 0..(Nonces - 1)] /\ enc2 \in [1..k -> {0, 1}]
  BY <1>11
<1>13. (\A i \in 0..k : cut2[i] = i /\ nc2[i] = nc[0]) /\ \A i \in 1..k : enc2[i] = 0
  OBVIOUS
<1> HIDE DEF cut2, nc2, enc2
<1>14. ASSUME NEW j \in 1..k
       PROVE  /\ cut2[j] = cut2[j - 1] + HeadLen("stream") + Len(S2[j][2])
              /\ nc2[j] = IF enc2[j] = 1 THEN (nc2[j - 1] + 1) % Nonces ELSE nc2[j - 1]
              /\ enc2[j] # 1
              /\ S2[j][1] = 0 /\ Len(S2[j][2]) = 1
              /\ IsFrame("stream", key, Q2, cut2[j - 1], S2[j], enc2[j], nc2[j - 1])
  <2>1. PICK i \in 0..k : i = j - 1 /\ i + 1 = j
    <3>1. j - 1 \in 0..k /\ (j - 1) + 1 = j
      OBVIOUS
    <3> QED BY <3>1
  <2>2. j \in 0..k /\ cut2[j] = j /\ cut2[i] = i /\ nc2[j] = nc[0] /\ nc2[i] = nc[0] /\ enc2[j] = 0
    <3>1. j \in 0..k
      OBVIOUS
    <3> QED BY <1>13, <3>1
  <2>3. S2[j] = <<0, <<Q2[j]>>>>
    BY <1>10
  <2>4. S2[j][1] = 0 /\ S2[j][2] = <<Q2[j]>> /\ Len(<<Q2[j]>>) = 1 /\ <<Q2[j]>>[1] = Q2[j]
    BY <2>3
  <2>5. cut2[j] = cut2[i] + HeadLen("stream") + 1
    BY <2>1, <2>2, HeadLens
  <2>6. IsFrame("stream", key, Q2, i, S2[j], 0, nc[0])
    <3>1. i + HeadLen("stream") + 1 <= Len(Q2)
      BY <1>9, <2>1, HeadLens
    <3>2. i + HeadLen("stream") + 1 = j
      BY <2>1, HeadLens
    <3>3. \A y \in 1..1 : Q2[i + HeadLen("stream") + y] = S2[j][2][y]
      BY <2>4, <3>2
    <3> QED BY <2>4, <3>1, <3>3 DEF IsFrame
  <2> QED BY <2>1, <2>2, <2>4, <2>5, <2>6
<1>15. History("stream", key, S2, Q2, cut2, nc2, enc2)
  <2>1. cut2[k] = k
    BY <1>13
  <2> QED BY <1>8, <1>9, <1>12, <1>14, <2>1 DEF History
<1>16. GoesOn("stream", key, S, cut, nc, S2, Q2, cut2, nc2, enc2, nonce)
  <2>1. \A i \in 0..n : cut2[i] = cut[i] /\ nc2[i] = nc[i]
    <3>1. \A i \in 0..n : i \in 0..k
      BY <1>5
    <3> QED BY <1>4, <1>13, <3>1
  <2>2. nc2[k] = nonce
    <3>1. k \in 0..k /\ n \in 0..n
      OBVIOUS
    <3> QED BY <1>1, <1>4, <1>13, <3>1
  <2> QED BY <1>1, <1>8, <1>15, <2>1, <2>2 DEF GoesOn
<1> QED BY <1>6, <1>7, <1>16

-----------------------------------------------------------------------------
(* What encode() writes *)

\* A frame that is appended
LEMMA ShiftedFrame ==
  ASSUME NEW p, NEW key, NEW Q \in Seq(Cells), NEW cells \in Seq(Cells),
         NEW m \in Message, NEW x, NEW c, IsFrame(p, key, cells, 0, m, x, c)
  PROVE  IsFrame(p, key, Q \o cells, Len(Q), m, x, c)
<1>1. PICK h \in Nat : h = HeadLen(p)
  BY HeadLens
<1>2. PICK n \in Nat : n = Len(m[2])
  BY DEF Message
<1>3. PICK l \in Nat : l = Len(Q)
  OBVIOUS
<1>4. PICK k \in Nat : k = Len(cells)
  OBVIOUS
<1>5. PICK R : R = Q \o cells
  OBVIOUS
<1>6. Len(R) = l + k /\ \A i \in 1..k : R[l + i] = cells[i]
  <2>1. Len(R) = Len(Q) + Len(cells) /\ \A i \in 1..Len(cells) : R[Len(Q) + i] = cells[i]
    BY <1>5, Appended
  <2> QED BY <1>3, <1>4, <2>1
<1>7. 0 + h + n <= k
  BY <1>1, <1>2, <1>4 DEF IsFrame
<1>8. l + h + n <= Len(R)
  BY <1>6, <1>7
<1>9. \A i \in 1..n : R[l + h + i] = IF x = 1 THEN <<m[2][i][1], key, c>> ELSE m[2][i]
  <2> SUFFICES ASSUME NEW i \in 1..n PROVE R[l + h + i] = IF x = 1 THEN <<m[2][i][1], key, c>> ELSE m[2][i]
    OBVIOUS
  <2>1. 0 + h + i = h + i /\ h + i \in 1..k /\ l + (h + i) = l + h + i
    BY <1>7
  <2>2. cells[0 + h + i] = IF x = 1 THEN <<m[2][i][1], key, c>> ELSE m[2][i]
    BY <1>1, <1>2 DEF IsFrame
  <2>3. R[l + (h + i)] = cells[h + i]
    BY <1>6, <2>1
  <2> QED BY <2>1, <2>2, <2>3
<1>10. ASSUME p # "stream"
       PROVE  /\ \A i \in 1..TopicWidth : R[l + i][1] = Digit(m[1], i)
              /\ \A i \in 1..LenWidth : R[l + (h - LenWidth) + i][1] = Digit(n, i)
  <2>1. h >= TopicWidth + LenWidth
    BY <1>1, <1>10, Widths DEF HeadLen
  <2>2. /\ \A i \in 1..TopicWidth : cells[0 + i][1] = Digit(m[1], i)
        /\ \A i \in 1..LenWidth : cells[0 + (h - LenWidth) + i][1] = Digit(n, i)
    BY <1>1, <1>2, <1>10 DEF IsFrame
  <2>3. ASSUME NEW i \in 1..TopicWidth PROVE R[l + i][1] = Digit(m[1], i)
    <3>1. i \in 1..k /\ 0 + i = i
      BY <1>7, <2>1, Widths
    <3> QED BY <1>6, <2>2, <3>1
  <2>4. ASSUME NEW i \in 1..LenWidth PROVE R[l + (h - LenWidth) + i][1] = Digit(n, i)
    <3>1. /\ (h - LenWidth) + i \in 1..k /\ 0 + (h - LenWidth) + i = (h - LenWidth) + i
          /\ l + ((h - LenWidth) + i) = l + (h - LenWidth) + i
      BY <1>7, <2>1, Widths
    <3>2. R[l + ((h - LenWidth) + i)] = cells[(h - LenWidth) + i]
      BY <1>6, <3>1
    <3> QED BY <2>2, <3>1, <3>2
  <2> QED BY <2>3, <2>4
<1>11. ASSUME p = "secure" PROVE R[l + TopicWidth + 1][1] = x
  <2>1. h >= TopicWidth + 1
    BY <1>1, <1>11, Widths DEF HeadLen
  <2>2. /\ TopicWidth + 1 \in 1..k /\ 0 + TopicWidth + 1 = TopicWidth + 1
        /\ l + (TopicWidth + 1) = l + TopicWidth + 1
    BY <1>7, <2>1, Widths
  <2>3. cells[0 + TopicWidth + 1][1] = x
    BY <1>11 DEF IsFrame
  <2>4. R[l + (TopicWidth + 1)] = cells[TopicWidth + 1]
    BY <1>6, <2>2
  <2> QED BY <2>2, <2>3, <2>4
<1> QED BY <1>1, <1>2, <1>3, <1>5, <1>8, <1>9, <1>10, <1>11 DEF IsFrame

\* serialize(), as bytes
LEMMA SerializedCells ==
  ASSUME NEW v \in Nat, NEW w \in Nat
  PROVE  /\ Serialize(v, w) \in Seq(Cells) /\ Len(Serialize(v, w)) = w
         /\ \A i \in 1..w : Serialize(v, w)[i][1] = Digit(v, i)
<1>1. PICK s : s = Serialize(v, w)
  OBVIOUS
<1>2. s \in Seq(ClearCell) /\ Len(s) = w /\ \A i \in 1..w : s[i] = Clear(Digit(v, i))
  BY <1>1, Serialized DEF ClearCell
<1>3. s \in Seq(Cells)
  BY <1>2, ClearIsCell
<1>4. \A i \in 1..w : s[i][1] = Digit(v, i)
  BY <1>2 DEF Clear
<1> QED BY <1>1, <1>2, <1>3, <1>4

\* plain_protocol::encode()
LEMMA PlainEncoded ==
  ASSUME NEW m \in Message, NEW key, NEW c
  PROVE  /\ PlainEncode(m[1], m[2]) \in Seq(Cells)
         /\ Len(PlainEncode(m[1], m[2])) = HeadLen("plain") + Len(m[2])
         /\ IsFrame("plain", key, PlainEncode(m[1], m[2]), 0, m, 0, c)
<1>1. PICK n \in Nat : n = Len(m[2])
  BY DEF Message
<1>2. PICK tw \in Nat : tw = TopicWidth
  BY Widths
<1>3. PICK lw \in Nat : lw = LenWidth
  BY Widths
<1>4. PICK a : a = Serialize(m[1], tw)
  OBVIOUS
<1>5. PICK b : b = Serialize(n, lw)
  OBVIOUS
<1>6. PICK d : d = m[2]
  OBVIOUS
<1>7. m[1] \in Nat /\ d \in Seq(Cells) /\ Len(d) = n
  BY <1>1, <1>6, Widths, ClearIsCell DEF Message
<1>8. a \in Seq(Cells) /\ Len(a) = tw /\ \A i \in 1..tw : a[i][1] = Digit(m[1], i)
  BY <1>4, <1>7, SerializedCells
<1>9. b \in Seq(Cells) /\ Len(b) = lw /\ \A i \in 1..lw : b[i][1] = Digit(n, i)
  BY <1>5, SerializedCells
<1>10. PICK y : y = b \o d
  OBVIOUS
<1>11. PICK z : z = a \o y
  OBVIOUS
<1>12. z = PlainEncode(m[1], m[2])
  BY <1>1, <1>2, <1>3, <1>4, <1>5, <1>6, <1>10, <1>11 DEF PlainEncode, LengthEncode
<1>13. y \in Seq(Cells) /\ Len(y) = lw + n /\ (\A i \in 1..lw : y[i] = b[i]) /\ \A i \in 1..n : y[lw + i] = d[i]
  <2>1. /\ y \in Seq(Cells) /\ Len(y) = Len(b) + Len(d)
        /\ (\A i \in 1..Len(b) : y[i] = b[i]) /\ \A i \in 1..Len(d) : y[Len(b) + i] = d[i]
    BY <1>7, <1>9, <1>10, Appended
  <2> QED BY <1>7, <1>9, <2>1
<1>14. z \in Seq(Cells) /\ Len(z) = tw + (lw + n) /\ (\A i \in 1..tw : z[i] = a[i]) /\ \A i \in 1..(lw + n) : z[tw + i] = y[i]
  <2>1. /\ z \in Seq(Cells) /\ Len(z) = Len(a) + Len(y)
        /\ (\A i \in 1..Len(a) : z[i] = a[i]) /\ \A i \in 1..Len(y) : z[Len(a) + i] = y[i]
    BY <1>8, <1>11, <1>13, Appended
  <2> QED BY <1>8, <1>13, <2>1
<1>15. ASSUME NEW i \in 1..tw PROVE z[0 + i][1] = Digit(m[1], i)
  <2>1. 0 + i = i
    OBVIOUS
  <2> QED BY <1>8, <1>14, <2>1
<1>16. ASSUME NEW i \in 1..lw PROVE z[0 + ((tw + lw) - lw) + i][1] = Digit(n, i)
  <2>1. 0 + ((tw + lw) - lw) + i = tw + i /\ i \in 1..(lw + n)
    OBVIOUS
  <2>2. z[tw + i] = y[i] /\ y[i] = b[i]
    BY <1>13, <1>14, <2>1
  <2> QED BY <1>9, <2>1, <2>2
<1>17. ASSUME NEW i \in 1..n PROVE z[0 + (tw + lw) + i] = m[2][i]
  <2>1. 0 + (tw + lw) + i = tw + (lw + i) /\ lw + i \in 1..(lw + n)
    OBVIOUS
  <2>2. z[tw + (lw + i)] = y[lw + i] /\ y[lw + i] = d[i]
    BY <1>13, <1>14, <2>1
  <2> QED BY <1>6, <2>1, <2>2
<1>18. Len(z) = (tw + lw) + n
  BY <1>14
<1>19. IsFrame("plain", key, z, 0, m, 0, c)
  <2>1. HeadLen("plain") = tw + lw
    BY <1>2, <1>3, HeadLens
  <2>2. 0 + (tw + lw) + n <= Len(z)
    BY <1>18
  <2>3. \A i \in 1..Len(m[2]) : z[0 + HeadLen("plain") + i] = IF 0 = 1 THEN <<m[2][i][1], key, c>> ELSE m[2][i]
    BY <1>1, <1>17, <2>1
  <2>4. \A i \in 1..LenWidth : z[0 + (HeadLen("plain") - LenWidth) + i][1] = Digit(Len(m[2]), i)
    BY <1>1, <1>3, <1>16, <2>1
  <2>5. \A i \in 1..TopicWidth : z[0 + i][1] = Digit(m[1], i)
    BY <1>2, <1>15
  <2>6. 0 + HeadLen("plain") + Len(m[2]) <= Len(z)
    BY <1>1, <2>1, <2>2
  <2>7. "plain" # "secure"
    OBVIOUS
  <2> QED BY <2>3, <2>4, <2>5, <2>6, <2>7 DEF IsFrame
<1> QED BY <1>1, <1>2, <1>3, <1>12, <1>14, <1>18, <1>19, HeadLens

\* The bytes of a body, enciphered if x is 1
Coded(body, x, key, c) == IF x = 1 THEN Xor(body, key, c) ELSE body

\* The bytes d carry the body, under the key and the nonce if x is 1.
IsCoded(d, body, x, key, c) ==
  /\ d \in Seq(Cells) /\ Len(d) = Len(body)
  /\ \A i \in 1..Len(body) : d[i] = IF x = 1 THEN <<body[i][1], key, c>> ELSE body[i]

\* Coded is as IsCoded says (sodium_cipher::encode()).
LEMMA CodedCells ==
  ASSUME NEW body \in Seq(ClearCell), NEW x, NEW key, key = "toClient" \/ key = "toServer", NEW c \in 0..(Nonces - 1)
  PROVE  IsCoded(Coded(body, x, key, c), body, x, key, c)
<1>1. PICK n \in Nat : n = Len(body)
  OBVIOUS
<1>2. CASE x # 1
  BY <1>2, ClearIsCell DEF Coded, IsCoded
<1>3. CASE x = 1
  <2>1. DOMAIN body = 1..n
    BY <1>1
  <2>2. \A i \in 1..n : body[i][2] = "none" /\ body[i][1] \in Nat
    BY <1>1, Widths DEF ClearCell, Clear
  <2>3. Xor(body, key, c) = [i \in 1..n |-> <<body[i][1], key, c>>]
    BY <2>1, <2>2 DEF Xor
  <2>4. \A i \in 1..n : <<body[i][1], key, c>> \in Cells
    BY <2>2 DEF Cells
  <2> QED BY <1>1, <1>3, <2>3, <2>4 DEF Coded, IsCoded
<1> QED BY <1>2, <1>3

\* The bytes of a frame of the secure protocol
SecureBytes(m, x, key, c) ==
  Serialize(m[1], TopicWidth) \o <<Clear(x)>> \o Serialize(Len(m[2]), LenWidth) \o Coded(m[2], x, key, c)

\* secure_protocol::encode()
LEMMA SecureEncoded ==
  ASSUME NEW m \in Message, NEW x, x = 0 \/ x = 1, NEW key, key = "toClient" \/ key = "toServer",
         NEW c \in 0..(Nonces - 1)
  PROVE  /\ SecureBytes(m, x, key, c) \in Seq(Cells)
         /\ Len(SecureBytes(m, x, key, c)) = HeadLen("secure") + Len(m[2])
         /\ IsFrame("secure", key, SecureBytes(m, x, key, c), 0, m, x, c)
<1>1. PICK n \in Nat : n = Len(m[2])
  BY DEF Message
<1>2. PICK tw \in Nat : tw = TopicWidth
  BY Widths
<1>3. PICK lw \in Nat : lw = LenWidth
  BY Widths
<1>4. PICK a : a = Serialize(m[1], tw)
  OBVIOUS
<1>5. PICK b : b = Serialize(n, lw)
  OBVIOUS
<1>6. PICK d : d = Coded(m[2], x, key, c)
  OBVIOUS
<1>7. /\ m[1] \in Nat /\ d \in Seq(Cells) /\ Len(d) = n
      /\ \A i \in 1..n : d[i] = IF x = 1 THEN <<m[2][i][1], key, c>> ELSE m[2][i]
  <2>1. PICK body \in Seq(ClearCell) : body = m[2]
    BY DEF Message
  <2>2. IsCoded(d, body, x, key, c)
    <3>1. IsCoded(Coded(body, x, key, c), body, x, key, c)
      BY CodedCells
    <3> QED BY <1>6, <2>1, <3>1
  <2>3. m[1] \in Nat
    BY Widths DEF Message
  <2> QED BY <1>1, <2>1, <2>2, <2>3 DEF IsCoded
<1>8. a \in Seq(Cells) /\ Len(a) = tw /\ \A i \in 1..tw : a[i][1] = Digit(m[1], i)
  BY <1>4, <1>7, SerializedCells
<1>9. b \in Seq(Cells) /\ Len(b) = lw /\ \A i \in 1..lw : b[i][1] = Digit(n, i)
  BY <1>5, SerializedCells
<1>10. PICK u : u = <<Clear(x)>>
  OBVIOUS
<1>11. u \in Seq(Cells) /\ Len(u) = 1 /\ u[1][1] = x
  <2>1. Clear(x) \in Cells /\ Clear(x)[1] = x
    BY Widths DEF Clear, Cells
  <2> QED BY <1>10, <2>1
<1>12. PICK v : v = a \o u
  OBVIOUS
<1>13. PICK y : y = v \o b
  OBVIOUS
<1>14. PICK z : z = y \o d
  OBVIOUS
<1>15. z = SecureBytes(m, x, key, c)
  BY <1>1, <1>2, <1>3, <1>4, <1>5, <1>6, <1>10, <1>12, <1>13, <1>14 DEF SecureBytes
<1>16. v \in Seq(Cells) /\ Len(v) = tw + 1 /\ (\A i \in 1..tw : v[i] = a[i]) /\ v[tw + 1] = u[1]
  <2>1. /\ v \in Seq(Cells) /\ Len(v) = Len(a) + Len(u)
        /\ (\A i \in 1..Len(a) : v[i] = a[i]) /\ \A i \in 1..Len(u) : v[Len(a) + i] = u[i]
    BY <1>8, <1>11, <1>12, Appended
  <2> QED BY <1>8, <1>11, <2>1
<1>17. /\ y \in Seq(Cells) /\ Len(y) = tw + 1 + lw
       /\ (\A i \in 1..(tw + 1) : y[i] = v[i]) /\ \A i \in 1..lw : y[tw + 1 + i] = b[i]
  <2>1. /\ y \in Seq(Cells) /\ Len(y) = Len(v) + Len(b)
        /\ (\A i \in 1..Len(v) : y[i] = v[i]) /\ \A i \in 1..Len(b) : y[Len(v) + i] = b[i]
    BY <1>9, <1>13, <1>16, Appended
  <2> QED BY <1>9, <1>16, <2>1
<1>18. /\ z \in Seq(Cells) /\ Len(z) = tw + 1 + lw + n
       /\ (\A i \in 1..(tw + 1 + lw) : z[i] = y[i]) /\ \A i \in 1..n : z[tw + 1 + lw + i] = d[i]
  <2>1. /\ z \in Seq(Cells) /\ Len(z) = Len(y) + Len(d)
        /\ (\A i \in 1..Len(y) : z[i] = y[i]) /\ \A i \in 1..Len(d) : z[Len(y) + i] = d[i]
    BY <1>7, <1>14, <1>17, Appended
  <2> QED BY <1>7, <1>17, <2>1
<1>19. HeadLen("secure") = tw + 1 + lw
  BY <1>2, <1>3, HeadLens
<1>20. \A i \in 1..TopicWidth : z[0 + i][1] = Digit(m[1], i)
  <2> SUFFICES ASSUME NEW i \in 1..tw PROVE z[0 + i][1] = Digit(m[1], i)
    BY <1>2
  <2>1. 0 + i = i /\ i \in 1..(tw + 1) /\ i \in 1..(tw + 1 + lw)
    OBVIOUS
  <2>2. z[i] = y[i] /\ y[i] = v[i] /\ v[i] = a[i]
    BY <1>16, <1>17, <1>18, <2>1
  <2> QED BY <1>8, <2>1, <2>2
<1>21. \A i \in 1..LenWidth : z[0 + (HeadLen("secure") - LenWidth) + i][1] = Digit(Len(m[2]), i)
  <2> SUFFICES ASSUME NEW i \in 1..lw PROVE z[0 + ((tw + 1 + lw) - lw) + i][1] = Digit(n, i)
    BY <1>1, <1>3, <1>19
  <2>1. 0 + ((tw + 1 + lw) - lw) + i = tw + 1 + i /\ tw + 1 + i \in 1..(tw + 1 + lw)
    OBVIOUS
  <2>2. z[tw + 1 + i] = y[tw + 1 + i] /\ y[tw + 1 + i] = b[i]
    BY <1>17, <1>18, <2>1
  <2> QED BY <1>9, <2>1, <2>2
<1>22. z[0 + TopicWidth + 1][1] = x
  <2>1. 0 + TopicWidth + 1 = tw + 1 /\ tw + 1 \in 1..(tw + 1) /\ tw + 1 \in 1..(tw + 1 + lw)
    BY <1>2
  <2>2. z[tw + 1] = y[tw + 1] /\ y[tw + 1] = v[tw + 1]
    BY <1>17, <1>18, <2>1
  <2> QED BY <1>11, <1>16, <2>1, <2>2
<1>23. \A i \in 1..Len(m[2]) : z[0 + HeadLen("secure") + i] = IF x = 1 THEN <<m[2][i][1], key, c>> ELSE m[2][i]
  <2> SUFFICES ASSUME NEW i \in 1..n PROVE z[0 + (tw + 1 + lw) + i] = IF x = 1 THEN <<m[2][i][1], key, c>> ELSE m[2][i]
    BY <1>1, <1>19
  <2>1. 0 + (tw + 1 + lw) + i = tw + 1 + lw + i
    OBVIOUS
  <2> QED BY <1>7, <1>18, <2>1
<1>24. Len(z) = HeadLen("secure") + Len(m[2]) /\ 0 + HeadLen("secure") + Len(m[2]) <= Len(z)
  <2>1. Len(z) = (tw + 1 + lw) + n /\ 0 + (tw + 1 + lw) + n <= Len(z)
    BY <1>18
  <2> QED BY <1>1, <1>19, <2>1
<1>25. IsFrame("secure", key, z, 0, m, x, c)
  BY <1>20, <1>21, <1>22, <1>23, <1>24 DEF IsFrame
<1> QED BY <1>15, <1>18, <1>24, <1>25

\* What is put on the wire for messages U: a frame, or the bytes of a stream;
\* c is the nonce to encipher with and nonce the one after.
Encodes(p, key, U, x, c, cells, nonce) ==
  /\ U \in Seq(Message) /\ cells \in Seq(Cells)
  /\ p = "stream" => /\ Len(U) = Len(cells) /\ (\A i \in 1..Len(U) : U[i] = <<0, <<cells[i]>>>>)
                     /\ nonce = c
  /\ p # "stream" => /\ (x = 0 \/ x = 1) /\ (x = 1 => p = "secure")
                     /\ nonce = IF x = 1 THEN (c + 1) % Nonces ELSE c
                     /\ \E m \in Message :
                          /\ U = <<m>> /\ Len(cells) = HeadLen(p) + Len(m[2])
                          /\ IsFrame(p, key, cells, 0, m, x, c)

\* An established end sends.
LEMMA LinkSends ==
  ASSUME NEW p, NEW e, NEW so, NEW se, NEW pe, NEW rx, NEW tx, NEW orx, NEW S, NEW G, NEW W, NEW B,
         Link(p, e, so, se, 2, pe, rx, tx, orx, S, G, W, B), so # "closed", p = "secure" => so # "new",
         NEW U, NEW x, NEW cells, NEW tx2, Encodes(p, KeyTo(e), U, x, tx, cells, tx2)
  PROVE  Link(p, e, so, se, 2, pe, rx, tx2, orx, S \o U, G, W \o cells, B) /\ tx2 \in 0..(Nonces - 1)
<1>1. PICK A, cut, nc, enc, g : Linked(p, e, so, se, 2, pe, rx, tx, orx, S, G, W, B, A, cut, nc, enc, g)
  BY Zenon DEF Link
<1>2. /\ p \in {"stream", "plain", "secure"}
      /\ S \in Seq(Message) /\ A \in Seq(Cells) /\ W \in Seq(Cells) /\ B \in Seq(Cells)
      /\ g \in 0..Len(S) /\ G = SubSeq(S, 1, g)
      /\ History(p, KeyTo(e), S, A, cut, nc, enc)
      /\ cut[0] = Opening(p, so, 2)
      /\ Opened(p, e, so, 2, pe, orx, A)
      /\ Phases(p, so, 2, pe, S, g)
      /\ pe # 0 => nc[g] = rx
      /\ nc[Len(S)] = tx
      /\ UnderWay(so, se, A, Pos(pe, cut, g), W, B)
  BY <1>1 DEF Linked
<1>3. PICK key : key = KeyTo(e)
  OBVIOUS
<1>4. PICK S2 : S2 = S \o U
  OBVIOUS
<1>5. PICK A2 : A2 = A \o cells
  OBVIOUS
<1>6. U \in Seq(Message) /\ cells \in Seq(Cells)
  BY DEF Encodes
<1>7. PICK cut2, nc2, enc2 : GoesOn(p, key, S, cut, nc, S2, A2, cut2, nc2, enc2, tx2)
  <2>1. CASE p = "stream"
    <3>1. /\ Len(U) = Len(cells) /\ (\A i \in 1..Len(U) : U[i] = <<0, <<cells[i]>>>>)
          /\ tx2 = nc[Len(S)]
      BY <1>2, <2>1 DEF Encodes
    <3>2. History("stream", key, S, A, cut, nc, enc) /\ cut[0] = 0
      BY <1>2, <1>3, <2>1 DEF Opening
    <3>3. S \in Seq(Message) /\ A \in Seq(Cells)
      BY <1>2
    <3>4. \E cut2, nc2, enc2 : GoesOn("stream", key, S, cut, nc, S \o U, A \o cells, cut2, nc2, enc2, tx2)
      BY <1>6, <3>1, <3>2, <3>3, StreamGrows
    <3> QED BY <1>4, <1>5, <2>1, <3>4
  <2>2. CASE p # "stream"
    <3>1. PICK m \in Message : /\ U = <<m>> /\ Len(cells) = HeadLen(p) + Len(m[2])
                               /\ IsFrame(p, key, cells, 0, m, x, tx)
      BY <1>3, <2>2 DEF Encodes
    <3>2. /\ (x = 0 \/ x = 1) /\ (x = 1 => p = "secure")
          /\ tx2 = IF x = 1 THEN (tx + 1) % Nonces ELSE tx
      BY <2>2 DEF Encodes
    <3>3. IsFrame(p, key, A \o cells, Len(A), m, x, tx)
      BY <1>2, <1>6, <3>1, ShiftedFrame
    <3>4. SendsFrame(p, key, S, A, cut, nc, enc, m, x, cells)
      BY <1>2, <1>3, <1>6, <2>2, <3>1, <3>2, <3>3 DEF SendsFrame
    <3>5. tx2 = IF x = 1 THEN (nc[Len(S)] + 1) % Nonces ELSE nc[Len(S)]
      BY <1>2, <3>2
    <3>6. \E cut2, nc2, enc2 : GoesOn(p, key, S, cut, nc, S \o <<m>>, A \o cells, cut2, nc2, enc2, tx2)
      BY <3>4, <3>5, HistoryGrows
    <3> QED BY <1>4, <1>5, <3>1, <3>6
  <2> QED BY <2>1, <2>2
<1>8. /\ History(p, key, S2, A2, cut2, nc2, enc2)
      /\ \A i \in 0..Len(S) : cut2[i] = cut[i] /\ nc2[i] = nc[i]
      /\ nc2[Len(S2)] = tx2
  BY <1>7 DEF GoesOn
<1>9. S2 \in Seq(Message) /\ Len(S) <= Len(S2) /\ Len(S) \in Nat /\ Len(S2) \in Nat /\ \A i \in 1..Len(S) : S2[i] = S[i]
  BY <1>2, <1>4, <1>6
<1>10. g \in Nat /\ g \in 0..Len(S2) /\ 0 \in 0..Len(S)
  BY <1>2, <1>9
<1>11. G = SubSeq(S2, 1, g)
  <2>1. g <= Len(S)
    BY <1>2
  <2> QED BY <1>2, <1>9, <1>10, <2>1
<1>12. cut2[0] = cut[0] /\ cut2[g] = cut[g] /\ nc2[g] = nc[g]
  BY <1>2, <1>8, <1>10
<1>13. PICK pos \in Nat : pos = Pos(pe, cut, g)
  BY <1>1, PosIsNat
<1>14. pos = Pos(pe, cut2, g)
  BY <1>12, <1>13 DEF Pos
<1>15. UnderWay(so, se, A2, pos, W \o cells, B)
  <2>1. UnderWay(so, se, A, pos, W, B)
    BY <1>2, <1>13
  <2> QED BY <1>2, <1>5, <1>6, <2>1, UnderWayAppends
<1>16. A2 \in Seq(Cells) /\ W \o cells \in Seq(Cells)
  BY <1>2, <1>5, <1>6, Appended
<1>17. Phases(p, so, 2, pe, S2, g)
  BY <1>2 DEF Phases
<1>18. Opened(p, e, so, 2, pe, orx, A2)
  <2>1. ASSUME NEW n \in Nat, NEW u, NEW v, MsgAt(A, n, u, v) PROVE MsgAt(A2, n, u, v)
    BY <1>2, <1>5, <1>6, <2>1, MsgAppended
  <2>2. ShakeLen \in Nat /\ 0 \in Nat
    BY ShakeLenIs
  <2> QED BY <1>2, <2>1, <2>2 DEF Opened
<1>19. PICK W2 : W2 = W \o cells
  OBVIOUS
<1>20. Linked(p, e, so, se, 2, pe, rx, tx2, orx, S2, G, W2, B, A2, cut2, nc2, enc2, g)
  BY <1>2, <1>3, <1>8, <1>9, <1>10, <1>11, <1>12, <1>14, <1>15, <1>16, <1>17, <1>18, <1>19 DEF Linked
<1>21. tx2 \in 0..(Nonces - 1)
  <2>1. nc2 \in [0..Len(S2) -> 0..(Nonces - 1)]
    BY <1>8, Zenon DEF History
  <2>2. Len(S2) \in 0..Len(S2)
    BY <1>9
  <2> QED BY <1>8, <2>1, <2>2
<1> QED BY <1>4, <1>19, <1>20, <1>21 DEF Link

-----------------------------------------------------------------------------
(* The inductive invariant: the handshake of each end is sound, and what is   *)
(* under way to it is the rest of what the other end sent.                    *)

\* An established end has received the key, and from then on each end
\* deciphers with the key of its own direction.
KeysAgree(e) ==
  /\ hs[e].established => hs[e].keyReceived
  /\ proto = "secure" /\ hs[e].keyReceived => hs[e].rxKey = KeyTo(e) /\ hs[e].txKey = KeyTo(Other(e))

\* The link from the other end to e
LinkTo(e) ==
  Link(proto, e, stage[Other(e)], stage[e], Phase(proto, hs[Other(e)]), Phase(proto, hs[e]),
       hs[e].rxNonce, hs[Other(e)].txNonce, hs[Other(e)].rxNonce, sent[Other(e)], got[e], wire[e], buf[e])

\* The link to e as the state has it, each part under a name of its own
Seen(e, so, se, po, pe, rx, tx, orx, S, G, W, B) ==
  /\ so = stage[Other(e)] /\ se = stage[e]
  /\ po = Phase(proto, hs[Other(e)]) /\ pe = Phase(proto, hs[e])
  /\ rx = hs[e].rxNonce /\ tx = hs[Other(e)].txNonce /\ orx = hs[Other(e)].rxNonce
  /\ S = sent[Other(e)] /\ G = got[e] /\ W = wire[e] /\ B = buf[e]

\* The parts can be named.
LEMMA SeenAt ==
  ASSUME NEW e
  PROVE  \E so, se, po, pe, rx, tx, orx, S, G, W, B : Seen(e, so, se, po, pe, rx, tx, orx, S, G, W, B)
BY Zenon DEF Seen

\* The ranges of the variables, and that nothing threw
Shapes ==
  /\ proto \in Protocols
  /\ stage \in [Ends -> {"new", "open", "closed"}]
  /\ hs \in [Ends -> HandshakeStates]
  /\ wire \in [Ends -> Seq(Cells)] /\ buf \in [Ends -> Seq(Cells)]
  /\ sent \in [Ends -> Seq(Message)] /\ got \in [Ends -> Seq(Message)]
  /\ threw = {}

\* The inductive invariant: the keys of the two ends match and each of the two
\* links has a history, of which what is buffered and on the wire is the rest.
IInv == Shapes /\ \A e \in Ends : KeysAgree(e) /\ LinkTo(e)

\* There are two ends.
LEMMA Sides ==
  ASSUME NEW e \in Ends
  PROVE  /\ Other(e) \in Ends /\ Other(Other(e)) = e /\ Other(e) # e
         /\ \A x \in Ends : x = e \/ x = Other(e)
BY DEF Ends, Other

\* What a link says of the sequences it relates
LEMMA LinkTypes ==
  ASSUME NEW p, NEW e, NEW so, NEW se, NEW po, NEW pe, NEW rx, NEW tx, NEW orx, NEW S, NEW G, NEW W, NEW B,
         Link(p, e, so, se, po, pe, rx, tx, orx, S, G, W, B)
  PROVE  /\ S \in Seq(Message) /\ G \in Seq(Message) /\ W \in Seq(Cells) /\ B \in Seq(Cells)
         /\ p = "secure" /\ pe = 2 => po # 0
         /\ po # 2 => S = <<>>
<1>1. PICK A, cut, nc, enc, g : Linked(p, e, so, se, po, pe, rx, tx, orx, S, G, W, B, A, cut, nc, enc, g)
  BY Zenon DEF Link
<1>2. /\ S \in Seq(Message) /\ W \in Seq(Cells) /\ B \in Seq(Cells)
      /\ g \in 0..Len(S) /\ G = SubSeq(S, 1, g) /\ Phases(p, so, po, pe, S, g)
  BY <1>1 DEF Linked
<1>3. G \in Seq(Message)
  BY <1>2
<1> QED BY <1>2, <1>3 DEF Phases

\* A new handshake is in range.
LEMMA FreshState == Fresh \in HandshakeStates
BY Widths DEF Fresh, HandshakeStates

\* IInv holds at the start.
LEMMA InitGood ==
  ASSUME Init PROVE IInv
<1>1. Shapes
  <2>1. <<>> \in Seq(Cells) /\ <<>> \in Seq(Message)
    OBVIOUS
  <2> QED BY <2>1, FreshState DEF Init, Shapes
<1>2. ASSUME NEW e \in Ends PROVE KeysAgree(e) /\ LinkTo(e)
  <2>1. PICK o \in Ends : o = Other(e)
    BY Sides
  <2>2. PICK ph : ph = IF proto = "secure" THEN 0 ELSE 2
    OBVIOUS
  <2>3. PICK p : p = proto
    OBVIOUS
  <2>4. p \in {"stream", "plain", "secure"}
    BY <2>3, ChannelAssumption DEF Init
  <2>5. Link(p, e, "new", "new", ph, ph, 0, 0, 0, <<>>, <<>>, <<>>, <<>>)
    BY <2>2, <2>3, <2>4, LinkInit
  <2>6. hs[e] = Fresh /\ hs[o] = Fresh /\ stage[e] = "new" /\ stage[o] = "new"
        /\ sent[o] = <<>> /\ got[e] = <<>> /\ wire[e] = <<>> /\ buf[e] = <<>>
    BY DEF Init
  <2>7. /\ Phase(proto, Fresh) = ph /\ Fresh.rxNonce = 0 /\ Fresh.txNonce = 0
        /\ Fresh.established = FALSE /\ Fresh.keyReceived = FALSE
    BY <2>2 DEF Phase, Fresh
  <2>8. LinkTo(e)
    BY <2>1, <2>3, <2>5, <2>6, <2>7 DEF LinkTo
  <2> QED BY <2>6, <2>7, <2>8 DEF KeysAgree
<1> QED BY <1>1, <1>2 DEF IInv

\* session::start() keeps it: the greeting goes out, nothing is received yet.
LEMMA StartKeeps ==
  ASSUME IInv, NEW e \in Ends, Start(e) PROVE IInv'
<1>1. PICK o \in Ends : o = Other(e)
  BY Sides
<1>2. e = Other(o) /\ o # e /\ \A x \in Ends : x = e \/ x = o
  BY <1>1, Sides
<1>3. PICK p : p = proto
  OBVIOUS
<1>4. Shapes /\ KeysAgree(e) /\ KeysAgree(o) /\ LinkTo(e) /\ LinkTo(o)
  BY DEF IInv
<1>5. PICK x : x = Greeting(e)
  OBVIOUS
<1>6. x = IF p = "secure" THEN LengthEncode(SyncKey(Other(o))) ELSE <<>>
  BY <1>2, <1>3, <1>5 DEF Greeting
<1>7. /\ stage[e] = "new" /\ stage'[e] = "open" /\ stage'[o] = stage[o]
      /\ wire'[e] = wire[e] /\ wire'[o] = wire[o] \o x
      /\ proto' = proto /\ hs' = hs /\ buf' = buf /\ sent' = sent /\ got' = got /\ threw' = threw
  BY <1>1, <1>2, <1>4, <1>5 DEF Start, Shapes
<1>8. LinkTo(o)' /\ wire'[o] \in Seq(Cells)
  <2>1. PICK so, se, po, pe, rx, tx, orx, S, G, W, B : Seen(o, so, se, po, pe, rx, tx, orx, S, G, W, B)
    BY SeenAt, Zenon
  <2>2. Link(p, o, so, se, po, pe, rx, tx, orx, S, G, W, B)
    BY <1>3, <1>4, <2>1 DEF LinkTo, Seen
  <2>3. so = "new"
    BY <1>2, <1>7, <2>1 DEF Seen
  <2>4. Link(p, o, "open", se, po, pe, rx, tx, orx, S, G, W \o x, B)
    BY <1>6, <2>2, <2>3, LinkGreets
  <2>5. W \o x \in Seq(Cells)
    BY <2>4, LinkTypes
  <2> QED BY <1>2, <1>3, <1>7, <2>1, <2>4, <2>5 DEF LinkTo, Seen
<1>9. LinkTo(e)'
  <2>1. PICK so, se, po, pe, rx, tx, orx, S, G, W, B : Seen(e, so, se, po, pe, rx, tx, orx, S, G, W, B)
    BY SeenAt, Zenon
  <2>2. Link(p, e, so, se, po, pe, rx, tx, orx, S, G, W, B)
    BY <1>3, <1>4, <2>1 DEF LinkTo, Seen
  <2>3. se # "closed"
    BY <1>7, <2>1 DEF Seen
  <2>4. Link(p, e, so, "open", po, pe, rx, tx, orx, S, G, W, B)
    BY <2>2, <2>3, LinkStarted
  <2> QED BY <1>1, <1>3, <1>7, <2>1, <2>4 DEF LinkTo, Seen
<1>10. KeysAgree(e)' /\ KeysAgree(o)'
  BY <1>4, <1>7 DEF KeysAgree
<1>11. Shapes'
  <2>1. stage' \in [Ends -> {"new", "open", "closed"}]
    BY <1>4 DEF Shapes, Start
  <2>2. wire' \in [Ends -> Seq(Cells)]
    BY <1>1, <1>4, <1>7, <1>8 DEF Start, Shapes
  <2> QED BY <1>4, <1>7, <2>1, <2>2 DEF Shapes
<1> QED BY <1>2, <1>8, <1>9, <1>10, <1>11 DEF IInv
\* handle_close() keeps it, whatever part of the bytes under way is lost.
LEMMA CloseKeeps ==
  ASSUME IInv, NEW e \in Ends, NEW k \in 0..Len(wire[Other(e)]), Close(e, k) PROVE IInv'
<1>1. PICK o \in Ends : o = Other(e)
  BY Sides
<1>2. e = Other(o) /\ o # e /\ \A x \in Ends : x = e \/ x = o
  BY <1>1, Sides
<1>3. PICK p : p = proto
  OBVIOUS
<1>4. Shapes /\ KeysAgree(e) /\ KeysAgree(o) /\ LinkTo(e) /\ LinkTo(o)
  BY DEF IInv
<1>5. /\ stage[e] = "open" /\ stage'[e] = "closed" /\ stage'[o] = stage[o]
      /\ wire'[e] = <<>> /\ wire'[o] = SubSeq(wire[o], 1, k)
      /\ proto' = proto /\ hs' = hs /\ buf' = buf /\ sent' = sent /\ got' = got /\ threw' = threw
  BY <1>1, <1>2, <1>4 DEF Close, Shapes
<1>6. LinkTo(o)' /\ wire'[o] \in Seq(Cells)
  <2>1. PICK so, se, po, pe, rx, tx, orx, S, G, W, B : Seen(o, so, se, po, pe, rx, tx, orx, S, G, W, B)
    BY SeenAt, Zenon
  <2>2. Link(p, o, so, se, po, pe, rx, tx, orx, S, G, W, B)
    BY <1>3, <1>4, <2>1 DEF LinkTo, Seen
  <2>3. so # "new" /\ k \in Nat /\ k <= Len(W)
    <3>1. W = wire[o] /\ Len(wire[o]) \in Nat
      BY <1>4, <2>1 DEF Seen, Shapes
    <3>2. so = stage[e]
      BY <1>2, <2>1 DEF Seen
    <3>3. k \in 0..Len(W)
      BY <1>1, <3>1
    <3> QED BY <1>5, <3>1, <3>2, <3>3
  <2>4. Link(p, o, "closed", se, po, pe, rx, tx, orx, S, G, SubSeq(W, 1, k), B)
    BY <2>2, <2>3, LinkSenderClosed
  <2>5. SubSeq(W, 1, k) \in Seq(Cells)
    BY <2>4, LinkTypes
  <2> QED BY <1>2, <1>3, <1>5, <2>1, <2>4, <2>5 DEF LinkTo, Seen
<1>7. LinkTo(e)'
  <2>1. PICK so, se, po, pe, rx, tx, orx, S, G, W, B : Seen(e, so, se, po, pe, rx, tx, orx, S, G, W, B)
    BY SeenAt, Zenon
  <2>2. Link(p, e, so, se, po, pe, rx, tx, orx, S, G, W, B)
    BY <1>3, <1>4, <2>1 DEF LinkTo, Seen
  <2>3. Link(p, e, so, "closed", po, pe, rx, tx, orx, S, G, <<>>, B)
    BY <2>2, LinkHearerClosed
  <2> QED BY <1>1, <1>3, <1>5, <2>1, <2>3 DEF LinkTo, Seen
<1>8. KeysAgree(e)' /\ KeysAgree(o)'
  BY <1>4, <1>5 DEF KeysAgree
<1>9. Shapes'
  <2>1. stage' \in [Ends -> {"new", "open", "closed"}]
    BY <1>4 DEF Shapes, Close
  <2>2. wire' \in [Ends -> Seq(Cells)]
    <3>1. <<>> \in Seq(Cells)
      OBVIOUS
    <3>2. wire' = [x \in Ends |-> wire'[x]]
      BY <1>4 DEF Close, Shapes
    <3> QED BY <1>2, <1>5, <1>6, <3>1, <3>2
  <2> QED BY <1>4, <1>5, <2>1, <2>2 DEF Shapes
<1> QED BY <1>2, <1>6, <1>7, <1>8, <1>9 DEF IInv

\* The bytes of an application are cells in clear.
LEMMA BodyOfPayload ==
  ASSUME NEW t \in Topics, NEW pay \in Payloads, pay # <<>>, Len(pay) < MaxSend, NEW body,
         body = [i \in DOMAIN pay |-> Clear(pay[i])]
  PROVE  /\ body \in Seq(ClearCell) /\ <<t, body>> \in Message
         /\ body \in Seq(Cells) /\ Len(body) = Len(pay) /\ DOMAIN body = 1..Len(body)
<1>1. PICK n \in Nat : n = Len(pay) /\ DOMAIN pay = 1..n
  BY ChannelAssumption
<1>2. n # 0 /\ n < Weight[LenWidth]
  BY <1>1, ChannelAssumption, Widths
<1>3. \A i \in 1..n : Clear(pay[i]) \in ClearCell
  <2>1. PICK T : T = 0..(Base - 1)
    OBVIOUS
  <2>2. pay \in Seq(T)
    BY <2>1, ChannelAssumption
  <2>3. \A i \in 1..n : pay[i] \in T
    BY <1>1, <2>2
  <2> QED BY <2>1, <2>3, Zenon DEF ClearCell
<1>4. body = [i \in 1..n |-> Clear(pay[i])]
  BY <1>1
<1>5. body \in Seq(ClearCell) /\ Len(body) = n /\ DOMAIN body = 1..n
  BY <1>3, <1>4
<1>6. body # <<>>
  BY <1>2, <1>5
<1>7. t \in 0..(Weight[TopicWidth] - 1)
  BY ChannelAssumption
<1> QED BY <1>1, <1>2, <1>5, <1>6, <1>7, ClearIsCell DEF Message

\* A handshake whose other nonce moved
WithTx(h, nonce) == [h EXCEPT !.txNonce = nonce]

\* The fields of a handshake after a nonce moved
LEMMA Moved ==
  ASSUME NEW h \in HandshakeStates, NEW nonce \in 0..(Nonces - 1)
  PROVE  /\ WithTx(h, nonce) \in HandshakeStates /\ WithNonce(h, nonce) \in HandshakeStates
         /\ WithTx(h, nonce).txNonce = nonce /\ WithNonce(h, nonce).rxNonce = nonce
         /\ WithTx(h, nonce).rxNonce = h.rxNonce /\ WithNonce(h, nonce).txNonce = h.txNonce
         /\ WithTx(h, nonce).rxKey = h.rxKey /\ WithNonce(h, nonce).rxKey = h.rxKey
         /\ WithTx(h, nonce).txKey = h.txKey /\ WithNonce(h, nonce).txKey = h.txKey
         /\ WithTx(h, nonce).keyReceived = h.keyReceived /\ WithNonce(h, nonce).keyReceived = h.keyReceived
         /\ WithTx(h, nonce).established = h.established /\ WithNonce(h, nonce).established = h.established
BY DEF HandshakeStates, WithTx, WithNonce

\* secure_protocol::encode() of a handshake, by the bytes and the nonce after
LEMMA SecureEncodes ==
  ASSUME NEW h \in HandshakeStates, NEW m \in Message, NEW key, key = "toClient" \/ key = "toServer",
         h.txKey = key, NEW encrypt \in BOOLEAN, NEW x, x = IF encrypt THEN 1 ELSE 0,
         NEW tx2, tx2 = IF x = 1 THEN (h.txNonce + 1) % Nonces ELSE h.txNonce
  PROVE  /\ SecureEncode(h, m[1], m[2], encrypt) =
              [hs |-> WithTx(h, tx2), cells |-> SecureBytes(m, x, key, h.txNonce)]
         /\ Encodes("secure", key, <<m>>, x, h.txNonce, SecureBytes(m, x, key, h.txNonce), tx2)
         /\ tx2 \in 0..(Nonces - 1)
<1>1. PICK c \in 0..(Nonces - 1) : c = h.txNonce
  BY DEF HandshakeStates
<1>2. tx2 \in 0..(Nonces - 1)
  BY <1>1, Widths
<1>3. PICK y : y = SecureBytes(m, x, key, c)
  OBVIOUS
<1>4. SecureEncode(h, m[1], m[2], encrypt) = [hs |-> WithTx(h, tx2), cells |-> y]
  <2>1. CASE encrypt
    <3>1. x = 1 /\ tx2 = (h.txNonce + 1) % Nonces
      BY <2>1
    <3>2. CipherEncode(h, m[2]) = [hs |-> WithTx(h, tx2), cells |-> Coded(m[2], x, key, c)]
      BY <1>1, <3>1 DEF CipherEncode, WithTx, Coded
    <3>3. CipherEncode(h, m[2]).hs = WithTx(h, tx2) /\ CipherEncode(h, m[2]).cells = Coded(m[2], x, key, c)
      BY <3>2
    <3> QED BY <1>3, <2>1, <3>1, <3>3 DEF SecureEncode, SecureBytes
  <2>2. CASE ~encrypt
    <3>1. x = 0 /\ tx2 = h.txNonce
      BY <2>2
    <3>2. WithTx(h, tx2) = h
      BY <3>1 DEF WithTx, HandshakeStates
    <3>3. Coded(m[2], x, key, c) = m[2]
      BY <3>1 DEF Coded
    <3> QED BY <1>3, <2>2, <3>1, <3>2, <3>3 DEF SecureEncode, SecureBytes
  <2> QED BY <2>1, <2>2
<1>5. /\ y \in Seq(Cells) /\ Len(y) = HeadLen("secure") + Len(m[2])
      /\ IsFrame("secure", key, y, 0, m, x, c)
  BY <1>3, SecureEncoded
<1>6. <<m>> \in Seq(Message)
  OBVIOUS
<1>7. Encodes("secure", key, <<m>>, x, c, y, tx2)
  BY <1>1, <1>5, <1>6 DEF Encodes
<1> QED BY <1>1, <1>2, <1>3, <1>4, <1>7

\* What encode() commits to the send buffer is what was handed to send().
LEMMA EncodeEncodes ==
  ASSUME NEW h \in HandshakeStates, NEW t, NEW body \in Seq(ClearCell), <<t, body>> \in Message,
         NEW key, key = "toClient" \/ key = "toServer", proto = "secure" => h.txKey = key,
         NEW encrypt \in BOOLEAN, proto \in {"stream", "plain", "secure"}
  PROVE  \E x, cells, tx2 :
           /\ Encode(h, t, body, encrypt) = [hs |-> WithTx(h, tx2), cells |-> cells]
           /\ Encodes(proto, key, Units(t, body), x, h.txNonce, cells, tx2)
           /\ tx2 \in 0..(Nonces - 1)
<1>1. PICK c \in 0..(Nonces - 1) : c = h.txNonce
  BY DEF HandshakeStates
<1>2. WithTx(h, c) = h
  BY <1>1 DEF WithTx, HandshakeStates
<1>3. PICK m \in Message : m = <<t, body>>
  OBVIOUS
<1>4. m[1] = t /\ m[2] = body
  BY <1>3
<1>5. CASE proto = "stream"
  <2>1. Encode(h, t, body, encrypt) = [hs |-> h, cells |-> body]
    BY <1>5 DEF Encode
  <2>2. PICK n \in Nat : n = Len(body) /\ DOMAIN body = 1..n
    OBVIOUS
  <2>3. PICK U : U = Units(t, body)
    OBVIOUS
  <2>4. U = [i \in 1..n |-> <<0, <<body[i]>>>>]
    BY <1>5, <2>2, <2>3 DEF Units
  <2>5. \A i \in 1..n : <<0, <<body[i]>>>> \in Message
    <3> SUFFICES ASSUME NEW i \in 1..n PROVE <<0, <<body[i]>>>> \in Message
      OBVIOUS
    <3>1. body[i] \in ClearCell
      BY <2>2
    <3>2. PICK s : s = <<body[i]>>
      OBVIOUS
    <3>3. s \in Seq(ClearCell) /\ s # <<>> /\ Len(s) = 1
      BY <3>1, <3>2
    <3>4. 1 < Weight[LenWidth] /\ 0 \in 0..(Weight[TopicWidth] - 1)
      BY Widths
    <3> QED BY <3>2, <3>3, <3>4 DEF Message
  <2>6. U \in Seq(Message) /\ Len(U) = n /\ \A i \in 1..n : U[i] = <<0, <<body[i]>>>>
    BY <2>4, <2>5
  <2>7. body \in Seq(Cells)
    BY ClearIsCell
  <2>8. Encodes(proto, key, U, 0, c, body, c)
    BY <1>5, <2>2, <2>6, <2>7 DEF Encodes
  <2> QED BY <1>1, <1>2, <2>1, <2>3, <2>8
<1>6. CASE proto = "plain"
  <2>1. PICK y : y = PlainEncode(m[1], m[2])
    OBVIOUS
  <2>2. Encode(h, t, body, encrypt) = [hs |-> h, cells |-> y]
    BY <1>4, <1>6, <2>1 DEF Encode
  <2>3. Units(t, body) = <<m>>
    BY <1>3, <1>6 DEF Units
  <2>4. y \in Seq(Cells) /\ Len(y) = HeadLen("plain") + Len(m[2]) /\ IsFrame("plain", key, y, 0, m, 0, c)
    BY <2>1, PlainEncoded
  <2>5. <<m>> \in Seq(Message)
    OBVIOUS
  <2>6. Encodes(proto, key, <<m>>, 0, c, y, c)
    BY <1>6, <2>4, <2>5 DEF Encodes
  <2> QED BY <1>1, <1>2, <2>2, <2>3, <2>6
<1>7. CASE proto = "secure"
  <2>1. PICK x : x = IF encrypt THEN 1 ELSE 0
    OBVIOUS
  <2>2. PICK tx2 : tx2 = IF x = 1 THEN (h.txNonce + 1) % Nonces ELSE h.txNonce
    OBVIOUS
  <2>3. PICK y : y = SecureBytes(m, x, key, h.txNonce)
    OBVIOUS
  <2>4. /\ SecureEncode(h, m[1], m[2], encrypt) = [hs |-> WithTx(h, tx2), cells |-> y]
        /\ Encodes("secure", key, <<m>>, x, h.txNonce, y, tx2)
        /\ tx2 \in 0..(Nonces - 1)
    BY <1>7, <2>1, <2>2, <2>3, SecureEncodes
  <2>5. Encode(h, t, body, encrypt) = [hs |-> WithTx(h, tx2), cells |-> y]
    BY <1>4, <1>7, <2>4 DEF Encode
  <2>6. Units(t, body) = <<m>>
    BY <1>3, <1>7 DEF Units
  <2> QED BY <1>7, <2>4, <2>5, <2>6
<1> QED BY <1>5, <1>6, <1>7

\* End e sends the message U as cells, encrypted if x = 1, and keeps nonce tx2.
Sending(e, U, x, cells, tx2) ==
  /\ stage[e] = "open" /\ Phase(proto, hs[e]) = 2
  /\ Encodes(proto, KeyTo(Other(e)), U, x, hs[e].txNonce, cells, tx2)
  /\ tx2 \in 0..(Nonces - 1)
  /\ wire' = [wire EXCEPT ![Other(e)] = @ \o cells]
  /\ hs' = [hs EXCEPT ![e] = WithTx(hs[e], tx2)]
  /\ sent' = [sent EXCEPT ![e] = @ \o U]
  /\ UNCHANGED <<proto, stage, buf, got, threw>>

\* What send() does, with the units and the bytes named
LEMMA SendIs ==
  ASSUME IInv, NEW e \in Ends, NEW t \in Topics, NEW pay \in Payloads, NEW encrypt \in BOOLEAN,
         Send(e, t, pay, encrypt)
  PROVE  \E U, x, cells, tx2 : Sending(e, U, x, cells, tx2)
<1>1. PICK body : body = [i \in DOMAIN pay |-> Clear(pay[i])]
  OBVIOUS
<1>2. pay # <<>> /\ Len(pay) < MaxSend
  BY DEF Send
<1>3. body \in Seq(ClearCell) /\ <<t, body>> \in Message
  BY <1>1, <1>2, BodyOfPayload
<1>4. PICK h : h = hs[e]
  OBVIOUS
<1>5. h \in HandshakeStates /\ KeysAgree(e) /\ proto \in {"stream", "plain", "secure"}
  BY <1>4, ChannelAssumption DEF IInv, Shapes
<1>6. stage[e] = "open" /\ (proto = "secure" => h.established)
  BY <1>4 DEF Send, IsEstablished
<1>7. PICK key : key = KeyTo(Other(e))
  OBVIOUS
<1>8. (key = "toClient" \/ key = "toServer") /\ (proto = "secure" => h.txKey = key)
  BY <1>4, <1>5, <1>6, <1>7 DEF KeyTo, KeysAgree
<1>9. PICK x, cells, tx2 : /\ Encode(h, t, body, encrypt) = [hs |-> WithTx(h, tx2), cells |-> cells]
                           /\ Encodes(proto, key, Units(t, body), x, h.txNonce, cells, tx2)
                           /\ tx2 \in 0..(Nonces - 1)
  BY <1>3, <1>5, <1>8, EncodeEncodes
<1>10. Encode(h, t, body, encrypt).hs = WithTx(h, tx2) /\ Encode(h, t, body, encrypt).cells = cells
  BY <1>9
<1>11. /\ wire' = [wire EXCEPT ![Other(e)] = @ \o Encode(h, t, body, encrypt).cells]
       /\ hs' = [hs EXCEPT ![e] = Encode(h, t, body, encrypt).hs]
       /\ sent' = [sent EXCEPT ![e] = @ \o Units(t, body)]
       /\ UNCHANGED <<proto, stage, buf, got, threw>>
  BY <1>1, <1>4, Zenon DEF Send
<1>12. Phase(proto, hs[e]) = 2
  BY <1>4, <1>6 DEF Phase
<1>13. Sending(e, Units(t, body), x, cells, tx2)
  BY <1>4, <1>6, <1>7, <1>9, <1>10, <1>11, <1>12 DEF Sending
<1> QED BY <1>13

\* session::send() keeps it: the frame is added at the end of what is under way.
LEMMA SendKeeps ==
  ASSUME IInv, NEW e \in Ends, NEW t \in Topics, NEW pay \in Payloads, NEW encrypt \in BOOLEAN,
         Send(e, t, pay, encrypt)
  PROVE  IInv'
<1>1. PICK o \in Ends : o = Other(e)
  BY Sides
<1>2. e = Other(o) /\ o # e /\ \A x \in Ends : x = e \/ x = o
  BY <1>1, Sides
<1>3. PICK p : p = proto
  OBVIOUS
<1>4. Shapes /\ KeysAgree(e) /\ KeysAgree(o) /\ LinkTo(e) /\ LinkTo(o)
  BY DEF IInv
<1>5. PICK U, x, cells, tx2 :
        /\ stage[e] = "open" /\ Phase(proto, hs[e]) = 2
        /\ Encodes(proto, KeyTo(o), U, x, hs[e].txNonce, cells, tx2)
        /\ tx2 \in 0..(Nonces - 1)
        /\ wire' = [wire EXCEPT ![o] = @ \o cells]
        /\ hs' = [hs EXCEPT ![e] = WithTx(hs[e], tx2)]
        /\ sent' = [sent EXCEPT ![e] = @ \o U]
        /\ UNCHANGED <<proto, stage, buf, got, threw>>
  <2>1. PICK U, x, cells, tx2 : Sending(e, U, x, cells, tx2)
    BY SendIs
  <2> QED BY <1>1, <2>1 DEF Sending
<1>6. PICK h : h = hs[e]
  OBVIOUS
<1>7. h \in HandshakeStates
  BY <1>4, <1>6 DEF Shapes
<1>8. PICK h2 : h2 = WithTx(h, tx2)
  OBVIOUS
<1>9. /\ h2 \in HandshakeStates /\ h2.txNonce = tx2 /\ h2.rxNonce = h.rxNonce /\ h2.rxKey = h.rxKey
      /\ h2.txKey = h.txKey /\ h2.keyReceived = h.keyReceived /\ h2.established = h.established
  BY <1>5, <1>7, <1>8, Moved
<1>10. Phase(proto, h2) = Phase(proto, h)
  BY <1>9 DEF Phase
<1>11. /\ wire'[e] = wire[e] /\ wire'[o] = wire[o] \o cells
       /\ hs'[e] = h2 /\ hs'[o] = hs[o]
       /\ sent'[e] = sent[e] \o U /\ sent'[o] = sent[o]
       /\ proto' = proto /\ stage' = stage /\ buf' = buf /\ got' = got /\ threw' = threw
  BY <1>2, <1>4, <1>5, <1>6, <1>8 DEF Shapes
<1>12. LinkTo(o)' /\ wire'[o] \in Seq(Cells) /\ sent'[e] \in Seq(Message)
  <2>1. PICK so, se, po, pe, rx, tx, orx, S, G, W, B : Seen(o, so, se, po, pe, rx, tx, orx, S, G, W, B)
    BY SeenAt, Zenon
  <2>2. Link(p, o, so, se, po, pe, rx, tx, orx, S, G, W, B)
    BY <1>3, <1>4, <2>1 DEF LinkTo, Seen
  <2>3. so = "open" /\ po = 2 /\ tx = h.txNonce /\ orx = h.rxNonce
    BY <1>2, <1>5, <1>6, <2>1 DEF Seen
  <2>4. Encodes(p, KeyTo(o), U, x, tx, cells, tx2)
    BY <1>3, <1>5, <1>6, <2>3
  <2>5. Link(p, o, so, se, 2, pe, rx, tx2, orx, S \o U, G, W \o cells, B)
    BY <2>2, <2>3, <2>4, LinkSends
  <2>6. W \o cells \in Seq(Cells) /\ S \o U \in Seq(Message)
    BY <2>5, LinkTypes
  <2>7. /\ stage'[e] = so /\ stage'[o] = se /\ Phase(proto', hs'[e]) = 2 /\ Phase(proto', hs'[o]) = pe
        /\ hs'[o].rxNonce = rx /\ hs'[e].txNonce = tx2 /\ hs'[e].rxNonce = orx
        /\ sent'[e] = S \o U /\ got'[o] = G /\ wire'[o] = W \o cells /\ buf'[o] = B
    BY <1>2, <1>5, <1>6, <1>9, <1>10, <1>11, <2>1, <2>3 DEF Seen
  <2> QED BY <1>2, <1>3, <1>11, <2>5, <2>6, <2>7 DEF LinkTo
<1>13. LinkTo(e)'
  BY <1>1, <1>4, <1>6, <1>9, <1>10, <1>11 DEF LinkTo
<1>14. KeysAgree(e)' /\ KeysAgree(o)'
  BY <1>4, <1>6, <1>9, <1>11 DEF KeysAgree
<1>15. Shapes'
  <2>1. hs' \in [Ends -> HandshakeStates]
    BY <1>4, <1>5, <1>6, <1>8, <1>9 DEF Shapes
  <2>2. wire' \in [Ends -> Seq(Cells)]
    BY <1>4, <1>5, <1>11, <1>12 DEF Shapes
  <2>3. sent' \in [Ends -> Seq(Message)]
    BY <1>4, <1>5, <1>11, <1>12 DEF Shapes
  <2> QED BY <1>4, <1>11, <2>1, <2>2, <2>3 DEF Shapes
<1> QED BY <1>2, <1>12, <1>13, <1>14, <1>15 DEF IInv

\* What a completed receive leaves behind
Leaves(e, b, h, g, W, reply) ==
  /\ wire' = [wire EXCEPT ![e] = W, ![Other(e)] = @ \o reply]
  /\ buf' = [buf EXCEPT ![e] = b] /\ hs' = [hs EXCEPT ![e] = h] /\ got' = [got EXCEPT ![e] = g]
  /\ threw' = threw /\ proto' = proto /\ stage' = stage /\ sent' = sent

\* The keys of e after on_handshake() are the ones KeysAgree asks for.
SoundKeys(p, e, h) ==
  /\ h.established => h.keyReceived
  /\ p = "secure" /\ h.keyReceived => h.rxKey = KeyTo(e) /\ h.txKey = KeyTo(Other(e))

\* It keeps the invariant if both links are as they must be.
LEMMA LeavesKeeps ==
  ASSUME IInv, NEW e \in Ends, NEW o \in Ends, o = Other(e), NEW b, NEW h \in HandshakeStates, NEW g, NEW W, NEW reply,
         Leaves(e, b, h, g, W, reply), SoundKeys(proto, e, h),
         Link(proto, e, stage[o], stage[e], Phase(proto, hs[o]), Phase(proto, h),
              h.rxNonce, hs[o].txNonce, hs[o].rxNonce, sent[o], g, W, b),
         Link(proto, o, stage[e], stage[o], Phase(proto, h), Phase(proto, hs[o]),
              hs[o].rxNonce, h.txNonce, h.rxNonce, sent[e], got[o], wire[o] \o reply, buf[o])
  PROVE  IInv'
<1>1. e = Other(o) /\ o # e /\ \A x \in Ends : x = e \/ x = o
  BY Sides
<1>2. Shapes /\ KeysAgree(o)
  BY DEF IInv
<1>3. /\ wire'[e] = W /\ wire'[o] = wire[o] \o reply
      /\ buf'[e] = b /\ buf'[o] = buf[o] /\ hs'[e] = h /\ hs'[o] = hs[o] /\ got'[e] = g /\ got'[o] = got[o]
      /\ threw' = threw /\ proto' = proto /\ stage' = stage /\ sent' = sent
  BY <1>1, <1>2 DEF Leaves, Shapes
<1>4. LinkTo(e)'
  BY <1>3 DEF LinkTo
<1>5. LinkTo(o)'
  BY <1>1, <1>3 DEF LinkTo
<1>6. KeysAgree(e)' /\ KeysAgree(o)'
  BY <1>2, <1>3 DEF KeysAgree, SoundKeys
<1>7. g \in Seq(Message) /\ W \in Seq(Cells) /\ b \in Seq(Cells)
  <2>1. PICK so, se, po, pe, rx, tx, orx, S : Link(proto, e, so, se, po, pe, rx, tx, orx, S, g, W, b)
    OBVIOUS
  <2>2. PICK p : p = proto
    OBVIOUS
  <2>3. Link(p, e, so, se, po, pe, rx, tx, orx, S, g, W, b)
    BY <2>1, <2>2
  <2> QED BY <2>3, LinkTypes
<1>8. wire'[o] \in Seq(Cells)
  <2>1. PICK W2 : W2 = wire[o] \o reply
    OBVIOUS
  <2>2. PICK so, se, po, pe, rx, tx, orx, S, G, B : Link(proto, o, so, se, po, pe, rx, tx, orx, S, G, W2, B)
    BY <2>1
  <2>3. PICK p : p = proto
    OBVIOUS
  <2>4. Link(p, o, so, se, po, pe, rx, tx, orx, S, G, W2, B)
    BY <2>2, <2>3
  <2>5. W2 \in Seq(Cells)
    BY <2>4, LinkTypes
  <2> QED BY <1>3, <2>1, <2>5
<1>9. Shapes'
  <2>1. hs' \in [Ends -> HandshakeStates]
    BY <1>2 DEF Shapes, Leaves
  <2>2. wire' \in [Ends -> Seq(Cells)]
    <3>1. wire' = [x \in Ends |-> wire'[x]]
      BY <1>2 DEF Shapes, Leaves
    <3> QED BY <1>1, <1>3, <1>7, <1>8, <3>1
  <2>3. buf' \in [Ends -> Seq(Cells)]
    BY <1>2, <1>7 DEF Shapes, Leaves
  <2>4. got' \in [Ends -> Seq(Message)]
    BY <1>2, <1>7 DEF Shapes, Leaves
  <2> QED BY <1>2, <1>3, <2>1, <2>2, <2>3, <2>4 DEF Shapes
<1> QED BY <1>1, <1>4, <1>5, <1>6, <1>9 DEF IInv

\* handle_recv() of an established session takes whole frames;
LEMMA RecvIsFrames ==
  ASSUME IInv, NEW e \in Ends, NEW n, NEW nonce, HandleRecv(e, n, nonce), Phase(proto, hs[e]) = 2,
         NEW bytes, bytes = buf[e] \o SubSeq(wire[e], 1, n), NEW r, r = RecvFrames(Reader(bytes, hs[e], got[e]))
  PROVE  Leaves(e, r.buf, r.hs, r.got, SubSeq(wire[e], n + 1, Len(wire[e])), <<>>)
<1>1. IsEstablished(e)
  BY DEF HandleRecv, IsEstablished, Phase
<1>2. PICK shake : shake = [hs |-> hs[e], buf |-> bytes, reply |-> <<>>, ok |-> TRUE]
  OBVIOUS
<1>3. shake.hs = hs[e] /\ shake.buf = bytes /\ shake.reply = <<>> /\ shake.ok = TRUE
  BY <1>2
<1>4. r = RecvFrames([buf |-> shake.buf, hs |-> shake.hs, got |-> got[e]])
  BY <1>3 DEF Reader
<1>5. /\ wire' = [wire EXCEPT ![e] = SubSeq(@, n + 1, Len(@)), ![Other(e)] = @ \o shake.reply]
      /\ buf' = [buf EXCEPT ![e] = r.buf] /\ hs' = [hs EXCEPT ![e] = r.hs] /\ got' = [got EXCEPT ![e] = r.got]
      /\ threw' = IF shake.ok THEN threw ELSE threw \union {e}
      /\ UNCHANGED <<proto, stage, sent>>
  BY <1>1, <1>2, <1>4, Zenon DEF HandleRecv
<1> QED BY <1>3, <1>5 DEF Leaves

\* and before that one message of the handshake at most, if it is whole.
LEMMA RecvIsShake ==
  ASSUME IInv, NEW e \in Ends, NEW n, NEW nonce, HandleRecv(e, n, nonce), Phase(proto, hs[e]) # 2,
         NEW bytes, bytes = buf[e] \o SubSeq(wire[e], 1, n),
         NEW shake, shake = Handshake(e, bytes, nonce), shake.ok = TRUE,
         NEW before, before = Reader(shake.buf, shake.hs, got[e]),
         NEW r, r = IF shake.hs.established THEN RecvFrames(before) ELSE before
  PROVE  Leaves(e, r.buf, r.hs, r.got, SubSeq(wire[e], n + 1, Len(wire[e])), shake.reply)
<1>1. ~ IsEstablished(e)
  BY DEF HandleRecv, IsEstablished, Phase
<1>2. before = [buf |-> shake.buf, hs |-> shake.hs, got |-> got[e]]
  BY DEF Reader
<1>3. /\ wire' = [wire EXCEPT ![e] = SubSeq(@, n + 1, Len(@)), ![Other(e)] = @ \o shake.reply]
      /\ buf' = [buf EXCEPT ![e] = r.buf] /\ hs' = [hs EXCEPT ![e] = r.hs] /\ got' = [got EXCEPT ![e] = r.got]
      /\ threw' = IF shake.ok THEN threw ELSE threw \union {e}
      /\ UNCHANGED <<proto, stage, sent>>
  <2>1. PICK bs, s, a :
          /\ bs = buf[e] \o SubSeq(wire[e], 1, n)
          /\ s = IF IsEstablished(e) THEN [hs |-> hs[e], buf |-> bs, reply |-> <<>>, ok |-> TRUE]
                 ELSE Handshake(e, bs, nonce)
          /\ a = IF IsEstablished(e) \/ s.hs.established
                 THEN RecvFrames([buf |-> s.buf, hs |-> s.hs, got |-> got[e]])
                 ELSE [buf |-> s.buf, hs |-> s.hs, got |-> got[e]]
          /\ wire' = [wire EXCEPT ![e] = SubSeq(@, n + 1, Len(@)), ![Other(e)] = @ \o s.reply]
          /\ buf' = [buf EXCEPT ![e] = a.buf] /\ hs' = [hs EXCEPT ![e] = a.hs] /\ got' = [got EXCEPT ![e] = a.got]
          /\ threw' = IF s.ok THEN threw ELSE threw \union {e}
          /\ UNCHANGED <<proto, stage, sent>>
    BY ZenonT(30) DEF HandleRecv
  <2>2. s = shake
    BY <1>1, <2>1
  <2>3. a = r
    BY <1>1, <1>2, <2>1, <2>2, Zenon
  <2> QED BY <2>1, <2>2, <2>3
<1> QED BY <1>3 DEF Leaves

\* The handshake with the keys derived and a nonce drawn
KeyedState(e, h, nonce) ==
  [h EXCEPT !.keyReceived = TRUE, !.rxKey = KeyTo(e), !.txKey = KeyTo(Other(e)), !.rxNonce = nonce]

\* The handshake that is established, with the nonce the peer sent
Completed(h, nonce) == [h EXCEPT !.established = TRUE, !.txNonce = nonce]

\* k is KeyedState of h, field by field.
IsKeyed(k, e, h, nonce) ==
  /\ k \in HandshakeStates /\ k.keyReceived = TRUE /\ k.established = h.established
  /\ k.rxKey = KeyTo(e) /\ k.txKey = KeyTo(Other(e)) /\ k.rxNonce = nonce /\ k.txNonce = h.txNonce

\* k is Completed of h, field by field.
IsCompleted(k, h, nonce) ==
  /\ k \in HandshakeStates /\ k.keyReceived = h.keyReceived /\ k.established = TRUE
  /\ k.rxKey = h.rxKey /\ k.txKey = h.txKey /\ k.rxNonce = h.rxNonce /\ k.txNonce = nonce

\* crypto_kx: each end deciphers with the key the other one enciphers with.
LEMMA KeyedIs ==
  ASSUME NEW e \in Ends, NEW h \in HandshakeStates, NEW nonce \in 0..(Nonces - 1)
  PROVE  IsKeyed(KeyedState(e, h, nonce), e, h, nonce)
<1>1. KeyTo(e) \in {"none", "toClient", "toServer"} /\ KeyTo(Other(e)) \in {"none", "toClient", "toServer"}
  BY DEF KeyTo
<1>2. PICK a : a = KeyTo(e)
  OBVIOUS
<1>3. PICK b : b = KeyTo(Other(e))
  OBVIOUS
<1> QED BY <1>1, <1>2, <1>3 DEF KeyedState, HandshakeStates, IsKeyed

\* The last message of the handshake leaves the keys and the nonce to receive with.
LEMMA CompletedIs ==
  ASSUME NEW h \in HandshakeStates, NEW nonce \in 0..(Nonces - 1)
  PROVE  IsCompleted(Completed(h, nonce), h, nonce)
BY DEF Completed, HandshakeStates, IsCompleted

\* What handshake() returns when it does not throw
Shaken(shake, h, b, reply) == shake.hs = h /\ shake.buf = b /\ shake.reply = reply /\ shake.ok = TRUE

\* Without a whole message the handshake waits.
LEMMA ShakeWaits ==
  ASSUME NEW e, NEW bytes, NEW nonce, LengthDecode(bytes) = <<>>, NEW shake, shake = Handshake(e, bytes, nonce)
  PROVE  Shaken(shake, hs[e], bytes, <<>>)
<1>1. shake = [hs |-> hs[e], buf |-> bytes, reply |-> <<>>, ok |-> TRUE]
  BY Zenon DEF Handshake
<1> QED BY <1>1 DEF Shaken

\* The rest of the bytes after a message of the handshake
LEMMA ShakeRest ==
  ASSUME NEW bytes \in Seq(Cells), NEW msg, Len(msg) = 2
  PROVE  SubSeq(bytes, LenWidth + Len(msg) + 1, Len(bytes)) = Part(bytes, ShakeLen, Len(bytes))
<1>1. LenWidth + Len(msg) + 1 = ShakeLen + 1
  BY Widths DEF ShakeLen
<1> QED BY <1>1 DEF Part

\* sodium_handshake::on_handshake() of the key of the other end
LEMMA ShakeKeyed ==
  ASSUME NEW e \in Ends, NEW bytes \in Seq(Cells), NEW nonce, LengthDecode(bytes) = SyncKey(Other(e)),
         hs[e].keyReceived = FALSE, NEW shake, shake = Handshake(e, bytes, nonce)
  PROVE  Shaken(shake, KeyedState(e, hs[e], nonce), Part(bytes, ShakeLen, Len(bytes)),
                LengthEncode(SyncNonce(nonce, PublicKey(Other(e)))))
<1>1. PICK msg : msg = SyncKey(Other(e))
  OBVIOUS
<1>2. msg # <<>> /\ Len(msg) = 2 /\ msg[2][1] = PublicKey(Other(e))
  BY <1>1 DEF SyncKey, Clear
<1>3. PICK seal : seal = PublicKey(Other(e))
  OBVIOUS
<1>4. PICK reply : reply = SyncNonce(nonce, seal)
  OBVIOUS
<1>5. reply # <<>>
  BY <1>4 DEF SyncNonce
<1>6. PICK h : h = hs[e]
  OBVIOUS
<1>7. SessionKeys(e = "server").rx = KeyTo(e) /\ SessionKeys(e = "server").tx = KeyTo(Other(e))
  BY DEF SessionKeys, KeyTo, Other, Ends
<1>8. Keyed(e, h, nonce, seal) = [hs |-> KeyedState(e, h, nonce), reply |-> reply, ok |-> TRUE]
  BY <1>4, <1>7 DEF Keyed, KeyedState
<1>9. PICK r : r = OnHandshake(e, h, msg, nonce)
  OBVIOUS
<1>10. r = Keyed(e, h, nonce, seal)
  BY <1>2, <1>3, <1>6, <1>9 DEF OnHandshake, OnKey
<1>11. r.hs = KeyedState(e, h, nonce) /\ r.reply = reply /\ r.ok = TRUE
  BY <1>8, <1>10
<1>12. shake = [hs |-> r.hs, ok |-> r.ok,
                buf |-> IF r.ok THEN SubSeq(bytes, LenWidth + Len(msg) + 1, Len(bytes)) ELSE bytes,
                reply |-> IF r.reply = <<>> THEN <<>> ELSE LengthEncode(r.reply)]
  BY <1>1, <1>2, <1>6, <1>9 DEF Handshake
<1>13. SubSeq(bytes, LenWidth + Len(msg) + 1, Len(bytes)) = Part(bytes, ShakeLen, Len(bytes))
  BY <1>2, ShakeRest
<1>14. /\ shake.hs = r.hs /\ shake.ok = r.ok
       /\ shake.buf = IF r.ok THEN SubSeq(bytes, LenWidth + Len(msg) + 1, Len(bytes)) ELSE bytes
       /\ shake.reply = IF r.reply = <<>> THEN <<>> ELSE LengthEncode(r.reply)
  <2>1. PICK rest : rest = IF r.ok THEN SubSeq(bytes, LenWidth + Len(msg) + 1, Len(bytes)) ELSE bytes
    OBVIOUS
  <2>2. PICK answer : answer = IF r.reply = <<>> THEN <<>> ELSE LengthEncode(r.reply)
    OBVIOUS
  <2>3. shake = [hs |-> r.hs, ok |-> r.ok, buf |-> rest, reply |-> answer]
    BY <1>12, <2>1, <2>2, Zenon
  <2>4. shake.hs = r.hs /\ shake.ok = r.ok /\ shake.buf = rest /\ shake.reply = answer
    BY <2>3
  <2> QED BY <2>1, <2>2, <2>4, Zenon
<1> QED BY <1>3, <1>4, <1>5, <1>6, <1>11, <1>13, <1>14 DEF Shaken

\* and of its nonce, sealed for this end
LEMMA ShakeCompleted ==
  ASSUME NEW e \in Ends, NEW bytes \in Seq(Cells), NEW nonce, NEW v,
         LengthDecode(bytes) = SyncNonce(v, PublicKey(e)),
         hs[e].keyReceived = TRUE, NEW shake, shake = Handshake(e, bytes, nonce)
  PROVE  Shaken(shake, Completed(hs[e], v), Part(bytes, ShakeLen, Len(bytes)), <<>>)
<1>1. PICK msg : msg = SyncNonce(v, PublicKey(e))
  OBVIOUS
<1>2. msg # <<>> /\ Len(msg) = 2 /\ msg[2] = Sealed(v, PublicKey(e))
  BY <1>1 DEF SyncNonce
<1>3. msg[2][1] = v /\ Opens(msg[2], PublicKey(e))
  BY <1>2 DEF Sealed, Opens
<1>4. PICK h : h = hs[e]
  OBVIOUS
<1>5. OnNonce(e, h, msg) = [hs |-> Completed(h, v), reply |-> <<>>, ok |-> TRUE]
  BY <1>3 DEF OnNonce, Completed
<1>6. PICK r : r = OnHandshake(e, h, msg, nonce)
  OBVIOUS
<1>7. r = OnNonce(e, h, msg)
  BY <1>4, <1>6 DEF OnHandshake
<1>8. r.hs = Completed(h, v) /\ r.reply = <<>> /\ r.ok = TRUE
  BY <1>5, <1>7
<1>9. shake = [hs |-> r.hs, ok |-> r.ok,
                buf |-> IF r.ok THEN SubSeq(bytes, LenWidth + Len(msg) + 1, Len(bytes)) ELSE bytes,
                reply |-> IF r.reply = <<>> THEN <<>> ELSE LengthEncode(r.reply)]
  BY <1>1, <1>2, <1>4, <1>6 DEF Handshake
<1>10. SubSeq(bytes, LenWidth + Len(msg) + 1, Len(bytes)) = Part(bytes, ShakeLen, Len(bytes))
  BY <1>2, ShakeRest
<1>11. /\ shake.hs = r.hs /\ shake.ok = r.ok
       /\ shake.buf = IF r.ok THEN SubSeq(bytes, LenWidth + Len(msg) + 1, Len(bytes)) ELSE bytes
       /\ shake.reply = IF r.reply = <<>> THEN <<>> ELSE LengthEncode(r.reply)
  <2>1. PICK rest : rest = IF r.ok THEN SubSeq(bytes, LenWidth + Len(msg) + 1, Len(bytes)) ELSE bytes
    OBVIOUS
  <2>2. PICK answer : answer = IF r.reply = <<>> THEN <<>> ELSE LengthEncode(r.reply)
    OBVIOUS
  <2>3. shake = [hs |-> r.hs, ok |-> r.ok, buf |-> rest, reply |-> answer]
    BY <1>9, <2>1, <2>2, Zenon
  <2>4. shake.hs = r.hs /\ shake.ok = r.ok /\ shake.buf = rest /\ shake.reply = answer
    BY <2>3
  <2> QED BY <2>1, <2>2, <2>4, Zenon
<1> QED BY <1>4, <1>8, <1>10, <1>11 DEF Shaken

\* Both links of an end with handshake h that is established: it hears S and
\* has sent So.
Pair(p, e, o, so, se, po, tx, orx, S, G, W, B, h, So, Go, Wo, Bo) ==
  /\ h \in HandshakeStates /\ SoundKeys(p, e, h) /\ (p = "secure" => h.established)
  /\ Link(p, e, so, se, po, 2, h.rxNonce, tx, orx, S, G, W, B)
  /\ Link(p, o, se, so, 2, po, orx, h.txNonce, h.rxNonce, So, Go, Wo, Bo)

\* What was heard is more of what was sent.
MoreOf(S, G, g) == \E j \in Len(G)..Len(S) : g = SubSeq(S, 1, j)

\* recv_frames() keeps them.
LEMMA BothHear ==
  ASSUME NEW e, NEW o, NEW so, NEW se, se # "closed", NEW po, NEW tx, NEW orx, NEW S, NEW G, NEW W, NEW B,
         NEW h, NEW So, NEW Go, NEW Wo, NEW Bo, Pair(proto, e, o, so, se, po, tx, orx, S, G, W, B, h, So, Go, Wo, Bo),
         NEW r, r = RecvFrames(Reader(B, h, G))
  PROVE  /\ Pair(proto, e, o, so, se, po, tx, orx, S, r.got, W, r.buf, r.hs, So, Go, Wo, Bo)
         /\ MoreOf(S, G, r.got)
<1>0. /\ h \in HandshakeStates /\ SoundKeys(proto, e, h) /\ (proto = "secure" => h.established)
      /\ Link(proto, e, so, se, po, 2, h.rxNonce, tx, orx, S, G, W, B)
      /\ Link(proto, o, se, so, 2, po, orx, h.txNonce, h.rxNonce, So, Go, Wo, Bo)
  BY DEF Pair
<1>1. PICK p : p = proto
  OBVIOUS
<1>2. PICK rx : rx = h.rxNonce
  OBVIOUS
<1>3. proto = "secure" => h.rxKey = KeyTo(e)
  BY <1>0 DEF SoundKeys
<1>4. PICK rx2, j, B2 :
        /\ RecvFrames(Reader(B, h, G)) = Reader(B2, WithNonce(h, rx2), SubSeq(S, 1, j))
        /\ j \in Len(G)..Len(S) /\ rx2 \in 0..(Nonces - 1) /\ (S = <<>> => rx2 = rx)
        /\ Link(proto, e, so, se, po, 2, rx2, tx, orx, S, SubSeq(S, 1, j), W, B2)
  <2>1. Link(proto, e, so, se, po, 2, rx, tx, orx, S, G, W, B)
    BY <1>0, <1>2
  <2>2. h.rxNonce = rx
    BY <1>2
  <2>3. \E rx2, j, B2 :
           /\ RecvFrames(Reader(B, h, G)) = Reader(B2, WithNonce(h, rx2), SubSeq(S, 1, j))
           /\ j \in Len(G)..Len(S) /\ rx2 \in 0..(Nonces - 1) /\ (S = <<>> => rx2 = rx)
           /\ Link(proto, e, so, se, po, 2, rx2, tx, orx, S, SubSeq(S, 1, j), W, B2)
           /\ W = <<>> /\ so # "closed" => j = Len(S) /\ B2 = <<>>
    BY <1>0, <1>3, <2>1, <2>2, LinkHears
  <2> QED BY <2>3
<1>5. PICK h2 : h2 = WithNonce(h, rx2)
  OBVIOUS
<1>6. r.hs = h2 /\ r.buf = B2 /\ r.got = SubSeq(S, 1, j)
  BY <1>4, <1>5 DEF Reader
<1>7. /\ h2 \in HandshakeStates /\ h2.rxNonce = rx2 /\ h2.txNonce = h.txNonce /\ h2.rxKey = h.rxKey
      /\ h2.txKey = h.txKey /\ h2.keyReceived = h.keyReceived /\ h2.established = h.established
  BY <1>0, <1>4, <1>5, Moved
<1>8. SoundKeys(proto, e, h2)
  BY <1>0, <1>7 DEF SoundKeys
<1>9. rx2 = rx \/ po = 2
  <2>1. Link(p, e, so, se, po, 2, rx, tx, orx, S, G, W, B)
    BY <1>0, <1>1, <1>2
  <2>2. po # 2 => S = <<>>
    BY <2>1, LinkTypes
  <2> QED BY <1>4, <2>2
<1>10. Link(p, o, se, so, 2, po, orx, h2.txNonce, rx2, So, Go, Wo, Bo)
  <2>1. PICK txo : txo = h.txNonce
    OBVIOUS
  <2>2. Link(p, o, se, so, 2, po, orx, txo, rx, So, Go, Wo, Bo)
    BY <1>0, <1>1, <1>2, <2>1
  <2>3. Link(p, o, se, so, 2, po, orx, txo, rx2, So, Go, Wo, Bo)
    BY <1>9, <2>2, LinkNonceMoved
  <2> QED BY <1>7, <2>1, <2>3
<1>11. Pair(proto, e, o, so, se, po, tx, orx, S, SubSeq(S, 1, j), W, B2, h2, So, Go, Wo, Bo)
  BY <1>0, <1>1, <1>4, <1>7, <1>8, <1>10 DEF Pair
<1> QED BY <1>4, <1>6, <1>11 DEF MoreOf

\* What on_receive() was called with
Progress(e) ==
  \/ /\ Phase(proto, hs'[e]) = 2
     /\ \E j \in Len(got[e])..Len(sent[Other(e)]) : got' = [got EXCEPT ![e] = SubSeq(sent[Other(e)], 1, j)]
  \/ Phase(proto, hs'[e]) # 2 /\ Phase(proto, hs[e]) # 2 /\ got' = got

\* The bytes that arrived, before anything is made of them
LEMMA LinkToMoves ==
  ASSUME IInv, NEW e \in Ends, stage[e] = "open", NEW n \in 1..Len(wire[e]),
         NEW W2, W2 = SubSeq(wire[e], n + 1, Len(wire[e])), NEW B2, B2 = buf[e] \o SubSeq(wire[e], 1, n)
  PROVE  Link(proto, e, stage[Other(e)], stage[e], Phase(proto, hs[Other(e)]), Phase(proto, hs[e]),
              hs[e].rxNonce, hs[Other(e)].txNonce, hs[Other(e)].rxNonce, sent[Other(e)], got[e], W2, B2)
<1>1. PICK so, se, po, pe, rx, tx, orx, S, G, W, B : Seen(e, so, se, po, pe, rx, tx, orx, S, G, W, B)
  BY SeenAt, Zenon
<1>2. PICK p : p = proto
  OBVIOUS
<1>3. Link(p, e, so, se, po, pe, rx, tx, orx, S, G, W, B)
  BY <1>1, <1>2 DEF IInv, LinkTo, Seen
<1>4. W = wire[e] /\ B = buf[e] /\ se # "closed"
  BY <1>1 DEF Seen
<1>5. W \in Seq(Cells)
  BY <1>3, LinkTypes
<1>6. n \in Nat /\ n <= Len(W)
  <2>1. Len(W) \in Nat /\ n \in 1..Len(W)
    BY <1>4, <1>5
  <2> QED BY <2>1
<1>7. Link(p, e, so, se, po, pe, rx, tx, orx, S, G, SubSeq(W, n + 1, Len(W)), B \o SubSeq(W, 1, n))
  BY <1>3, <1>4, <1>6, LinkMoves
<1>8. W2 = SubSeq(W, n + 1, Len(W)) /\ B2 = B \o SubSeq(W, 1, n)
  BY <1>4
<1> QED BY <1>1, <1>2, <1>7, <1>8 DEF Seen

\* handle_recv() of an established session keeps the invariant.
LEMMA RecvFramesKeeps ==
  ASSUME IInv, NEW e \in Ends, NEW n \in 1..Len(wire[e]), NEW nonce \in 0..(Nonces - 1),
         HandleRecv(e, n, nonce), Phase(proto, hs[e]) = 2
  PROVE  IInv' /\ Progress(e) /\ \E b, h, g, W, reply : Leaves(e, b, h, g, W, reply)
<1>1. PICK o \in Ends : o = Other(e)
  BY Sides
<1>2. e = Other(o) /\ o # e
  BY <1>1, Sides
<1>3. Shapes /\ KeysAgree(e) /\ LinkTo(o) /\ stage[e] = "open"
  BY DEF IInv, HandleRecv
<1>4. PICK B2 : B2 = buf[e] \o SubSeq(wire[e], 1, n)
  OBVIOUS
<1>5. PICK W2 : W2 = SubSeq(wire[e], n + 1, Len(wire[e]))
  OBVIOUS
<1>6. PICK r : r = RecvFrames(Reader(B2, hs[e], got[e]))
  OBVIOUS
<1>7. Leaves(e, r.buf, r.hs, r.got, W2, <<>>)
  BY <1>4, <1>5, <1>6, RecvIsFrames
<1>8. PICK so, se, po, pe, rx, tx, orx, S, G, W, B : Seen(e, so, se, po, pe, rx, tx, orx, S, G, W, B)
  BY SeenAt, Zenon
<1>9. /\ so = stage[o] /\ se = stage[e] /\ po = Phase(proto, hs[o]) /\ pe = 2 /\ rx = hs[e].rxNonce
      /\ tx = hs[o].txNonce /\ orx = hs[o].rxNonce /\ S = sent[o] /\ G = got[e]
  BY <1>1, <1>8 DEF Seen
<1>10. PICK h : h = hs[e]
  OBVIOUS
<1>11. h \in HandshakeStates /\ SoundKeys(proto, e, h) /\ (proto = "secure" => h.established)
  BY <1>3, <1>10 DEF Shapes, KeysAgree, SoundKeys, Phase
<1>12. Link(proto, e, so, se, po, 2, h.rxNonce, tx, orx, S, G, W2, B2)
  <2>1. Link(proto, e, stage[o], stage[e], Phase(proto, hs[o]), Phase(proto, hs[e]),
              hs[e].rxNonce, hs[o].txNonce, hs[o].rxNonce, sent[o], got[e], W2, B2)
    BY <1>1, <1>3, <1>4, <1>5, LinkToMoves
  <2> QED BY <1>9, <1>10, <2>1
<1>13. PICK So, Go, Wo, Bo : So = sent[e] /\ Go = got[o] /\ Wo = wire[o] /\ Bo = buf[o]
  BY Zenon
<1>14. Link(proto, o, se, so, 2, po, orx, h.txNonce, h.rxNonce, So, Go, Wo, Bo)
  BY <1>2, <1>3, <1>9, <1>10, <1>13 DEF LinkTo
<1>15. /\ r.hs \in HandshakeStates /\ SoundKeys(proto, e, r.hs) /\ (proto = "secure" => r.hs.established)
       /\ MoreOf(S, G, r.got)
       /\ Link(proto, e, so, se, po, 2, r.hs.rxNonce, tx, orx, S, r.got, W2, r.buf)
       /\ Link(proto, o, se, so, 2, po, orx, r.hs.txNonce, r.hs.rxNonce, So, Go, Wo, Bo)
  <2>1. r = RecvFrames(Reader(B2, h, G)) /\ se # "closed"
    BY <1>3, <1>6, <1>9, <1>10
  <2>2. Pair(proto, e, o, so, se, po, tx, orx, S, G, W2, B2, h, So, Go, Wo, Bo)
    BY <1>11, <1>12, <1>14 DEF Pair
  <2>3. /\ Pair(proto, e, o, so, se, po, tx, orx, S, r.got, W2, r.buf, r.hs, So, Go, Wo, Bo)
        /\ MoreOf(S, G, r.got)
    BY <2>1, <2>2, BothHear
  <2> QED BY <2>3 DEF Pair
<1>16. PICK h2 : h2 = r.hs
  OBVIOUS
<1>17. PICK g2 : g2 = r.got
  OBVIOUS
<1>18. PICK b2 : b2 = r.buf
  OBVIOUS
<1>19. Leaves(e, b2, h2, g2, W2, <<>>) /\ h2 \in HandshakeStates /\ SoundKeys(proto, e, h2)
  BY <1>7, <1>15, <1>16, <1>17, <1>18
<1>20. Phase(proto, h2) = 2
  BY <1>15, <1>16 DEF Phase
<1>21. Wo \o <<>> = Wo
  <2>1. Wo \in Seq(Cells)
    BY <1>3, <1>13 DEF Shapes
  <2> QED BY <2>1
<1>22. IInv'
  <2>1. Link(proto, e, stage[o], stage[e], Phase(proto, hs[o]), Phase(proto, h2),
              h2.rxNonce, hs[o].txNonce, hs[o].rxNonce, sent[o], g2, W2, b2)
    BY <1>9, <1>15, <1>16, <1>17, <1>18, <1>20
  <2>2. Link(proto, o, stage[e], stage[o], Phase(proto, h2), Phase(proto, hs[o]),
              hs[o].rxNonce, h2.txNonce, h2.rxNonce, sent[e], got[o], wire[o] \o <<>>, buf[o])
    BY <1>9, <1>13, <1>15, <1>16, <1>20, <1>21
  <2> QED BY <1>1, <1>19, <2>1, <2>2, LeavesKeeps
<1>23. Progress(e)
  <2>1. hs'[e] = h2 /\ got' = [got EXCEPT ![e] = g2]
    BY <1>3, <1>19 DEF Leaves, Shapes
  <2>2. PICK j \in Len(G)..Len(S) : g2 = SubSeq(S, 1, j)
    BY <1>15, <1>17 DEF MoreOf
  <2>3. j \in Len(got[e])..Len(sent[o]) /\ g2 = SubSeq(sent[o], 1, j)
    BY <1>9, <2>2
  <2> QED BY <1>1, <1>20, <2>1, <2>3 DEF Progress
<1> QED BY <1>19, <1>22, <1>23

\* handle_recv() of less than a whole message of the handshake keeps it.
LEMMA RecvWaitKeeps ==
  ASSUME IInv, NEW e \in Ends, NEW n \in 1..Len(wire[e]), NEW nonce \in 0..(Nonces - 1),
         HandleRecv(e, n, nonce), Phase(proto, hs[e]) # 2,
         NEW B2, B2 = buf[e] \o SubSeq(wire[e], 1, n), LengthDecode(B2) = <<>>
  PROVE  IInv' /\ Progress(e) /\ \E b, h, g, W, reply : Leaves(e, b, h, g, W, reply)
<1>1. PICK o \in Ends : o = Other(e)
  BY Sides
<1>2. e = Other(o) /\ o # e
  BY <1>1, Sides
<1>3. Shapes /\ KeysAgree(e) /\ LinkTo(o) /\ stage[e] = "open"
  BY DEF IInv, HandleRecv
<1>4. PICK W2 : W2 = SubSeq(wire[e], n + 1, Len(wire[e]))
  OBVIOUS
<1>5. PICK shake : shake = Handshake(e, B2, nonce)
  OBVIOUS
<1>6. shake.hs = hs[e] /\ shake.buf = B2 /\ shake.reply = <<>> /\ shake.ok = TRUE
  <2>1. Shaken(shake, hs[e], B2, <<>>)
    BY <1>5, ShakeWaits
  <2> QED BY <2>1 DEF Shaken
<1>7. PICK before : before = Reader(shake.buf, shake.hs, got[e])
  OBVIOUS
<1>8. PICK r : r = IF shake.hs.established THEN RecvFrames(before) ELSE before
  OBVIOUS
<1>9. PICK h : h = hs[e]
  OBVIOUS
<1>10. PICK g : g = got[e]
  OBVIOUS
<1>11. r.buf = B2 /\ r.hs = h /\ r.got = g
  <2>1. ~ h.established
    BY <1>9 DEF Phase
  <2> QED BY <1>6, <1>7, <1>8, <1>9, <1>10, <2>1 DEF Reader
<1>12. Leaves(e, B2, h, g, W2, <<>>)
  <2>1. Leaves(e, r.buf, r.hs, r.got, W2, shake.reply)
    BY <1>4, <1>5, <1>6, <1>7, <1>8, RecvIsShake
  <2> QED BY <1>6, <1>11, <2>1
<1>13. h \in HandshakeStates /\ SoundKeys(proto, e, h)
  BY <1>3, <1>9 DEF Shapes, KeysAgree, SoundKeys
<1>14. wire[o] \o <<>> = wire[o]
  <2>1. PICK Wo \in Seq(Cells) : Wo = wire[o]
    BY <1>3 DEF Shapes
  <2> QED BY <2>1
<1>15. IInv'
  <2>1. Link(proto, e, stage[o], stage[e], Phase(proto, hs[o]), Phase(proto, h),
              h.rxNonce, hs[o].txNonce, hs[o].rxNonce, sent[o], g, W2, B2)
    BY <1>1, <1>3, <1>4, <1>9, <1>10, LinkToMoves
  <2>2. Link(proto, o, stage[e], stage[o], Phase(proto, h), Phase(proto, hs[o]),
              hs[o].rxNonce, h.txNonce, h.rxNonce, sent[e], got[o], wire[o] \o <<>>, buf[o])
    BY <1>2, <1>3, <1>9, <1>14 DEF LinkTo
  <2> QED BY <1>1, <1>12, <1>13, <2>1, <2>2, LeavesKeeps
<1>16. Progress(e)
  <2>1. hs'[e] = hs[e] /\ got' = got
    BY <1>3, <1>9, <1>10, <1>12 DEF Leaves, Shapes
  <2> QED BY <2>1 DEF Progress
<1> QED BY <1>12, <1>15, <1>16

\* handle_recv() of the key keeps it: the nonce for the other direction is drawn
\* and goes out sealed.
LEMMA RecvKeyKeeps ==
  ASSUME IInv, NEW e \in Ends, NEW n \in 1..Len(wire[e]), NEW nonce \in 0..(Nonces - 1),
         HandleRecv(e, n, nonce), Phase(proto, hs[e]) = 0,
         NEW B2, B2 = buf[e] \o SubSeq(wire[e], 1, n), LengthDecode(B2) # <<>>
  PROVE  IInv' /\ Progress(e) /\ \E b, h, g, W, reply : Leaves(e, b, h, g, W, reply)
<1>1. PICK o \in Ends : o = Other(e)
  BY Sides
<1>2. e = Other(o) /\ o # e
  BY <1>1, Sides
<1>3. Shapes /\ KeysAgree(e) /\ LinkTo(o) /\ stage[e] = "open"
  BY DEF IInv, HandleRecv
<1>4. PICK W2 : W2 = SubSeq(wire[e], n + 1, Len(wire[e]))
  OBVIOUS
<1>5. PICK h \in HandshakeStates : h = hs[e]
  BY <1>3 DEF Shapes
<1>6. proto = "secure" /\ h.keyReceived = FALSE /\ h.established = FALSE
  BY <1>5 DEF Phase, HandshakeStates
<1>7. PICK so, se, po, pe, rx, tx, orx, S, G, W, B : Seen(e, so, se, po, pe, rx, tx, orx, S, G, W, B)
  BY SeenAt, Zenon
<1>8. /\ so = stage[o] /\ se = stage[e] /\ po = Phase(proto, hs[o]) /\ pe = 0 /\ rx = hs[e].rxNonce
      /\ tx = hs[o].txNonce /\ orx = hs[o].rxNonce /\ S = sent[o] /\ G = got[e]
  BY <1>1, <1>7 DEF Seen
<1>9. PICK So, Go, Wo, Bo : So = sent[e] /\ Go = got[o] /\ Wo = wire[o] /\ Bo = buf[o]
  BY Zenon
<1>10. PICK txo : txo = h.txNonce
  OBVIOUS
<1>11. Link("secure", o, se, so, 0, po, orx, txo, rx, So, Go, Wo, Bo)
  BY <1>2, <1>3, <1>5, <1>6, <1>8, <1>9, <1>10 DEF LinkTo
<1>12. po # 2 /\ se = "open"
  <2>1. PICK p : p = "secure"
    OBVIOUS
  <2>2. Link(p, o, se, so, 0, po, orx, txo, rx, So, Go, Wo, Bo)
    BY <1>11, <2>1
  <2>3. ~ (po = 2)
    BY <2>1, <2>2, LinkTypes
  <2> QED BY <1>3, <1>8, <2>3
<1>13. Link("secure", e, so, se, po, 0, rx, tx, orx, S, G, W2, B2)
  <2>1. Link(proto, e, stage[o], stage[e], Phase(proto, hs[o]), Phase(proto, hs[e]),
              hs[e].rxNonce, hs[o].txNonce, hs[o].rxNonce, sent[o], got[e], W2, B2)
    BY <1>1, <1>3, <1>4, LinkToMoves
  <2> QED BY <1>6, <1>8, <2>1
<1>14. PICK b : b = Part(B2, ShakeLen, Len(B2))
  OBVIOUS
<1>15. /\ LengthDecode(B2) = SyncKey(o) /\ B2 \in Seq(Cells)
       /\ Link("secure", e, so, se, po, 1, nonce, tx, orx, S, G, W2, b)
  BY <1>1, <1>12, <1>13, <1>14, LinkTakesKey
<1>16. PICK reply : reply = LengthEncode(SyncNonce(nonce, PublicKey(o)))
  OBVIOUS
<1>17. Link("secure", o, se, so, 1, po, orx, txo, nonce, So, Go, Wo \o reply, Bo)
  BY <1>11, <1>12, <1>16, LinkSendsNonce
<1>18. PICK shake : shake = Handshake(e, B2, nonce)
  OBVIOUS
<1>19. PICK h2 : h2 = KeyedState(e, h, nonce)
  OBVIOUS
<1>20. shake.hs = h2 /\ shake.ok = TRUE /\ shake.buf = b /\ shake.reply = reply
  <2>1. hs[e].keyReceived = FALSE /\ LengthDecode(B2) = SyncKey(Other(e)) /\ B2 \in Seq(Cells)
    BY <1>1, <1>5, <1>6, <1>15
  <2>2. Shaken(shake, KeyedState(e, hs[e], nonce), Part(B2, ShakeLen, Len(B2)),
               LengthEncode(SyncNonce(nonce, PublicKey(Other(e)))))
    BY <1>18, <2>1, ShakeKeyed
  <2>3. Shaken(shake, h2, b, reply)
    BY <1>1, <1>5, <1>14, <1>16, <1>19, <2>2
  <2> QED BY <2>3 DEF Shaken
<1>21. /\ h2 \in HandshakeStates /\ h2.keyReceived = TRUE /\ h2.established = FALSE
       /\ h2.rxKey = KeyTo(e) /\ h2.txKey = KeyTo(Other(e)) /\ h2.rxNonce = nonce /\ h2.txNonce = txo
  <2>1. IsKeyed(h2, e, h, nonce)
    BY <1>19, KeyedIs
  <2> QED BY <1>6, <1>10, <2>1 DEF IsKeyed
<1>22. PICK before : before = Reader(shake.buf, shake.hs, got[e])
  OBVIOUS
<1>23. PICK r : r = IF shake.hs.established THEN RecvFrames(before) ELSE before
  OBVIOUS
<1>24. r.buf = b /\ r.hs = h2 /\ r.got = G
  BY <1>8, <1>20, <1>21, <1>22, <1>23 DEF Reader
<1>25. Leaves(e, b, h2, G, W2, reply)
  <2>1. Phase(proto, hs[e]) # 2
    OBVIOUS
  <2>2. Leaves(e, r.buf, r.hs, r.got, W2, shake.reply)
    BY <1>4, <1>18, <1>20, <1>22, <1>23, <2>1, RecvIsShake
  <2> QED BY <1>20, <1>24, <2>2
<1>26. Phase(proto, h2) = 1 /\ SoundKeys(proto, e, h2)
  BY <1>6, <1>21 DEF Phase, SoundKeys
<1>27. IInv'
  <2>1. Link(proto, e, stage[o], stage[e], Phase(proto, hs[o]), Phase(proto, h2),
              h2.rxNonce, hs[o].txNonce, hs[o].rxNonce, sent[o], G, W2, b)
    BY <1>6, <1>8, <1>15, <1>21, <1>26
  <2>2. Link(proto, o, stage[e], stage[o], Phase(proto, h2), Phase(proto, hs[o]),
              hs[o].rxNonce, h2.txNonce, h2.rxNonce, sent[e], got[o], wire[o] \o reply, buf[o])
    BY <1>6, <1>8, <1>9, <1>17, <1>21, <1>26
  <2> QED BY <1>1, <1>21, <1>25, <1>26, <2>1, <2>2, LeavesKeeps
<1>28. Progress(e)
  <2>1. hs'[e] = h2 /\ got' = got
    BY <1>3, <1>8, <1>25 DEF Leaves, Shapes
  <2> QED BY <1>26, <2>1 DEF Progress
<1> QED BY <1>25, <1>27, <1>28

\* handle_recv() of the nonce keeps it: the end is established and takes the
\* frames behind the nonce at once.
LEMMA RecvNonceKeeps ==
  ASSUME IInv, NEW e \in Ends, NEW n \in 1..Len(wire[e]), NEW nonce \in 0..(Nonces - 1),
         HandleRecv(e, n, nonce), Phase(proto, hs[e]) = 1,
         NEW B2, B2 = buf[e] \o SubSeq(wire[e], 1, n), LengthDecode(B2) # <<>>
  PROVE  IInv' /\ Progress(e) /\ \E b, h, g, W, reply : Leaves(e, b, h, g, W, reply)
<1>1. PICK o \in Ends : o = Other(e)
  BY Sides
<1>2. e = Other(o) /\ o # e
  BY <1>1, Sides
<1>3. Shapes /\ KeysAgree(e) /\ LinkTo(o) /\ stage[e] = "open"
  BY DEF IInv, HandleRecv
<1>4. PICK W2 : W2 = SubSeq(wire[e], n + 1, Len(wire[e]))
  OBVIOUS
<1>5. PICK h \in HandshakeStates : h = hs[e]
  BY <1>3 DEF Shapes
<1>6. proto = "secure" /\ h.keyReceived = TRUE /\ h.established = FALSE
  BY <1>5 DEF Phase, HandshakeStates
<1>7. PICK so, se, po, pe, rx, tx, orx, S, G, W, B : Seen(e, so, se, po, pe, rx, tx, orx, S, G, W, B)
  BY SeenAt, Zenon
<1>8. /\ so = stage[o] /\ se = stage[e] /\ po = Phase(proto, hs[o]) /\ pe = 1 /\ rx = h.rxNonce
      /\ tx = hs[o].txNonce /\ orx = hs[o].rxNonce /\ S = sent[o] /\ G = got[e]
  BY <1>1, <1>5, <1>7 DEF Seen
<1>9. PICK So, Go, Wo, Bo : So = sent[e] /\ Go = got[o] /\ Wo = wire[o] /\ Bo = buf[o]
  BY Zenon
<1>10. PICK txo : txo = h.txNonce
  OBVIOUS
<1>11. Link("secure", o, se, so, 1, po, orx, txo, rx, So, Go, Wo, Bo)
  BY <1>2, <1>3, <1>5, <1>6, <1>8, <1>9, <1>10 DEF LinkTo
<1>12. Link("secure", e, so, se, po, 1, rx, tx, orx, S, G, W2, B2) /\ se # "closed"
  <2>1. Link(proto, e, stage[o], stage[e], Phase(proto, hs[o]), Phase(proto, hs[e]),
              hs[e].rxNonce, hs[o].txNonce, hs[o].rxNonce, sent[o], got[e], W2, B2)
    BY <1>1, <1>3, <1>4, LinkToMoves
  <2> QED BY <1>3, <1>5, <1>6, <1>8, <2>1
<1>13. PICK b : b = Part(B2, ShakeLen, Len(B2))
  OBVIOUS
<1>14. /\ LengthDecode(B2) = SyncNonce(orx, PublicKey(e)) /\ po # 0 /\ B2 \in Seq(Cells)
       /\ Link("secure", e, so, se, po, 2, rx, tx, orx, S, G, W2, b)
  <2>1. NonceTaken(e, so, se, po, rx, tx, orx, S, G, W2, B2)
    BY <1>12, LinkTakesNonce
  <2> QED BY <1>13, <2>1 DEF NonceTaken
<1>15. Link("secure", o, se, so, 2, po, orx, orx, rx, So, Go, Wo, Bo)
  BY <1>11, <1>14, LinkEstablished
<1>16. orx \in 0..(Nonces - 1)
  <2>1. hs[o] \in HandshakeStates
    BY <1>3 DEF Shapes
  <2> QED BY <1>8, <2>1 DEF HandshakeStates
<1>17. PICK shake : shake = Handshake(e, B2, nonce)
  OBVIOUS
<1>18. PICK h2 : h2 = Completed(h, orx)
  OBVIOUS
<1>19. shake.hs = h2 /\ shake.ok = TRUE /\ shake.buf = b /\ shake.reply = <<>>
  <2>1. hs[e].keyReceived = TRUE
    BY <1>5, <1>6
  <2>2. Shaken(shake, Completed(hs[e], orx), Part(B2, ShakeLen, Len(B2)), <<>>)
    BY <1>14, <1>17, <2>1, ShakeCompleted
  <2>3. Shaken(shake, h2, b, <<>>)
    BY <1>5, <1>13, <1>18, <2>2
  <2> QED BY <2>3 DEF Shaken
<1>20. /\ h2 \in HandshakeStates /\ h2.keyReceived = TRUE /\ h2.established = TRUE
       /\ h2.rxKey = h.rxKey /\ h2.txKey = h.txKey /\ h2.rxNonce = rx /\ h2.txNonce = orx
  <2>1. IsCompleted(h2, h, orx)
    BY <1>16, <1>18, CompletedIs
  <2> QED BY <1>6, <1>8, <2>1 DEF IsCompleted
<1>21. SoundKeys(proto, e, h2)
  BY <1>3, <1>5, <1>6, <1>20 DEF KeysAgree, SoundKeys
<1>22. PICK before : before = Reader(shake.buf, shake.hs, got[e])
  OBVIOUS
<1>23. PICK r : r = RecvFrames(Reader(b, h2, G))
  OBVIOUS
<1>24. r = IF shake.hs.established THEN RecvFrames(before) ELSE before
  <2>1. before = Reader(b, h2, G)
    BY <1>8, <1>19, <1>22
  <2> QED BY <1>19, <1>20, <1>23, <2>1
<1>25. Leaves(e, r.buf, r.hs, r.got, W2, <<>>)
  <2>1. Phase(proto, hs[e]) # 2
    OBVIOUS
  <2>2. Leaves(e, r.buf, r.hs, r.got, W2, shake.reply)
    BY <1>4, <1>17, <1>19, <1>22, <1>24, <2>1, RecvIsShake
  <2> QED BY <1>19, <2>2
<1>26. /\ Pair(proto, e, o, so, se, po, tx, orx, S, r.got, W2, r.buf, r.hs, So, Go, Wo, Bo)
       /\ MoreOf(S, G, r.got)
  <2>1. Pair(proto, e, o, so, se, po, tx, orx, S, G, W2, b, h2, So, Go, Wo, Bo)
    BY <1>6, <1>14, <1>15, <1>20, <1>21 DEF Pair
  <2> QED BY <1>12, <1>23, <2>1, BothHear
<1>27. PICK h3 : h3 = r.hs
  OBVIOUS
<1>28. PICK g3 : g3 = r.got
  OBVIOUS
<1>29. PICK b3 : b3 = r.buf
  OBVIOUS
<1>30. /\ Leaves(e, b3, h3, g3, W2, <<>>) /\ MoreOf(S, G, g3)
       /\ Pair(proto, e, o, so, se, po, tx, orx, S, g3, W2, b3, h3, So, Go, Wo, Bo)
  BY <1>25, <1>26, <1>27, <1>28, <1>29
<1>31. /\ h3 \in HandshakeStates /\ SoundKeys(proto, e, h3) /\ h3.established
       /\ Link(proto, e, so, se, po, 2, h3.rxNonce, tx, orx, S, g3, W2, b3)
       /\ Link(proto, o, se, so, 2, po, orx, h3.txNonce, h3.rxNonce, So, Go, Wo, Bo)
  BY <1>6, <1>30 DEF Pair
<1>32. Phase(proto, h3) = 2
  BY <1>31 DEF Phase
<1>33. Wo \o <<>> = Wo
  <2>1. Wo \in Seq(Cells)
    BY <1>3, <1>9 DEF Shapes
  <2> QED BY <2>1
<1>34. IInv'
  <2>1. Link(proto, e, stage[o], stage[e], Phase(proto, hs[o]), Phase(proto, h3),
              h3.rxNonce, hs[o].txNonce, hs[o].rxNonce, sent[o], g3, W2, b3)
    BY <1>8, <1>31, <1>32
  <2>2. Link(proto, o, stage[e], stage[o], Phase(proto, h3), Phase(proto, hs[o]),
              hs[o].rxNonce, h3.txNonce, h3.rxNonce, sent[e], got[o], wire[o] \o <<>>, buf[o])
    BY <1>8, <1>9, <1>31, <1>32, <1>33
  <2> QED BY <1>1, <1>30, <1>31, <2>1, <2>2, LeavesKeeps
<1>35. Progress(e)
  <2>1. hs'[e] = h3 /\ got' = [got EXCEPT ![e] = g3]
    BY <1>3, <1>30 DEF Leaves, Shapes
  <2>2. PICK j \in Len(G)..Len(S) : g3 = SubSeq(S, 1, j)
    BY <1>30 DEF MoreOf
  <2>3. j \in Len(got[e])..Len(sent[o]) /\ g3 = SubSeq(sent[o], 1, j)
    BY <1>8, <2>2
  <2> QED BY <1>1, <1>32, <2>1, <2>3 DEF Progress
<1> QED BY <1>30, <1>34, <1>35

\* handle_recv() keeps the invariant, and what it hands to on_receive() is the
\* next of what was sent.
LEMMA RecvKeeps ==
  ASSUME IInv, NEW e \in Ends, NEW n \in 1..Len(wire[e]), NEW nonce \in 0..(Nonces - 1), HandleRecv(e, n, nonce)
  PROVE  IInv' /\ Progress(e) /\ \E b, h, g, W, reply : Leaves(e, b, h, g, W, reply)
<1>1. PICK B2 : B2 = buf[e] \o SubSeq(wire[e], 1, n)
  OBVIOUS
<1>2. Phase(proto, hs[e]) \in {0, 1, 2}
  BY DEF Phase
<1>3. CASE Phase(proto, hs[e]) = 2
  BY <1>3, RecvFramesKeeps
<1>4. CASE Phase(proto, hs[e]) # 2 /\ LengthDecode(B2) = <<>>
  BY <1>1, <1>4, RecvWaitKeeps
<1>5. CASE Phase(proto, hs[e]) = 0 /\ LengthDecode(B2) # <<>>
  BY <1>1, <1>5, RecvKeyKeeps
<1>6. CASE Phase(proto, hs[e]) = 1 /\ LengthDecode(B2) # <<>>
  BY <1>1, <1>6, RecvNonceKeeps
<1> QED BY <1>2, <1>3, <1>4, <1>5, <1>6

\* Every step keeps the invariant.
LEMMA StepKeeps == IInv /\ [Next]_vars => IInv'
<1> SUFFICES ASSUME IInv, [Next]_vars PROVE IInv'
  OBVIOUS
<1>1. CASE StartStep
  BY <1>1, StartKeeps DEF StartStep
<1>2. CASE SendStep
  BY <1>2, SendKeeps DEF SendStep
<1>3. CASE \E e \in Ends : RecvStep(e)
  <2>1. PICK e \in Ends : RecvStep(e)
    BY <1>3
  <2>2. PICK n \in 1..Len(wire[e]), nonce \in 0..(Nonces - 1) : HandleRecv(e, n, nonce)
    BY <2>1 DEF RecvStep
  <2> QED BY <2>2, RecvKeeps
<1>4. CASE CloseStep
  BY <1>4, CloseKeeps DEF CloseStep
<1>5. CASE UNCHANGED vars
  <2>1. Shapes'
    BY <1>5 DEF IInv, Shapes, vars
  <2>2. ASSUME NEW e \in Ends PROVE KeysAgree(e)' /\ LinkTo(e)'
    BY <1>5 DEF IInv, KeysAgree, LinkTo, vars
  <2> QED BY <2>1, <2>2 DEF IInv
<1> QED BY <1>1, <1>2, <1>3, <1>4, <1>5 DEF Next

-----------------------------------------------------------------------------
(* Theorems *)

\* The invariant holds of every behaviour.
LEMMA Invariant == Spec => []IInv
<1>1. Init => IInv
  BY InitGood
<1> QED BY <1>1, StepKeeps, PTL DEF Spec

\* The nonces stay in their range and every byte is a cell, in every state of
\* two connected sessions and for every width of the fields (secure_protocol,
\* sodium_cipher).
THEOREM ChannelTypes == Spec => []TypeOK
<1>1. IInv => TypeOK
  <2> SUFFICES ASSUME IInv PROVE TypeOK
    OBVIOUS
  <2>1. ASSUME NEW e \in Ends
        PROVE  /\ hs[e].rxNonce \in 0..(Nonces - 1) /\ hs[e].txNonce \in 0..(Nonces - 1)
               /\ hs[e].established => hs[e].keyReceived
               /\ \A i \in DOMAIN wire[e] : wire[e][i] \in Cells
               /\ \A i \in DOMAIN buf[e] : buf[e][i] \in Cells
    <3>1. PICK h \in HandshakeStates : h = hs[e]
      BY DEF IInv, Shapes
    <3>2. PICK W \in Seq(Cells) : W = wire[e]
      BY DEF IInv, Shapes
    <3>3. PICK B \in Seq(Cells) : B = buf[e]
      BY DEF IInv, Shapes
    <3>4. \A i \in DOMAIN W : W[i] \in Cells
      OBVIOUS
    <3>5. \A i \in DOMAIN B : B[i] \in Cells
      OBVIOUS
    <3>6. hs[e].established => hs[e].keyReceived
      BY DEF IInv, KeysAgree
    <3> QED BY <3>1, <3>2, <3>3, <3>4, <3>5, <3>6 DEF HandshakeStates
  <2> QED BY <2>1 DEF IInv, Shapes, TypeOK
<1> QED BY <1>1, Invariant, PTL

\* sodium_handshake::on_handshake() never throws between two such sessions: the
\* sealed nonce that reaches an end opens with its key, however the bytes of the
\* handshake are cut, delayed or lost with a close.
THEOREM HandshakeNeverThrows == Spec => [](threw = {})
<1>1. IInv => threw = {}
  BY DEF IInv, Shapes
<1> QED BY <1>1, Invariant, PTL

\* The frame boundaries and the nonces of the two ends never drift apart: what is
\* under way to an established end decodes to exactly what it has not heard yet
\* (recv_frames(), secure_protocol::decode(), sodium_cipher::decode()).
THEOREM NeverOutOfStep == Spec => []InFlightDecodes
<1>1. IInv => InFlightDecodes
  <2> SUFFICES ASSUME IInv, NEW e \in Ends, IsEstablished(e), stage[Other(e)] = "open",
                      NEW r, r = RecvFrames([buf |-> buf[e] \o wire[e], hs |-> hs[e], got |-> got[e]])
               PROVE  r.got = sent[Other(e)] /\ r.buf = <<>>
    BY DEF InFlightDecodes
  <2>1. PICK o \in Ends : o = Other(e)
    BY Sides
  <2>2. PICK so, se, po, pe, rx, tx, orx, S, G, W, B : Seen(e, so, se, po, pe, rx, tx, orx, S, G, W, B)
    BY SeenAt, Zenon
  <2>3. PICK p : p = proto
    OBVIOUS
  <2>4. Link(p, e, so, se, po, pe, rx, tx, orx, S, G, W, B)
    BY <2>2, <2>3 DEF IInv, LinkTo, Seen
  <2>5. so = "open" /\ se = "open" /\ pe = 2 /\ S = sent[o] /\ W = wire[e] /\ B = buf[e] /\ G = got[e]
    BY <2>1, <2>2 DEF Seen, IsEstablished, Phase
  <2>6. W \in Seq(Cells) /\ B \in Seq(Cells) /\ S \in Seq(Message)
    BY <2>4, LinkTypes
  <2>7. PICK n \in Nat : n = Len(W)
    BY <2>6
  <2>8. SubSeq(W, n + 1, Len(W)) = <<>> /\ SubSeq(W, 1, n) = W
    BY <2>6, <2>7
  <2>9. Link(p, e, so, se, po, pe, rx, tx, orx, S, G, SubSeq(W, n + 1, Len(W)), B \o SubSeq(W, 1, n))
    BY <2>4, <2>5, <2>7, LinkMoves
  <2>10. PICK B2 : B2 = B \o W
    OBVIOUS
  <2>11. PICK h : h = hs[e]
    OBVIOUS
  <2>12. h \in HandshakeStates /\ h.rxNonce = rx /\ (proto = "secure" => h.rxKey = KeyTo(e))
    BY <2>2, <2>11 DEF IInv, Shapes, KeysAgree, Seen, IsEstablished
  <2>13. Link(proto, e, so, se, po, 2, rx, tx, orx, S, G, <<>>, B2) /\ se # "closed"
    BY <2>3, <2>5, <2>8, <2>9, <2>10
  <2>14. PICK none : none = <<>>
    OBVIOUS
  <2>15. \E rx2, j, B3 :
           /\ RecvFrames(Reader(B2, h, G)) = Reader(B3, WithNonce(h, rx2), SubSeq(S, 1, j))
           /\ j \in Len(G)..Len(S) /\ rx2 \in 0..(Nonces - 1) /\ (S = <<>> => rx2 = rx)
           /\ Link(proto, e, so, se, po, 2, rx2, tx, orx, S, SubSeq(S, 1, j), none, B3)
           /\ none = <<>> /\ so # "closed" => j = Len(S) /\ B3 = <<>>
    BY <2>12, <2>13, <2>14, LinkHears
  <2>16. PICK h2, B3 : RecvFrames(Reader(B2, h, G)) = Reader(B3, h2, SubSeq(S, 1, Len(S))) /\ B3 = <<>>
    BY <2>5, <2>14, <2>15
  <2>17. r = Reader(B3, h2, SubSeq(S, 1, Len(S)))
    BY <2>5, <2>10, <2>11, <2>16 DEF Reader
  <2>18. SubSeq(S, 1, Len(S)) = S
    BY <2>6
  <2>19. r = Reader(<<>>, h2, S)
    BY <2>16, <2>17, <2>18
  <2>20. r.got = S /\ r.buf = <<>>
    BY <2>19 DEF Reader
  <2> QED BY <2>1, <2>5, <2>20
<1> QED BY <1>1, Invariant, PTL

\* The established ends, the state of FrameChannel with Down
Up == {e \in Ends : IsEstablished(e)}

\* The closed ends
Down == {e \in Ends : stage[e] = "closed"}

\* An end is up when it is open and its handshake, if any, is done.
LEMMA UpIs == Up = {e \in Ends : stage[e] = "open" /\ Phase(proto, hs[e]) = 2}
<1>1. ASSUME NEW e \in Ends PROVE IsEstablished(e) <=> stage[e] = "open" /\ Phase(proto, hs[e]) = 2
  BY DEF IsEstablished, Phase
<1> QED BY <1>1 DEF Up

\* Whatever leaves the stages and the phases leaves the ends that are up.
LEMMA SameUp ==
  ASSUME stage' = stage, proto' = proto, \A e \in Ends : Phase(proto, hs'[e]) = Phase(proto, hs[e])
  PROVE  Up' = Up /\ Down' = Down
<1>1. ASSUME NEW e \in Ends PROVE IsEstablished(e)' <=> IsEstablished(e)
  <2>1. Phase(proto, hs'[e]) = Phase(proto, hs[e])
    OBVIOUS
  <2>2. proto = "secure" => (hs'[e].established <=> hs[e].established)
    BY <2>1 DEF Phase
  <2> QED BY <2>2 DEF IsEstablished
<1>2. Up' = Up
  BY <1>1 DEF Up
<1> QED BY <1>2 DEF Down

\* session::start(): a stream or plain session is up at once, a secure one is
\* not yet.
LEMMA StartRefines ==
  ASSUME IInv, NEW e \in Ends, Start(e) PROVE Frames!Receive(e) \/ UNCHANGED Frames!vars
<1>1. PICK o \in Ends : o = Other(e)
  BY Sides
<1>2. e = Other(o) /\ o # e /\ \A x \in Ends : x = e \/ x = o
  BY <1>1, Sides
<1>3. Shapes /\ LinkTo(e) /\ LinkTo(o)
  BY DEF IInv
<1>4. /\ stage[e] = "new" /\ stage'[e] = "open" /\ stage'[o] = stage[o]
      /\ proto' = proto /\ hs' = hs /\ sent' = sent /\ got' = got
  BY <1>1, <1>2, <1>3 DEF Start, Shapes
<1>5. Down' = Down
  <2>1. ASSUME NEW x \in Ends PROVE stage'[x] = "closed" <=> stage[x] = "closed"
    BY <1>2, <1>4
  <2> QED BY <2>1 DEF Down
<1>6. CASE proto = "secure"
  <2>1. hs[e].established = FALSE
    <3>1. PICK so, se, po, pe, rx, tx, orx, S, G, W, B : Seen(o, so, se, po, pe, rx, tx, orx, S, G, W, B)
      BY SeenAt, Zenon
    <3>2. Link("secure", o, so, se, po, pe, rx, tx, orx, S, G, W, B)
      BY <1>3, <1>6, <3>1 DEF LinkTo, Seen
    <3>3. so = "new" /\ po = Phase(proto, hs[e])
      BY <1>2, <1>4, <3>1 DEF Seen
    <3>4. po = 0
      BY <3>2, <3>3 DEF Link, Linked, Phases
    <3>5. hs[e] \in HandshakeStates
      BY <1>3 DEF Shapes
    <3> QED BY <1>6, <3>3, <3>4, <3>5 DEF Phase, HandshakeStates
  <2>2. ASSUME NEW x \in Ends PROVE IsEstablished(x)' <=> IsEstablished(x)
    BY <1>2, <1>4, <1>6, <2>1 DEF IsEstablished
  <2>3. Up' = Up
    BY <2>2 DEF Up
  <2> QED BY <1>4, <1>5, <2>3 DEF Frames!vars, Up, Down
<1>7. CASE proto # "secure"
  <2>1. ASSUME NEW x \in Ends PROVE IsEstablished(x)' <=> IsEstablished(x) \/ x = e
    BY <1>2, <1>4, <1>7 DEF IsEstablished
  <2>2. Up' = Up \union {e} /\ e \notin Down
    BY <1>4, <2>1 DEF Up, Down
  <2>3. PICK g \in Len(got[e])..Len(sent[o]) : got[e] = SubSeq(sent[o], 1, g)
    <3>1. PICK so, se, po, pe, rx, tx, orx, S, G, W, B : Seen(e, so, se, po, pe, rx, tx, orx, S, G, W, B)
      BY SeenAt, Zenon
    <3>2. PICK p : p = proto
      OBVIOUS
    <3>3. Link(p, e, so, se, po, pe, rx, tx, orx, S, G, W, B)
      BY <1>3, <3>1, <3>2 DEF LinkTo, Seen
    <3>4. PICK g \in 0..Len(S) : S \in Seq(Message) /\ G = SubSeq(S, 1, g)
      BY <3>3, Zenon DEF Link, Linked
    <3>5. g = Len(G)
      BY <3>4
    <3>6. S = sent[o] /\ G = got[e]
      BY <1>1, <3>1 DEF Seen
    <3>7. g \in Len(G)..Len(S)
      BY <3>4, <3>5
    <3>8. g \in Len(got[e])..Len(sent[o]) /\ got[e] = SubSeq(sent[o], 1, g)
      BY <3>4, <3>6, <3>7
    <3> QED BY <3>8, Zenon
  <2>4. got' = [got EXCEPT ![e] = SubSeq(sent[o], 1, g)]
    BY <1>3, <1>4, <2>3 DEF Shapes
  <2>5. Frames!Receive(e)
    BY <1>1, <1>4, <1>5, <2>2, <2>3, <2>4 DEF Frames!Receive, Up, Down
  <2> QED BY <2>5
<1> QED BY <1>6, <1>7

\* session::send() of an established session sends more.
LEMMA SendRefines ==
  ASSUME IInv, NEW e \in Ends, NEW t \in Topics, NEW pay \in Payloads, NEW encrypt \in BOOLEAN,
         Send(e, t, pay, encrypt)
  PROVE  Frames!Send(e)
<1>1. PICK U, x, cells, tx2 :
        /\ stage[e] = "open" /\ Phase(proto, hs[e]) = 2
        /\ Encodes(proto, KeyTo(Other(e)), U, x, hs[e].txNonce, cells, tx2)
        /\ tx2 \in 0..(Nonces - 1)
        /\ wire' = [wire EXCEPT ![Other(e)] = @ \o cells]
        /\ hs' = [hs EXCEPT ![e] = WithTx(hs[e], tx2)]
        /\ sent' = [sent EXCEPT ![e] = @ \o U]
        /\ UNCHANGED <<proto, stage, buf, got, threw>>
  <2>1. PICK U, x, cells, tx2 : Sending(e, U, x, cells, tx2)
    BY SendIs
  <2> QED BY <2>1 DEF Sending
<1>2. Shapes /\ U \in Seq(Message)
  BY <1>1 DEF IInv, Encodes
<1>3. e \in Up
  BY <1>1, UpIs
<1>4. Up' = Up /\ Down' = Down
  <2>1. ASSUME NEW y \in Ends PROVE Phase(proto, hs'[y]) = Phase(proto, hs[y])
    <3>1. CASE y # e
      <4>1. hs'[y] = hs[y]
        BY <1>1, <1>2, <3>1 DEF Shapes
      <4> QED BY <4>1
    <3>2. CASE y = e
      <4>1. PICK h \in HandshakeStates : h = hs[e]
        BY <1>2 DEF Shapes
      <4>2. hs'[e] = WithTx(h, tx2)
        BY <1>1, <1>2, <4>1 DEF Shapes
      <4>3. WithTx(h, tx2).established = h.established /\ WithTx(h, tx2).keyReceived = h.keyReceived
        BY <1>1, <4>1, Moved
      <4>4. Phase(proto, WithTx(h, tx2)) = Phase(proto, h)
        BY <4>3 DEF Phase
      <4> QED BY <3>2, <4>1, <4>2, <4>4
    <3> QED BY <3>1, <3>2
  <2> QED BY <1>1, <2>1, SameUp
<1>5. PICK S \in Seq(Message) : S = sent[e]
  BY <1>2 DEF Shapes
<1>6. PICK S2 : S2 = S \o U
  OBVIOUS
<1>7. S2 \in Seq(Message) /\ SubSeq(S2, 1, Len(S)) = S
  BY <1>2, <1>6
<1>8. sent'[e] = S2 /\ \A o \in Ends \ {e} : sent'[o] = sent[o]
  BY <1>1, <1>2, <1>5, <1>6 DEF Shapes
<1>9. \A i \in DOMAIN S2 : S2[i] \in (0..(Weight[TopicWidth] - 1)) \X Seq(Cells)
  <2>1. \A i \in DOMAIN S2 : S2[i] \in Message
    BY <1>7
  <2>2. Message \subseteq (0..(Weight[TopicWidth] - 1)) \X Seq(Cells)
    BY ClearIsCell DEF Message
  <2> QED BY <2>1, <2>2
<1> QED BY <1>1, <1>3, <1>4, <1>5, <1>7, <1>8, <1>9 DEF Frames!Send, Up, Down

\* session::handle_recv() hears the next of what was sent, or is still busy with
\* the handshake.
LEMMA RecvRefines ==
  ASSUME IInv, NEW e \in Ends, stage[e] = "open", Progress(e), NEW b, NEW h, NEW g, NEW W, NEW reply,
         Leaves(e, b, h, g, W, reply)
  PROVE  Frames!Receive(e) \/ UNCHANGED Frames!vars
<1>1. PICK o \in Ends : o = Other(e)
  BY Sides
<1>2. e = Other(o) /\ o # e /\ \A x \in Ends : x = e \/ x = o
  BY <1>1, Sides
<1>3. Shapes
  BY DEF IInv
<1>4. hs'[e] = h /\ hs'[o] = hs[o] /\ proto' = proto /\ stage' = stage /\ sent' = sent
  BY <1>2, <1>3 DEF Leaves, Shapes
<1>5. Down' = Down /\ e \notin Down
  BY <1>4 DEF Down
<1>6. CASE Phase(proto, h) = 2
  <2>1. PICK j \in Len(got[e])..Len(sent[o]) : got' = [got EXCEPT ![e] = SubSeq(sent[o], 1, j)]
    BY <1>1, <1>4, <1>6 DEF Progress
  <2>2. proto = "secure" => h.established
    BY <1>6 DEF Phase
  <2>3. ASSUME NEW x \in Ends PROVE IsEstablished(x)' <=> IsEstablished(x) \/ x = e
    BY <1>2, <1>4, <2>2 DEF IsEstablished
  <2>4. Up' = Up \union {e}
    BY <2>3 DEF Up
  <2>5. Frames!Receive(e)
    BY <1>1, <1>4, <1>5, <2>1, <2>4 DEF Frames!Receive, Up, Down
  <2> QED BY <2>5
<1>7. CASE Phase(proto, h) # 2
  <2>1. Phase(proto, hs[e]) # 2 /\ got' = got
    BY <1>4, <1>7 DEF Progress
  <2>2. proto = "secure" /\ ~ h.established /\ ~ hs[e].established
    BY <1>7, <2>1 DEF Phase
  <2>3. ASSUME NEW x \in Ends PROVE IsEstablished(x)' <=> IsEstablished(x)
    BY <1>2, <1>4, <2>2 DEF IsEstablished
  <2>4. Up' = Up
    BY <2>3 DEF Up
  <2> QED BY <1>4, <1>5, <2>1, <2>4 DEF Frames!vars, Up, Down
<1> QED BY <1>6, <1>7

\* handle_close() takes the end down.
LEMMA CloseRefines ==
  ASSUME IInv, NEW e \in Ends, NEW k, Close(e, k) PROVE Frames!Close(e)
<1>1. Shapes
  BY DEF IInv
<1>2. /\ stage'[e] = "closed" /\ (\A x \in Ends : x # e => stage'[x] = stage[x])
      /\ proto' = proto /\ hs' = hs /\ sent' = sent /\ got' = got
  BY <1>1 DEF Close, Shapes
<1>3. ASSUME NEW x \in Ends
      PROVE  /\ IsEstablished(x)' <=> IsEstablished(x) /\ x # e
             /\ stage'[x] = "closed" <=> stage[x] = "closed" \/ x = e
  <2>1. CASE x = e
    BY <1>2, <2>1 DEF IsEstablished
  <2>2. CASE x # e
    <3>1. stage'[x] = stage[x]
      BY <1>2, <2>2
    <3> QED BY <1>2, <2>2, <3>1 DEF IsEstablished
  <2> QED BY <2>1, <2>2
<1>4. Up' = Up \ {e}
  BY <1>3 DEF Up
<1>5. Down' = Down \union {e}
  BY <1>3 DEF Down
<1> QED BY <1>2, <1>4, <1>5 DEF Frames!Close, Up, Down

\* Two sessions connected by a socket implement FrameChannel, for every protocol
\* and every width of its fields: on_receive() is called with exactly what the
\* other end sent, in that order and once, however the bytes are cut into
\* segments and wherever a close cuts them off (session::handle_recv(),
\* recv_frames(), encode() and decode() of the three protocols).
THEOREM ChannelImplementsFrames == Spec => ImplementsFrames
<1>1. Init => Frames!Init
  <2> SUFFICES ASSUME Init PROVE Frames!Init
    OBVIOUS
  <2>1. ASSUME NEW e \in Ends PROVE ~ IsEstablished(e) /\ stage[e] # "closed"
    BY DEF Init, IsEstablished
  <2> QED BY <2>1 DEF Init, Frames!Init
<1>2. IInv /\ [Next]_vars => [Frames!Next]_(Frames!vars)
  <2> SUFFICES ASSUME IInv, [Next]_vars PROVE Frames!Next \/ UNCHANGED Frames!vars
    OBVIOUS
  <2>1. CASE StartStep
    <3>1. PICK e \in Ends : Start(e)
      BY <2>1 DEF StartStep
    <3>2. Frames!Receive(e) \/ UNCHANGED Frames!vars
      BY <3>1, StartRefines
    <3> QED BY <3>2 DEF Frames!Next
  <2>2. CASE SendStep
    <3>1. PICK e \in Ends, t \in Topics, pay \in Payloads, encrypt \in BOOLEAN : Send(e, t, pay, encrypt)
      BY <2>2 DEF SendStep
    <3>2. Frames!Send(e)
      BY <3>1, SendRefines
    <3> QED BY <3>2 DEF Frames!Next
  <2>3. CASE \E e \in Ends : RecvStep(e)
    <3>1. PICK e \in Ends : RecvStep(e)
      BY <2>3
    <3>2. PICK n \in 1..Len(wire[e]), nonce \in 0..(Nonces - 1) : HandleRecv(e, n, nonce)
      BY <3>1 DEF RecvStep
    <3>3. Progress(e) /\ \E b, h, g, W, reply : Leaves(e, b, h, g, W, reply)
      BY <3>2, RecvKeeps
    <3>4. stage[e] = "open"
      BY <3>2 DEF HandleRecv
    <3>5. Frames!Receive(e) \/ UNCHANGED Frames!vars
      BY <3>3, <3>4, RecvRefines
    <3> QED BY <3>5 DEF Frames!Next
  <2>4. CASE CloseStep
    <3>1. PICK e \in Ends : \E k \in 0..Len(wire[Other(e)]) : Close(e, k)
      BY <2>4 DEF CloseStep
    <3>2. PICK k \in 0..Len(wire[Other(e)]) : Close(e, k)
      BY <3>1
    <3>3. Frames!Close(e)
      BY <3>2, CloseRefines
    <3> QED BY <3>3 DEF Frames!Next
  <2>5. CASE UNCHANGED vars
    <3>1. Up' = Up /\ Down' = Down
      BY <2>5, SameUp DEF vars
    <3> QED BY <2>5, <3>1 DEF Frames!vars, Up, Down, vars
  <2> QED BY <2>1, <2>2, <2>3, <2>4, <2>5 DEF Next
<1> QED BY <1>1, <1>2, Invariant, PTL DEF Spec, ImplementsFrames, Frames!Spec
=============================================================================
