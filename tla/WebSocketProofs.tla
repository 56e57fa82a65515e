--------------------------- MODULE WebSocketProofs ---------------------------
(***************************************************************************)
(* Theorems about WebSocket for all bytes, limits and clients: recv_frame() *)
(* returns what the client sent, and the client can read what the server   *)
(* sent.                                                                   *)
(*                                                                         *)
(* Received needs to know where in the stream each frame begins (Streamed) *)
(* and that every read starts at its field of the frame (Placed).  For     *)
(* RepliesReadable each frame that was written is whole, or is cut off by a *)
(* failed write and nothing comes behind it (Replied).  Both rest on       *)
(* NumberRead: a length is read as it was written.                         *)
(***************************************************************************)
EXTENDS WebSocket, SequenceTheorems, WellFoundedInduction, TLAPS

-----------------------------------------------------------------------------
(* The ends of a set of numbers.                                           *)

LEMMA LeastIs ==
  ASSUME NEW S \in SUBSET Nat, S # {}
  PROVE  Min(S) \in S /\ \A y \in S : Min(S) <= y
<1> DEFINE R == OpToRel(<, Nat)
<1>1. IsWellFoundedOn(R, Nat)
  BY NatLessThanWellFounded
<1>2. \A x, y \in Nat : x < y => <<x, y>> \in R
  BY DEF OpToRel
<1> HIDE DEF R
<1>3. PICK x \in S : \A y \in S : ~ (<<y, x>> \in R)
  BY <1>1, WFMin
<1>4. ASSUME NEW y \in S PROVE x <= y
  <2>1. x \in Nat /\ y \in Nat /\ ~ (y < x)
    BY <1>2, <1>3
  <2> QED
    BY <2>1
<1> QED
  BY <1>4 DEF Min

LEMMA LargestIs ==
  ASSUME NEW S, NEW n \in Nat, S \subseteq 0 .. n, S # {}
  PROVE  Max(S) \in S /\ \A y \in S : y <= Max(S)
<1> DEFINE T == {z \in Nat : \E y \in S : z = n - y}
<1>1. T \in SUBSET Nat /\ T # {}
  <2>1. \A y \in S : n - y \in Nat
    OBVIOUS
  <2> QED
    BY <2>1
<1>2. Min(T) \in T /\ \A z \in T : Min(T) <= z
  BY <1>1, LeastIs
<1> DEFINE m == Min(T)
<1>a. m \in T /\ \A z \in T : m <= z
  BY <1>2
<1> HIDE DEF m
<1>3. PICK x \in S : m = n - x
  BY <1>a
<1>4. \A y \in S : n - x <= n - y
  BY <1>a, <1>3
<1>5. \A y \in S : x >= y
  BY <1>4
<1> QED
  BY <1>5 DEF Max

-----------------------------------------------------------------------------
(* Numbers in bytes.                                                       *)

LEMMA Bases ==
  /\ Base \in Nat /\ HighBit \in Nat /\ Base = HighBit + HighBit /\ HighBit >= 3
  /\ Near \in Nat /\ Near = HighBit - 2 /\ Near >= 1
BY WebSocketAssumption DEF HighBit, Near

LEMMA Quotient ==
  ASSUME NEW n \in Nat
  PROVE  /\ n \div Base \in Nat /\ n % Base \in Byte
         /\ n = (n \div Base) * Base + (n % Base)
<1>1. Base \in Nat /\ Base > 0
  BY Bases
<1>2. n \div Base \in Nat
  BY <1>1
<1>3. n % Base \in 0 .. Base - 1
  BY <1>1
<1>4. n = Base * (n \div Base) + (n % Base)
  BY <1>1
<1>5. Base * (n \div Base) = (n \div Base) * Base
  BY <1>1, <1>2
<1> QED
  BY <1>2, <1>3, <1>4, <1>5 DEF Byte

LEMMA Smaller ==
  ASSUME NEW n \in Nat, NEW P \in Nat, n < P * Base
  PROVE  n \div Base < P
<1> DEFINE q == n \div Base
<1>1. q \in Nat /\ q * Base <= n
  <2> DEFINE m == n % Base
  <2>0. m \in Byte /\ q \in Nat /\ n = q * Base + m
    BY Quotient
  <2> HIDE DEF m, q
  <2>1. m \in Nat /\ q \in Nat /\ n = q * Base + m
    BY <2>0 DEF Byte
  <2>2. q * Base \in Nat
    BY <2>1, Bases
  <2> QED
    BY <2>1, <2>2
<1>2. CASE q >= P
  <2>1. q * Base >= P * Base
    BY <1>1, <1>2, Bases
  <2> QED
    BY <2>1, <1>1, Bases
<1> QED
  BY <1>1, <1>2

\* s is n shifted to the right by more and more bytes.
Shifts(s, n, w) ==
  s = [i \in 0 .. w - 1 |-> IF i = 0 THEN n ELSE s[i - 1] \div Base]

LEMMA Shifted ==
  ASSUME NEW n \in Nat, NEW w \in {2, 8}
  PROVE  \E s : Shifts(s, n, w) /\ BigEndian(n, w) = [i \in 1 .. w |-> s[w - i] % Base]
<1> DEFINE a == n \div Base  b == a \div Base  c == b \div Base  d == c \div Base
           e == d \div Base  f == e \div Base  g == f \div Base
           q == <<n, a, b, c, d, e, f, g>>
           h == [i \in 0 .. w - 1 |-> q[i + 1]]
<1>1. ASSUME NEW i \in 1 .. w - 1 PROVE q[i + 1] = q[i] \div Base
  <2>1. i \in 1 .. 7
    OBVIOUS
  <2> HIDE DEF a, b, c, d, e, f, g
  <2>2. q[1] = n /\ q[2] = a /\ q[3] = b /\ q[4] = c /\ q[5] = d /\ q[6] = e /\ q[7] = f /\ q[8] = g
    OBVIOUS
  <2>3. i = 1 \/ i = 2 \/ i = 3 \/ i = 4 \/ i = 5 \/ i = 6 \/ i = 7
    BY <2>1
  <2> HIDE DEF q
  <2> QED
    BY <2>2, <2>3 DEF a, b, c, d, e, f, g
<1>2. q[1] = n
  OBVIOUS
<1> HIDE DEF q
<1>3. Shifts(h, n, w)
  BY <1>1, <1>2 DEF Shifts
<1> DEFINE s == CHOOSE s : Shifts(s, n, w)
<1>4. Shifts(s, n, w)
  BY <1>3
<1>5. BigEndian(n, w) = [i \in 1 .. w |-> s[w - i] % Base]
  BY DEF BigEndian, Shifts
<1> QED
  BY <1>4, <1>5

LEMMA Digits ==
  ASSUME NEW n \in Nat, NEW w \in {2, 8}
  PROVE  BigEndian(n, w) \in [1 .. w -> Byte] /\ Len(BigEndian(n, w)) = w
<1>1. PICK s : Shifts(s, n, w) /\ BigEndian(n, w) = [i \in 1 .. w |-> s[w - i] % Base]
  BY Shifted
<1>2. \A i \in 1 .. w - 1 : s[i] = s[i - 1] \div Base
  BY <1>1 DEF Shifts
<1>3. s[0] \in Nat /\ s[1] \in Nat
  BY <1>1, <1>2, Quotient DEF Shifts
<1>4. ASSUME w = 8 PROVE \A i \in 1 .. w : s[w - i] \in Nat
  <2>1. s[2] \in Nat /\ s[3] \in Nat
    BY <1>2, <1>3, <1>4, Quotient
  <2>2. s[4] \in Nat /\ s[5] \in Nat
    BY <1>2, <2>1, <1>4, Quotient
  <2>3. s[6] \in Nat /\ s[7] \in Nat
    BY <1>2, <2>2, <1>4, Quotient
  <2>4. ASSUME NEW i \in 1 .. w PROVE s[w - i] \in Nat
    <3>1. i \in {1, 2, 3, 4, 5, 6, 7, 8}
      BY <1>4
    <3> QED
      BY <1>3, <1>4, <2>1, <2>2, <2>3, <3>1
  <2> QED
    BY <2>4
<1>5. ASSUME w = 2 PROVE \A i \in 1 .. w : s[w - i] \in Nat
  BY <1>3, <1>5
<1>6. \A i \in 1 .. w : s[w - i] \in Nat
  BY <1>4, <1>5
<1>7. BigEndian(n, w) \in [1 .. w -> Byte]
  BY <1>1, <1>6, Quotient
<1> QED
  BY <1>7

\* u is what the first bytes of b amount to.
Amounts(u, b) ==
  u = [i \in 0 .. Len(b) |-> IF i = 0 THEN 0 ELSE u[i - 1] * Base + b[i]]

LEMMA Amounted ==
  ASSUME NEW w \in {2, 8}, NEW b, Len(b) = w, NEW u, Amounts(u, b)
  PROVE  \E v : Amounts(v, b) /\ Number(b) = v[w]
<1> DEFINE v == CHOOSE v : Amounts(v, b)
<1>1. Amounts(v, b)
  OBVIOUS
<1>2. Number(b) = v[w]
  BY DEF Number, Amounts
<1> QED
  BY <1>1, <1>2

Room(w) == IF w = 2 THEN Capacity["16"] ELSE Capacity["64"]

\* A number that has room is read as it was written.
LEMMA NumberRead ==
  ASSUME NEW n \in Nat, NEW w \in {2, 8}, n < Room(w)
  PROVE  Number(BigEndian(n, w)) = n
<1>1. PICK s : Shifts(s, n, w) /\ BigEndian(n, w) = [i \in 1 .. w |-> s[w - i] % Base]
  BY Shifted
<1> DEFINE b == BigEndian(n, w)
<1>2. Len(b) = w
  BY Digits
<1>3. s[0] = n /\ \A i \in 1 .. w - 1 : s[i] = s[i - 1] \div Base
  BY <1>1 DEF Shifts
<1>4. Base \in Nat /\ Base > 0
  BY Bases
<1>5. /\ \A i \in 0 .. w - 1 : s[i] \in Nat
      /\ s[w - 1] < Base
  <2>1. CASE w = 2
    <3>1. n < Base * Base
      BY <2>1 DEF Room, Capacity
    <3>2. s[1] = n \div Base
      BY <1>3, <2>1
    <3> QED
      BY <1>3, <1>4, <2>1, <3>1, <3>2, Quotient, Smaller
  <2>2. CASE w = 8
    <3> DEFINE b2 == Base * Base  b4 == b2 * b2
    <3>0. b2 \in Nat /\ b4 \in Nat /\ b4 * b2 \in Nat /\ b4 * Base \in Nat /\ b2 * Base \in Nat
          /\ b4 * b2 * Base \in Nat
      BY <1>4
    <3>a. s[1] = n \div Base /\ s[2] = s[1] \div Base /\ s[3] = s[2] \div Base
          /\ s[4] = s[3] \div Base /\ s[5] = s[4] \div Base /\ s[6] = s[5] \div Base
          /\ s[7] = s[6] \div Base
      BY <1>3, <2>2
    <3>1. n < b4 * b2 * Base * Base
      BY <2>2, <1>4 DEF Room, Capacity
    <3> HIDE DEF b4
    <3>2. s[1] \in Nat /\ s[1] < b4 * b2 * Base
      BY <3>0, <3>a, <3>1, Quotient, Smaller
    <3>3. s[2] \in Nat /\ s[2] < b4 * b2
      BY <3>0, <3>a, <3>2, Quotient, Smaller
    <3>4. b4 * b2 = b4 * Base * Base
      BY <1>4, <3>0
    <3>5. s[3] \in Nat /\ s[3] < b4 * Base
      BY <3>0, <3>a, <3>3, <3>4, Quotient, Smaller
    <3>6. s[4] \in Nat /\ s[4] < b4
      BY <3>0, <3>a, <3>5, Quotient, Smaller
    <3>7. b4 = b2 * Base * Base
      BY <1>4 DEF b4
    <3>8. s[5] \in Nat /\ s[5] < b2 * Base
      BY <3>0, <3>a, <3>6, <3>7, Quotient, Smaller
    <3> HIDE DEF b2
    <3>9. s[6] \in Nat /\ s[6] < b2
      BY <3>0, <3>a, <3>8, Quotient, Smaller
    <3>10. s[7] \in Nat /\ s[7] < Base
      BY <1>4, <3>0, <3>a, <3>9, Quotient, Smaller DEF b2
    <3> QED
      BY <1>3, <2>2, <3>2, <3>3, <3>5, <3>6, <3>8, <3>9, <3>10
  <2> QED
    BY <2>1, <2>2
<1>6. b[1] = s[w - 1] /\ \A i \in 2 .. w : s[w - i] = s[w - (i - 1)] * Base + b[i]
  <2>1. \A i \in 1 .. w : b[i] = s[w - i] % Base
    BY <1>1
  <2>2. ASSUME NEW i \in 2 .. w PROVE s[w - i] = s[w - (i - 1)] * Base + b[i]
    <3>1. w - i \in 0 .. w - 1 /\ w - (i - 1) \in 1 .. w - 1 /\ (w - (i - 1)) - 1 = w - i /\ i \in 1 .. w
      OBVIOUS
    <3>2. s[w - (i - 1)] = s[w - i] \div Base
      BY <1>3, <3>1
    <3> QED
      BY <1>5, <2>1, <3>1, <3>2, Quotient
  <2>3. s[w - 1] % Base = s[w - 1]
    BY <1>4, <1>5
  <2> QED
    BY <2>1, <2>2, <2>3
<1> DEFINE u == [i \in 0 .. w |-> IF i = 0 THEN 0 ELSE s[w - i]]
<1> HIDE DEF b
<1>7. Amounts(u, b)
  <2>1. u[0] = 0 /\ u[1] = s[w - 1] /\ \A i \in 2 .. w : u[i] = s[w - i] /\ u[i - 1] = s[w - (i - 1)]
    OBVIOUS
  <2>2. u[1] = u[0] * Base + b[1]
    <3>1. b[1] \in Nat /\ b[1] = s[w - 1]
      BY <1>5, <1>6
    <3>2. u[0] * Base = 0
      BY <1>4, <2>1
    <3> QED
      BY <2>1, <3>1, <3>2
  <2>3. \A i \in 2 .. w : u[i] = u[i - 1] * Base + b[i]
    BY <1>6, <2>1
  <2>4. ASSUME NEW i \in 1 .. w PROVE u[i] = u[i - 1] * Base + b[i]
    <3>1. i = 1 \/ i \in 2 .. w
      OBVIOUS
    <3> HIDE DEF u
    <3> QED
      BY <2>2, <2>3, <3>1
  <2> HIDE DEF u
  <2>5. u = [i \in 0 .. w |-> u[i]]
    BY DEF u
  <2>6. \A i \in 0 .. w : u[i] = (IF i = 0 THEN 0 ELSE u[i - 1] * Base + b[i])
    BY <2>1, <2>4
  <2> QED
    BY <1>2, <2>5, <2>6 DEF Amounts
<1>8. PICK v : Amounts(v, b) /\ Number(b) = v[w]
  BY <1>2, <1>7, Amounted
<1>9. v[0] = 0 /\ \A i \in 1 .. w : v[i] = v[i - 1] * Base + b[i]
  BY <1>2, <1>8 DEF Amounts
<1>10. v[1] = s[w - 1] /\ v[2] = s[w - 2]
  <2>1. v[1] = s[w - 1]
    <3>1. v[1] = 0 * Base + b[1]
      BY <1>9
    <3>2. b[1] \in Nat /\ b[1] = s[w - 1]
      BY <1>5, <1>6
    <3> QED
      BY <1>4, <3>1, <3>2
  <2> QED
    BY <2>1, <1>6, <1>9
<1>11. CASE w = 2
  BY <1>3, <1>8, <1>10, <1>11 DEF b
<1>12. CASE w = 8
  <2>1. v[3] = s[5] /\ v[4] = s[4]
    BY <1>6, <1>9, <1>10, <1>12
  <2>2. v[5] = s[3] /\ v[6] = s[2]
    BY <1>6, <1>9, <2>1, <1>12
  <2>3. v[7] = s[1] /\ v[8] = s[0]
    BY <1>6, <1>9, <2>2, <1>12
  <2> QED
    BY <1>3, <1>8, <2>3, <1>12 DEF b
<1> QED
  BY <1>11, <1>12

-----------------------------------------------------------------------------
(* Sequences.                                                              *)

LEMMA Joined ==
  ASSUME NEW S, NEW s \in Seq(S), NEW t \in Seq(S)
  PROVE  /\ s \o t \in Seq(S) /\ Len(s \o t) = Len(s) + Len(t)
         /\ Len(s) \in Nat /\ Len(t) \in Nat
         /\ \A j \in 1 .. Len(s) : (s \o t)[j] = s[j]
         /\ \A j \in 1 .. Len(t) : (s \o t)[Len(s) + j] = t[j]
<1>1. Len(s) \in Nat /\ Len(t) \in Nat
  OBVIOUS
<1>2. /\ s \o t \in Seq(S) /\ Len(s \o t) = Len(s) + Len(t)
      /\ \A j \in 1 .. Len(s) + Len(t) : (s \o t)[j] = IF j <= Len(s) THEN s[j] ELSE t[j - Len(s)]
  BY ConcatProperties
<1> DEFINE m == Len(s)  n == Len(t)  b == s \o t
<1>3. m \in Nat /\ n \in Nat /\ \A j \in 1 .. m + n : b[j] = IF j <= m THEN s[j] ELSE t[j - m]
  BY <1>1, <1>2
<1> HIDE DEF m, n, b
<1>4. \A j \in 1 .. m : b[j] = s[j]
  BY <1>3
<1>5. ASSUME NEW j \in 1 .. n PROVE b[m + j] = t[j]
  <2>1. m + j \in 1 .. m + n /\ ~ (m + j <= m) /\ (m + j) - m = j
    BY <1>3
  <2> QED
    BY <1>3, <2>1
<1> QED
  BY <1>1, <1>2, <1>4, <1>5 DEF m, n, b

LEMMA BytesJoined ==
  \A s, t \in Seq(Byte) :
    /\ s \o t \in Seq(Byte) /\ Len(s \o t) = Len(s) + Len(t)
    /\ \A j \in 1 .. Len(s) : (s \o t)[j] = s[j]
    /\ \A j \in 1 .. Len(t) : (s \o t)[Len(s) + j] = t[j]
BY Joined

LEMMA Tuple ==
  \A w \in Nat : \A s : s \in [1 .. w -> Byte] => s \in Seq(Byte) /\ Len(s) = w
BY IsASeq, LenProperties

LEMMA Listed ==
  ASSUME NEW S, NEW s \in Seq(S)
  PROVE  Len(s) \in Nat /\ DOMAIN s = 1 .. Len(s) /\ s \in [1 .. Len(s) -> S]
         /\ \A i \in 1 .. Len(s) : s[i] \in S
BY LenProperties, ElementOfSeq

-----------------------------------------------------------------------------
(* A frame of the client, byte by byte.                                    *)

\* How many bytes of length follow the first two, and how many of the mask.
Wide(f) == CASE f.form = "7" -> 0 [] f.form = "16" -> 2 [] f.form = "64" -> 8
KeyLen(f) == IF f.key = None THEN 0 ELSE 4
HeadLen(f) == 2 + Wide(f) + KeyLen(f)

Parts(f, b) ==
  /\ b \in Seq(Byte) /\ Len(b) = HeadLen(f) + Len(f.payload)
  /\ b[1] = Flag(f.fin) + f.op /\ b[2] = Flag(f.key # None) + Length7(f)
  /\ \A j \in 1 .. Wide(f) : b[2 + j] = Extended(f)[j]
  /\ f.key # None => \A j \in 1 .. 4 : b[2 + Wide(f) + j] = f.key[j]
  /\ \A j \in 1 .. Len(f.payload) :
       b[HeadLen(f) + j] = IF f.key = None THEN f.payload[j] ELSE Masked(f.payload, f.key)[j]

LEMMA FrameShape ==
  ASSUME NEW f \in Frames
  PROVE  /\ f.fin \in BOOLEAN /\ f.op \in 0 .. Opcodes - 1 /\ f.payload \in Seq(Byte)
         /\ Len(f.payload) \in Nat
         /\ f.form \in {"7", "16", "64"} /\ Len(f.payload) < Capacity[f.form]
         /\ f.key = None \/ f.key \in [1 .. 4 -> Byte]
         /\ Capacity["7"] = Near
<1>1. /\ f.fin \in BOOLEAN /\ f.op \in 0 .. Opcodes - 1 /\ f.payload \in Seq(Byte)
      /\ f.form \in DOMAIN Capacity /\ Len(f.payload) < Capacity[f.form]
      /\ f.key \in [1 .. 4 -> Byte] \cup {None}
  BY DEF Frames
<1>2. DOMAIN Capacity = {"7", "16", "64"} /\ Capacity["7"] = Near
  BY DEF Capacity
<1> QED
  BY <1>1, <1>2

LEMMA ExtendedIs ==
  ASSUME NEW f \in Frames
  PROVE  Extended(f) \in Seq(Byte) /\ Len(Extended(f)) = Wide(f) /\ Wide(f) \in {0, 2, 8}
<1>1. /\ BigEndian(Len(f.payload), 2) \in Seq(Byte) /\ Len(BigEndian(Len(f.payload), 2)) = 2
      /\ BigEndian(Len(f.payload), 8) \in Seq(Byte) /\ Len(BigEndian(Len(f.payload), 8)) = 8
  <2>1. Len(f.payload) \in Nat /\ 2 \in Nat /\ 8 \in Nat /\ 2 \in {2, 8} /\ 8 \in {2, 8}
    BY FrameShape
  <2>2. BigEndian(Len(f.payload), 2) \in [1 .. 2 -> Byte] /\ BigEndian(Len(f.payload), 8) \in [1 .. 8 -> Byte]
    BY <2>1, Digits
  <2> QED
    BY <2>1, <2>2, Tuple, Zenon
<1>2. <<>> \in Seq(Byte) /\ Len(<<>>) = 0
  OBVIOUS
<1>3. CASE f.form = "7"
  BY <1>2, <1>3 DEF Extended, Wide
<1>4. CASE f.form = "16"
  BY <1>1, <1>4 DEF Extended, Wide
<1>5. CASE f.form = "64"
  BY <1>1, <1>5 DEF Extended, Wide
<1> QED
  BY <1>3, <1>4, <1>5, FrameShape

LEMMA MaskedIs ==
  ASSUME NEW p \in Seq(Byte), NEW k \in [1 .. 4 -> Byte]
  PROVE  /\ Masked(p, k) \in Seq(Byte) /\ Len(Masked(p, k)) = Len(p)
         /\ \A j \in 1 .. Len(p) : ((j - 1) % 4) + 1 \in 1 .. 4
                                  /\ Masked(p, k)[j] = BitXor(p[j], k[((j - 1) % 4) + 1])
<1>1. \A j \in 1 .. Len(p) : ((j - 1) % 4) + 1 \in 1 .. 4
  OBVIOUS
<1>2. \A j \in 1 .. Len(p) : BitXor(p[j], k[((j - 1) % 4) + 1]) \in Byte
  BY <1>1, WebSocketAssumption, ElementOfSeq
<1>3. Masked(p, k) = [j \in 1 .. Len(p) |-> BitXor(p[j], k[((j - 1) % 4) + 1])]
  BY DEF Masked
<1>4. Masked(p, k) \in [1 .. Len(p) -> Byte]
  BY <1>2, <1>3
<1>5. Len(p) \in Nat
  OBVIOUS
<1>6. Masked(p, k) \in Seq(Byte) /\ Len(Masked(p, k)) = Len(p)
  BY <1>4, <1>5, Tuple
<1>7. \A j \in 1 .. Len(p) : Masked(p, k)[j] = BitXor(p[j], k[((j - 1) % 4) + 1])
  BY <1>3
<1> QED
  BY <1>1, <1>6, <1>7

LEMMA Divided ==
  \A b, q \in Nat : b * q > 0 => q >= 1 /\ b * 1 <= b * q /\ b > 0
<1> SUFFICES ASSUME NEW b \in Nat, NEW q \in Nat, b * q > 0
             PROVE  q >= 1 /\ b * 1 <= b * q /\ b > 0
  OBVIOUS
<1>1. q # 0 /\ b # 0
  <2>1. b * 0 = 0 /\ 0 * q = 0
    OBVIOUS
  <2> QED
    BY <2>1
<1>2. q >= 1 /\ b > 0
  BY <1>1
<1> QED
  BY <1>2

\* The opcode has its bits below the highest one.
LEMMA OpcodesFit ==
  /\ Opcodes \in Nat /\ Opcodes > 0 /\ Opcodes <= HighBit
  /\ \E q \in Nat : HighBit = Opcodes * q
<1> DEFINE h == HighBit  q == h \div Opcodes
<1>1. h \in Nat /\ h > 0 /\ h % Opcodes = 0 /\ Opcodes \in Nat /\ Opcodes > 0
  <2>1. Opcodes \in Nat /\ 0 .. Opcodes - 1 # {}
    BY WebSocketAssumption
  <2>2. Opcodes > 0
    BY <2>1
  <2> QED
    BY <2>1, <2>2, Bases, WebSocketAssumption
<1> HIDE DEF h
<1>2. q \in Nat /\ h = Opcodes * q
  BY <1>1
<1> HIDE DEF q
<1>3. Opcodes * q > 0
  BY <1>1, <1>2
<1>4. Opcodes * 1 <= Opcodes * q
  BY <1>1, <1>2, <1>3, Divided, Zenon
<1>5. Opcodes <= h
  BY <1>1, <1>2, <1>4
<1> QED
  BY <1>1, <1>2, <1>5 DEF h

LEMMA HeadBytes ==
  ASSUME NEW f \in Frames
  PROVE  /\ Flag(f.fin) + f.op \in Byte /\ Flag(f.key # None) + Length7(f) \in Byte
         /\ Length7(f) \in 0 .. HighBit - 1
<1>1. HighBit \in Nat /\ Base = HighBit + HighBit /\ HighBit >= 3 /\ Near = HighBit - 2
  BY Bases
<1>2. Opcodes <= HighBit /\ Opcodes \in Nat /\ Opcodes > 0
  BY OpcodesFit
<1>3. Length7(f) \in 0 .. HighBit - 1
  BY <1>1, FrameShape DEF Length7
<1>4. \A b : Flag(b) \in {0, HighBit}
  BY DEF Flag
<1>5. f.op \in 0 .. Opcodes - 1
  BY FrameShape
<1> QED
  BY <1>1, <1>2, <1>3, <1>4, <1>5 DEF Byte

LEMMA EncodedIs ==
  ASSUME NEW f \in Frames
  PROVE  Parts(f, Encoded(f))
<1> DEFINE h == <<Flag(f.fin) + f.op, Flag(f.key # None) + Length7(f)>>
           e == Extended(f)
           t == IF f.key = None THEN f.payload ELSE f.key \o Masked(f.payload, f.key)
<1>1. h \in Seq(Byte) /\ Len(h) = 2 /\ h[1] = Flag(f.fin) + f.op
      /\ h[2] = Flag(f.key # None) + Length7(f)
  BY HeadBytes
<1>2. e \in Seq(Byte) /\ Len(e) = Wide(f) /\ Wide(f) \in Nat
  BY ExtendedIs
<1>3. f.payload \in Seq(Byte) /\ Len(f.payload) \in Nat /\ (f.key = None \/ f.key \in [1 .. 4 -> Byte])
  BY FrameShape
<1>4. /\ t \in Seq(Byte) /\ Len(t) = KeyLen(f) + Len(f.payload)
      /\ f.key # None => \A j \in 1 .. 4 : t[j] = f.key[j]
      /\ \A j \in 1 .. Len(f.payload) :
           t[KeyLen(f) + j] = IF f.key = None THEN f.payload[j] ELSE Masked(f.payload, f.key)[j]
  <2>1. CASE f.key = None
    BY <1>3, <2>1 DEF KeyLen
  <2>2. CASE f.key # None
    <3>1. f.key \in Seq(Byte) /\ Len(f.key) = 4
      BY <1>3, <2>2, Tuple, 4 \in Nat, Zenon
    <3> DEFINE k == f.key  m == Masked(f.payload, f.key)
    <3>2. m \in Seq(Byte) /\ Len(m) = Len(f.payload)
      BY <1>3, <2>2, MaskedIs
    <3>3. t = k \o m
      BY <2>2
    <3> HIDE DEF k, m, t
    <3>4. /\ k \o m \in Seq(Byte) /\ Len(k \o m) = Len(k) + Len(m)
          /\ \A j \in 1 .. Len(k) : (k \o m)[j] = k[j]
          /\ \A j \in 1 .. Len(m) : (k \o m)[Len(k) + j] = m[j]
      BY <3>1, <3>2, BytesJoined, Zenon DEF k
    <3>5. KeyLen(f) = Len(k) /\ Len(k) = 4
      BY <2>2, <3>1 DEF KeyLen, k
    <3>6. /\ t \in Seq(Byte) /\ Len(t) = KeyLen(f) + Len(f.payload)
          /\ \A j \in 1 .. 4 : t[j] = k[j]
          /\ \A j \in 1 .. Len(f.payload) : t[KeyLen(f) + j] = m[j]
      BY <3>2, <3>3, <3>4, <3>5
    <3> QED
      BY <2>2, <3>6 DEF k, m
  <2> QED
    BY <2>1, <2>2
<1> HIDE DEF h, e, t
<1> DEFINE he == h \o e
<1>5. /\ he \in Seq(Byte) /\ Len(he) = Len(h) + Len(e)
      /\ \A j \in 1 .. Len(h) : he[j] = h[j]
      /\ \A j \in 1 .. Len(e) : he[Len(h) + j] = e[j]
  BY <1>1, <1>2, BytesJoined, Zenon DEF he
<1>6. he \in Seq(Byte) /\ Len(he) = 2 + Wide(f)
  BY <1>1, <1>2, <1>5
<1>7. he[1] = h[1] /\ he[2] = h[2] /\ \A j \in 1 .. Wide(f) : he[2 + j] = e[j]
  BY <1>1, <1>2, <1>5
<1> HIDE DEF he
<1>8. KeyLen(f) \in Nat /\ HeadLen(f) = 2 + Wide(f) + KeyLen(f) /\ HeadLen(f) \in Nat
  BY <1>2 DEF KeyLen, HeadLen
<1> DEFINE n == 2 + Wide(f)  k == KeyLen(f) + Len(f.payload)
<1>9. n \in Nat /\ k \in Nat
  BY <1>2, <1>3, <1>8
<1>10. /\ he \o t \in Seq(Byte) /\ Len(he \o t) = Len(he) + Len(t)
       /\ \A j \in 1 .. Len(he) : (he \o t)[j] = he[j]
       /\ \A j \in 1 .. Len(t) : (he \o t)[Len(he) + j] = t[j]
  BY <1>4, <1>6, BytesJoined, Zenon
<1> DEFINE b == Encoded(f)
<1>11. b = he \o t
  BY DEF Encoded, he, h, e, t
<1>12. Len(b) = n + k /\ b \in Seq(Byte)
  BY <1>4, <1>6, <1>10, <1>11
<1>13. (\A j \in 1 .. n : b[j] = he[j]) /\ (\A j \in 1 .. k : b[n + j] = t[j])
  BY <1>4, <1>6, <1>10, <1>11
<1>14. b \in Seq(Byte) /\ Len(b) = HeadLen(f) + Len(f.payload)
  <2>1. n + k = HeadLen(f) + Len(f.payload)
    BY <1>2, <1>3, <1>8
  <2> QED
    BY <1>12, <2>1
<1>15. b[1] = Flag(f.fin) + f.op /\ b[2] = Flag(f.key # None) + Length7(f)
  <2>1. 1 \in 1 .. n /\ 2 \in 1 .. n
    BY <1>2
  <2> QED
    BY <1>1, <1>7, <1>13, <2>1
<1>16. \A j \in 1 .. Wide(f) : b[2 + j] = Extended(f)[j]
  <2>1. \A j \in 1 .. Wide(f) : 2 + j \in 1 .. n
    BY <1>2
  <2> QED
    BY <1>7, <1>13, <2>1 DEF e
<1>17. f.key # None => \A j \in 1 .. 4 : b[2 + Wide(f) + j] = f.key[j]
  <2>1. f.key # None => \A j \in 1 .. 4 : j \in 1 .. k
    BY <1>3 DEF KeyLen
  <2> QED
    BY <1>4, <1>13, <2>1
<1>18. \A j \in 1 .. Len(f.payload) :
         b[HeadLen(f) + j] = IF f.key = None THEN f.payload[j] ELSE Masked(f.payload, f.key)[j]
  <2>1. \A j \in 1 .. Len(f.payload) : KeyLen(f) + j \in 1 .. k /\ n + (KeyLen(f) + j) = HeadLen(f) + j
    BY <1>2, <1>3, <1>8
  <2> QED
    BY <1>4, <1>13, <2>1
<1> HIDE DEF b, n, k
<1> QED
  BY <1>14, <1>15, <1>16, <1>17, <1>18 DEF Parts, b

-----------------------------------------------------------------------------
(* The invariant.                                                          *)

Script == client.script
Sent(i) == Encoded(Script[i])
Answers == {Accept(k) : k \in Seq(STRING)}
Items == Byte \cup Answers
Decoded == [fin : BOOLEAN, op : 0 .. Opcodes - 1, masked : BOOLEAN, payload : Seq(Byte)]
Texts == {t \in Seq(Byte) : Len(t) < Capacity["64"]}
Pieces == [text : Texts, at : Nat \ {0}]

Typed ==
  /\ client \in Clients
  /\ wire \in Seq(Byte) /\ taken \in 0 .. Len(wire)
  /\ ended \in BOOLEAN /\ closed \in BOOLEAN
  /\ pc \in {"handshake", "join", "check", "header", "length", "mask", "payload", "frame",
             "leave", "done"}
  /\ out \in Seq(Items)
  /\ texts \in Seq(Pieces)

\* The stream is the frames of the script, one behind the other.
Laid(i) ==
  /\ starts[i] <= Len(wire)
  /\ i > 1 => starts[i] = starts[i - 1] + Len(Sent(i - 1))
  /\ i \in DOMAIN Script =>
       \A j \in 1 .. Len(Sent(i)) : starts[i] + j <= Len(wire) => wire[starts[i] + j] = Sent(i)[j]

LastFrame(n) ==
  IF n = Len(Script) + 1 THEN Len(wire) = starts[n] ELSE Len(wire) < starts[n] + Len(Sent(n))

Streamed ==
  /\ starts \in Seq(Nat) /\ Len(starts) \in 1 .. Len(Script) + 1
  /\ \A i \in DOMAIN starts : Laid(i)
  /\ LastFrame(Len(starts))

\* recv_frame() has returned the first frames.
Returned ==
  /\ got \in Seq(Decoded) /\ Len(got) <= Len(Script)
  /\ \A i \in DOMAIN got : got[i] = AsSent(Script[i]) /\ Len(got[i].payload) <= Limit

\* k bytes of the frame that comes next are read.
At(k) == Len(got) + 1 \in DOMAIN starts /\ taken = starts[Len(got) + 1] + k

Read0 == <<0, 0, 0, 0>>

\* frame holds what the bytes of f said so far.
Holds(f, len, mask) ==
  frame = [fin |-> f.fin, op |-> f.op, masked |-> f.key # None, len |-> len, mask |-> mask]

Placed ==
  /\ pc \in {"handshake", "join", "check", "header", "frame"} => At(0)
  /\ pc = "frame" => got # <<>>
  /\ pc \in {"length", "mask", "payload"} =>
       /\ Len(got) + 1 \in DOMAIN Script
       /\ LET f == Script[Len(got) + 1] IN
            /\ pc = "length"  => At(2) /\ Wide(f) # 0 /\ Holds(f, Length7(f), Read0)
            /\ pc = "mask"    => /\ At(2 + Wide(f)) /\ f.key # None
                                 /\ Holds(f, Len(f.payload), Read0) /\ Len(f.payload) <= Limit
            /\ pc = "payload" => /\ At(HeadLen(f)) /\ Len(f.payload) <= Limit
                                 /\ Holds(f, Len(f.payload), IF f.key = None THEN Read0 ELSE f.key)

\* The frame of the server that holds a text.
Reply(t) == <<HighBit + TextOp>> \o LengthField(Len(t)) \o t
Ends(i) == texts[i].at + Len(Reply(texts[i].text))

\* What is in out from p on agrees with b.
Agrees(p, b) == \A j \in 1 .. Len(b) : p + j - 1 <= Len(out) => out[p + j - 1] = b[j]

Begun(i) == Agrees(texts[i].at, Reply(texts[i].text))
Whole(i) ==
  /\ Begun(i) /\ Ends(i) <= Len(out) + 1
  /\ texts[i].at = IF i = 1 THEN 2 ELSE Ends(i - 1)
Torn(i) == Begun(i) /\ Ends(i) > Len(out) + 1

Replied ==
  /\ pc = "handshake" => out = <<>> /\ texts = <<>> /\ ~ closed
  /\ pc \notin {"handshake", "done"} => closed \/ out # <<>>
  /\ out # <<>> => Nonce # <<>> /\ out[1] = Accept(Nonce)
  /\ \A i \in DOMAIN texts : Whole(i) \/ (closed /\ \A j \in i .. Len(texts) : Torn(j))
  /\ ~ closed /\ out # <<>> => Len(out) + 1 = IF texts = <<>> THEN 2 ELSE Ends(Len(texts))

IInv == Typed /\ Streamed /\ Returned /\ Placed /\ Replied

-----------------------------------------------------------------------------
(* The stream.                                                             *)

LEMMA ScriptIs ==
  ASSUME Typed
  PROVE  /\ Script \in Seq(Frames) /\ Len(Script) \in Nat /\ DOMAIN Script = 1 .. Len(Script)
         /\ \A i \in DOMAIN Script : Script[i] \in Frames
         /\ client.key \in Seq(STRING) \cup {None}
<1>1. client \in [key : Seq(STRING) \cup {None}, script : Seq(Frames)]
  BY WebSocketAssumption DEF Typed
<1>2. Script \in Seq(Frames) /\ client.key \in Seq(STRING) \cup {None}
  BY <1>1 DEF Script
<1> QED
  BY <1>2, Listed

LEMMA SentIs ==
  ASSUME Typed, NEW i \in DOMAIN Script
  PROVE  /\ Script[i] \in Frames /\ Parts(Script[i], Sent(i))
         /\ Sent(i) \in Seq(Byte) /\ Len(Sent(i)) \in Nat /\ Len(Sent(i)) >= 2
         /\ Len(Sent(i)) = HeadLen(Script[i]) + Len(Script[i].payload)
         /\ HeadLen(Script[i]) \in Nat
<1>1. Script[i] \in Frames
  BY ScriptIs
<1>2. Parts(Script[i], Sent(i))
  BY <1>1, EncodedIs DEF Sent
<1>3. Len(Script[i].payload) \in Nat
  BY <1>1, FrameShape
<1>4. HeadLen(Script[i]) \in Nat /\ HeadLen(Script[i]) >= 2
  <2>1. Wide(Script[i]) \in {0, 2, 8}
    BY <1>1, ExtendedIs
  <2>2. KeyLen(Script[i]) \in {0, 4}
    BY DEF KeyLen
  <2> QED
    BY <2>1, <2>2 DEF HeadLen
<1> QED
  BY <1>1, <1>2, <1>3, <1>4 DEF Parts

LEMMA StartsIs ==
  ASSUME Typed, Streamed
  PROVE  /\ Len(starts) \in Nat /\ Len(starts) >= 1 /\ DOMAIN starts = 1 .. Len(starts)
         /\ \A i \in DOMAIN starts : starts[i] \in Nat /\ starts[i] <= Len(wire)
         /\ Len(wire) \in Nat
         /\ Len(starts) <= Len(Script) + 1
<1>1. starts \in Seq(Nat) /\ wire \in Seq(Byte) /\ Len(starts) \in 1 .. Len(Script) + 1
      /\ \A i \in DOMAIN starts : starts[i] <= Len(wire)
  BY DEF Typed, Streamed, Laid
<1>2. Len(Script) \in Nat
  BY ScriptIs
<1> QED
  BY <1>1, <1>2, Listed

LEMMA StreamIs ==
  ASSUME Typed, Streamed
  PROVE  /\ \A i \in 1 .. Len(starts) : Laid(i)
         /\ \A i \in 1 .. Len(starts) : i \in DOMAIN Script =>
              \A j \in 1 .. Len(Sent(i)) :
                starts[i] + j <= Len(wire) => wire[starts[i] + j] = Sent(i)[j]
         /\ \A i \in 1 .. Len(starts) : i > 1 => starts[i] = starts[i - 1] + Len(Sent(i - 1))
         /\ Len(starts) = Len(Script) + 1 => Len(wire) = starts[Len(starts)]
         /\ Len(starts) # Len(Script) + 1 => Len(wire) < starts[Len(starts)] + Len(Sent(Len(starts)))
<1>1. DOMAIN starts = 1 .. Len(starts)
  BY StartsIs
<1>2. \A i \in 1 .. Len(starts) : Laid(i)
  BY <1>1 DEF Streamed
<1>3. LastFrame(Len(starts))
  BY DEF Streamed
<1> QED
  BY <1>2, <1>3 DEF Laid, LastFrame

LEMMA BytesAppended ==
  \A q \in Seq(Byte), u \in Byte :
    /\ Append(q, u) \in Seq(Byte) /\ Len(Append(q, u)) = Len(q) + 1
    /\ \A k \in 1 .. Len(q) : Append(q, u)[k] = q[k]
    /\ Append(q, u)[Len(q) + 1] = u
BY AppendProperties

LEMMA NumbersAppended ==
  \A q \in Seq(Nat), u \in Nat :
    /\ Append(q, u) \in Seq(Nat) /\ Len(Append(q, u)) = Len(q) + 1
    /\ \A k \in 1 .. Len(q) : Append(q, u)[k] = q[k]
    /\ Append(q, u)[Len(q) + 1] = u
BY AppendProperties

\* The client sends the byte that comes next.
LEMMA SendStreamed ==
  ASSUME Typed, Streamed, ClientSends
  PROVE  /\ Streamed' /\ wire' \in Seq(Byte) /\ Len(wire') = Len(wire) + 1
         /\ \A i \in DOMAIN starts : i \in DOMAIN starts' /\ starts'[i] = starts[i]
<1>0. Len(starts) \in Nat /\ Len(wire) \in Nat
  BY StartsIs
<1> SUFFICES ASSUME NEW n \in Nat, n = Len(starts), NEW m \in Nat, m = Len(wire),
                    NEW s \in Nat, s = Len(Script), NEW b, b = Sent(n)
             PROVE  /\ Streamed' /\ wire' \in Seq(Byte) /\ Len(wire') = Len(wire) + 1
                    /\ \A i \in DOMAIN starts : i \in DOMAIN starts' /\ starts'[i] = starts[i]
  BY <1>0, ScriptIs
<1>1. /\ n \in Nat /\ n >= 1 /\ DOMAIN starts = 1 .. n /\ m \in Nat
      /\ \A i \in 1 .. n : starts[i] \in Nat /\ starts[i] <= m
  BY StartsIs
<1>2. n \in DOMAIN Script /\ DOMAIN Script = 1 .. s /\ n <= s
  BY <1>1, ScriptIs DEF ClientSends, Script
<1>3. b \in Seq(Byte) /\ Len(b) \in Nat /\ Len(b) >= 2
  BY <1>2, SentIs
<1>4. m < starts[n] + Len(b)
  <2>1. n # s + 1
    BY <1>1, <1>2
  <2> QED
    BY <2>1, StreamIs
<1> DEFINE k == m - starts[n] + 1
<1>5. k \in 1 .. Len(b) /\ b[k] \in Byte
  <2>1. k \in 1 .. Len(b)
    BY <1>1, <1>3, <1>4
  <2> HIDE DEF k
  <2> QED
    BY <2>1, <1>3, ElementOfSeq
<1>6. /\ wire' = Append(wire, b[k])
      /\ starts' = IF Len(wire') = starts[n] + Len(b) THEN Append(starts, Len(wire')) ELSE starts
      /\ client' = client
  BY DEF ClientSends, Arriving, Sent, Script, Last
<1>7. /\ wire' \in Seq(Byte) /\ Len(wire') = m + 1
      /\ (\A i \in 1 .. m : wire'[i] = wire[i]) /\ wire'[m + 1] = b[k]
  <2>1. wire \in Seq(Byte) /\ b[k] \in Byte
    BY <1>5 DEF Typed
  <2> HIDE DEF k
  <2> QED
    BY <1>6, <2>1, BytesAppended
<1>8. Script' = Script /\ \A i : Sent(i)' = Sent(i)
  BY <1>6 DEF Script, Sent
<1>9. \A j \in 1 .. Len(b) : starts[n] + j <= m + 1 => wire'[starts[n] + j] = b[j]
  <2> SUFFICES ASSUME NEW j \in 1 .. Len(b), starts[n] + j <= m + 1
               PROVE  wire'[starts[n] + j] = b[j]
    OBVIOUS
  <2>1. CASE starts[n] + j = m + 1
    <3>1. j = k
      BY <1>1, <1>3, <2>1
    <3> HIDE DEF k
    <3> QED
      BY <1>7, <2>1, <3>1
  <2>2. CASE starts[n] + j <= m
    <3>1. wire[starts[n] + j] = b[j]
      <4>1. n \in 1 .. n
        BY <1>1
      <4> QED
        BY <1>2, <2>2, <4>1, StreamIs
    <3>2. starts[n] + j \in 1 .. m
      BY <1>1, <1>3, <2>2
    <3> QED
      BY <1>7, <3>1, <3>2
  <2>3. starts[n] + j \in Nat
    BY <1>1, <1>3
  <2> QED
    BY <2>1, <2>2, <2>3
<1> HIDE DEF k
\* The frames that have begun keep their bytes.
<1>10. ASSUME NEW i \in 1 .. n
       PROVE  /\ starts[i] <= m + 1
              /\ i > 1 => starts[i] = starts[i - 1] + Len(Sent(i - 1))
              /\ i \in DOMAIN Script /\ \A j \in 1 .. Len(Sent(i)) :
                   starts[i] + j <= m + 1 => wire'[starts[i] + j] = Sent(i)[j]
  <2>1. i \in DOMAIN Script
    BY <1>1, <1>2
  <2>2. i > 1 => starts[i] = starts[i - 1] + Len(Sent(i - 1))
    BY StreamIs
  <2>3. CASE i = n
    BY <1>1, <1>9, <2>1, <2>2, <2>3
  <2>4. CASE i < n
    <3>1. i + 1 \in 1 .. n /\ i + 1 > 1 /\ (i + 1) - 1 = i
      BY <1>1, <2>4
    <3>2. starts[i + 1] = starts[i] + Len(Sent(i)) /\ starts[i + 1] <= m
      BY <1>1, <3>1, StreamIs
    <3>3. ASSUME NEW j \in 1 .. Len(Sent(i)) PROVE wire'[starts[i] + j] = Sent(i)[j]
      <4>1. Len(Sent(i)) \in Nat
        BY <2>1, SentIs
      <4>2. starts[i] \in Nat /\ starts[i] + j \in 1 .. m
        BY <1>1, <3>2, <4>1
      <4>3. wire[starts[i] + j] = Sent(i)[j]
        BY <2>1, <4>2, StreamIs
      <4> QED
        BY <1>7, <4>2, <4>3
    <3>4. starts[i] <= m + 1
      BY <1>1
    <3> QED
      BY <2>1, <2>2, <3>3, <3>4
  <2> QED
    BY <2>3, <2>4, <1>1
<1>11. CASE m + 1 # starts[n] + Len(b)
  <2>1. starts' = starts
    BY <1>6, <1>7, <1>11
  <2>2. m + 1 < starts[n] + Len(b)
    BY <1>1, <1>3, <1>4, <1>11
  <2>3. \A i \in DOMAIN starts' : Laid(i)'
    BY <1>1, <1>7, <1>8, <1>10, <2>1 DEF Laid
  <2>4. LastFrame(n)'
    BY <1>1, <1>2, <1>7, <1>8, <2>1, <2>2 DEF LastFrame
  <2>5. starts' \in Seq(Nat) /\ Len(starts') = n /\ n \in 1 .. s + 1
    BY <1>1, <1>2, <1>8, <2>1 DEF Streamed
  <2>6. Streamed'
    BY <1>8, <2>3, <2>4, <2>5 DEF Streamed, LastFrame
  <2> QED
    BY <1>1, <1>7, <2>1, <2>6
<1>12. CASE m + 1 = starts[n] + Len(b)
  <2>1. /\ starts' \in Seq(Nat) /\ Len(starts') = n + 1
        /\ (\A i \in 1 .. n : starts'[i] = starts[i]) /\ starts'[n + 1] = m + 1
    <3>1. starts' = Append(starts, m + 1)
      BY <1>6, <1>7, <1>12
    <3>2. starts \in Seq(Nat) /\ m + 1 \in Nat
      <4> QED
        BY <1>1 DEF Streamed
    <3> QED
      BY <3>1, <3>2, NumbersAppended, Zenon
  <2>2. DOMAIN starts' = 1 .. n + 1
    BY <2>1, Listed
  <2>3. ASSUME NEW i \in 1 .. n + 1
        PROVE  /\ starts'[i] <= Len(wire')
               /\ i > 1 => starts'[i] = starts'[i - 1] + Len(Sent(i - 1))
               /\ i \in DOMAIN Script =>
                    \A j \in 1 .. Len(Sent(i)) :
                      starts'[i] + j <= Len(wire') => wire'[starts'[i] + j] = Sent(i)[j]
    <3>1. CASE i \in 1 .. n
      <4>1. i > 1 => i - 1 \in 1 .. n
        BY <1>1, <3>1
      <4> QED
        BY <1>7, <1>10, <2>1, <3>1, <4>1
    <3>2. CASE i = n + 1
      <4>1. starts'[i] = m + 1 /\ starts'[i - 1] = starts[n] /\ i - 1 = n
        BY <1>1, <2>1, <3>2
      <4>2. starts'[i] = starts'[i - 1] + Len(Sent(i - 1))
        BY <1>12, <4>1
      <4>3. \A j \in 1 .. Len(Sent(i)) : i \in DOMAIN Script => ~ (m + 1 + j <= m + 1)
        <5> SUFFICES ASSUME i \in DOMAIN Script, NEW j \in 1 .. Len(Sent(i)) PROVE ~ (m + 1 + j <= m + 1)
          OBVIOUS
        <5>1. j \in Nat /\ j >= 1
          BY SentIs
        <5> QED
          BY <1>1, <5>1
      <4> QED
        BY <1>1, <1>7, <4>1, <4>2, <4>3
    <3> QED
      BY <1>1, <3>1, <3>2
  <2>4. n + 1 # s + 1 => m + 1 < starts'[n + 1] + Len(Sent(n + 1))
    <3> SUFFICES ASSUME n + 1 # s + 1 PROVE m + 1 < starts'[n + 1] + Len(Sent(n + 1))
      OBVIOUS
    <3>1. n + 1 \in DOMAIN Script
      BY <1>1, <1>2
    <3>2. Len(Sent(n + 1)) \in Nat /\ Len(Sent(n + 1)) >= 2
      BY <3>1, SentIs
    <3> QED
      BY <1>1, <2>1, <3>2
  <2>5. Len(starts') \in 1 .. s + 1
    BY <1>1, <1>2, <2>1
  <2>6. Streamed'
    <3>1. starts' \in Seq(Nat) /\ Len(starts') \in 1 .. s + 1
      BY <1>8, <2>1, <2>5
    <3>2. \A i \in DOMAIN starts' : Laid(i)'
      BY <1>8, <2>2, <2>3 DEF Laid
    <3>3. LastFrame(n + 1)'
      BY <1>7, <1>8, <2>1, <2>4 DEF LastFrame
    <3> QED
      BY <1>8, <2>1, <3>1, <3>2, <3>3 DEF Streamed, LastFrame
  <2> QED
    BY <1>1, <1>7, <2>1, <2>2, <2>6
<1> QED
  BY <1>11, <1>12

LEMMA StreamStays ==
  ASSUME Streamed, client' = client, wire' = wire, starts' = starts
  PROVE  Streamed'
BY DEF Streamed, Laid, LastFrame, Script, Sent

-----------------------------------------------------------------------------
(* recv_frame().                                                           *)

LEMMA BytesCut ==
  \A s \in Seq(Byte), a, m \in Nat : a + m <= Len(s) =>
    /\ SubSeq(s, a + 1, a + m) \in Seq(Byte) /\ Len(SubSeq(s, a + 1, a + m)) = m
    /\ \A j \in 1 .. m : SubSeq(s, a + 1, a + m)[j] = s[a + j]
<1> SUFFICES ASSUME NEW s \in Seq(Byte), NEW a \in Nat, NEW m \in Nat, a + m <= Len(s)
             PROVE  /\ SubSeq(s, a + 1, a + m) \in Seq(Byte) /\ Len(SubSeq(s, a + 1, a + m)) = m
                    /\ \A j \in 1 .. m : SubSeq(s, a + 1, a + m)[j] = s[a + j]
  OBVIOUS
<1>1. \A i \in a + 1 .. a + m : s[i] \in Byte
  BY ElementOfSeq
<1>2. /\ SubSeq(s, a + 1, a + m) \in Seq(Byte)
      /\ Len(SubSeq(s, a + 1, a + m)) = (IF a + 1 <= a + m THEN (a + m) - (a + 1) + 1 ELSE 0)
      /\ \A i \in 1 .. (a + m) - (a + 1) + 1 : SubSeq(s, a + 1, a + m)[i] = s[(a + 1) + i - 1]
  BY <1>1, SubSeqProperties
<1>3. (a + m) - (a + 1) + 1 = m /\ \A j \in 1 .. m : (a + 1) + j - 1 = a + j
  OBVIOUS
<1>4. Len(SubSeq(s, a + 1, a + m)) = m
  BY <1>2
<1> QED
  BY <1>2, <1>3, <1>4

\* A byte that has arrived behind the beginning of a frame belongs to one.
LEMMA MoreToCome ==
  ASSUME Typed, Streamed, NEW n \in DOMAIN starts, starts[n] < Len(wire)
  PROVE  n \in DOMAIN Script
<1>1. /\ Len(starts) \in Nat /\ n \in 1 .. Len(starts) /\ Len(starts) <= Len(Script) + 1
      /\ starts[n] \in Nat /\ Len(wire) \in Nat
  BY StartsIs
<1>2. Len(Script) \in Nat /\ DOMAIN Script = 1 .. Len(Script)
  BY ScriptIs
<1>3. n # Len(Script) + 1
  <2>1. CASE n = Len(Script) + 1
    <3>1. Len(starts) = Len(Script) + 1
      BY <1>1, <1>2, <2>1
    <3>2. Len(wire) = starts[n]
      BY <3>1, <2>1, StreamIs
    <3> QED
      BY <1>1, <3>2
  <2> QED
    BY <2>1
<1> QED
  BY <1>1, <1>2, <1>3

\* A frame that has arrived whole is followed by the next one.
LEMMA FrameRead ==
  ASSUME Typed, Streamed, NEW n \in DOMAIN starts, n \in DOMAIN Script,
         starts[n] + Len(Sent(n)) <= Len(wire)
  PROVE  n + 1 \in DOMAIN starts /\ starts[n + 1] = starts[n] + Len(Sent(n))
<1>1. /\ Len(starts) \in Nat /\ n \in 1 .. Len(starts) /\ Len(starts) <= Len(Script) + 1
      /\ starts[n] \in Nat /\ Len(wire) \in Nat /\ DOMAIN starts = 1 .. Len(starts)
  BY StartsIs
<1>2. Len(Script) \in Nat /\ n \in 1 .. Len(Script) /\ Len(Sent(n)) \in Nat
  BY ScriptIs, SentIs
<1>3. n # Len(starts)
  <2>1. CASE n = Len(starts)
    <3>1. Len(starts) # Len(Script) + 1
      BY <1>2, <2>1
    <3>2. Len(wire) < starts[n] + Len(Sent(n))
      BY <2>1, <3>1, StreamIs
    <3> QED
      BY <1>1, <1>2, <3>2
  <2> QED
    BY <2>1
<1>4. n + 1 \in 1 .. Len(starts) /\ n + 1 > 1 /\ (n + 1) - 1 = n
  BY <1>1, <1>3
<1> QED
  BY <1>1, <1>4, StreamIs

\* m bytes of the frame that is being read, behind its first k.
LEMMA ReadIs ==
  ASSUME Typed, Streamed, NEW n \in DOMAIN starts, n \in DOMAIN Script,
         NEW k \in Nat, NEW m \in Nat, taken = starts[n] + k,
         k + m <= Len(Sent(n)), Len(wire) - taken >= m
  PROVE  /\ Read(m) \in Seq(Byte) /\ Len(Read(m)) = m
         /\ \A j \in 1 .. m : Read(m)[j] = Sent(n)[k + j]
<1>1. wire \in Seq(Byte) /\ taken \in Nat /\ Len(wire) \in Nat /\ starts[n] \in Nat
      /\ n \in 1 .. Len(starts) /\ taken + m <= Len(wire)
  <2>1. wire \in Seq(Byte) /\ taken \in 0 .. Len(wire) /\ Len(wire) \in Nat
    BY StartsIs DEF Typed
  <2> QED
    BY <2>1, StartsIs
<1>2. /\ Read(m) \in Seq(Byte) /\ Len(Read(m)) = m
      /\ \A j \in 1 .. m : Read(m)[j] = wire[taken + j]
  BY <1>1, BytesCut DEF Read
<1>3. ASSUME NEW j \in 1 .. m PROVE wire[taken + j] = Sent(n)[k + j]
  <2>a. Len(Sent(n)) \in Nat /\ Len(wire) \in Nat /\ starts[n] \in Nat
    BY <1>1, SentIs
  <2> DEFINE l == Len(Sent(n))  w == Len(wire)  s == starts[n]
  <2>b. /\ l \in Nat /\ w \in Nat /\ s \in Nat /\ taken = s + k /\ taken + m <= w /\ k + m <= l
        /\ j \in Nat /\ 1 <= j /\ j <= m
    BY <1>1, <2>a
  <2> HIDE DEF l, w, s
  <2>c. k + j \in 1 .. l /\ s + (k + j) <= w /\ s + (k + j) = taken + j
    BY <2>b
  <2>1. k + j \in 1 .. Len(Sent(n)) /\ starts[n] + (k + j) <= Len(wire)
        /\ starts[n] + (k + j) = taken + j
    BY <2>c DEF l, w, s
  <2>2. wire[starts[n] + (k + j)] = Sent(n)[k + j]
    BY <1>1, <2>1, StreamIs
  <2> QED
    BY <2>1, <2>2
<1> QED
  BY <1>2, <1>3

LEMMA RemainderIs ==
  ASSUME NEW b \in Nat, NEW q \in Nat, NEW r \in 0 .. b - 1
  PROVE  (b * q + r) % b = r
<1> DEFINE a == b * q + r  d == a \div b  e == a % b
<1>1. b > 0 /\ a \in Nat
  OBVIOUS
<1>2. d \in Nat /\ e \in 0 .. b - 1 /\ a = b * d + e
  BY <1>1
<1>3. b * q + r = b * d + e
  BY <1>2
<1> HIDE DEF a, d, e
<1>4. ~ (d >= q + 1)
  <2> SUFFICES ASSUME d >= q + 1 PROVE FALSE
    OBVIOUS
  <2>1. b * d >= b * (q + 1) /\ b * (q + 1) = b * q + b
    BY <1>2
  <2> QED
    BY <1>2, <1>3, <2>1
<1>5. ~ (q >= d + 1)
  <2> SUFFICES ASSUME q >= d + 1 PROVE FALSE
    OBVIOUS
  <2>1. b * q >= b * (d + 1) /\ b * (d + 1) = b * d + b
    BY <1>2
  <2> QED
    BY <1>2, <1>3, <2>1
<1>a. d \in Nat /\ q \in Nat /\ (d >= q + 1 \/ q >= d + 1 \/ d = q)
  BY <1>2
<1>6. d = q
  BY <1>4, <1>5, <1>a
<1>7. e = r
  BY <1>2, <1>3, <1>6
<1> QED
  BY <1>7 DEF e, a

\* The first two bytes say what they are made of.
LEMMA HeaderRead ==
  ASSUME NEW f \in Frames
  PROVE  LET b0 == Flag(f.fin) + f.op  b1 == Flag(f.key # None) + Length7(f)
         IN  /\ (b0 >= HighBit) = f.fin /\ b0 % Opcodes = f.op
             /\ (b1 >= HighBit) = (f.key # None) /\ b1 % HighBit = Length7(f)
<1>1. HighBit \in Nat /\ HighBit >= 3
  BY Bases
<1>2. Opcodes \in Nat /\ f.op \in 0 .. Opcodes - 1 /\ f.fin \in BOOLEAN
  BY FrameShape, WebSocketAssumption
<1>3. PICK q \in Nat : HighBit = Opcodes * q
  BY OpcodesFit
<1>5. Opcodes <= HighBit
  BY OpcodesFit
<1>6. Length7(f) \in 0 .. HighBit - 1
  BY HeadBytes
<1>7. \A x \in 0 .. HighBit - 1 : (HighBit + x) % HighBit = x /\ x % HighBit = x
  BY <1>1
<1>8. (Opcodes * q + f.op) % Opcodes = f.op
  BY <1>2, <1>3, RemainderIs
<1>9. (0 + f.op) % Opcodes = f.op
  BY <1>2
<1>10. (Flag(f.fin) + f.op) % Opcodes = f.op /\ (Flag(f.fin) + f.op >= HighBit) = f.fin
  <2>1. CASE f.fin = TRUE
    BY <1>1, <1>2, <1>3, <1>8, <2>1 DEF Flag
  <2>2. CASE f.fin = FALSE
    BY <1>1, <1>2, <1>5, <1>9, <2>2 DEF Flag
  <2> QED
    BY <1>2, <2>1, <2>2
<1>11. /\ (Flag(f.key # None) + Length7(f)) % HighBit = Length7(f)
       /\ (Flag(f.key # None) + Length7(f) >= HighBit) = (f.key # None)
  <2>1. CASE f.key # None
    BY <1>1, <1>6, <1>7, <2>1 DEF Flag
  <2>2. CASE f.key = None
    BY <1>1, <1>6, <1>7, <2>2 DEF Flag
  <2> QED
    BY <2>1, <2>2
<1> QED
  BY <1>10, <1>11


LEMMA GotIs ==
  ASSUME Typed, Returned
  PROVE  /\ Len(got) \in Nat /\ DOMAIN got = 1 .. Len(got) /\ Len(got) + 1 \in Nat
         /\ \A i \in DOMAIN got : got[i] \in Decoded
BY Listed DEF Returned

LEMMA ReturnedStays ==
  ASSUME Returned, client' = client, got' = got
  PROVE  Returned'
BY DEF Returned, Script

LEMMA AtStays ==
  ASSUME NEW k, At(k), taken' = taken, starts' = starts, got' = got
  PROVE  At(k)'
BY DEF At

\* recv_frame() goes on behind the length of f.
LEMMA LengthKnown ==
  ASSUME Typed, Streamed, NEW n \in DOMAIN starts, n = Len(got) + 1, n \in DOMAIN Script,
         NEW f, f = Script[n], taken' = starts[n] + (2 + Wide(f)), starts' = starts,
         client' = client, got' = got, Holds(f, Len(f.payload), Read0)', pc' = AfterLength(frame')
  PROVE  Placed'
<1>1. f \in Frames /\ Wide(f) \in {0, 2, 8} /\ Len(f.payload) \in Nat /\ Limit \in Nat
  BY ScriptIs, FrameShape, ExtendedIs, WebSocketAssumption
<1>2. At(2 + Wide(f))' /\ Script' = Script /\ Len(got)' = Len(got)
  BY DEF At, Script
<1>3. frame'.len = Len(f.payload) /\ frame'.masked = (f.key # None)
  BY DEF Holds
<1>4. CASE Len(f.payload) > Limit
  <2>1. pc' = "leave"
    BY <1>3, <1>4 DEF AfterLength, TooLarge
  <2> QED
    BY <2>1 DEF Placed
<1>5. CASE ~ (Len(f.payload) > Limit) /\ f.key # None
  <2>a. ~ TooLarge(Len(f.payload)) /\ Len(f.payload) <= Limit
    BY <1>1, <1>5 DEF TooLarge
  <2>1. pc' = "mask"
    BY <1>3, <1>5, <2>a DEF AfterLength
  <2> QED
    BY <1>2, <1>5, <2>1, <2>a DEF Placed
<1>6. CASE ~ (Len(f.payload) > Limit) /\ f.key = None
  <2>a. ~ TooLarge(Len(f.payload)) /\ Len(f.payload) <= Limit
    BY <1>1, <1>6 DEF TooLarge
  <2>1. pc' = "payload"
    BY <1>3, <1>6, <2>a DEF AfterLength
  <2>2. HeadLen(f) = 2 + Wide(f)
    BY <1>1, <1>6 DEF HeadLen, KeyLen
  <2> QED
    BY <1>2, <1>6, <2>1, <2>2, <2>a DEF Placed
<1> QED
  BY <1>4, <1>5, <1>6

\* Where recv_frame() is while it reads.
LEMMA ReadingAt ==
  ASSUME Typed, Streamed, Returned, NEW k \in Nat, At(k), NEW n, n = Len(got) + 1
  PROVE  /\ n \in DOMAIN starts /\ n \in Nat /\ starts[n] \in Nat /\ taken = starts[n] + k
         /\ Len(wire) \in Nat
BY GotIs, StartsIs DEF At

LEMMA HeaderPlaced ==
  ASSUME Typed, Streamed, Returned, Placed, RecvHeader
  PROVE  Placed'
<1>1. pc = "header" /\ At(0)
  BY DEF RecvHeader, Placed
<1> SUFFICES ASSUME NEW n, n = Len(got) + 1 PROVE Placed'
  OBVIOUS
<1>2. /\ n \in DOMAIN starts /\ n \in Nat /\ starts[n] \in Nat /\ taken = starts[n] + 0
      /\ Len(wire) \in Nat
  BY <1>1, ReadingAt
<1>3. Wanted = 2
  BY <1>1 DEF Wanted
<1>4. Len(wire) - taken >= 2 /\ taken' = taken + 2 /\ client' = client /\ starts' = starts
  BY <1>3 DEF RecvHeader, ReadExact, clientVars
<1>5. n \in DOMAIN Script
  BY <1>2, <1>4, MoreToCome
<1> SUFFICES ASSUME NEW f, f = Script[n] PROVE Placed'
  OBVIOUS
<1>6. f \in Frames /\ Parts(f, Sent(n)) /\ Len(Sent(n)) \in Nat /\ Len(Sent(n)) >= 2
  BY <1>5, SentIs
<1>7. Read(2)[1] = Sent(n)[1] /\ Read(2)[2] = Sent(n)[2]
  <2>1. \A j \in 1 .. 2 : Read(2)[j] = Sent(n)[0 + j]
    <3>1. 0 + 2 <= Len(Sent(n)) /\ 0 \in Nat /\ 2 \in Nat
      BY <1>6
    <3> QED
      BY <1>2, <1>4, <1>5, <3>1, ReadIs, Zenon
  <2> QED
    BY <2>1
<1>8. Read(2)[1] = Flag(f.fin) + f.op /\ Read(2)[2] = Flag(f.key # None) + Length7(f)
  BY <1>6, <1>7 DEF Parts
<1>9. Holds(f, Length7(f), Read0)'
  <2>1. frame' = [fin |-> Read(2)[1] >= HighBit, op |-> Read(2)[1] % Opcodes,
                  masked |-> Read(2)[2] >= HighBit, len |-> Read(2)[2] % HighBit,
                  mask |-> <<0, 0, 0, 0>>]
    BY DEF RecvHeader
  <2> QED
    BY <1>6, <1>8, <2>1, HeaderRead DEF Holds, Read0
<1>10. got' = got /\ pc' = IF frame'.len \in {Near, Near + 1} THEN "length" ELSE AfterLength(frame')
  BY DEF RecvHeader
<1>11. frame'.len = Length7(f)
  BY <1>9 DEF Holds
<1>12. CASE f.form = "7"
  <2>1. Wide(f) = 0 /\ Length7(f) = Len(f.payload) /\ Len(f.payload) \in Nat /\ Len(f.payload) < Near
    BY <1>6, <1>12, FrameShape DEF Wide, Length7
  <2>2. Len(f.payload) \notin {Near, Near + 1}
    BY <2>1, Bases
  <2>3. pc' = AfterLength(frame')
    BY <1>10, <1>11, <2>1, <2>2
  <2>4. taken' = starts[n] + (2 + Wide(f))
    BY <1>2, <1>4, <2>1
  <2>5. Holds(f, Len(f.payload), Read0)'
    BY <1>9, <2>1
  <2> QED
    BY <1>2, <1>4, <1>5, <1>10, <2>3, <2>4, <2>5, LengthKnown
<1>13. CASE f.form # "7"
  <2>1. Length7(f) \in {Near, Near + 1} /\ Wide(f) # 0
    BY <1>6, <1>13, FrameShape DEF Wide, Length7
  <2>2. pc' = "length"
    BY <1>10, <1>11, <2>1
  <2>3. At(2)'
    BY <1>2, <1>4, <1>10 DEF At
  <2>4. Script' = Script /\ Len(got)' = Len(got)
    BY <1>4, <1>10 DEF Script
  <2> QED
    BY <1>5, <1>9, <2>1, <2>2, <2>3, <2>4 DEF Placed
<1> QED
  BY <1>12, <1>13

LEMMA SameTuple ==
  \A w \in Nat : \A s, t \in Seq(Byte) :
    Len(s) = w /\ Len(t) = w /\ (\A j \in 1 .. w : s[j] = t[j]) => s = t
BY SeqEqual

LEMMA LengthPlaced ==
  ASSUME Typed, Streamed, Returned, Placed, RecvLength
  PROVE  Placed'
<1> SUFFICES ASSUME NEW n, n = Len(got) + 1, NEW f, f = Script[n] PROVE Placed'
  OBVIOUS
<1>1. /\ pc = "length" /\ n \in DOMAIN Script /\ At(2) /\ Wide(f) # 0
      /\ Holds(f, Length7(f), Read0)
  BY DEF RecvLength, Placed
<1>2. /\ n \in DOMAIN starts /\ n \in Nat /\ starts[n] \in Nat /\ taken = starts[n] + 2
      /\ Len(wire) \in Nat
  <2>1. 2 \in Nat
    OBVIOUS
  <2> QED
    BY <1>1, <2>1, ReadingAt
<1>3. /\ f \in Frames /\ Parts(f, Sent(n)) /\ Len(Sent(n)) \in Nat
      /\ Len(Sent(n)) = HeadLen(f) + Len(f.payload)
  BY <1>1, SentIs
<1>4. /\ Extended(f) \in Seq(Byte) /\ Len(Extended(f)) = Wide(f) /\ Wide(f) \in {2, 8}
  BY <1>1, <1>3, ExtendedIs
<1>5. Wanted = Wide(f)
  <2>1. frame.len = Length7(f)
    BY <1>1 DEF Holds
  <2>2. Near # Near + 1
    BY Bases
  <2> QED
    BY <1>1, <1>3, <2>1, <2>2, FrameShape DEF Wanted, Length7, Wide
<1>6. Len(wire) - taken >= Wide(f) /\ taken' = taken + Wide(f) /\ client' = client /\ starts' = starts
  BY <1>5 DEF RecvLength, ReadExact, clientVars
<1>7. Read(Wide(f)) = Extended(f)
  <2>1. Wide(f) \in Nat /\ 2 \in Nat /\ 2 + Wide(f) <= Len(Sent(n))
    <3>1. HeadLen(f) = 2 + Wide(f) + KeyLen(f) /\ KeyLen(f) \in {0, 4} /\ Len(f.payload) \in Nat
      BY <1>3, FrameShape DEF HeadLen, KeyLen
    <3> QED
      BY <1>3, <1>4, <3>1
  <2>2. /\ Read(Wide(f)) \in Seq(Byte) /\ Len(Read(Wide(f))) = Wide(f)
        /\ \A j \in 1 .. Wide(f) : Read(Wide(f))[j] = Sent(n)[2 + j]
    BY <1>1, <1>2, <1>6, <2>1, ReadIs
  <2>3. \A j \in 1 .. Wide(f) : Sent(n)[2 + j] = Extended(f)[j]
    BY <1>3 DEF Parts
  <2> QED
    <3>1. \A j \in 1 .. Wide(f) : Read(Wide(f))[j] = Extended(f)[j]
      BY <2>2, <2>3
    <3> QED
      BY <1>4, <2>1, <2>2, <3>1, SameTuple, Zenon
<1>8. Number(Extended(f)) = Len(f.payload)
  <2>1. Extended(f) = BigEndian(Len(f.payload), Wide(f)) /\ Len(f.payload) < Room(Wide(f))
    BY <1>3, <1>4, FrameShape DEF Extended, Wide, Room
  <2>2. Len(f.payload) \in Nat
    BY <1>3, FrameShape
  <2> QED
    BY <1>4, <2>1, <2>2, NumberRead
<1>9. Holds(f, Len(f.payload), Read0)'
  <2>1. frame' = [frame EXCEPT !.len = Len(f.payload)]
    BY <1>5, <1>7, <1>8 DEF RecvLength
  <2> QED
    BY <1>1, <2>1 DEF Holds
<1>10. got' = got /\ pc' = AfterLength(frame')
  BY DEF RecvLength
<1>11. taken' = starts[n] + (2 + Wide(f))
  BY <1>2, <1>4, <1>6
<1> QED
  BY <1>1, <1>2, <1>6, <1>9, <1>10, <1>11, LengthKnown

LEMMA MaskPlaced ==
  ASSUME Typed, Streamed, Returned, Placed, RecvMask
  PROVE  Placed'
<1> SUFFICES ASSUME NEW n, n = Len(got) + 1, NEW f, f = Script[n] PROVE Placed'
  OBVIOUS
<1>1. /\ pc = "mask" /\ n \in DOMAIN Script /\ At(2 + Wide(f)) /\ f.key # None
      /\ Holds(f, Len(f.payload), Read0) /\ Len(f.payload) <= Limit
  BY DEF RecvMask, Placed
<1>2. /\ f \in Frames /\ Parts(f, Sent(n)) /\ Len(Sent(n)) \in Nat
      /\ Len(Sent(n)) = HeadLen(f) + Len(f.payload)
  BY <1>1, SentIs
<1>3. 2 + Wide(f) \in Nat /\ KeyLen(f) = 4 /\ HeadLen(f) = 2 + Wide(f) + 4 /\ Len(f.payload) \in Nat
  BY <1>1, <1>2, ExtendedIs, FrameShape DEF HeadLen, KeyLen
<1>4. /\ n \in DOMAIN starts /\ n \in Nat /\ starts[n] \in Nat /\ taken = starts[n] + (2 + Wide(f))
      /\ Len(wire) \in Nat
  BY <1>1, <1>3, ReadingAt
<1>5. Wanted = 4
  BY <1>1 DEF Wanted
<1>6. Len(wire) - taken >= 4 /\ taken' = taken + 4 /\ client' = client /\ starts' = starts
  BY <1>5 DEF RecvMask, ReadExact, clientVars
<1>7. Read(4) = f.key
  <2>1. (2 + Wide(f)) + 4 <= Len(Sent(n)) /\ 4 \in Nat
    BY <1>2, <1>3
  <2>2. /\ Read(4) \in Seq(Byte) /\ Len(Read(4)) = 4
        /\ \A j \in 1 .. 4 : Read(4)[j] = Sent(n)[(2 + Wide(f)) + j]
    <3>1. \A k, m \in Nat :
             taken = starts[n] + k /\ k + m <= Len(Sent(n)) /\ Len(wire) - taken >= m =>
               /\ Read(m) \in Seq(Byte) /\ Len(Read(m)) = m
               /\ \A j \in 1 .. m : Read(m)[j] = Sent(n)[k + j]
      BY <1>1, <1>4, ReadIs
    <3> QED
      BY <1>3, <1>4, <1>6, <2>1, <3>1, Zenon
  <2>3. \A j \in 1 .. 4 : Sent(n)[2 + Wide(f) + j] = f.key[j]
    BY <1>1, <1>2 DEF Parts
  <2>4. f.key \in Seq(Byte) /\ Len(f.key) = 4
    <3>1. f.key \in [1 .. 4 -> Byte]
      BY <1>1, <1>2, FrameShape
    <3> QED
      BY <2>1, <3>1, Tuple, Zenon
  <2> QED
    <3>1. \A j \in 1 .. 4 : Read(4)[j] = f.key[j]
      BY <2>2, <2>3
    <3> QED
      BY <2>1, <2>2, <2>4, <3>1, SameTuple, Zenon
<1>8. Holds(f, Len(f.payload), f.key)'
  <2>1. frame' = [frame EXCEPT !.mask = f.key]
    BY <1>7 DEF RecvMask
  <2> QED
    BY <1>1, <2>1 DEF Holds
<1>9. got' = got /\ pc' = "payload"
  BY DEF RecvMask
<1>10. At(HeadLen(f))'
  <2>1. taken' = starts[n] + HeadLen(f)
    BY <1>3, <1>4, <1>6
  <2> QED
    BY <1>4, <1>6, <1>9, <2>1 DEF At
<1>11. Script' = Script /\ Len(got)' = Len(got)
  BY <1>6, <1>9 DEF Script
<1> QED
  BY <1>1, <1>8, <1>9, <1>10, <1>11 DEF Placed

LEMMA BytesSame ==
  \A s \in Seq(Byte) : [i \in DOMAIN s |-> s[i]] = s
<1> SUFFICES ASSUME NEW s \in Seq(Byte) PROVE [i \in DOMAIN s |-> s[i]] = s
  OBVIOUS
<1>1. s \in [1 .. Len(s) -> Byte]
  BY LenProperties
<1> QED
  BY <1>1

\* The exclusive-or with the mask is undone by another one.
LEMMA PayloadRead ==
  ASSUME Typed, Streamed, NEW n \in DOMAIN starts, n \in DOMAIN Script, NEW f, f = Script[n],
         taken = starts[n] + HeadLen(f), Len(wire) - taken >= Len(f.payload),
         Holds(f, Len(f.payload), IF f.key = None THEN Read0 ELSE f.key)
  PROVE  Unmasked(Read(Len(f.payload)), frame) = f.payload
<1>1. /\ f \in Frames /\ Parts(f, Sent(n)) /\ Len(Sent(n)) \in Nat /\ HeadLen(f) \in Nat
      /\ Len(Sent(n)) = HeadLen(f) + Len(f.payload)
  BY SentIs
<1>2. Len(f.payload) \in Nat /\ f.payload \in Seq(Byte) /\ (f.key = None \/ f.key \in [1 .. 4 -> Byte])
  BY <1>1, FrameShape
<1> SUFFICES ASSUME NEW m \in Nat, m = Len(f.payload), NEW p, p = Read(m)
             PROVE  Unmasked(p, frame) = f.payload
  BY <1>2
<1>3. /\ p \in Seq(Byte) /\ Len(p) = m /\ \A j \in 1 .. m : p[j] = Sent(n)[HeadLen(f) + j]
  <2>1. HeadLen(f) + m <= Len(Sent(n)) /\ Len(wire) - taken >= m
    BY <1>1, <1>2
  <2> QED
    BY <1>1, <2>1, ReadIs
<1>4. \A j \in 1 .. m : p[j] = IF f.key = None THEN f.payload[j] ELSE Masked(f.payload, f.key)[j]
  BY <1>1, <1>3 DEF Parts
<1>5. CASE f.key = None
  <2>1. p = f.payload
    <3>1. \A j \in 1 .. m : p[j] = f.payload[j]
      BY <1>4, <1>5
    <3> QED
      BY <1>2, <1>3, <3>1, SameTuple, Zenon
  <2>2. frame.masked = FALSE
    BY <1>5 DEF Holds
  <2> QED
    BY <2>1, <2>2 DEF Unmasked
<1>6. CASE f.key # None
  <2>1. frame.masked = TRUE /\ frame.mask = f.key
    BY <1>6 DEF Holds
  <2>2. \A j \in 1 .. m : BitXor(p[j], f.key[((j - 1) % 4) + 1]) = f.payload[j]
    <3> SUFFICES ASSUME NEW j \in 1 .. m
                 PROVE  BitXor(p[j], f.key[((j - 1) % 4) + 1]) = f.payload[j]
      OBVIOUS
    <3>1. /\ ((j - 1) % 4) + 1 \in 1 .. 4
          /\ Masked(f.payload, f.key)[j] = BitXor(f.payload[j], f.key[((j - 1) % 4) + 1])
      BY <1>2, <1>6, MaskedIs
    <3>2. f.payload[j] \in Byte /\ f.key[((j - 1) % 4) + 1] \in Byte
      BY <1>2, <1>6, <3>1, Listed
    <3>3. p[j] = Masked(f.payload, f.key)[j]
      BY <1>4, <1>6
    <3> DEFINE a == f.payload[j]  k == f.key[((j - 1) % 4) + 1]
    <3>4. BitXor(BitXor(a, k), k) = a
      BY <3>2, WebSocketAssumption, Zenon
    <3> QED
      BY <3>1, <3>3, <3>4
  <2>3. DOMAIN p = 1 .. m /\ DOMAIN f.payload = 1 .. m
    BY <1>2, <1>3, Listed
  <2>4. Unmasked(p, frame) = [i \in 1 .. m |-> BitXor(p[i], f.key[((i - 1) % 4) + 1])]
    BY <2>1, <2>3 DEF Unmasked
  <2>5. [i \in 1 .. m |-> BitXor(p[i], f.key[((i - 1) % 4) + 1])] = [i \in 1 .. m |-> f.payload[i]]
    BY <2>2
  <2>6. [i \in DOMAIN f.payload |-> f.payload[i]] = f.payload
    BY <1>2, BytesSame
  <2> QED
    BY <2>3, <2>4, <2>5, <2>6
<1> QED
  BY <1>5, <1>6

LEMMA GotAppended ==
  \A q \in Seq(Decoded), u \in Decoded :
    /\ Append(q, u) \in Seq(Decoded) /\ Len(Append(q, u)) = Len(q) + 1
    /\ \A k \in 1 .. Len(q) : Append(q, u)[k] = q[k]
    /\ Append(q, u)[Len(q) + 1] = u
BY AppendProperties

LEMMA PayloadPlaced ==
  ASSUME Typed, Streamed, Returned, Placed, RecvPayload
  PROVE  Returned' /\ Placed'
<1>0. Len(got) \in Nat /\ DOMAIN got = 1 .. Len(got)
  BY GotIs
<1> SUFFICES ASSUME NEW g \in Nat, g = Len(got), NEW n, n = g + 1, NEW f, f = Script[n]
             PROVE  Returned' /\ Placed'
  BY <1>0
<1>1. /\ pc = "payload" /\ n \in DOMAIN Script /\ At(HeadLen(f)) /\ Len(f.payload) <= Limit
      /\ Holds(f, Len(f.payload), IF f.key = None THEN Read0 ELSE f.key)
  BY DEF RecvPayload, Placed
<1>2. /\ f \in Frames /\ Len(Sent(n)) \in Nat /\ HeadLen(f) \in Nat
      /\ Len(Sent(n)) = HeadLen(f) + Len(f.payload)
  BY <1>1, SentIs
<1>3. /\ n \in DOMAIN starts /\ n \in Nat /\ starts[n] \in Nat /\ taken = starts[n] + HeadLen(f)
      /\ Len(wire) \in Nat
  BY <1>1, <1>2, ReadingAt
<1>4. /\ frame.fin = f.fin /\ frame.op = f.op /\ frame.masked = (f.key # None)
      /\ frame.len = Len(f.payload)
  BY <1>1 DEF Holds
<1>5. Wanted = Len(f.payload) /\ Len(f.payload) \in Nat
  BY <1>1, <1>2, <1>4, FrameShape DEF Wanted
<1>6. /\ Len(wire) - taken >= Len(f.payload) /\ taken' = taken + Len(f.payload)
      /\ client' = client /\ starts' = starts
  BY <1>5 DEF RecvPayload, ReadExact, clientVars
<1>a. starts[n] + Len(Sent(n)) = taken + Len(f.payload) /\ taken \in Nat
  <2> DEFINE l == Len(Sent(n))  h == HeadLen(f)  q == Len(f.payload)  s == starts[n]
  <2>1. l = h + q /\ h \in Nat /\ q \in Nat /\ s \in Nat /\ taken = s + h
    BY <1>2, <1>3, <1>5
  <2> HIDE DEF l, h, q, s
  <2>2. s + l = taken + q /\ taken \in Nat
    BY <2>1
  <2> QED
    BY <2>2 DEF l, q, s
<1>7. Unmasked(Read(frame.len), frame) = f.payload
  BY <1>1, <1>3, <1>4, <1>6, PayloadRead
<1>8. got' = Append(got, AsSent(f)) /\ pc' = "frame"
  BY <1>4, <1>7 DEF RecvPayload, AsSent
<1>9. AsSent(f) \in Decoded /\ AsSent(f).payload = f.payload
  BY <1>2, FrameShape DEF AsSent, Decoded
<1>10. /\ got' \in Seq(Decoded) /\ Len(got') = g + 1
       /\ (\A i \in 1 .. g : got'[i] = got[i]) /\ got'[n] = AsSent(f)
  <2>1. got \in Seq(Decoded)
    BY DEF Returned
  <2> QED
    BY <1>8, <1>9, <2>1, GotAppended, Zenon
<1>11. Script' = Script /\ DOMAIN got' = 1 .. n
  BY <1>6, <1>10, Listed DEF Script
<1>12. n + 1 \in DOMAIN starts /\ starts[n + 1] = starts[n] + Len(Sent(n))
  <2>1. starts[n] + Len(Sent(n)) <= Len(wire)
    BY <1>3, <1>5, <1>6, <1>a
  <2> QED
    BY <1>1, <1>3, <2>1, FrameRead
<1>13. Returned'
  <2>1. Len(got') <= Len(Script)
    BY <1>1, <1>10, ScriptIs
  <2>2. \A i \in 1 .. n : got'[i] = AsSent(Script[i]) /\ Len(got'[i].payload) <= Limit
    <3>1. \A i \in 1 .. g : got[i] = AsSent(Script[i]) /\ Len(got[i].payload) <= Limit
      BY <1>0 DEF Returned
    <3>2. \A i \in 1 .. n : i \in 1 .. g \/ i = n
      OBVIOUS
    <3> QED
      BY <1>1, <1>9, <1>10, <3>1, <3>2
  <2> QED
    BY <1>10, <1>11, <2>1, <2>2 DEF Returned
<1>14. Placed'
  <2>1. taken' = starts[n + 1] + 0
    BY <1>5, <1>6, <1>12, <1>a
  <2>2. At(0)'
    BY <1>6, <1>10, <1>12, <2>1 DEF At
  <2>3. got' # <<>>
    BY <1>10
  <2> QED
    BY <1>8, <2>2, <2>3 DEF Placed
<1> QED
  BY <1>13, <1>14

-----------------------------------------------------------------------------
(* A frame of the server.                                                  *)

\* The frame with which a client would send the text.
Shortest(t) ==
  [fin |-> TRUE, op |-> TextOp, payload |-> t, key |-> None,
   form |-> IF Len(t) < Near THEN "7" ELSE IF Len(t) < Base * Base THEN "16" ELSE "64"]

LEMMA Pair ==
  \A a, b \in Byte : <<a>> \in Seq(Byte) /\ <<b>> \in Seq(Byte) /\ <<a>> \o <<b>> = <<a, b>>
<1> SUFFICES ASSUME NEW a \in Byte, NEW b \in Byte
             PROVE  <<a>> \in Seq(Byte) /\ <<b>> \in Seq(Byte) /\ <<a>> \o <<b>> = <<a, b>>
  OBVIOUS
<1> DEFINE s == <<a>>  t == <<b>>  u == <<a, b>>
<1>1. /\ s \in Seq(Byte) /\ t \in Seq(Byte) /\ u \in Seq(Byte)
      /\ Len(s) = 1 /\ Len(t) = 1 /\ Len(u) = 2 /\ s[1] = a /\ t[1] = b /\ u[1] = a /\ u[2] = b
  OBVIOUS
<1> HIDE DEF s, t, u
<1>2. /\ s \o t \in Seq(Byte) /\ Len(s \o t) = Len(s) + Len(t)
      /\ \A j \in 1 .. Len(s) : (s \o t)[j] = s[j]
      /\ \A j \in 1 .. Len(t) : (s \o t)[Len(s) + j] = t[j]
  BY <1>1, BytesJoined, Zenon
<1>3. Len(s \o t) = 2 /\ (s \o t)[1] = a /\ (s \o t)[2] = b
  BY <1>1, <1>2
<1>4. \A j \in 1 .. 2 : (s \o t)[j] = u[j]
  BY <1>1, <1>3
<1>5. s \o t = u
  <2>1. 2 \in Nat
    OBVIOUS
  <2> QED
    BY <1>1, <1>2, <1>3, <1>4, <2>1, SameTuple, Zenon
<1> QED
  BY <1>1, <1>5 DEF s, t, u

LEMMA ReplyIs ==
  ASSUME NEW t \in Texts
  PROVE  LET f == Shortest(t)
         IN  /\ f \in Frames /\ Parts(f, Reply(t)) /\ Reply(t) \in Seq(Byte) /\ Wide(f) \in {0, 2, 8}
             /\ Len(Reply(t)) = 2 + Wide(f) + Len(t) /\ Len(t) \in Nat
             /\ HeadLen(f) = 2 + Wide(f)
<1> SUFFICES ASSUME NEW f, f = Shortest(t)
             PROVE  /\ f \in Frames /\ Parts(f, Reply(t)) /\ Reply(t) \in Seq(Byte)
                    /\ Wide(f) \in {0, 2, 8}
                    /\ Len(Reply(t)) = 2 + Wide(f) + Len(t) /\ Len(t) \in Nat
                    /\ HeadLen(f) = 2 + Wide(f)
  OBVIOUS
<1>1. t \in Seq(Byte) /\ Len(t) < Capacity["64"] /\ Len(t) \in Nat
  BY DEF Texts
<1>2. f.fin = TRUE /\ f.op = TextOp /\ f.payload = t /\ f.key = None
      /\ f.form = (IF Len(t) < Near THEN "7" ELSE IF Len(t) < Base * Base THEN "16" ELSE "64")
  BY DEF Shortest
<1>3. /\ DOMAIN Capacity = {"7", "16", "64"} /\ Capacity["7"] = Near /\ Capacity["16"] = Base * Base
  BY DEF Capacity
<1>4. f.form \in DOMAIN Capacity /\ Len(f.payload) < Capacity[f.form]
  BY <1>1, <1>2, <1>3
<1>5. TextOp \in 0 .. Opcodes - 1
  BY WebSocketAssumption
<1>6. f \in Frames
  BY <1>1, <1>2, <1>4, <1>5 DEF Frames, Shortest
<1>7. /\ Extended(f) \in Seq(Byte) /\ Wide(f) \in {0, 2, 8}
      /\ HighBit + TextOp \in Byte /\ Length7(f) \in Byte
  <2>1. Flag(f.fin) = HighBit /\ Flag(f.key # None) = 0
    BY <1>2 DEF Flag
  <2>2. Length7(f) \in 0 .. HighBit - 1
    BY <1>6, HeadBytes
  <2>3. Length7(f) \in Byte
    BY <2>2, Bases DEF Byte
  <2>4. HighBit + TextOp \in Byte
    BY <1>2, <1>6, <2>1, HeadBytes
  <2> QED
    BY <1>6, <2>3, <2>4, ExtendedIs
<1>8. LengthField(Len(t)) = <<Length7(f)>> \o Extended(f)
  <2>1. CASE f.form = "7"
    <3>1. LengthField(Len(t)) = <<Len(t)>> /\ Length7(f) = Len(t) /\ Extended(f) = <<>>
      BY <1>2, <2>1 DEF LengthField, Length7, Extended
    <3> QED
      BY <1>7, <3>1
  <2>2. CASE f.form = "16"
    BY <1>2, <2>2 DEF LengthField, Length7, Extended
  <2>3. CASE f.form = "64"
    BY <1>2, <2>3 DEF LengthField, Length7, Extended
  <2> QED
    BY <1>2, <2>1, <2>2, <2>3
<1>9. Reply(t) = Encoded(f)
  <2> DEFINE a == HighBit + TextOp  l == Length7(f)  e == Extended(f)
  <2>1. a \in Byte /\ l \in Byte /\ e \in Seq(Byte)
    BY <1>7
  <2>2. Reply(t) = <<a>> \o (<<l>> \o e) \o t
    BY <1>8 DEF Reply
  <2>3. Encoded(f) = <<a, l>> \o e \o t
    <3>1. Flag(f.fin) + f.op = a /\ Flag(f.key # None) + Length7(f) = l
      <4>1. Flag(f.fin) = HighBit /\ Flag(f.key # None) = 0 /\ Length7(f) \in Nat
        BY <1>2, <1>7 DEF Flag, Byte
      <4> QED
        BY <1>2, <4>1
    <3> QED
      BY <1>2, <3>1 DEF Encoded
  <2> HIDE DEF a, l, e
  <2>4. <<a>> \in Seq(Byte) /\ <<l>> \in Seq(Byte) /\ <<a>> \o <<l>> = <<a, l>>
    BY <2>1, Pair
  <2>5. <<a>> \o (<<l>> \o e) = (<<a>> \o <<l>>) \o e
    BY <2>1, <2>4, ConcatAssociative
  <2> QED
    BY <2>2, <2>3, <2>4, <2>5
<1>10. Parts(f, Reply(t))
  BY <1>6, <1>9, EncodedIs
<1>11. HeadLen(f) = 2 + Wide(f)
  BY <1>2, <1>7 DEF HeadLen, KeyLen
<1> QED
  BY <1>1, <1>2, <1>6, <1>7, <1>10, <1>11 DEF Parts

LEMMA ItemsSame ==
  \A w \in Nat : \A s, t \in Seq(Items) :
    Len(s) = w /\ Len(t) = w /\ (\A j \in 1 .. w : s[j] = t[j]) => s = t
BY SeqEqual

LEMMA Widened ==
  \A s \in Seq(Byte) : s \in Seq(Items)
<1> SUFFICES ASSUME NEW s \in Seq(Byte) PROVE s \in Seq(Items)
  OBVIOUS
<1>1. Len(s) \in Nat /\ s \in [1 .. Len(s) -> Byte]
  BY LenProperties
<1>2. s \in [1 .. Len(s) -> Items]
  BY <1>1 DEF Items
<1> QED
  BY <1>1, <1>2, IsASeq

LEMMA ItemsCut ==
  \A s \in Seq(Items), a, m \in Nat : a + m <= Len(s) =>
    /\ SubSeq(s, a + 1, a + m) \in Seq(Items) /\ Len(SubSeq(s, a + 1, a + m)) = m
    /\ \A j \in 1 .. m : SubSeq(s, a + 1, a + m)[j] = s[a + j]
<1> SUFFICES ASSUME NEW s \in Seq(Items), NEW a \in Nat, NEW m \in Nat, a + m <= Len(s)
             PROVE  /\ SubSeq(s, a + 1, a + m) \in Seq(Items) /\ Len(SubSeq(s, a + 1, a + m)) = m
                    /\ \A j \in 1 .. m : SubSeq(s, a + 1, a + m)[j] = s[a + j]
  OBVIOUS
<1>1. \A i \in a + 1 .. a + m : s[i] \in Items
  BY ElementOfSeq
<1>2. /\ SubSeq(s, a + 1, a + m) \in Seq(Items)
      /\ Len(SubSeq(s, a + 1, a + m)) = (IF a + 1 <= a + m THEN (a + m) - (a + 1) + 1 ELSE 0)
      /\ \A i \in 1 .. (a + m) - (a + 1) + 1 : SubSeq(s, a + 1, a + m)[i] = s[(a + 1) + i - 1]
  BY <1>1, SubSeqProperties
<1>3. (a + m) - (a + 1) + 1 = m /\ \A j \in 1 .. m : (a + 1) + j - 1 = a + j
  OBVIOUS
<1>4. Len(SubSeq(s, a + 1, a + m)) = m
  BY <1>2
<1> QED
  BY <1>2, <1>3, <1>4

LEMMA PiecesListed ==
  \A q \in Seq(Pieces) :
    Len(q) \in Nat /\ DOMAIN q = 1 .. Len(q) /\ \A i \in DOMAIN q : q[i] \in Pieces
BY Listed

LEMMA TextIs ==
  ASSUME Typed, NEW i \in DOMAIN texts
  PROVE  /\ texts[i].text \in Texts /\ texts[i].at \in Nat /\ texts[i].at >= 1
         /\ Len(out) \in Nat /\ out \in Seq(Items)
<1>1. texts \in Seq(Pieces) /\ out \in Seq(Items)
  BY DEF Typed
<1>2. texts[i] \in Pieces
  BY <1>1, PiecesListed
<1> QED
  BY <1>1, <1>2 DEF Pieces

\* What can be read of a frame that has begun.
LEMMA HeadReadable ==
  ASSUME out \in Seq(Items), NEW p \in Nat, p >= 1, NEW t \in Texts, Agrees(p, Reply(t)),
         p < Len(out)
  PROVE  /\ Width(p) = Wide(Shortest(t)) /\ out[p] = HighBit + TextOp
         /\ p + 1 + Wide(Shortest(t)) <= Len(out) =>
              Size(p) = Len(t) /\ Behind(p) = p + Len(Reply(t))
<1> DEFINE f == Shortest(t)  b == Reply(t)  w == Wide(f)  l == Len(t)  o == Len(out)
<1>1. f.fin = TRUE /\ f.op = TextOp /\ f.payload = t /\ f.key = None
  BY DEF Shortest
<1>2. /\ f \in Frames /\ Parts(f, b) /\ w \in {0, 2, 8} /\ l \in Nat /\ Len(b) = 2 + w + l
      /\ o \in Nat
  BY ReplyIs
<1>3. \A j \in 1 .. Len(b) : p + j - 1 <= o => out[p + j - 1] = b[j]
  BY DEF Agrees
<1>4. Length7(f) \in Nat /\ b[1] = HighBit + TextOp /\ b[2] = Length7(f)
  <2>1. Flag(f.fin) = HighBit /\ Flag(f.key # None) = 0
    BY <1>1 DEF Flag
  <2>2. Length7(f) \in Nat
    BY <1>2, HeadBytes
  <2> QED
    BY <1>1, <1>2, <2>1, <2>2 DEF Parts
<1>5. \A j \in 1 .. w : b[2 + j] = Extended(f)[j]
  BY <1>2 DEF Parts
<1>6. w \in Nat /\ (w # 0 => w \in {2, 8} /\ Extended(f) = BigEndian(l, w) /\ l < Room(w))
  <2>1. w # 0 => Extended(f) = BigEndian(l, w) /\ l < Room(w)
    BY <1>1, <1>2, FrameShape DEF Extended, Wide, Room
  <2> QED
    BY <1>2, <2>1
<1>7. f.form \in {"7", "16", "64"} /\ (f.form = "7" => l < Near) /\ Near \in Nat
  BY <1>1, <1>2, FrameShape, Bases
<1>8. \A x \in {"7", "16", "64"} : f.form = x =>
        /\ Wide(f) = (CASE x = "7" -> 0 [] x = "16" -> 2 [] x = "64" -> 8)
        /\ Length7(f) = (CASE x = "7" -> l [] x = "16" -> Near [] x = "64" -> Near + 1)
  BY <1>1 DEF Wide, Length7
<1>9. Extended(f) \in Seq(Items) /\ Len(Extended(f)) = w
  BY <1>2, ExtendedIs, Widened
<1> HIDE DEF f, b, l, o
<1>10. out[p] = b[1] /\ out[p + 1] = b[2]
  <2>1. 1 \in 1 .. Len(b) /\ 2 \in 1 .. Len(b) /\ p + 1 - 1 = p /\ p + 2 - 1 = p + 1
    BY <1>2
  <2>2. p <= o /\ p + 1 <= o
    BY <1>2 DEF o
  <2> QED
    BY <1>3, <2>1, <2>2
<1>11. Width(p) = w /\ (w = 0 => out[p + 1] = l)
  <2>1. CASE f.form = "7"
    <3>1. w = 0 /\ out[p + 1] = l
      BY <1>4, <1>8, <1>10, <2>1
    <3> QED
      BY <1>2, <1>7, <2>1, <3>1 DEF Width
  <2>2. CASE f.form = "16"
    BY <1>4, <1>7, <1>8, <1>10, <2>2 DEF Width
  <2>3. CASE f.form = "64"
    BY <1>4, <1>7, <1>8, <1>10, <2>3 DEF Width
  <2> QED
    BY <1>7, <2>1, <2>2, <2>3
<1> HIDE DEF w
<1>12. ASSUME p + 1 + w <= o PROVE Size(p) = l
  <2>1. CASE w = 0
    BY <1>11, <2>1 DEF Size
  <2>2. CASE w # 0
    <3> DEFINE s == SubSeq(out, p + 2, p + 1 + w)
    <3>1. Size(p) = Number(s)
      BY <1>11, <2>2 DEF Size
    <3>2. s = SubSeq(out, (p + 1) + 1, (p + 1) + w) /\ p + 1 \in Nat /\ (p + 1) + w <= Len(out)
      BY <1>6, <1>12 DEF o
    <3> HIDE DEF s
    <3>3. s \in Seq(Items) /\ Len(s) = w /\ \A j \in 1 .. w : s[j] = out[(p + 1) + j]
      BY <1>6, <3>2, ItemsCut
    <3>4. \A j \in 1 .. w : s[j] = Extended(f)[j]
      <4> SUFFICES ASSUME NEW j \in 1 .. w PROVE s[j] = Extended(f)[j]
        OBVIOUS
      <4>1. 2 + j \in 1 .. Len(b) /\ p + (2 + j) - 1 = (p + 1) + j /\ (p + 1) + j <= o
        BY <1>2, <1>6, <1>12
      <4>2. out[(p + 1) + j] = b[2 + j]
        BY <1>3, <4>1
      <4> QED
        BY <1>5, <3>3, <4>2
    <3>5. s = Extended(f)
      BY <1>6, <1>9, <3>3, <3>4, ItemsSame, Zenon
    <3>6. Number(s) = l
      BY <1>2, <1>6, <2>2, <3>5, NumberRead
    <3> QED
      BY <3>1, <3>6
  <2> QED
    BY <2>1, <2>2
<1>13. ASSUME p + 1 + w <= o PROVE Behind(p) = p + Len(b)
  <2>1. Behind(p) = p + 2 + w + l
    BY <1>11, <1>12, <1>13 DEF Behind
  <2> QED
    BY <1>2, <1>6, <2>1
<1> QED
  BY <1>4, <1>10, <1>11, <1>12, <1>13 DEF f, b, w, l, o

\* A frame that was written whole can be read; one that was not never ends.
LEMMA WholeReadable ==
  ASSUME out \in Seq(Items), NEW p \in Nat, p >= 1, NEW t \in Texts, Agrees(p, Reply(t)),
         p + Len(Reply(t)) <= Len(out) + 1
  PROVE  ClientReads(p, t) /\ Behind(p) = p + Len(Reply(t))
<1> DEFINE f == Shortest(t)  b == Reply(t)  w == Wide(f)  l == Len(t)  o == Len(out)
<1>1. f.fin = TRUE /\ f.op = TextOp /\ f.payload = t /\ f.key = None
  BY DEF Shortest
<1>2. /\ Parts(f, b) /\ w \in {0, 2, 8} /\ l \in Nat /\ Len(b) = 2 + w + l
      /\ HeadLen(f) = 2 + w /\ o \in Nat
  BY ReplyIs
<1>3. \A j \in 1 .. Len(b) : p + j - 1 <= o => out[p + j - 1] = b[j]
  BY DEF Agrees
<1>4. \A j \in 1 .. l : b[(2 + w) + j] = t[j]
  BY <1>1, <1>2 DEF Parts
<1>5. w = IF l < Near THEN 0 ELSE IF l < Base * Base THEN 2 ELSE 8
  BY DEF Wide, Shortest
<1>6. p + Len(b) <= o + 1
  OBVIOUS
<1> HIDE DEF f, b, l, o, w
<1>7. p < o /\ p + 1 + w <= o
  BY <1>2, <1>6
<1>8. Width(p) = w /\ out[p] = HighBit + TextOp /\ Size(p) = l /\ Behind(p) = p + Len(b)
  BY <1>7, HeadReadable DEF f, b, w, l, o
<1>9. Complete(p)
  BY <1>6, <1>7, <1>8 DEF Complete, o
<1>10. SubSeq(out, p + 2 + Width(p), Behind(p) - 1) = t
  <2>1. p + 2 + w = (p + 1 + w) + 1 /\ (p + Len(b)) - 1 = (p + 1 + w) + l
        /\ p + 1 + w \in Nat /\ (p + 1 + w) + l <= o
    BY <1>2, <1>6
  <2> DEFINE s == SubSeq(out, (p + 1 + w) + 1, (p + 1 + w) + l)
  <2>2. SubSeq(out, p + 2 + Width(p), Behind(p) - 1) = s
    BY <1>8, <2>1
  <2>3. s \in Seq(Items) /\ Len(s) = l /\ \A j \in 1 .. l : s[j] = out[(p + 1 + w) + j]
    BY <1>2, <2>1, ItemsCut DEF o
  <2> HIDE DEF s
  <2>4. \A j \in 1 .. l : s[j] = t[j]
    <3> SUFFICES ASSUME NEW j \in 1 .. l PROVE s[j] = t[j]
      OBVIOUS
    <3>1. /\ (2 + w) + j \in 1 .. Len(b) /\ p + ((2 + w) + j) - 1 = (p + 1 + w) + j
          /\ (p + 1 + w) + j <= o
      BY <1>2, <2>1
    <3>2. out[(p + 1 + w) + j] = b[(2 + w) + j]
      BY <1>3, <3>1
    <3> QED
      BY <1>4, <2>3, <3>2
  <2>5. t \in Seq(Items) /\ Len(t) = l
    BY Widened DEF Texts, l
  <2>6. s = t
    BY <1>2, <2>3, <2>4, <2>5, ItemsSame, Zenon
  <2> QED
    BY <2>2, <2>6
<1>11. Width(p) = IF Size(p) < Near THEN 0 ELSE IF Size(p) < Base * Base THEN 2 ELSE 8
  BY <1>5, <1>8
<1> QED
  BY <1>8, <1>9, <1>10, <1>11 DEF ClientReads, b

LEMMA TornUnreadable ==
  ASSUME out \in Seq(Items), NEW p \in Nat, p >= 1, NEW t \in Texts, Agrees(p, Reply(t)),
         p + Len(Reply(t)) > Len(out) + 1
  PROVE  ~ Complete(p)
<1> SUFFICES ASSUME Complete(p) PROVE FALSE
  OBVIOUS
<1>1. p < Len(out) /\ p + 1 + Width(p) <= Len(out) /\ Behind(p) <= Len(out) + 1
  BY DEF Complete
<1>2. Width(p) = Wide(Shortest(t))
  BY <1>1, HeadReadable
<1>3. Behind(p) = p + Len(Reply(t))
  BY <1>1, <1>2, HeadReadable
<1>4. p + Len(Reply(t)) \in Nat /\ Len(out) + 1 \in Nat
  BY ReplyIs
<1> QED
  BY <1>1, <1>3, <1>4

-----------------------------------------------------------------------------
(* What is written.                                                        *)

LEMMA ItemsJoined ==
  \A s, t \in Seq(Items) :
    /\ s \o t \in Seq(Items) /\ Len(s \o t) = Len(s) + Len(t)
    /\ \A j \in 1 .. Len(s) : (s \o t)[j] = s[j]
    /\ \A j \in 1 .. Len(t) : (s \o t)[Len(s) + j] = t[j]
BY Joined

\* The first k items of b are written.
Writes(b, k) ==
  /\ out' \in Seq(Items) /\ Len(out') = Len(out) + k
  /\ \A j \in 1 .. Len(out) : out'[j] = out[j]
  /\ \A j \in 1 .. k : out'[Len(out) + j] = b[j]

LEMMA Written ==
  ASSUME Typed, NEW b \in Seq(Items), Len(b) > 0, Write(b)
  PROVE  /\ closed' \in BOOLEAN
         /\ \E k \in 0 .. Len(b) :
              Writes(b, k) /\ (closed => k = 0) /\ (closed' <=> closed \/ k < Len(b))
<1>1. out \in Seq(Items) /\ Len(out) \in Nat /\ Len(b) \in Nat /\ closed \in BOOLEAN
  BY DEF Typed
<1>2. CASE closed /\ UNCHANGED <<out, closed>>
  <2>1. Writes(b, 0)
    BY <1>1, <1>2 DEF Writes
  <2>2. 0 \in 0 .. Len(b) /\ closed' = TRUE /\ closed = TRUE
    BY <1>1, <1>2
  <2> QED
    BY <2>1, <2>2
<1>3. CASE ~ closed /\ out' = out \o b /\ UNCHANGED closed
  <2>1. Writes(b, Len(b))
    BY <1>1, <1>3, ItemsJoined DEF Writes
  <2>2. Len(b) \in 0 .. Len(b) /\ closed' = FALSE /\ closed = FALSE /\ ~ (Len(b) < Len(b))
    BY <1>1, <1>3
  <2> QED
    BY <2>1, <2>2
<1>4. CASE ~ closed /\ closed' = TRUE /\ \E k \in 0 .. Len(b) - 1 : out' = out \o SubSeq(b, 1, k)
  <2>1. PICK k \in 0 .. Len(b) - 1 : out' = out \o SubSeq(b, 1, k)
    BY <1>4
  <2>2. k \in Nat /\ 0 \in Nat /\ 0 + k <= Len(b) /\ 0 + 1 = 1 /\ 0 + k = k /\ k < Len(b)
        /\ k \in 0 .. Len(b)
    BY <1>1
  <2>3. /\ SubSeq(b, 1, k) \in Seq(Items) /\ Len(SubSeq(b, 1, k)) = k
        /\ \A j \in 1 .. k : SubSeq(b, 1, k)[j] = b[j]
    <3>1. /\ SubSeq(b, 0 + 1, 0 + k) \in Seq(Items) /\ Len(SubSeq(b, 0 + 1, 0 + k)) = k
          /\ \A j \in 1 .. k : SubSeq(b, 0 + 1, 0 + k)[j] = b[0 + j]
      BY <2>2, ItemsCut, Zenon
    <3>2. \A j \in 1 .. k : 0 + j = j
      OBVIOUS
    <3> QED
      BY <2>2, <3>1, <3>2
  <2> DEFINE s == SubSeq(b, 1, k)
  <2>4. s \in Seq(Items) /\ Len(s) = k /\ (\A j \in 1 .. k : s[j] = b[j]) /\ out' = out \o s
    BY <2>1, <2>3
  <2> HIDE DEF s
  <2>5. /\ out \o s \in Seq(Items) /\ Len(out \o s) = Len(out) + Len(s)
        /\ \A j \in 1 .. Len(out) : (out \o s)[j] = out[j]
        /\ \A j \in 1 .. Len(s) : (out \o s)[Len(out) + j] = s[j]
    BY <1>1, <2>4, ItemsJoined, Zenon
  <2>6. Writes(b, k)
    BY <2>4, <2>5 DEF Writes
  <2> QED
    BY <1>4, <2>2, <2>6
<1> QED
  BY <1>2, <1>3, <1>4 DEF Write

LEMMA PiecesAppended ==
  \A q \in Seq(Pieces), u \in Pieces :
    /\ Append(q, u) \in Seq(Pieces) /\ Len(Append(q, u)) = Len(q) + 1
    /\ \A k \in 1 .. Len(q) : Append(q, u)[k] = q[k]
    /\ Append(q, u)[Len(q) + 1] = u
BY AppendProperties

\* What a text does to out and texts.
LEMMA TextSent ==
  ASSUME Typed, NEW t \in Texts, SendText(t)
  PROVE  /\ out' \in Seq(Items) /\ closed' \in BOOLEAN /\ texts' \in Seq(Pieces)
         /\ \E k \in 0 .. Len(Reply(t)) :
              Writes(Reply(t), k) /\ (closed => k = 0) /\ (closed' <=> closed \/ k < Len(Reply(t)))
         /\ Len(texts') = Len(texts) + 1 /\ DOMAIN texts' = 1 .. Len(texts) + 1
         /\ \A i \in 1 .. Len(texts) : texts'[i] = texts[i]
         /\ texts'[Len(texts) + 1].text = t /\ texts'[Len(texts) + 1].at = Len(out) + 1
<1>1. Reply(t) \in Seq(Byte) /\ Len(Reply(t)) > 0 /\ Reply(t) \in Seq(Items)
  <2>1. Wide(Shortest(t)) \in Nat /\ Len(t) \in Nat /\ Reply(t) \in Seq(Byte)
        /\ Len(Reply(t)) = 2 + Wide(Shortest(t)) + Len(t)
    BY ReplyIs
  <2>2. Len(Reply(t)) > 0
    BY <2>1
  <2> QED
    BY <2>1, <2>2, Widened
<1>2. Write(Reply(t)) /\ texts' = Append(texts, [text |-> t, at |-> Len(out) + 1])
  BY DEF SendText, Reply
<1>3. /\ closed' \in BOOLEAN
      /\ \E k \in 0 .. Len(Reply(t)) :
           Writes(Reply(t), k) /\ (closed => k = 0) /\ (closed' <=> closed \/ k < Len(Reply(t)))
  BY <1>1, <1>2, Written
<1>4. out' \in Seq(Items)
  BY <1>3 DEF Writes
<1> DEFINE u == [text |-> t, at |-> Len(out) + 1]
<1>5. u \in Pieces /\ texts \in Seq(Pieces) /\ u.text = t /\ u.at = Len(out) + 1
  BY DEF Typed, Pieces
<1>6. texts' = Append(texts, u)
  BY <1>2
<1> HIDE DEF u
<1>7. /\ texts' \in Seq(Pieces) /\ Len(texts') = Len(texts) + 1
      /\ (\A i \in 1 .. Len(texts) : texts'[i] = texts[i]) /\ texts'[Len(texts) + 1] = u
  BY <1>5, <1>6, PiecesAppended, Zenon
<1>8. DOMAIN texts' = 1 .. Len(texts) + 1
  BY <1>7, PiecesListed
<1> QED
  BY <1>3, <1>4, <1>5, <1>7, <1>8

LEMMA RepliesStay ==
  ASSUME Replied, out' = out, texts' = texts, client' = client, pc # "handshake",
         pc' # "handshake", closed => closed',
         pc' # "done" => pc # "done"
  PROVE  Replied'
<1>1. \A i : Begun(i)' = Begun(i) /\ Ends(i)' = Ends(i)
  BY DEF Begun, Ends, Agrees, Reply
<1>2. \A i : Whole(i)' = Whole(i) /\ Torn(i)' = Torn(i)
  BY <1>1 DEF Whole, Torn
<1>3. Nonce' = Nonce
  BY DEF Nonce
<1> QED
  BY <1>1, <1>2, <1>3 DEF Replied

\* What was written of a frame stays.
LEMMA BegunStays ==
  ASSUME Typed, NEW b, NEW k \in Nat, Writes(b, k), NEW i \in DOMAIN texts,
         texts'[i] = texts[i], Begun(i), Ends(i) <= Len(out) + 1
  PROVE  Begun(i)' /\ Ends(i)' = Ends(i) /\ Ends(i)' <= Len(out') + 1
<1> DEFINE p == texts[i].at  r == Reply(texts[i].text)  o == Len(out)
<1>1. p \in Nat /\ p >= 1 /\ texts[i].text \in Texts /\ o \in Nat
  BY TextIs
<1>2. Len(r) \in Nat
  BY <1>1, ReplyIs
<1>3. Ends(i) = p + Len(r) /\ Ends(i)' = p + Len(r)
  BY DEF Ends, Reply
<1>4. \A j \in 1 .. Len(r) : p + j - 1 <= o => out[p + j - 1] = r[j]
  BY DEF Begun, Agrees
<1>5. Len(out') = o + k /\ \A j \in 1 .. o : out'[j] = out[j]
  BY DEF Writes
<1>6. Begun(i)' <=> \A j \in 1 .. Len(r) : p + j - 1 <= Len(out') => out'[p + j - 1] = r[j]
  BY DEF Begun, Agrees, Reply
<1>7. p + Len(r) <= o + 1
  BY <1>3
<1> HIDE DEF p, r, o
<1>8. \A j \in 1 .. Len(r) : out'[p + j - 1] = r[j]
  <2> SUFFICES ASSUME NEW j \in 1 .. Len(r) PROVE out'[p + j - 1] = r[j]
    OBVIOUS
  <2>1. p + j - 1 \in 1 .. o /\ p + j - 1 <= o
    BY <1>1, <1>2, <1>7
  <2> QED
    BY <1>4, <1>5, <2>1
<1>9. p + Len(r) <= Len(out') + 1
  BY <1>1, <1>2, <1>5, <1>7
<1> QED
  BY <1>3, <1>6, <1>8, <1>9

\* The frame that is written now has begun.
LEMMA BegunNow ==
  ASSUME Typed, NEW t \in Texts, NEW k \in 0 .. Len(Reply(t)), Writes(Reply(t), k),
         NEW i, texts'[i].text = t, texts'[i].at = Len(out) + 1
  PROVE  /\ Begun(i)' /\ Ends(i)' = Len(out) + 1 + Len(Reply(t))
         /\ Len(out') = Len(out) + k /\ Len(out) \in Nat /\ k \in Nat
         /\ Len(Reply(t)) \in Nat /\ Len(Reply(t)) >= 2
<1> DEFINE r == Reply(t)  o == Len(out)
<1>1. o \in Nat /\ Len(r) \in Nat /\ Len(r) >= 2 /\ k \in 0 .. Len(r)
  <2>1. Wide(Shortest(t)) \in Nat /\ Len(t) \in Nat /\ Len(r) = 2 + Wide(Shortest(t)) + Len(t)
    BY ReplyIs
  <2>2. o \in Nat
    BY DEF Typed
  <2> QED
    BY <2>1, <2>2
<1>2. Len(out') = o + k /\ \A j \in 1 .. k : out'[o + j] = r[j]
  BY DEF Writes
<1>3. /\ Begun(i)' <=> \A j \in 1 .. Len(r) : o + 1 + j - 1 <= Len(out') => out'[o + 1 + j - 1] = r[j]
      /\ Ends(i)' = o + 1 + Len(r)
  BY DEF Begun, Agrees, Ends, Reply
<1> HIDE DEF r, o
<1>4. ASSUME NEW j \in 1 .. Len(r), o + 1 + j - 1 <= Len(out') PROVE out'[o + 1 + j - 1] = r[j]
  <2>1. o + 1 + j - 1 = o + j /\ j \in 1 .. k
    BY <1>1, <1>2, <1>4
  <2> QED
    BY <1>2, <2>1
<1> QED
  BY <1>1, <1>2, <1>3, <1>4 DEF r, o

\* After a failed write nothing is written any more.
LEMMA TornStays ==
  ASSUME Typed, NEW i \in DOMAIN texts, Torn(i), out' = out, texts'[i] = texts[i]
  PROVE  Torn(i)'
BY DEF Torn, Begun, Agrees, Ends, Reply

LEMMA SentReplied ==
  ASSUME Typed, Replied, NEW t \in Texts, SendText(t), client' = client,
         pc \notin {"handshake", "done"}, pc' \notin {"handshake", "done"}
  PROVE  Replied'
<1>0. Len(texts) \in Nat /\ DOMAIN texts = 1 .. Len(texts) /\ Len(out) \in Nat
      /\ out \in Seq(Items) /\ closed \in BOOLEAN
  BY PiecesListed DEF Typed
<1> SUFFICES ASSUME NEW l \in Nat, l = Len(texts) PROVE Replied'
  BY <1>0
<1>1. /\ out' \in Seq(Items) /\ closed' \in BOOLEAN
      /\ Len(texts') = l + 1 /\ DOMAIN texts' = 1 .. l + 1
      /\ \A i \in 1 .. l : texts'[i] = texts[i]
      /\ texts'[l + 1].text = t /\ texts'[l + 1].at = Len(out) + 1
  BY TextSent
<1>2. PICK k \in 0 .. Len(Reply(t)) :
        Writes(Reply(t), k) /\ (closed => k = 0) /\ (closed' <=> closed \/ k < Len(Reply(t)))
  BY TextSent
<1>3. /\ Begun(l + 1)' /\ Ends(l + 1)' = Len(out) + 1 + Len(Reply(t))
      /\ Len(out') = Len(out) + k /\ k \in Nat
      /\ Len(Reply(t)) \in Nat /\ Len(Reply(t)) >= 2
  BY <1>1, <1>2, BegunNow
<1>4. Nonce' = Nonce
  BY DEF Nonce
<1>5. closed \/ out # <<>>
  BY DEF Replied
<1>6. ASSUME NEW i \in 1 .. l, Whole(i) PROVE Whole(i)' /\ Ends(i)' = Ends(i)
  <2>1. Begun(i) /\ Ends(i) <= Len(out) + 1
        /\ texts[i].at = IF i = 1 THEN 2 ELSE Ends(i - 1)
    BY <1>6 DEF Whole
  <2>2. Begun(i)' /\ Ends(i)' = Ends(i) /\ Ends(i)' <= Len(out') + 1
    BY <1>0, <1>1, <1>2, <1>3, <2>1, BegunStays
  <2>3. i # 1 => Ends(i - 1)' = Ends(i - 1)
    <3>1. i # 1 => i - 1 \in 1 .. l
      OBVIOUS
    <3> QED
      BY <1>1, <3>1 DEF Ends, Reply
  <2> QED
    BY <1>1, <2>1, <2>2, <2>3 DEF Whole
<1>7. CASE closed
  <2>1. k = 0 /\ closed' = TRUE
    BY <1>1, <1>2, <1>7
  <2>2. out' = out
    <3>1. out' \in Seq(Items) /\ Len(out') = Len(out) /\ \A j \in 1 .. Len(out) : out'[j] = out[j]
      BY <1>0, <1>1, <1>2, <1>3, <2>1 DEF Writes
    <3> QED
      BY <1>0, <3>1, ItemsSame, Zenon
  <2>3. Torn(l + 1)'
    BY <1>0, <1>3, <2>1 DEF Torn
  <2>4. ASSUME NEW i \in 1 .. l + 1
        PROVE  Whole(i)' \/ (closed' /\ \A j \in i .. l + 1 : Torn(j)')
    <3>1. CASE i = l + 1
      BY <2>1, <2>3, <3>1
    <3>2. CASE i \in 1 .. l /\ Whole(i)
      BY <1>6, <3>2
    <3>3. CASE i \in 1 .. l /\ \A j \in i .. l : Torn(j)
      <4> SUFFICES ASSUME NEW j \in i .. l + 1 PROVE Torn(j)'
        BY <2>1
      <4>1. CASE j = l + 1
        BY <2>3, <4>1
      <4>2. CASE j \in i .. l
        <5>1. j \in DOMAIN texts /\ texts'[j] = texts[j] /\ Torn(j)
          BY <1>0, <1>1, <3>3, <4>2
        <5> QED
          BY <2>2, <5>1, TornStays
      <4> QED
        BY <4>1, <4>2
    <3>4. i \in 1 .. l => Whole(i) \/ \A j \in i .. l : Torn(j)
      BY <1>0 DEF Replied
    <3> QED
      BY <3>1, <3>2, <3>3, <3>4
  <2>5. out' # <<>> => Nonce' # <<>> /\ out'[1] = Accept(Nonce')
    BY <1>4, <2>2 DEF Replied
  <2> QED
    BY <1>1, <2>1, <2>4, <2>5 DEF Replied
<1>8. CASE ~ closed
  <2>1. out # <<>> /\ Nonce # <<>> /\ out[1] = Accept(Nonce)
        /\ Len(out) + 1 = IF texts = <<>> THEN 2 ELSE Ends(l)
    BY <1>5, <1>8 DEF Replied
  <2>2. \A i \in 1 .. l : Whole(i)
    BY <1>0, <1>8 DEF Replied
  <2>3. Len(out) >= 1 /\ out' # <<>> /\ out'[1] = out[1]
    <3>1. Len(out) >= 1
      BY <1>0, <2>1
    <3>2. out'[1] = out[1] /\ Len(out') >= 1
      BY <1>0, <1>2, <1>3, <3>1 DEF Writes
    <3> QED
      BY <1>1, <3>1, <3>2
  <2>4. texts'[l + 1].at = IF l + 1 = 1 THEN 2 ELSE Ends(l)'
    <3>1. CASE l = 0
      <4>1. texts = <<>>
        BY <1>0, <3>1 DEF Typed
      <4> QED
        BY <1>1, <2>1, <3>1, <4>1
    <3>2. CASE l # 0
      <4>1. texts # <<>> /\ l \in 1 .. l /\ l + 1 # 1
        BY <1>0, <3>2
      <4>2. Ends(l)' = Ends(l)
        BY <1>6, <2>2, <4>1
      <4> QED
        BY <1>1, <2>1, <4>1, <4>2
    <3> QED
      BY <3>1, <3>2
  <2>5. (l + 1) - 1 = l
    OBVIOUS
  <2>6. CASE k = Len(Reply(t))
    <3>1. closed' = FALSE
      BY <1>1, <1>2, <1>3, <1>8, <2>6
    <3>2. Ends(l + 1)' = Len(out') + 1
      BY <1>0, <1>3, <2>6
    <3>3. Whole(l + 1)'
      <4>1. Ends(l + 1)' <= Len(out') + 1
        BY <1>0, <1>3, <3>2
      <4> QED
        BY <1>3, <2>4, <2>5, <4>1 DEF Whole
    <3>4. \A i \in 1 .. l + 1 : Whole(i)'
      BY <1>6, <2>2, <3>3
    <3>5. texts' # <<>>
      BY <1>1
    <3> QED
      BY <1>1, <1>4, <2>1, <2>3, <3>2, <3>4, <3>5 DEF Replied
  <2>7. CASE k < Len(Reply(t))
    <3>1. closed' = TRUE
      BY <1>1, <1>2, <2>7
    <3>2. Torn(l + 1)'
      <4>1. Ends(l + 1)' > Len(out') + 1
        BY <1>0, <1>3, <2>7
      <4> QED
        BY <1>3, <4>1 DEF Torn
    <3>3. \A i \in 1 .. l + 1 : Whole(i)' \/ (closed' /\ \A j \in i .. l + 1 : Torn(j)')
      <4> SUFFICES ASSUME NEW i \in 1 .. l + 1
                   PROVE  Whole(i)' \/ (closed' /\ \A j \in i .. l + 1 : Torn(j)')
        OBVIOUS
      <4>1. CASE i \in 1 .. l
        BY <1>6, <2>2, <4>1
      <4>2. CASE i = l + 1
        <5>1. \A j \in i .. l + 1 : j = l + 1
          BY <4>2
        <5> QED
          BY <3>1, <3>2, <5>1
      <4> QED
        BY <4>1, <4>2
    <3> QED
      BY <1>1, <1>4, <2>1, <2>3, <3>1, <3>3 DEF Replied
  <2> QED
    BY <1>3, <2>6, <2>7
<1> QED
  BY <1>0, <1>7, <1>8

-----------------------------------------------------------------------------
(* The key.                                                                *)

LEMMA TrimmedIs ==
  ASSUME NEW k \in Seq(STRING), Trimmed(k) # <<>>
  PROVE  \E a, b \in DOMAIN k :
           /\ \A i \in 1 .. a - 1 : k[i] = " "
           /\ \A i \in b + 1 .. Len(k) : k[i] \in {" ", "\r"}
           /\ k[a] # " " /\ k[b] \notin {" ", "\r"}
           /\ Trimmed(k) = SubSeq(k, a, b) /\ Trimmed(k) \in Seq(STRING)
<1> DEFINE heads == {i \in DOMAIN k : k[i] # " "}  tails == {i \in DOMAIN k : k[i] \notin {" ", "\r"}}
           a == Min(heads)  b == Max(tails)
<1>1. tails # {} /\ Trimmed(k) = SubSeq(k, a, b)
  BY DEF Trimmed
<1>2. DOMAIN k = 1 .. Len(k) /\ Len(k) \in Nat /\ \A i \in DOMAIN k : k[i] \in STRING
  BY Listed
<1>3. tails \subseteq heads /\ heads \in SUBSET Nat /\ tails \subseteq 0 .. Len(k) /\ heads # {}
  <2>1. tails \subseteq heads
    OBVIOUS
  <2>2. heads \subseteq 1 .. Len(k) /\ tails \subseteq 1 .. Len(k)
    BY <1>2
  <2>3. 1 .. Len(k) \subseteq Nat /\ 1 .. Len(k) \subseteq 0 .. Len(k)
    BY <1>2
  <2> HIDE DEF heads, tails
  <2> QED
    BY <1>1, <2>1, <2>2, <2>3
<1>4. a \in heads /\ \A y \in heads : a <= y
  BY <1>3, LeastIs
<1>5. b \in tails /\ \A y \in tails : y <= b
  BY <1>1, <1>2, <1>3, LargestIs
<1> HIDE DEF a, b
<1>6. a \in DOMAIN k /\ b \in DOMAIN k /\ k[a] # " " /\ k[b] \notin {" ", "\r"}
  BY <1>4, <1>5
<1>b. a \in Nat /\ b \in Nat /\ a >= 1 /\ b >= 1 /\ a <= Len(k) /\ b <= Len(k)
  <2>1. a \in 1 .. Len(k) /\ b \in 1 .. Len(k)
    BY <1>2, <1>6
  <2> HIDE DEF heads, tails
  <2> QED
    BY <1>2, <2>1
<1>c. (\A i \in 1 .. a - 1 : i \in DOMAIN k /\ ~ (a <= i)) /\ (\A i \in b + 1 .. Len(k) : i \in DOMAIN k /\ ~ (i <= b))
      /\ (\A i \in a .. b : i \in DOMAIN k)
  <2> DEFINE n == Len(k)
  <2>1. n \in Nat /\ a \in Nat /\ b \in Nat /\ a >= 1 /\ b >= 1 /\ a <= n /\ b <= n /\ DOMAIN k = 1 .. n
    BY <1>2, <1>b
  <2> HIDE DEF n, heads, tails
  <2>2. (\A i \in 1 .. a - 1 : i \in 1 .. n /\ ~ (a <= i)) /\ (\A i \in b + 1 .. n : i \in 1 .. n /\ ~ (i <= b))
        /\ (\A i \in a .. b : i \in 1 .. n)
    BY <2>1
  <2> QED
    BY <2>1, <2>2 DEF n
<1>7. ASSUME NEW i \in 1 .. a - 1 PROVE k[i] = " "
  <2>1. i \in DOMAIN k /\ ~ (a <= i)
    BY <1>c
  <2> QED
    BY <1>4, <2>1
<1>8. ASSUME NEW i \in b + 1 .. Len(k) PROVE k[i] \in {" ", "\r"}
  <2>1. i \in DOMAIN k /\ ~ (i <= b)
    BY <1>c
  <2> QED
    BY <1>5, <2>1
<1>9. SubSeq(k, a, b) \in Seq(STRING)
  <2>1. \A i \in a .. b : k[i] \in STRING
    BY <1>2, <1>c
  <2>2. a \in Int /\ b \in Int
    BY <1>b
  <2> QED
    BY <2>1, <2>2, SubSeqProperties
<1> QED
  BY <1>1, <1>6, <1>7, <1>8, <1>9

LEMMA NonceIs ==
  ASSUME Typed, Nonce # <<>>
  PROVE  /\ client.key \in Seq(STRING) /\ Nonce = Trimmed(client.key)
         /\ Nonce \in Seq(STRING) /\ <<Accept(Nonce)>> \in Seq(Items)
<1>1. client.key # None /\ client.key \in Seq(STRING)
  BY ScriptIs DEF Nonce
<1>2. Nonce = Trimmed(client.key)
  BY <1>1 DEF Nonce
<1>3. Nonce \in Seq(STRING)
  BY <1>1, <1>2, TrimmedIs
<1>4. Accept(Nonce) \in Items
  BY <1>3 DEF Items, Answers
<1> QED
  BY <1>1, <1>2, <1>3, <1>4

-----------------------------------------------------------------------------
(* Every step.                                                             *)

Pcs == {"handshake", "join", "check", "header", "length", "mask", "payload", "frame",
        "leave", "done"}

LEMMA TypedStays ==
  ASSUME Typed, client' = client, wire' = wire, taken' \in 0 .. Len(wire), ended' \in BOOLEAN,
         closed' \in BOOLEAN, pc' \in Pcs, out' \in Seq(Items), texts' \in Seq(Pieces)
  PROVE  Typed'
BY DEF Typed, Pcs

LEMMA WantedIs ==
  ASSUME Typed, Streamed, Returned, Placed, Reading
  PROVE  Wanted \in Nat
<1>1. CASE pc = "payload"
  <2> DEFINE f == Script[Len(got) + 1]
  <2>1. Len(got) + 1 \in DOMAIN Script /\ frame.len = Len(f.payload)
    BY <1>1 DEF Placed, Holds
  <2>2. Len(f.payload) \in Nat
    BY <2>1, ScriptIs, FrameShape
  <2> QED
    BY <1>1, <2>1, <2>2 DEF Wanted
<1>2. CASE pc # "payload"
  BY <1>2 DEF Wanted, Reading
<1> QED
  BY <1>1, <1>2

LEMMA ReadTyped ==
  ASSUME Typed, Streamed, Returned, Placed, RecvHeader \/ RecvLength \/ RecvMask \/ RecvPayload
  PROVE  Typed' /\ Streamed' /\ client' = client /\ out' = out /\ texts' = texts
         /\ closed' = closed /\ pc \notin {"handshake", "done"} /\ pc' \notin {"handshake", "done"}
<1>1. Wanted \in Nat
  BY WantedIs DEF Reading, RecvHeader, RecvLength, RecvMask, RecvPayload
<1>2. Len(wire) \in Nat /\ taken \in 0 .. Len(wire)
  BY DEF Typed
<1>3. /\ Len(wire) - taken >= Wanted /\ taken' = taken + Wanted
      /\ UNCHANGED <<client, wire, starts, ended, closed, out, texts>>
  BY DEF RecvHeader, RecvLength, RecvMask, RecvPayload, ReadExact, clientVars
<1>4. taken' \in 0 .. Len(wire)
  BY <1>1, <1>2, <1>3
<1>5. \A x : AfterLength(x) \in {"leave", "mask", "payload"}
  BY DEF AfterLength
<1>6. pc' \in Pcs \ {"handshake", "done"} /\ pc \notin {"handshake", "done"}
  BY <1>5 DEF RecvHeader, RecvLength, RecvMask, RecvPayload, Pcs
<1>7. Typed'
  <2>1. ended' \in BOOLEAN /\ closed' \in BOOLEAN /\ out' \in Seq(Items) /\ texts' \in Seq(Pieces)
    BY <1>3 DEF Typed
  <2> QED
    BY <1>3, <1>4, <1>6, <2>1, TypedStays
<1>8. Streamed'
  BY <1>3, StreamStays
<1> QED
  BY <1>3, <1>6, <1>7, <1>8

\* What is sent has room in the longest form.
LEMMA TextsAre ==
  ASSUME Typed, Returned
  PROVE  /\ Greeting \in Texts /\ <<>> \in Texts
         /\ \A i \in DOMAIN got : Prefix \o got[i].payload \in Texts
<1>1. Greeting \in Texts
  BY WebSocketAssumption DEF Texts
<1> DEFINE c == Capacity["64"]
<1>2. c = (Base * Base * Base * Base) * (Base * Base * Base * Base)
  BY DEF Capacity
<1>3. c \in Nat /\ c > 0
  <2> DEFINE b2 == Base * Base  b4 == Base * Base * Base * Base
  <2>1. b2 \in Nat /\ b2 > 0
    BY Bases
  <2>2. b4 = b2 * b2
    BY Bases
  <2> HIDE DEF b2
  <2>3. b4 \in Nat /\ b4 > 0
    BY <2>1, <2>2
  <2> HIDE DEF b4
  <2>4. b4 * b4 \in Nat /\ b4 * b4 > 0
    BY <2>3
  <2> QED
    BY <1>2, <2>4 DEF b4
<1>4. <<>> \in Texts
  BY <1>3 DEF Texts
<1>5. ASSUME NEW i \in DOMAIN got PROVE Prefix \o got[i].payload \in Texts
  <2>1. got[i] \in Decoded /\ Len(got[i].payload) <= Limit
    BY GotIs DEF Returned
  <2>2. got[i].payload \in Seq(Byte)
    BY <2>1 DEF Decoded
  <2>3. Prefix \in Seq(Byte) /\ Len(Prefix) + Limit < c /\ Limit \in Nat
    BY WebSocketAssumption
  <2> DEFINE p == got[i].payload
  <2>4. /\ Prefix \o p \in Seq(Byte) /\ Len(Prefix \o p) = Len(Prefix) + Len(p)
        /\ Len(Prefix) \in Nat /\ Len(p) \in Nat /\ Len(p) <= Limit
    BY <2>1, <2>2, <2>3, BytesJoined
  <2> HIDE DEF p, c
  <2>5. Len(Prefix \o p) < c
    BY <1>3, <2>3, <2>4
  <2> QED
    BY <2>4, <2>5 DEF Texts, p, c
<1> QED
  BY <1>1, <1>4, <1>5

LEMMA TextSentAll ==
  ASSUME IInv, NEW t \in Texts, SendText(t), UNCHANGED <<clientVars, taken, frame, got>>,
         pc \in {"join", "frame"}, pc' = "check"
  PROVE  IInv'
<1>1. Typed /\ Streamed /\ Returned /\ Placed /\ Replied
  BY DEF IInv
<1>2. UNCHANGED <<client, wire, starts, ended, taken, frame, got>>
  BY DEF clientVars
<1>3. out' \in Seq(Items) /\ closed' \in BOOLEAN /\ texts' \in Seq(Pieces)
  BY <1>1, TextSent
<1>4. Typed'
  <2>1. taken' \in 0 .. Len(wire) /\ ended' \in BOOLEAN /\ pc' \in Pcs
    BY <1>1, <1>2 DEF Typed, Pcs
  <2> QED
    BY <1>1, <1>2, <1>3, <2>1, TypedStays
<1>5. Streamed' /\ Returned'
  BY <1>1, <1>2, StreamStays, ReturnedStays
<1>6. At(0)'
  <2>1. At(0)
    BY <1>1 DEF Placed
  <2> QED
    BY <1>2, <2>1 DEF At
<1>7. Placed'
  BY <1>6 DEF Placed
<1>8. Replied'
  BY <1>1, <1>2, SentReplied
<1> QED
  BY <1>4, <1>5, <1>7, <1>8 DEF IInv

\* A step that neither the client nor recv_frame() takes.
LEMMA Quiet ==
  ASSUME IInv, UNCHANGED <<clientVars, taken, closed, frame, got, out, texts>>,
         pc \notin {"handshake", "done"}, pc' \in {"check", "header", "leave", "done"},
         pc' \in {"check", "header"} => pc \in {"check", "frame"}
  PROVE  IInv'
<1>1. Typed /\ Streamed /\ Returned /\ Placed /\ Replied
  BY DEF IInv
<1>2. UNCHANGED <<client, wire, starts, ended, taken, closed, frame, got, out, texts>>
  BY DEF clientVars
<1>3. Typed'
  <2>1. taken' \in 0 .. Len(wire) /\ ended' \in BOOLEAN /\ closed' \in BOOLEAN /\ pc' \in Pcs
        /\ out' \in Seq(Items) /\ texts' \in Seq(Pieces)
    BY <1>1, <1>2 DEF Typed, Pcs
  <2> QED
    BY <1>1, <1>2, <2>1, TypedStays
<1>4. Streamed' /\ Returned'
  BY <1>1, <1>2, StreamStays, ReturnedStays
<1>5. pc' \in {"check", "header"} => At(0)'
  <2>1. pc \in {"check", "frame"} => At(0)
    BY <1>1 DEF Placed
  <2> QED
    BY <1>2, <2>1 DEF At
<1>6. Placed'
  BY <1>5 DEF Placed
<1>7. Replied'
  BY <1>1, <1>2, RepliesStay
<1> QED
  BY <1>3, <1>4, <1>6, <1>7 DEF IInv

LEMMA InitInv ==
  ASSUME Init
  PROVE  IInv
<1>1. client \in Clients /\ wire = <<>> /\ starts = <<0>> /\ taken = 0 /\ ended = FALSE
      /\ pc = "handshake" /\ closed = FALSE /\ got = <<>> /\ out = <<>> /\ texts = <<>>
  BY DEF Init
<1>2. Typed
  <2>1. wire \in Seq(Byte) /\ Len(wire) = 0 /\ out \in Seq(Items) /\ texts \in Seq(Pieces)
    BY <1>1
  <2>2. taken \in 0 .. Len(wire)
    <3>1. 0 \in 0 .. 0
      OBVIOUS
    <3> QED
      BY <1>1, <2>1, <3>1, Zenon
  <2>3. ended \in BOOLEAN /\ closed \in BOOLEAN
    BY <1>1, Zenon
  <2> QED
    BY <1>1, <2>1, <2>2, <2>3 DEF Typed
<1>3. Script \in Seq(Frames) /\ Len(Script) \in Nat
  BY <1>2, ScriptIs
<1>4. starts \in Seq(Nat) /\ Len(starts) = 1 /\ DOMAIN starts = {1} /\ starts[1] = 0 /\ Len(wire) = 0
  BY <1>1
<1>5. Laid(1)
  <2>1. \A j \in 1 .. Len(Sent(1)) : 1 \in DOMAIN Script => ~ (starts[1] + j <= Len(wire))
    <3> SUFFICES ASSUME 1 \in DOMAIN Script, NEW j \in 1 .. Len(Sent(1))
                 PROVE  ~ (starts[1] + j <= Len(wire))
      OBVIOUS
    <3>1. Len(Sent(1)) \in Nat
      BY <1>2, SentIs
    <3> QED
      BY <1>4, <3>1
  <2> QED
    BY <1>4, <2>1 DEF Laid
<1>6. LastFrame(1)
  <2>1. CASE Len(Script) = 0
    BY <1>4, <2>1 DEF LastFrame
  <2>2. CASE Len(Script) # 0
    <3>1. 1 \in DOMAIN Script /\ 1 # Len(Script) + 1
      BY <1>2, <1>3, <2>2, ScriptIs
    <3>2. Len(Sent(1)) \in Nat /\ Len(Sent(1)) >= 2
      BY <1>2, <3>1, SentIs
    <3> QED
      BY <1>4, <3>1, <3>2 DEF LastFrame
  <2> QED
    BY <2>1, <2>2
<1>7. Streamed
  <2>1. Len(starts) \in 1 .. Len(Script) + 1
    BY <1>3, <1>4
  <2> QED
    BY <1>4, <1>5, <1>6, <2>1 DEF Streamed
<1>8. Returned
  BY <1>1, <1>3 DEF Returned
<1>9. Placed
  BY <1>1, <1>4 DEF Placed, At
<1>10. Replied
  BY <1>1 DEF Replied
<1> QED
  BY <1>2, <1>7, <1>8, <1>9, <1>10 DEF IInv

LEMMA NextInv ==
  ASSUME IInv, [Next]_vars
  PROVE  IInv'
<1>0. Typed /\ Streamed /\ Returned /\ Placed /\ Replied
  BY DEF IInv
<1>1. CASE ClientSends
  <2>1. Streamed' /\ wire' \in Seq(Byte) /\ Len(wire') = Len(wire) + 1
        /\ \A i \in DOMAIN starts : i \in DOMAIN starts' /\ starts'[i] = starts[i]
    BY <1>0, <1>1, SendStreamed
  <2>2. UNCHANGED <<client, ended, taken, pc, closed, frame, got, out, texts>>
    BY <1>1 DEF ClientSends
  <2>3. Typed'
    <3>1. taken \in 0 .. Len(wire) /\ Len(wire) \in Nat
      BY <1>0 DEF Typed
    <3>2. taken' \in 0 .. Len(wire')
      BY <2>1, <2>2, <3>1
    <3> QED
      BY <1>0, <2>1, <2>2, <3>2 DEF Typed
  <2>4. Returned'
    BY <1>0, <2>2, ReturnedStays
  <2>5. \A k : At(k) => At(k)'
    BY <2>1, <2>2 DEF At
  <2>6. Script' = Script
    BY <2>2 DEF Script
  <2>7. Placed'
    BY <1>0, <2>2, <2>5, <2>6 DEF Placed, Holds
  <2>8. Replied'
    <3>1. \A i : Begun(i)' = Begun(i) /\ Ends(i)' = Ends(i)
      BY <2>2 DEF Begun, Ends, Agrees, Reply
    <3>2. \A i : Whole(i)' = Whole(i) /\ Torn(i)' = Torn(i)
      BY <2>2, <3>1 DEF Whole, Torn
    <3>3. Nonce' = Nonce
      BY <2>2 DEF Nonce
    <3> QED
      BY <1>0, <2>2, <3>1, <3>2, <3>3 DEF Replied
  <2> QED
    BY <2>1, <2>3, <2>4, <2>7, <2>8 DEF IInv
<1>2. CASE HangUp \/ UNCHANGED vars
  <2>1. UNCHANGED <<client, wire, starts, taken, pc, closed, frame, got, out, texts>>
        /\ ended' \in BOOLEAN
    BY <1>0, <1>2 DEF HangUp, vars, clientVars, Typed
  <2>2. Typed'
    BY <1>0, <2>1 DEF Typed
  <2>3. Streamed' /\ Returned'
    BY <1>0, <2>1, StreamStays, ReturnedStays
  <2>4. \A k : At(k)' = At(k)
    BY <2>1 DEF At
  <2>5. Placed'
    BY <1>0, <2>1, <2>4 DEF Placed, Holds, Script
  <2>6. Replied'
    <3>1. \A i : Begun(i)' = Begun(i) /\ Ends(i)' = Ends(i)
      BY <2>1 DEF Begun, Ends, Agrees, Reply
    <3>2. \A i : Whole(i)' = Whole(i) /\ Torn(i)' = Torn(i)
      BY <2>1, <3>1 DEF Whole, Torn
    <3>3. Nonce' = Nonce
      BY <2>1 DEF Nonce
    <3> QED
      BY <1>0, <2>1, <3>1, <3>2, <3>3 DEF Replied
  <2> QED
    BY <2>2, <2>3, <2>5, <2>6 DEF IInv
<1>3. CASE Refuse
  <2>1. UNCHANGED <<client, wire, starts, ended, taken, closed, frame, got, out, texts>>
        /\ pc = "handshake" /\ pc' = "done"
    BY <1>3 DEF Refuse, clientVars
  <2>2. Typed'
    BY <1>0, <2>1 DEF Typed
  <2>3. Streamed' /\ Returned'
    BY <1>0, <2>1, StreamStays, ReturnedStays
  <2>4. Placed'
    BY <2>1 DEF Placed
  <2>5. Replied'
    BY <1>0, <2>1 DEF Replied
  <2> QED
    BY <2>2, <2>3, <2>4, <2>5 DEF IInv
<1>4. CASE Upgrade
  <2>1. UNCHANGED <<client, wire, starts, ended, taken, frame, got, texts>>
        /\ pc = "handshake" /\ pc' = "join" /\ Nonce # <<>>
    BY <1>4 DEF Upgrade, clientVars
  <2> DEFINE b == <<Accept(Nonce)>>
  <2>2. b \in Seq(Items) /\ Len(b) = 1 /\ b[1] = Accept(Nonce)
    BY <1>0, <2>1, NonceIs
  <2>3. Write(b)
    BY <1>4 DEF Upgrade
  <2> HIDE DEF b
  <2>4. closed' \in BOOLEAN
        /\ \E k \in 0 .. Len(b) : Writes(b, k) /\ (closed' <=> closed \/ k < Len(b))
    <3>1. Len(b) > 0
      BY <2>2
    <3> QED
      BY <1>0, <2>2, <2>3, <3>1, Written
  <2>5. PICK k \in 0 .. 1 : Writes(b, k) /\ (closed' <=> closed \/ k < 1)
    BY <2>2, <2>4
  <2>6. out = <<>> /\ texts = <<>> /\ ~ closed
    BY <1>0, <2>1 DEF Replied
  <2>7. out' \in Seq(Items) /\ Len(out') = k /\ (k = 1 => out'[1] = Accept(Nonce))
    <3>1. Len(out) = 0 /\ 0 + k = k /\ 0 + 1 = 1
      BY <2>6
    <3> QED
      BY <2>2, <2>5, <3>1 DEF Writes
  <2>8. Typed'
    <3>1. taken' \in 0 .. Len(wire) /\ ended' \in BOOLEAN /\ pc' \in Pcs /\ texts' \in Seq(Pieces)
      BY <1>0, <2>1 DEF Typed, Pcs
    <3> QED
      BY <1>0, <2>1, <2>4, <2>7, <3>1, TypedStays
  <2>9. Streamed' /\ Returned'
    BY <1>0, <2>1, StreamStays, ReturnedStays
  <2>10. Placed'
    <3>1. At(0)
      BY <1>0, <2>1 DEF Placed
    <3>2. At(0)'
      BY <2>1, <3>1 DEF At
    <3> QED
      BY <2>1, <3>2 DEF Placed
  <2>11. Replied'
    <3>1. Nonce' = Nonce
      BY <2>1 DEF Nonce
    <3>2. k = 0 \/ k = 1
      OBVIOUS
    <3>3. CASE k = 0
      <4>1. closed' = TRUE /\ out' = <<>> /\ texts' = <<>>
        BY <2>1, <2>4, <2>5, <2>6, <2>7, <3>3
      <4> QED
        BY <2>1, <4>1 DEF Replied
    <3>4. CASE k = 1
      <4>1. closed' = FALSE /\ Len(out') + 1 = 2 /\ out' # <<>> /\ texts' = <<>>
            /\ out'[1] = Accept(Nonce)
        BY <2>1, <2>4, <2>5, <2>6, <2>7, <3>4
      <4> QED
        BY <2>1, <3>1, <4>1 DEF Replied
    <3> QED
      BY <3>2, <3>3, <3>4
  <2> QED
    BY <2>8, <2>9, <2>10, <2>11 DEF IInv
<1>5. CASE Join
  <2>1. Greeting \in Texts
    BY <1>0, TextsAre
  <2> QED
    BY <1>5, <2>1, TextSentAll DEF Join
<1>6. CASE RecvCheck
  BY <1>6, Quiet DEF RecvCheck
<1>7. CASE RecvHeader \/ RecvLength \/ RecvMask
  <2>1. Typed' /\ Streamed' /\ client' = client /\ out' = out /\ texts' = texts
        /\ closed' = closed /\ pc \notin {"handshake", "done"} /\ pc' \notin {"handshake", "done"}
    BY <1>0, <1>7, ReadTyped
  <2>2. got' = got
    BY <1>7 DEF RecvHeader, RecvLength, RecvMask
  <2>3. Returned'
    BY <1>0, <2>1, <2>2, ReturnedStays
  <2>4. Placed'
    BY <1>0, <1>7, HeaderPlaced, LengthPlaced, MaskPlaced
  <2>5. Replied'
    BY <1>0, <2>1, RepliesStay
  <2> QED
    BY <2>1, <2>3, <2>4, <2>5 DEF IInv
<1>8. CASE RecvPayload
  <2>1. Typed' /\ Streamed' /\ client' = client /\ out' = out /\ texts' = texts
        /\ closed' = closed /\ pc \notin {"handshake", "done"} /\ pc' \notin {"handshake", "done"}
    BY <1>0, <1>8, ReadTyped
  <2>2. Returned' /\ Placed'
    BY <1>0, <1>8, PayloadPlaced
  <2>3. Replied'
    BY <1>0, <2>1, RepliesStay
  <2> QED
    BY <2>1, <2>2, <2>3 DEF IInv
<1>9. CASE RecvCut
  <2>1. UNCHANGED <<client, wire, starts, ended, frame, got, out, texts>>
        /\ taken' = Len(wire) /\ closed' = TRUE /\ pc' = "leave"
        /\ pc \in {"header", "length", "mask", "payload"}
    BY <1>9 DEF RecvCut, clientVars, Reading
  <2>2. Typed'
    <3>1. taken' \in 0 .. Len(wire) /\ ended' \in BOOLEAN /\ closed' \in BOOLEAN /\ pc' \in Pcs
          /\ out' \in Seq(Items) /\ texts' \in Seq(Pieces)
      BY <1>0, <2>1 DEF Typed, Pcs
    <3> QED
      BY <1>0, <2>1, <3>1, TypedStays
  <2>3. Streamed' /\ Returned'
    BY <1>0, <2>1, StreamStays, ReturnedStays
  <2>4. Placed'
    BY <2>1 DEF Placed
  <2>5. Replied'
    BY <1>0, <2>1, RepliesStay
  <2> QED
    BY <2>2, <2>3, <2>4, <2>5 DEF IInv
<1>10. CASE Handle
  <2>1. pc = "frame" /\ UNCHANGED <<clientVars, taken, frame, got>>
    BY <1>10 DEF Handle
  <2>2. Prefix \o Last(got).payload \in Texts /\ <<>> \in Texts
    <3>1. got # <<>> /\ got \in Seq(Decoded)
      BY <1>0, <2>1 DEF Placed, Returned
    <3>2. Len(got) \in DOMAIN got
      BY <3>1
    <3> QED
      BY <1>0, <3>2, TextsAre DEF Last
  <2>3. \/ pc' \in {"leave", "check"} /\ UNCHANGED <<out, closed, texts>>
        \/ pc' = "check" /\ SendText(<<>>)
        \/ pc' = "check" /\ SendText(Prefix \o Last(got).payload)
    BY <1>10 DEF Handle
  <2>4. CASE pc' \in {"leave", "check"} /\ UNCHANGED <<out, closed, texts>>
    BY <2>1, <2>4, Quiet
  <2>5. CASE pc' = "check" /\ SendText(<<>>)
    BY <2>1, <2>2, <2>5, TextSentAll
  <2>6. CASE pc' = "check" /\ SendText(Prefix \o Last(got).payload)
    BY <2>1, <2>2, <2>6, TextSentAll
  <2> QED
    BY <2>3, <2>4, <2>5, <2>6
<1>11. CASE Leave
  BY <1>11, Quiet DEF Leave
<1> QED
  BY <1>1, <1>2, <1>3, <1>4, <1>5, <1>6, <1>7, <1>8, <1>9, <1>10, <1>11 DEF Next, Server

-----------------------------------------------------------------------------

\* recv_frame() returns the frames of the client, unmasked, in order and whole,
\* for all bytes, forms of the length, masks and limits.
LEMMA InvReceived ==
  ASSUME IInv
  PROVE  Received
<1>0. Typed /\ Returned
  BY DEF IInv
<1> DEFINE s == [i \in DOMAIN client.script |-> AsSent(client.script[i])]
<1>1. /\ Len(got) \in Nat /\ DOMAIN got = 1 .. Len(got) /\ got \in Seq(Decoded)
      /\ Len(got) <= Len(Script) /\ Len(Script) \in Nat /\ DOMAIN Script = 1 .. Len(Script)
      /\ \A i \in DOMAIN got : got[i] = AsSent(Script[i]) /\ Len(got[i].payload) <= Limit
  BY <1>0, GotIs, ScriptIs DEF Returned
<1>2. s \in Seq(Decoded) /\ Len(s) = Len(Script) /\ \A i \in 1 .. Len(Script) : s[i] = AsSent(Script[i])
  <2>1. \A i \in 1 .. Len(Script) : AsSent(Script[i]) \in Decoded
    BY <1>0, <1>1, ScriptIs, FrameShape DEF AsSent, Decoded
  <2>2. s = [i \in 1 .. Len(Script) |-> AsSent(Script[i])]
    BY <1>1 DEF Script
  <2> HIDE DEF s
  <2>3. s \in [1 .. Len(Script) -> Decoded]
    BY <2>1, <2>2
  <2> QED
    BY <1>1, <2>2, <2>3, IsASeq, LenProperties
<1> HIDE DEF s
<1> DEFINE g == Len(got)
<1>3. SubSeq(got, 1, g) = got
  BY <1>1, SubSeqFull
<1>4. SubSeq(s, 1, g) = got
  <2> DEFINE u == SubSeq(s, 1, g)
  <2>1. \A i \in 1 .. g : s[i] \in Decoded
    BY <1>1, <1>2, Listed
  <2>2. u \in Seq(Decoded) /\ Len(u) = g /\ \A i \in 1 .. g : u[i] = s[i]
    <3>1. /\ u \in Seq(Decoded) /\ Len(u) = (IF 1 <= g THEN g - 1 + 1 ELSE 0)
          /\ \A i \in 1 .. g - 1 + 1 : u[i] = s[1 + i - 1]
      BY <1>1, <2>1, SubSeqProperties
    <3>2. g - 1 + 1 = g /\ \A i \in 1 .. g : 1 + i - 1 = i
      BY <1>1
    <3> QED
      BY <1>1, <3>1, <3>2
  <2> HIDE DEF u
  <2>3. \A i \in 1 .. g : u[i] = got[i]
    BY <1>1, <1>2, <2>2
  <2>4. u = got
    BY <1>1, <2>2, <2>3, SeqEqual
  <2> QED
    BY <2>4 DEF u
<1>5. IsPrefix(got, s)
  BY <1>1, <1>2, <1>3, <1>4 DEF IsPrefix
<1>6. \A f \in Range(got) : Len(f.payload) <= Limit
  BY <1>1 DEF Range
<1> QED
  BY <1>5, <1>6 DEF Received, s

LEMMA InvReadable ==
  ASSUME IInv
  PROVE  RepliesReadable
<1>0. Typed /\ Replied
  BY DEF IInv
<1> SUFFICES ASSUME out # <<>>
             PROVE  /\ KeyAnswered
                    /\ \A i \in DOMAIN texts :
                         \/ /\ texts[i].at = (IF i = 1 THEN 2 ELSE Behind(texts[i - 1].at))
                            /\ ClientReads(texts[i].at, texts[i].text)
                         \/ closed /\ \A j \in i .. Len(texts) : ~ Complete(texts[j].at)
                    /\ ~ closed => Len(out) = IF texts = <<>> THEN 1 ELSE Behind(Last(texts).at) - 1
  BY DEF RepliesReadable
<1>1. Len(texts) \in Nat /\ DOMAIN texts = 1 .. Len(texts) /\ texts \in Seq(Pieces)
      /\ out \in Seq(Items) /\ Len(out) \in Nat
  BY <1>0, PiecesListed DEF Typed
<1>2. KeyAnswered
  <2>1. Nonce # <<>> /\ out[1] = Accept(Nonce)
    BY <1>0 DEF Replied
  <2>2. client.key \in Seq(STRING) /\ Nonce = Trimmed(client.key)
    BY <1>0, <2>1, NonceIs
  <2> QED
    <3> DEFINE k == client.key
    <3>1. k \in Seq(STRING) /\ Trimmed(k) # <<>> /\ out[1] = Accept(Trimmed(k))
      BY <2>1, <2>2
    <3>2. PICK a, b \in DOMAIN k :
             /\ \A i \in 1 .. a - 1 : k[i] = " "
             /\ \A i \in b + 1 .. Len(k) : k[i] \in {" ", "\r"}
             /\ k[a] # " " /\ k[b] \notin {" ", "\r"}
             /\ Trimmed(k) = SubSeq(k, a, b)
      <4> HIDE DEF k
      <4>1. \E a, b \in DOMAIN k :
              /\ \A i \in 1 .. a - 1 : k[i] = " "
              /\ \A i \in b + 1 .. Len(k) : k[i] \in {" ", "\r"}
              /\ k[a] # " " /\ k[b] \notin {" ", "\r"}
              /\ Trimmed(k) = SubSeq(k, a, b) /\ Trimmed(k) \in Seq(STRING)
        BY <3>1, TrimmedIs, Zenon
      <4> QED
        BY <4>1, Zenon
    <3>3. out[1] = Accept(SubSeq(k, a, b))
      BY <3>1, <3>2
    <3> QED
      BY <3>2, <3>3, Zenon DEF KeyAnswered
<1>3. \A i \in DOMAIN texts : Whole(i) \/ (closed /\ \A j \in i .. Len(texts) : Torn(j))
  BY <1>0 DEF Replied
<1>4. ASSUME NEW i \in DOMAIN texts
      PROVE  texts[i].text \in Texts /\ texts[i].at \in Nat /\ texts[i].at >= 1
  BY <1>0, TextIs
<1>5. ASSUME NEW i \in DOMAIN texts, Whole(i)
      PROVE  ClientReads(texts[i].at, texts[i].text) /\ Behind(texts[i].at) = Ends(i)
             /\ Ends(i) \in Nat /\ Ends(i) <= Len(out) + 1
  <2>1. Agrees(texts[i].at, Reply(texts[i].text)) /\ Ends(i) <= Len(out) + 1
        /\ Ends(i) = texts[i].at + Len(Reply(texts[i].text))
    BY <1>5 DEF Whole, Begun, Ends
  <2>2. Len(Reply(texts[i].text)) \in Nat
    BY <1>4, ReplyIs
  <2> QED
    BY <1>1, <1>4, <2>1, <2>2, WholeReadable
<1>6. ASSUME NEW i \in DOMAIN texts, Torn(i)
      PROVE  ~ Complete(texts[i].at)
  <2>1. Agrees(texts[i].at, Reply(texts[i].text))
        /\ texts[i].at + Len(Reply(texts[i].text)) > Len(out) + 1
    BY <1>6 DEF Torn, Begun, Ends
  <2> QED
    BY <1>1, <1>4, <2>1, TornUnreadable
<1>7. ASSUME NEW i \in DOMAIN texts, Whole(i)
      PROVE  texts[i].at = (IF i = 1 THEN 2 ELSE Behind(texts[i - 1].at))
  <2>1. texts[i].at = IF i = 1 THEN 2 ELSE Ends(i - 1)
    BY <1>7 DEF Whole
  <2>2. CASE i # 1
    <3>1. i - 1 \in DOMAIN texts /\ i \in (i - 1) .. Len(texts)
      BY <1>1, <2>2
    <3>2. ~ Torn(i)
      BY <1>1, <1>5, <1>7 DEF Torn
    <3>3. Whole(i - 1)
      BY <1>3, <3>1, <3>2
    <3> QED
      BY <1>5, <2>1, <2>2, <3>1, <3>3
  <2> QED
    BY <2>1, <2>2
<1>8. ASSUME NEW i \in DOMAIN texts
      PROVE  \/ /\ texts[i].at = (IF i = 1 THEN 2 ELSE Behind(texts[i - 1].at))
                /\ ClientReads(texts[i].at, texts[i].text)
             \/ closed /\ \A j \in i .. Len(texts) : ~ Complete(texts[j].at)
  <2>1. CASE Whole(i)
    BY <1>5, <1>7, <2>1
  <2>2. CASE closed /\ \A j \in i .. Len(texts) : Torn(j)
    <3>1. \A j \in i .. Len(texts) : j \in DOMAIN texts
      BY <1>1
    <3> QED
      BY <1>6, <2>2, <3>1
  <2> QED
    BY <1>3, <2>1, <2>2
<1>9. ~ closed => Len(out) = IF texts = <<>> THEN 1 ELSE Behind(Last(texts).at) - 1
  <2> SUFFICES ASSUME ~ closed
               PROVE  Len(out) = IF texts = <<>> THEN 1 ELSE Behind(Last(texts).at) - 1
    OBVIOUS
  <2>1. Len(out) + 1 = IF texts = <<>> THEN 2 ELSE Ends(Len(texts))
    BY <1>0 DEF Replied
  <2>2. CASE texts = <<>>
    <3>1. Len(out) + 1 = 2 /\ Len(out) \in Nat
      BY <1>1, <2>1, <2>2
    <3>2. Len(out) = 1
      <4>1. \A o \in Nat : o + 1 = 2 => o = 1
        OBVIOUS
      <4> QED
        BY <3>1, <4>1, Zenon
    <3> QED
      BY <2>2, <3>2
  <2>3. CASE texts # <<>>
    <3>1. Len(texts) \in DOMAIN texts
      BY <1>1, <2>3
    <3>2. Whole(Len(texts))
      BY <1>3, <3>1
    <3>3. Behind(Last(texts).at) = Ends(Len(texts))
      BY <1>5, <3>1, <3>2 DEF Last
    <3>4. Len(out) + 1 = Behind(Last(texts).at) /\ Len(out) \in Nat
      BY <1>1, <2>1, <2>3, <3>3
    <3>5. Len(out) = Behind(Last(texts).at) - 1
      <4> DEFINE o == Len(out)  e == Behind(Last(texts).at)
      <4>1. o + 1 = e /\ o \in Nat
        BY <3>4
      <4> HIDE DEF o, e
      <4>2. o = e - 1
        BY <4>1
      <4> QED
        BY <4>2 DEF o, e
    <3> QED
      BY <2>3, <3>5
  <2> QED
    BY <2>2, <2>3
<1> QED
  BY <1>2, <1>8, <1>9

LEMMA InvAlways ==
  Spec => []IInv
<1>1. Init => IInv
  BY InitInv
<1>2. IInv /\ [Next]_vars => IInv'
  BY NextInv
<1> QED
  BY <1>1, <1>2, PTL DEF Spec

\* recv_frame() returns what the client sent, whatever form the lengths have,
\* whatever the masks are and wherever the stream is cut.
THEOREM ReceivedAlways == Spec => []Received
<1>1. IInv => Received
  BY InvReceived
<1> QED
  BY <1>1, InvAlways, PTL

\* A client that follows the protocol reads the answer to its key and the texts
\* that send_frame() was given; only what follows a failed write is missing.
THEOREM RepliesReadableAlways == Spec => []RepliesReadable
<1>1. IInv => RepliesReadable
  BY InvReadable
<1> QED
  BY <1>1, InvAlways, PTL
=============================================================================
