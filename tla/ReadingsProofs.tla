---------------------------- MODULE ReadingsProofs ----------------------------
(***************************************************************************)
(* Proofs about Readings: for every content of the registers and every     *)
(* byte of a reading, not only those that a run enumerates.                *)
(***************************************************************************)
EXTENDS Readings, Mt6701RegsProofs, SequenceTheorems, TLAPS

-----------------------------------------------------------------------------
(***************************************************************************)
(* Sets of bits as numbers                                                 *)
(***************************************************************************)

\* The same bits in another place count as much.
LEMMA ByteAtShift ==
    ASSUME NEW x, NEW y, NEW i \in Int, NEW j \in Int,
           \A k \in 0 .. 7 : i + k \in x <=> j + k \in y
    PROVE  byte_at(x, i) = byte_at(y, j)
<1>1. /\ (i \in x <=> j \in y) /\ (i + 1 \in x <=> j + 1 \in y)
      /\ (i + 2 \in x <=> j + 2 \in y) /\ (i + 3 \in x <=> j + 3 \in y)
      /\ (i + 4 \in x <=> j + 4 \in y) /\ (i + 5 \in x <=> j + 5 \in y)
      /\ (i + 6 \in x <=> j + 6 \in y) /\ (i + 7 \in x <=> j + 7 \in y)
  OBVIOUS
<1>2. QED
  BY <1>1 DEF byte_at, bit

LEMMA ByteNumber ==
    ASSUME NEW x, x \subseteq 0 .. 7
    PROVE  number(x) = byte_at(x, 0) /\ number(x) \in Int /\ number(x) \in 0 .. 255
<1>1. byte_at(x, 8) = 0 /\ byte_at(x, 16) = 0 /\ byte_at(x, 24) = 0
  <2>1. x \cap 8 .. 8 + 7 = {} /\ x \cap 16 .. 16 + 7 = {} /\ x \cap 24 .. 24 + 7 = {}
    OBVIOUS
  <2>2. QED
    BY <2>1, ByteAtNone
<1>2. QED
  BY <1>1, ByteAtRange DEF number

\* Three bytes in a row, the most significant first.
InARow(x, b1, b2, b3) ==
    /\ x \subseteq 0 .. 23
    /\ \A k \in 0 .. 7 : /\ k \in x <=> k \in b3
                         /\ k + 8 \in x <=> k \in b2
                         /\ k + 16 \in x <=> k \in b1

number24(b1, b2, b3) == number(b1) * 65536 + number(b2) * 256 + number(b3)

LEMMA Number24 ==
    ASSUME NEW b1, NEW b2, NEW b3, b1 \subseteq 0 .. 7, b2 \subseteq 0 .. 7, b3 \subseteq 0 .. 7,
           NEW x, InARow(x, b1, b2, b3)
    PROVE  number(x) = number24(b1, b2, b3)
<1>a. /\ \A k \in 0 .. 7 : /\ k \in x <=> k \in b3
                           /\ k + 8 \in x <=> k \in b2
                           /\ k + 16 \in x <=> k \in b1
      /\ x \cap 24 .. 31 = {}
  BY DEF InARow
<1>1. byte_at(x, 0) = byte_at(b3, 0)
  <2>1. \A k \in 0 .. 7 : 0 + k \in x <=> 0 + k \in b3
    BY <1>a
  <2>2. QED
    BY <2>1, ByteAtShift
<1>2. byte_at(x, 8) = byte_at(b2, 0)
  <2>1. \A k \in 0 .. 7 : 8 + k \in x <=> 0 + k \in b2
    BY <1>a
  <2>2. QED
    BY <2>1, ByteAtShift
<1>3. byte_at(x, 16) = byte_at(b1, 0)
  <2>1. \A k \in 0 .. 7 : 16 + k \in x <=> 0 + k \in b1
    BY <1>a
  <2>2. QED
    BY <2>1, ByteAtShift
<1>4. byte_at(x, 24) = 0
  <2>1. x \cap 24 .. 24 + 7 = {}
    BY <1>a
  <2>2. QED
    BY <2>1, ByteAtNone
<1>5. number(b1) = byte_at(b1, 0) /\ number(b2) = byte_at(b2, 0) /\ number(b3) = byte_at(b3, 0)
  BY ByteNumber
<1>6. number(x) = byte_at(b3, 0) + 2^8 * byte_at(b2, 0) + 2^16 * byte_at(b1, 0) + 2^24 * 0
  BY <1>1, <1>2, <1>3, <1>4 DEF number
<1>7. byte_at(b1, 0) \in Int /\ byte_at(b2, 0) \in Int /\ byte_at(b3, 0) \in Int
  BY ByteAtRange
<1>8. QED
  BY <1>5, <1>6, <1>7 DEF number24

-----------------------------------------------------------------------------
(***************************************************************************)
(* The words that the server assembles                                     *)
(***************************************************************************)

\* A word is the two bytes in which it travels.
LEMMA WordTravels ==
    ASSUME NEW w \in Word
    PROVE  code(bytes(w)[1], bytes(w)[2]) = number(w)
<1>1. shr(w, 8) = { b - 8 : b \in w \cap 8 .. 15 } /\ uint8(w) = w \cap 0 .. 7
  BY WordBits
<1>2. \A b \in w : b \in 0 .. 15
  BY WordBits
<1>3. shl({ b - 8 : b \in w \cap 8 .. 15 }, 8) = w \cap 8 .. 15
  <2> DEFINE h == { b - 8 : b \in w \cap 8 .. 15 }
  <2>1. ASSUME NEW i \in shl(h, 8) PROVE i \in w \cap 8 .. 15
    <3>1. PICK k \in h : i = k + 8
      BY <2>1 DEF shl
    <3>2. PICK b \in w \cap 8 .. 15 : k = b - 8
      OBVIOUS
    <3>3. i = b
      BY <3>1, <3>2
    <3>4. QED
      BY <3>3
  <2>2. ASSUME NEW i \in w \cap 8 .. 15 PROVE i \in shl(h, 8)
    <3>1. i - 8 \in h /\ i = (i - 8) + 8
      OBVIOUS
    <3> HIDE DEF h
    <3>2. QED
      BY <3>1 DEF shl
  <2>3. QED
    BY <2>1, <2>2
<1>4. shl(shr(w, 8), 8) \cup uint8(w) = w
  BY <1>1, <1>2, <1>3
<1>5. QED
  BY <1>4 DEF code, bytes

\* Three bytes read in a row, the most significant first.
LEMMA Raw24 ==
    ASSUME NEW b1, NEW b2, NEW b3, b1 \subseteq 0 .. 7, b2 \subseteq 0 .. 7, b3 \subseteq 0 .. 7
    PROVE  InARow(raw24(<<b1, b2, b3>>), b1, b2, b3)
<1> DEFINE x == raw24(<<b1, b2, b3>>)
<1>1. x = { k + 16 : k \in b1 } \cup { k + 8 : k \in b2 } \cup b3
  BY DEF raw24, shl
<1>2. \A i : i \in x <=> i \in { k + 16 : k \in b1 } \/ i \in { k + 8 : k \in b2 } \/ i \in b3
  BY <1>1
<1>3. \A i : i \in { k + 16 : k \in b1 } => i \in 16 .. 23
  OBVIOUS
<1>4. \A i : i \in { k + 8 : k \in b2 } => i \in 8 .. 15
  OBVIOUS
<1>5. \A k \in 0 .. 7 : k + 16 \in { j + 16 : j \in b1 } <=> k \in b1
  OBVIOUS
<1>6. \A k \in 0 .. 7 : k + 8 \in { j + 8 : j \in b2 } <=> k \in b2
  OBVIOUS
<1> HIDE DEF x
<1>7. ASSUME NEW k \in 0 .. 7
      PROVE  (k \in x <=> k \in b3) /\ (k + 8 \in x <=> k \in b2) /\ (k + 16 \in x <=> k \in b1)
  <2>1. k \in x <=> k \in b3
    BY <1>2, <1>3, <1>4
  <2>2. k + 8 \in x <=> k \in b2
    BY <1>2, <1>3, <1>6
  <2>3. k + 16 \in x <=> k \in b1
    BY <1>2, <1>4, <1>5
  <2>4. QED
    BY <2>1, <2>2, <2>3
<1>8. ASSUME NEW i \in x PROVE i \in 0 .. 23
  <2>1. CASE i \in b3
    BY <2>1
  <2>2. QED
    BY <1>2, <1>3, <1>4, <2>1
<1>9. QED
  BY <1>7, <1>8 DEF x, InARow

\* A 20-bit number at the top of three bytes, brought to the right end of a word
\* with copies of its sign.
Aligned(b) == sar32(shl32(shr(raw24(b), 4), 12), 12)

LEMMA AlignedBits ==
    ASSUME NEW b1, NEW b2, NEW b3, b1 \subseteq 0 .. 7, b2 \subseteq 0 .. 7, b3 \subseteq 0 .. 7
    PROVE  LET x == Aligned(<<b1, b2, b3>>)
           IN  /\ \A i \in 0 .. 19 : i \in x <=> i + 4 \in raw24(<<b1, b2, b3>>)
               /\ \A i \in 20 .. 31 : i \in x <=> 7 \in b1
<1> DEFINE r == raw24(<<b1, b2, b3>>)
           s == shr(r, 4)
           l == shl32(s, 12)
           x == sar32(l, 12)
<1>1. r \subseteq 0 .. 23 /\ (23 \in r <=> 7 \in b1)
  <2>1. r \subseteq 0 .. 23 /\ \A k \in 0 .. 7 : k + 16 \in r <=> k \in b1
    BY Raw24 DEF InARow
  <2> HIDE DEF r
  <2>2. 7 + 16 \in r <=> 7 \in b1
    BY <2>1
  <2>3. QED
    BY <2>1, <2>2
<1> HIDE DEF r
<1>2. s \subseteq 0 .. 19 /\ \A i \in 0 .. 19 : i \in s <=> i + 4 \in r
  BY <1>1 DEF shr
<1> HIDE DEF s
<1>3. l \subseteq 12 .. 31 /\ \A i \in 0 .. 19 : i + 12 \in l <=> i \in s
  BY <1>2 DEF shl32, shl
<1> HIDE DEF l
<1>4. shr(l, 12) \subseteq 0 .. 19 /\ \A i \in 0 .. 19 : i \in shr(l, 12) <=> i + 12 \in l
  BY <1>3 DEF shr
<1>5. 31 \in l <=> 7 \in b1
  <2>1. 19 + 12 \in l <=> 19 \in s
    BY <1>3
  <2>2. 19 \in s <=> 19 + 4 \in r
    BY <1>2
  <2>3. QED
    BY <1>1, <2>1, <2>2
<1>6. \A i : i \in x <=> i \in shr(l, 12) \/ (31 \in l /\ i \in 32 - 12 .. 31)
  BY DEF sar32
<1> HIDE DEF x
<1>7. \A i \in 0 .. 19 : i \in x <=> i + 4 \in r
  BY <1>2, <1>3, <1>4, <1>6
<1>8. \A i \in 20 .. 31 : i \in x <=> 7 \in b1
  BY <1>4, <1>5, <1>6
<1>9. QED
  BY <1>7, <1>8 DEF Aligned, x, l, s, r

\* Four bits from bit i on.
nibble_at(x, i) == bit(x, i, 1) + bit(x, i + 1, 2) + bit(x, i + 2, 4) + bit(x, i + 3, 8)

LEMMA NibbleRange == \A x, i : nibble_at(x, i) \in 0 .. 15
BY DEF nibble_at, bit

LEMMA ByteNibbles == ASSUME NEW x, NEW i \in Int PROVE byte_at(x, i) = nibble_at(x, i) + 16 * nibble_at(x, i + 4)
<1>1. (i + 4) + 1 = i + 5 /\ (i + 4) + 2 = i + 6 /\ (i + 4) + 3 = i + 7
  OBVIOUS
<1>2. QED
  BY <1>1 DEF byte_at, nibble_at, bit

LEMMA NibbleShift ==
    ASSUME NEW x, NEW y, NEW i \in Int, NEW j \in Int,
           \A k \in 0 .. 3 : i + k \in x <=> j + k \in y
    PROVE  nibble_at(x, i) = nibble_at(y, j)
<1>1. /\ (i \in x <=> j \in y) /\ (i + 1 \in x <=> j + 1 \in y)
      /\ (i + 2 \in x <=> j + 2 \in y) /\ (i + 3 \in x <=> j + 3 \in y)
  OBVIOUS
<1>2. QED
  BY <1>1 DEF nibble_at, bit

\* All four bits are copies of a sign.
LEMMA NibbleFull ==
    ASSUME NEW x, NEW i \in Int, NEW b, \A k \in 0 .. 3 : i + k \in x <=> 7 \in b
    PROVE  nibble_at(x, i) = IF 7 \in b THEN 15 ELSE 0
<1>1. (i \in x <=> 7 \in b) /\ (i + 1 \in x <=> 7 \in b) /\ (i + 2 \in x <=> 7 \in b) /\ (i + 3 \in x <=> 7 \in b)
  OBVIOUS
<1>2. QED
  BY <1>1 DEF nibble_at, bit

\* The top bit of a byte is its sign.
LEMMA TopNibble ==
    ASSUME NEW b
    PROVE  IF 7 \in b THEN nibble_at(b, 4) \in 8 .. 15 ELSE nibble_at(b, 4) \in 0 .. 7
BY DEF nibble_at, bit

LEMMA NibbleComplement ==
    ASSUME NEW x, NEW i \in 0 .. 28
    PROVE  nibble_at(0 .. 31 \ x, i) = 15 - nibble_at(x, i)
<1>1. i \in 0 .. 31 /\ i + 1 \in 0 .. 31 /\ i + 2 \in 0 .. 31 /\ i + 3 \in 0 .. 31
  OBVIOUS
<1>2. QED
  BY <1>1 DEF nibble_at, bit

\* A number nibble by nibble.
LEMMA NumberNibbles ==
    ASSUME NEW x
    PROVE  number(x) = nibble_at(x, 0) + 16 * nibble_at(x, 4) + 256 * nibble_at(x, 8)
               + 4096 * nibble_at(x, 12) + 65536 * nibble_at(x, 16) + 1048576 * nibble_at(x, 20)
               + 16777216 * nibble_at(x, 24) + 268435456 * nibble_at(x, 28)
<1>1. /\ byte_at(x, 0) = nibble_at(x, 0) + 16 * nibble_at(x, 0 + 4)
      /\ byte_at(x, 8) = nibble_at(x, 8) + 16 * nibble_at(x, 8 + 4)
      /\ byte_at(x, 16) = nibble_at(x, 16) + 16 * nibble_at(x, 16 + 4)
      /\ byte_at(x, 24) = nibble_at(x, 24) + 16 * nibble_at(x, 24 + 4)
  BY ByteNibbles
<1>2. /\ nibble_at(x, 0) \in Int /\ nibble_at(x, 4) \in Int /\ nibble_at(x, 8) \in Int
      /\ nibble_at(x, 12) \in Int /\ nibble_at(x, 16) \in Int /\ nibble_at(x, 20) \in Int
      /\ nibble_at(x, 24) \in Int /\ nibble_at(x, 28) \in Int
  BY NibbleRange
<1>3. 0 + 4 = 4 /\ 8 + 4 = 12 /\ 16 + 4 = 20 /\ 24 + 4 = 28
  OBVIOUS
<1>4. QED
  BY <1>1, <1>2, <1>3 DEF number

\* The shifts of the signed readings yield the 20-bit two's complement number at
\* the top of the three bytes.
LEMMA SignedNumber ==
    ASSUME NEW b1, NEW b2, NEW b3, b1 \subseteq 0 .. 7, b2 \subseteq 0 .. 7, b3 \subseteq 0 .. 7
    PROVE  LET top20 == number(b1) * 4096 + number(b2) * 16 + number(b3) \div 16
           IN  int32(Aligned(<<b1, b2, b3>>)) = IF top20 >= 2^19 THEN top20 - 2^20 ELSE top20
<1> DEFINE r == raw24(<<b1, b2, b3>>)
           x == Aligned(<<b1, b2, b3>>)
           y == 0 .. 31 \ x
           top20 == number(b1) * 4096 + number(b2) * 16 + number(b3) \div 16
           u0 == nibble_at(b1, 0)
           u4 == nibble_at(b1, 4)
           v0 == nibble_at(b2, 0)
           v4 == nibble_at(b2, 4)
           w0 == nibble_at(b3, 0)
           w4 == nibble_at(b3, 4)
           sign == IF 7 \in b1 THEN 15 ELSE 0
<1>1. \A k \in 0 .. 7 : (k \in r <=> k \in b3) /\ (k + 8 \in r <=> k \in b2) /\ (k + 16 \in r <=> k \in b1)
  BY Raw24 DEF InARow
<1>2. (\A i \in 0 .. 19 : i \in x <=> i + 4 \in r) /\ (\A i \in 20 .. 31 : i \in x <=> 7 \in b1)
  BY AlignedBits
<1>3. 31 \in x <=> 7 \in b1
  BY <1>2
<1> HIDE DEF r, x
<1>4. nibble_at(x, 0) = w4
  <2>1. \A k \in 0 .. 3 : 0 + k \in x <=> 4 + k \in b3
    BY <1>1, <1>2
  <2>2. QED
    BY <2>1, NibbleShift
<1>5. nibble_at(x, 4) = v0
  <2>1. ASSUME NEW k \in 0 .. 3 PROVE 4 + k \in x <=> 0 + k \in b2
    <3>1. 4 + k \in x <=> (4 + k) + 4 \in r
      BY <1>2
    <3>2. (4 + k) + 4 = k + 8
      OBVIOUS
    <3>3. k + 8 \in r <=> k \in b2
      BY <1>1
    <3>4. QED
      BY <3>1, <3>2, <3>3
  <2>2. QED
    BY <2>1, NibbleShift
<1>6. nibble_at(x, 8) = v4
  <2>1. ASSUME NEW k \in 0 .. 3 PROVE 8 + k \in x <=> 4 + k \in b2
    <3>1. 8 + k \in x <=> (8 + k) + 4 \in r
      BY <1>2
    <3>2. (8 + k) + 4 = (4 + k) + 8
      OBVIOUS
    <3>3. (4 + k) + 8 \in r <=> 4 + k \in b2
      BY <1>1
    <3>4. QED
      BY <3>1, <3>2, <3>3
  <2>2. QED
    BY <2>1, NibbleShift
<1>7. nibble_at(x, 12) = u0
  <2>1. ASSUME NEW k \in 0 .. 3 PROVE 12 + k \in x <=> 0 + k \in b1
    <3>1. 12 + k \in x <=> (12 + k) + 4 \in r
      BY <1>2
    <3>2. (12 + k) + 4 = k + 16
      OBVIOUS
    <3>3. k + 16 \in r <=> k \in b1
      BY <1>1
    <3>4. QED
      BY <3>1, <3>2, <3>3
  <2>2. QED
    BY <2>1, NibbleShift
<1>8. nibble_at(x, 16) = u4
  <2>1. ASSUME NEW k \in 0 .. 3 PROVE 16 + k \in x <=> 4 + k \in b1
    <3>1. 16 + k \in x <=> (16 + k) + 4 \in r
      BY <1>2
    <3>2. (16 + k) + 4 = (4 + k) + 16
      OBVIOUS
    <3>3. (4 + k) + 16 \in r <=> 4 + k \in b1
      BY <1>1
    <3>4. QED
      BY <3>1, <3>2, <3>3
  <2>2. QED
    BY <2>1, NibbleShift
<1>9. nibble_at(x, 20) = sign /\ nibble_at(x, 24) = sign /\ nibble_at(x, 28) = sign
  <2>1. \A k \in 0 .. 3 : (20 + k \in x <=> 7 \in b1) /\ (24 + k \in x <=> 7 \in b1) /\ (28 + k \in x <=> 7 \in b1)
    BY <1>2
  <2>2. nibble_at(x, 20) = sign
    BY <2>1, NibbleFull
  <2>3. nibble_at(x, 24) = sign
    BY <2>1, NibbleFull
  <2>4. nibble_at(x, 28) = sign
    BY <2>1, NibbleFull
  <2>5. QED
    BY <2>2, <2>3, <2>4
<1>10. number(b1) = u0 + 16 * u4 /\ number(b2) = v0 + 16 * v4 /\ number(b3) = w0 + 16 * w4
  <2>1. number(b1) = byte_at(b1, 0) /\ number(b2) = byte_at(b2, 0) /\ number(b3) = byte_at(b3, 0)
    BY ByteNumber
  <2>2. byte_at(b1, 0) = u0 + 16 * u4 /\ byte_at(b2, 0) = v0 + 16 * v4 /\ byte_at(b3, 0) = w0 + 16 * w4
    BY ByteNibbles
  <2>3. QED
    BY <2>1, <2>2
<1>11. /\ u0 \in 0 .. 15 /\ u4 \in 0 .. 15 /\ v0 \in 0 .. 15 /\ v4 \in 0 .. 15 /\ w0 \in 0 .. 15 /\ w4 \in 0 .. 15
       /\ IF 7 \in b1 THEN u4 \in 8 .. 15 ELSE u4 \in 0 .. 7
  BY NibbleRange, TopNibble
<1>12. CASE 7 \notin b1
  <2>1. int32(x) = number(x) /\ sign = 0
    BY <1>3, <1>12 DEF int32
  <2>2. number(x) = w4 + 16 * v0 + 256 * v4 + 4096 * u0 + 65536 * u4 + 1048576 * sign + 16777216 * sign + 268435456 * sign
    BY <1>4, <1>5, <1>6, <1>7, <1>8, <1>9, NumberNibbles
  <2>3. u4 \in 0 .. 7
    BY <1>11, <1>12
  <2> HIDE DEF u0, u4, v0, v4, w0, w4, sign
  <2>4. top20 = w4 + 16 * v0 + 256 * v4 + 4096 * u0 + 65536 * u4
    BY <1>10, <1>11
  <2>5. number(x) = top20 /\ top20 \in Int /\ top20 < 2^19
    BY <1>11, <2>1, <2>2, <2>3, <2>4
  <2> HIDE DEF top20
  <2>6. QED
    BY <2>1, <2>5 DEF x, top20
<1>13. CASE 7 \in b1
  <2>1. int32(x) = -1 - number(y) /\ sign = 15
    BY <1>3, <1>13 DEF int32
  <2>2. /\ nibble_at(y, 0) = 15 - w4 /\ nibble_at(y, 4) = 15 - v0 /\ nibble_at(y, 8) = 15 - v4
        /\ nibble_at(y, 12) = 15 - u0 /\ nibble_at(y, 16) = 15 - u4 /\ nibble_at(y, 20) = 0
        /\ nibble_at(y, 24) = 0 /\ nibble_at(y, 28) = 0
    BY <1>4, <1>5, <1>6, <1>7, <1>8, <1>9, <2>1, NibbleComplement
  <2> HIDE DEF y
  <2>3. number(y) = (15 - w4) + 16 * (15 - v0) + 256 * (15 - v4) + 4096 * (15 - u0) + 65536 * (15 - u4)
                    + 1048576 * 0 + 16777216 * 0 + 268435456 * 0
    BY <2>2, NumberNibbles
  <2>4. u4 \in 8 .. 15
    BY <1>11, <1>13
  <2> HIDE DEF u0, u4, v0, v4, w0, w4, sign
  <2>5. top20 = w4 + 16 * v0 + 256 * v4 + 4096 * u0 + 65536 * u4
    BY <1>10, <1>11
  <2>6. -1 - number(y) = top20 - 2^20 /\ top20 >= 2^19
    BY <1>11, <2>3, <2>4, <2>5
  <2> HIDE DEF top20
  <2>7. QED
    BY <2>1, <2>6 DEF x, top20
<1>14. QED
  BY <1>12, <1>13

\* The 14 bits of the angle are 8 of the one byte and 6 of the other.
LEMMA SensorNumber ==
    ASSUME NEW b1, NEW b2, b1 \subseteq 0 .. 7, b2 \subseteq 0 .. 7
    PROVE  LET w == mt6701_sensor_read_raw(<<b1, b2>>)
           IN  /\ w \in Word
               /\ number(w) = number(b1) * 64 + (number(b2) % 64)
<1> DEFINE w == mt6701_sensor_read_raw(<<b1, b2>>)
           high == shl(b1, 6)
           low == bit(b2, 0, 1) + bit(b2, 1, 2) + bit(b2, 2, 4) + bit(b2, 3, 8) + bit(b2, 4, 16) + bit(b2, 5, 32)
<1>1. w = high \cup (b2 \cap 0 .. 5)
  BY DEF mt6701_sensor_read_raw
<1>2. high \subseteq 6 .. 13 /\ \A k \in 0 .. 7 : k + 6 \in high <=> k \in b1
  BY DEF shl
<1> HIDE DEF w, high
<1>3. w \subseteq 0 .. 13
  BY <1>1, <1>2
<1>4. /\ \A k \in 0 .. 7 : k + 6 \in w <=> k \in b1
      /\ \A k \in 0 .. 5 : k \in w <=> k \in b2
  BY <1>1, <1>2
<1>5. byte_at(w, 0) = low + 64 * bit(b1, 0, 1) + 128 * bit(b1, 1, 1)
  <2>1. /\ (0 \in w <=> 0 \in b2) /\ (1 \in w <=> 1 \in b2) /\ (2 \in w <=> 2 \in b2)
        /\ (3 \in w <=> 3 \in b2) /\ (4 \in w <=> 4 \in b2) /\ (5 \in w <=> 5 \in b2)
    BY <1>4
  <2>2. (0 + 6 \in w <=> 0 \in b1) /\ (1 + 6 \in w <=> 1 \in b1)
    BY <1>4
  <2>3. QED
    BY <2>1, <2>2 DEF byte_at, bit
<1>6. byte_at(w, 8) = bit(b1, 2, 1) + bit(b1, 3, 2) + bit(b1, 4, 4) + bit(b1, 5, 8) + bit(b1, 6, 16) + bit(b1, 7, 32)
  <2>1. /\ (2 + 6 \in w <=> 2 \in b1) /\ (3 + 6 \in w <=> 3 \in b1) /\ (4 + 6 \in w <=> 4 \in b1)
        /\ (5 + 6 \in w <=> 5 \in b1) /\ (6 + 6 \in w <=> 6 \in b1) /\ (7 + 6 \in w <=> 7 \in b1)
    BY <1>4
  <2>2. 14 \notin w /\ 15 \notin w
    BY <1>3
  <2>3. QED
    BY <2>1, <2>2 DEF byte_at, bit
<1>7. byte_at(w, 16) = 0 /\ byte_at(w, 24) = 0
  <2>1. w \cap 16 .. 16 + 7 = {} /\ w \cap 24 .. 24 + 7 = {}
    BY <1>3
  <2>2. QED
    BY <2>1, ByteAtNone
<1>8. number(b2) % 64 = low
  <2>1. number(b2) = byte_at(b2, 0)
    BY ByteNumber
  <2>2. byte_at(b2, 0) % 64 = low
    BY DEF byte_at, bit
  <2>3. QED
    BY <2>1, <2>2
<1>9. number(b1) * 64 = 64 * bit(b1, 0, 1) + 128 * bit(b1, 1, 1)
          + 256 * (bit(b1, 2, 1) + bit(b1, 3, 2) + bit(b1, 4, 4) + bit(b1, 5, 8) + bit(b1, 6, 16) + bit(b1, 7, 32))
  <2>1. number(b1) = byte_at(b1, 0)
    BY ByteNumber
  <2>2. QED
    BY <2>1 DEF byte_at, bit
<1>10. number(w) = byte_at(w, 0) + 256 * byte_at(w, 8)
  <2>1. number(w) = byte_at(w, 0) + 2^8 * byte_at(w, 8) + 2^16 * 0 + 2^24 * 0
    BY <1>7 DEF number
  <2>2. byte_at(w, 0) \in Int /\ byte_at(w, 8) \in Int
    BY ByteAtRange
  <2>3. QED
    BY <2>1, <2>2
<1>11. number(w) = number(b1) * 64 + (number(b2) % 64)
  <2>1. bit(b1, 0, 1) \in Int /\ bit(b1, 1, 1) \in Int /\ low \in Int
    BY DEF bit
  <2>2. byte_at(w, 8) \in Int
    BY ByteAtRange
  <2> HIDE DEF low
  <2>3. QED
    BY <1>5, <1>6, <1>8, <1>9, <1>10, <2>1, <2>2
<1>12. QED
  BY <1>3, <1>11 DEF Word, w

\* The two readings that are not shifted.
LEMMA PowerNumber ==
    ASSUME NEW b1, NEW b2, NEW b3, b1 \subseteq 0 .. 7, b2 \subseteq 0 .. 7, b3 \subseteq 0 .. 7
    PROVE  number(raw24(<<b1, b2, b3>>)) = number(b1) * 65536 + number(b2) * 256 + number(b3)
<1>1. InARow(raw24(<<b1, b2, b3>>), b1, b2, b3)
  BY Raw24
<1>2. number(raw24(<<b1, b2, b3>>)) = number24(b1, b2, b3)
  BY <1>1, Number24
<1>3. QED
  BY <1>2 DEF number24

LEMMA TemperatureNumber ==
    ASSUME NEW b1, NEW b2, b1 \subseteq 0 .. 7, b2 \subseteq 0 .. 7
    PROVE  number(shl(b1, 8) \cup b2) = number(b1) * 256 + number(b2)
<1> DEFINE high == shl(b1, 8)
           x == high \cup b2
           none == {}
<1>1. high \subseteq 8 .. 15 /\ \A k \in 0 .. 7 : k + 8 \in high <=> k \in b1
  BY DEF shl
<1> HIDE DEF high
<1>2. \A k \in 0 .. 7 : (k \in x <=> k \in b2) /\ (k + 8 \in x <=> k \in b1) /\ (k + 16 \in x <=> k \in none)
  BY <1>1
<1>3. x \subseteq 0 .. 23
  BY <1>1
<1>4. none \subseteq 0 .. 7 /\ number(none) = 0
  BY DEF number, byte_at, bit
<1> HIDE DEF x, none
<1>5. InARow(x, none, b1, b2)
  BY <1>2, <1>3 DEF InARow
<1>6. number(x) = number24(none, b1, b2)
  BY <1>4, <1>5, Number24
<1>7. number(b1) \in Int /\ number(b2) \in Int
  BY ByteNumber
<1>8. QED
  BY <1>4, <1>6, <1>7 DEF x, high, number24

-----------------------------------------------------------------------------
(***************************************************************************)
(* The invariant                                                           *)
(***************************************************************************)

\* The payload and what is shown are those of the request that was made: the
\* registers do not change while it is answered.
Inv ==
    /\ pc \in {"ask", "answer", "show", "prompt"}
    /\ m \in Image
    /\ failed \in BOOLEAN
    /\ IF pc = "ask" THEN ask = NoAsk ELSE ask \in Asks
    /\ pc \in {"show", "prompt"} => pld = Response
    /\ shown = IF pc = "prompt" THEN Printed ELSE Nothing

\* Writing a field back leaves registers that hold bytes.
LEMMA WriteBackImage ==
    ASSUME m \in Image, NEW reg \in Rewritten
    PROVE  Applied(m, WritesBack(reg)) \in Image
<1>1. \A n : word(n) \in Word
  BY DEF word, Word
<1>2. reg \in Regs /\ reg \notin {"ZERO", "A_START", "A_STOP"}
  BY RewrittenAssumption
<1>3. \E n : WritesBack(reg) = server_set_reg_value(reg, m, word(n))
  BY <1>2 DEF Regs, WritesBack, server_set_reg_value, mt6701_uvw_mux_write, mt6701_abz_mux_write,
      mt6701_dir_write, mt6701_uvw_res_write, mt6701_abz_res_write, mt6701_hyst_write,
      mt6701_z_pulse_width_write, mt6701_pwm_freq_write, mt6701_pwm_pol_write,
      mt6701_out_mode_write
<1>4. WritesBack(reg) \in Writes
  BY <1>1, <1>2, <1>3, WritesParts
<1> DEFINE s == WritesBack(reg)
<1> HIDE DEF s
<1>5. s \in Seq(Part) /\ Len(s) \in 1 .. 2
  BY <1>4 DEF s, Writes
<1>6. s[1] \in Part /\ (Len(s) = 2 => s[2] \in Part)
  BY <1>5
<1>7. put(m, s[1]) \in Image
  BY <1>6, PutImage
<1>8. Len(s) = 2 => put(put(m, s[1]), s[2]) \in Image
  BY <1>6, <1>7, PutImage
<1>9. QED
  BY <1>5, <1>7, <1>8 DEF Applied, s

LEMMA InvInit == Init => Inv
BY ImagesAssumption DEF Init, Inv

LEMMA InvNext == Inv /\ [Next]_vars => Inv'
<1> SUFFICES ASSUME Inv, [Next]_vars PROVE Inv'
  OBVIOUS
<1>1. ASSUME Ask PROVE Inv'
  BY <1>1 DEF Inv, Ask, Asks
<1>2. ASSUME Answer PROVE Inv'
  <2>1. Response' = Response
    BY <1>2 DEF Answer, Response
  <2>2. QED
    BY <1>2, <2>1 DEF Inv, Answer, Asks
<1>3. ASSUME Show PROVE Inv'
  <2>1. Response' = Response
    BY <1>3 DEF Show, Response
  <2>2. Printed' = Printed
    BY <1>3 DEF Show, Printed
  <2>3. QED
    BY <1>3, <2>1, <2>2 DEF Inv, Show, Asks
<1>4. ASSUME Prompt PROVE Inv'
  BY <1>4 DEF Inv, Prompt
<1>5. ASSUME WriteBack PROVE Inv'
  <2>1. m' \in Image
    BY <1>5, WriteBackImage DEF WriteBack, Inv
  <2>2. QED
    BY <1>5, <2>1 DEF Inv, WriteBack
<1>6. ASSUME UNCHANGED vars PROVE Inv'
  <2>1. Response' = Response /\ Printed' = Printed
    BY <1>6 DEF vars, Response, Printed
  <2>2. QED
    BY <1>6, <2>1 DEF Inv, vars, Asks
<1>7. QED
  BY <1>1, <1>2, <1>3, <1>4, <1>5, <1>6 DEF Next

LEMMA Invariance == Spec => []Inv
<1>1. QED
  BY InvInit, InvNext, PTL DEF Spec

-----------------------------------------------------------------------------
(***************************************************************************)
(* What the client shows of a reading                                      *)
(***************************************************************************)

\* The bytes that the server works on, those of a failed read included.
Held == IF failed THEN [i \in DOMAIN ask.holds |-> {}] ELSE ask.holds

Readings2 == {"READ_SENSOR", "READ_DIETEMP"}
Readings3 == {"READ_VBUS", "READ_VSHUNT", "READ_CURRENT", "READ_POWER"}

LEMMA AskCases ==
    ASSUME Inv, pc = "prompt"
    PROVE  /\ ask.cmd \in {"READ_CONFIG"} \cup Readings2 \cup Readings3
           /\ ask.cmd \in Readings2 => ask.holds \in Byte8 \X Byte8
           /\ ask.cmd \in Readings3 => ask.holds \in Byte8 \X Byte8 \X Byte8
BY BytesAssumption DEF Inv, Asks, Readings2, Readings3

LEMMA Held2 ==
    ASSUME Inv, pc = "prompt", ask.cmd \in Readings2
    PROVE  Held = <<Held[1], Held[2]>> /\ Held[1] \subseteq 0 .. 7 /\ Held[2] \subseteq 0 .. 7
<1>1. PICK b1 \in Byte8, b2 \in Byte8 : ask.holds = <<b1, b2>>
  BY AskCases
<1>2. [i \in DOMAIN <<b1, b2>> |-> {}] = << {}, {} >>
  OBVIOUS
<1>3. Held = << {}, {} >> \/ Held = <<b1, b2>>
  BY <1>1, <1>2 DEF Held
<1>4. QED
  BY <1>3 DEF Byte8

LEMMA Held3 ==
    ASSUME Inv, pc = "prompt", ask.cmd \in Readings3
    PROVE  /\ Held = <<Held[1], Held[2], Held[3]>>
           /\ Held[1] \subseteq 0 .. 7 /\ Held[2] \subseteq 0 .. 7 /\ Held[3] \subseteq 0 .. 7
<1>1. PICK b1 \in Byte8, b2 \in Byte8, b3 \in Byte8 : ask.holds = <<b1, b2, b3>>
  BY AskCases
<1>2. [i \in DOMAIN <<b1, b2, b3>> |-> {}] = << {}, {}, {} >>
  OBVIOUS
<1>3. Held = << {}, {}, {} >> \/ Held = <<b1, b2, b3>>
  BY <1>1, <1>2 DEF Held
<1>4. QED
  BY <1>3 DEF Byte8

\* The arithmetic of Meant, for any bytes.
signed20(b) ==
    LET top20 == number(b[1]) * 4096 + number(b[2]) * 16 + number(b[3]) \div 16
    IN  IF top20 >= 2^19 THEN top20 - 2^20 ELSE top20

LEMMA SignedRange ==
    ASSUME NEW b, b[1] \subseteq 0 .. 7, b[2] \subseteq 0 .. 7, b[3] \subseteq 0 .. 7
    PROVE  signed20(b) \in -(2^19) .. 2^19 - 1
<1> DEFINE n1 == number(b[1])
           n2 == number(b[2])
           n3 == number(b[3])
           top20 == n1 * 4096 + n2 * 16 + n3 \div 16
<1>1. n1 \in 0 .. 255 /\ n2 \in 0 .. 255 /\ n3 \in 0 .. 255
  BY ByteNumber
<1> HIDE DEF n1, n2, n3
<1>2. n3 \div 16 \in 0 .. 15
  BY <1>1
<1>3. top20 \in 0 .. 2^20 - 1
  BY <1>1, <1>2
<1>4. signed20(b) = IF top20 >= 2^19 THEN top20 - 2^20 ELSE top20
  BY DEF signed20, n1, n2, n3
<1> HIDE DEF top20
<1>5. QED
  BY <1>3, <1>4

LEMMA ShownAngle ==
    ASSUME Inv, pc = "prompt", ask.cmd = "READ_SENSOR"
    PROVE  shown = Reading(number(Held[1]) * 64 + (number(Held[2]) % 64), "360/16384")
<1> DEFINE w == mt6701_sensor_read_raw(Held)
<1>1. w \in Word /\ number(w) = number(Held[1]) * 64 + (number(Held[2]) % 64)
  BY Held2, SensorNumber DEF Readings2
<1>2. pld = bytes(w)
  BY DEF Inv, Response, Held
<1>3. code(pld[1], pld[2]) = number(w)
  BY <1>1, <1>2, WordTravels
<1>4. shown = Reading(code(pld[1], pld[2]), "360/16384")
  BY DEF Inv, Printed
<1>5. QED
  BY <1>1, <1>3, <1>4

LEMMA ShownSigned ==
    ASSUME Inv, pc = "prompt", ask.cmd \in {"READ_VBUS", "READ_VSHUNT", "READ_CURRENT"}
    PROVE  /\ shown.steps = signed20(Held)
           /\ shown.size = IF ask.cmd = "READ_VBUS" THEN "195.3125e-6"
                           ELSE IF ask.cmd = "READ_VSHUNT" THEN "78.125e-6" ELSE "0.000391"
<1>1. int32(Aligned(Held)) = signed20(Held)
  BY Held3, SignedNumber DEF Readings3, signed20
<1>2. shown = pld[1]
  BY DEF Inv, Printed
<1>3. CASE ask.cmd = "READ_VBUS"
  <2>1. pld = <<ina228_read_vbus(Held)>>
    BY <1>3 DEF Inv, Response, Held
  <2>2. QED
    BY <1>1, <1>2, <1>3, <2>1 DEF ina228_read_vbus, ina228_read_vbus_raw, Aligned, Reading
<1>4. CASE ask.cmd = "READ_VSHUNT"
  <2>1. pld = <<ina228_read_vshunt(Held)>>
    BY <1>4 DEF Inv, Response, Held
  <2>2. QED
    BY <1>1, <1>2, <1>4, <2>1 DEF ina228_read_vshunt, ina228_read_vshunt_raw, Aligned, Reading
<1>5. CASE ask.cmd = "READ_CURRENT"
  <2>1. pld = <<ina228_read_current(Held)>>
    BY <1>5 DEF Inv, Response, Held
  <2>2. QED
    BY <1>1, <1>2, <1>5, <2>1 DEF ina228_read_current, ina228_read_current_raw, Aligned, Reading
<1>6. QED
  BY <1>3, <1>4, <1>5

LEMMA ShownPower ==
    ASSUME Inv, pc = "prompt", ask.cmd = "READ_POWER"
    PROVE  shown = Reading(number(Held[1]) * 65536 + number(Held[2]) * 256 + number(Held[3]), "78.125e-6")
<1>1. pld = <<ina228_read_power(Held)>> /\ shown = pld[1]
  BY DEF Inv, Response, Printed, Held
<1>2. number(raw24(Held)) = number(Held[1]) * 65536 + number(Held[2]) * 256 + number(Held[3])
  BY Held3, PowerNumber DEF Readings3
<1>3. QED
  BY <1>1, <1>2 DEF ina228_read_power, ina228_read_power_raw

LEMMA ShownTemperature ==
    ASSUME Inv, pc = "prompt", ask.cmd = "READ_DIETEMP"
    PROVE  shown = Reading(number(Held[1]) * 256 + number(Held[2]), "7.8125e-3")
<1>1. pld = <<ina228_read_dietemp(Held)>> /\ shown = pld[1]
  BY DEF Inv, Response, Printed, Held
<1>2. number(shl(Held[1], 8) \cup Held[2]) = number(Held[1]) * 256 + number(Held[2])
  BY Held2, TemperatureNumber DEF Readings2
<1>3. QED
  BY <1>1, <1>2 DEF ina228_read_dietemp, ina228_read_dietemp_raw

\* The angle and the five readings of the INA228 that are not of temperatures
\* below zero are shown as the device means them, whatever the bytes: the
\* property ReadingsExact of mt6701_sensor_read_raw, ina228_read_*_raw,
\* server_handle_packet and client_handle_packet together.
THEOREM ReadingsAreExact == Spec => []ReadingsExact
<1>1. ASSUME Inv PROVE ReadingsExact
  <2> SUFFICES ASSUME pc = "prompt", ~failed, ask.cmd \in Readings2 \cup Readings3
               PROVE  shown.steps = Meant
    BY DEF ReadingsExact, Answered, Readings2, Readings3
  <2>1. Held = ask.holds
    BY DEF Held
  <2>2. CASE ask.cmd \in Readings2
    <3>1. PICK b1 \in Byte8, b2 \in Byte8 : ask.holds = <<b1, b2>>
      BY <1>1, <2>2, AskCases
    <3>2. CASE ask.cmd = "READ_SENSOR"
      <4>1. shown.steps = (number(b1) * 64) + (number(b2) % 64)
        BY <1>1, <2>1, <3>1, <3>2, ShownAngle DEF Reading
      <4>2. QED
        BY <3>1, <3>2, <4>1 DEF Meant
    <3>3. CASE ask.cmd = "READ_DIETEMP"
      <4>1. shown.steps = number(b1) * 256 + number(b2)
        BY <1>1, <2>1, <3>1, <3>3, ShownTemperature DEF Reading
      <4>2. QED
        BY <3>1, <3>3, <4>1 DEF Meant
    <3>4. QED
      BY <2>2, <3>2, <3>3 DEF Readings2
  <2>3. CASE ask.cmd \in Readings3
    <3>1. PICK b1 \in Byte8, b2 \in Byte8, b3 \in Byte8 : ask.holds = <<b1, b2, b3>>
      BY <1>1, <2>3, AskCases
    <3>2. CASE ask.cmd = "READ_POWER"
      <4>1. shown.steps = number(b1) * 65536 + number(b2) * 256 + number(b3)
        BY <1>1, <2>1, <3>1, <3>2, ShownPower DEF Reading
      <4>2. QED
        BY <3>1, <3>2, <4>1 DEF Meant
    <3>3. CASE ask.cmd # "READ_POWER"
      <4>1. shown.steps = signed20(<<b1, b2, b3>>)
        BY <1>1, <2>1, <2>3, <3>1, <3>3, ShownSigned DEF Readings3
      <4>2. QED
        BY <2>3, <3>1, <3>3, <4>1 DEF Meant, signed20, Readings3
    <3>4. QED
      BY <3>2, <3>3
  <2>4. QED
    BY <2>2, <2>3
<1>2. QED
  BY <1>1, Invariance, PTL

-----------------------------------------------------------------------------
(***************************************************************************)
(* What the client shows of the configuration                              *)
(***************************************************************************)

\* The codes that have a table, or a 1 to add, are within it.
LEMMA CodeBits ==
    ASSUME NEW image \in Image
    PROVE  /\ mt6701_uvw_res_read_raw(image) \subseteq 0 .. 3
           /\ mt6701_abz_res_read_raw(image) \subseteq 0 .. 9
           /\ mt6701_hyst_read_raw(image) \subseteq 0 .. 2
           /\ mt6701_z_pulse_width_read_raw(image) \subseteq 0 .. 2
           /\ mt6701_zero_read_raw(image) \subseteq 0 .. 11
           /\ mt6701_a_start_read_raw(image) \subseteq 0 .. 11
           /\ mt6701_a_stop_read_raw(image) \subseteq 0 .. 11
<1>1. /\ image[R31] \subseteq 0 .. 7 /\ image[R33] \subseteq 0 .. 7
      /\ image[R3F] \subseteq 0 .. 7 /\ image[R40] \subseteq 0 .. 7
  BY DEF Image, Byte8, Addr
<1>2. mt6701_uvw_res_read_raw(image) \subseteq 0 .. 3
  BY DEF mt6701_uvw_res_read_raw
<1>3. mt6701_abz_res_read_raw(image) \subseteq 0 .. 9
  BY <1>1 DEF mt6701_abz_res_read_raw, shl
<1>4. mt6701_hyst_read_raw(image) \subseteq 0 .. 2
  BY DEF mt6701_hyst_read_raw, shl
<1>5. mt6701_z_pulse_width_read_raw(image) \subseteq 0 .. 2
  BY DEF mt6701_z_pulse_width_read_raw, shr
<1>6. mt6701_zero_read_raw(image) \subseteq 0 .. 11
  BY <1>1 DEF mt6701_zero_read_raw, shr
<1>7. mt6701_a_start_read_raw(image) \subseteq 0 .. 11
  BY <1>1 DEF mt6701_a_start_read_raw, shr
<1>8. mt6701_a_stop_read_raw(image) \subseteq 0 .. 11
  BY <1>1 DEF mt6701_a_stop_read_raw, shl
<1>9. QED
  BY <1>2, <1>3, <1>4, <1>5, <1>6, <1>7, <1>8

\* The code that the client receives.
received(reg, image) == number(server_get_reg_value(reg, image))

LEMMA ReceivedBelow ==
    ASSUME NEW image \in Image, NEW reg
    PROVE  /\ Within(received(reg, image), 65535)
           /\ reg \in {"HYST", "Z_PULSE_WIDTH"} => received(reg, image) \in 0 .. 7
           /\ reg = "UVW_RES" => received(reg, image) \in 0 .. 15
           /\ reg = "ABZ_RES" => Within(received(reg, image), 1023)
           /\ reg \in {"ZERO", "A_START", "A_STOP"} => Within(received(reg, image), 4095)
<1>1. server_get_reg_value(reg, image) \in Word
  BY RegValueWord
<1>2. /\ reg \in {"HYST", "Z_PULSE_WIDTH"} => server_get_reg_value(reg, image) \subseteq 0 .. 2
      /\ reg = "UVW_RES" => server_get_reg_value(reg, image) \subseteq 0 .. 3
      /\ reg = "ABZ_RES" => server_get_reg_value(reg, image) \subseteq 0 .. 9
      /\ reg \in {"ZERO", "A_START", "A_STOP"} => server_get_reg_value(reg, image) \subseteq 0 .. 11
  BY CodeBits DEF server_get_reg_value
<1>3. QED
  BY <1>1, <1>2, NumberBelow DEF received

HystUnits == {0, 1, 2, 4, 8, 16, 32}
WidthUnits == {1, 2, 4, 8, 12, 16, 180}

\* The two tables of the client have an entry for every code of three bits.
LEMMA TableEntries ==
    ASSUME NEW n \in 0 .. 7
    PROVE  /\ conver_hyst(n) = hyst_values[n + 1] /\ conver_hyst(n) \in HystUnits
           /\ convert_z_pulse_width(n) = z_pulse_width_values[n + 1]
           /\ convert_z_pulse_width(n) \in WidthUnits
<1> DEFINE hyst == hyst_values
           width == z_pulse_width_values
<1>1. conver_hyst(n) = IF n < 8 THEN hyst[n + 1] ELSE 0
  BY DEF conver_hyst, lookup, hyst_values
<1>2. convert_z_pulse_width(n) = IF n < 8 THEN width[n + 1] ELSE 0
  BY DEF convert_z_pulse_width, lookup, z_pulse_width_values
<1>3. hyst \in [1 .. 8 -> HystUnits]
  BY DEF hyst_values, HystUnits
<1>4. width \in [1 .. 8 -> WidthUnits]
  BY DEF z_pulse_width_values, WidthUnits
<1> HIDE DEF hyst, width
<1>5. n < 8 /\ n + 1 \in 1 .. 8
  OBVIOUS
<1>6. hyst[n + 1] \in HystUnits /\ width[n + 1] \in WidthUnits
  BY <1>3, <1>4, <1>5
<1>7. QED
  BY <1>1, <1>2, <1>5, <1>6 DEF hyst, width

LEMMA ConvertedBelow ==
    ASSUME NEW reg, NEW n, Within(n, 65535),
           reg \in {"HYST", "Z_PULSE_WIDTH"} => n \in 0 .. 7,
           reg \in {"ZERO", "A_START", "A_STOP"} => Within(n, 4095)
    PROVE  Within(client_convert_reg_value(reg, n), 319488)
<1> DEFINE shows == client_convert_reg_value(reg, n)
<1>1. CASE reg = "HYST"
  <2>1. shows = conver_hyst(n)
    BY <1>1 DEF client_convert_reg_value
  <2>2. conver_hyst(n) \in HystUnits
    BY <1>1, TableEntries
  <2> HIDE DEF shows
  <2>3. Within(shows, 319488)
    BY <2>1, <2>2 DEF HystUnits, Within
  <2>4. QED
    BY <2>3 DEF shows
<1>2. CASE reg = "Z_PULSE_WIDTH"
  <2>1. shows = convert_z_pulse_width(n)
    BY <1>2 DEF client_convert_reg_value
  <2>2. convert_z_pulse_width(n) \in WidthUnits
    BY <1>2, TableEntries
  <2> HIDE DEF shows
  <2>3. Within(shows, 319488)
    BY <2>1, <2>2 DEF WidthUnits, Within
  <2>4. QED
    BY <2>3 DEF shows
<1>3. CASE reg \in {"ZERO", "A_START", "A_STOP"}
  <2>1. shows = n * 78
    BY <1>3 DEF client_convert_reg_value
  <2> HIDE DEF shows
  <2>2. Within(shows, 319488)
    BY <1>3, <2>1 DEF Within
  <2>3. QED
    BY <2>2 DEF shows
<1>4. CASE reg \in {"UVW_MUX", "ABZ_MUX", "DIR", "PWM_POL", "OUT_MODE"}
  <2>1. shows = n
    BY <1>4 DEF client_convert_reg_value
  <2> HIDE DEF shows
  <2>2. Within(shows, 319488)
    BY <2>1 DEF Within
  <2>3. QED
    BY <2>2 DEF shows
<1>5. CASE reg \in {"UVW_RES", "ABZ_RES"}
  <2>1. shows = n + 1
    BY <1>5 DEF client_convert_reg_value
  <2> HIDE DEF shows
  <2>2. Within(shows, 319488)
    BY <2>1 DEF Within
  <2>3. QED
    BY <2>2 DEF shows
<1>6. CASE reg = "PWM_FREQ"
  <2>1. shows = 9944 \/ shows = 4972
    BY <1>6 DEF client_convert_reg_value
  <2> HIDE DEF shows
  <2>2. Within(shows, 319488)
    BY <2>1 DEF Within
  <2>3. QED
    BY <2>2 DEF shows
<1>7. CASE reg \notin Regs
  <2>1. shows = 0
    BY <1>7 DEF client_convert_reg_value, Regs
  <2> HIDE DEF shows
  <2>2. Within(shows, 319488)
    BY <2>1 DEF Within
  <2>3. QED
    BY <2>2 DEF shows
<1>8. QED
  BY <1>1, <1>2, <1>3, <1>4, <1>5, <1>6, <1>7 DEF Regs

LEMMA ConvertedRange ==
    ASSUME NEW image \in Image, NEW reg
    PROVE  Within(client_convert_reg_value(reg, received(reg, image)), 319488)
<1> DEFINE n == received(reg, image)
<1>1. /\ Within(n, 65535)
      /\ reg \in {"HYST", "Z_PULSE_WIDTH"} => n \in 0 .. 7
      /\ reg \in {"ZERO", "A_START", "A_STOP"} => Within(n, 4095)
  BY ReceivedBelow
<1> HIDE DEF n
<1>2. Within(client_convert_reg_value(reg, n), 319488)
  BY <1>1, ConvertedBelow
<1>3. QED
  BY <1>2 DEF n

LEMMA ConvertedAlike ==
    ASSUME NEW image \in Image, NEW reg \in Regs \ {"PWM_FREQ"}
    PROVE  client_convert_reg_value(reg, received(reg, image)) = mt6701_log_eeprom(image)[reg]
<1> DEFINE n == received(reg, image)
           log == mt6701_log_eeprom(image)[reg]
<1>1. CASE reg \in {"UVW_MUX", "ABZ_MUX", "DIR", "PWM_POL", "OUT_MODE"}
  <2>1. log = n
    BY <1>1 DEF mt6701_log_eeprom, received, server_get_reg_value, mt6701_uvw_mux_read,
        mt6701_abz_mux_read, mt6701_dir_read, mt6701_pwm_pol_read, mt6701_out_mode_read, Regs
  <2> HIDE DEF log, n
  <2>2. client_convert_reg_value(reg, n) = n
    BY <1>1 DEF client_convert_reg_value
  <2>3. QED
    BY <2>1, <2>2 DEF log, n
<1>2. CASE reg = "UVW_RES"
  <2>1. log = (n + 1) % 2^8
    BY <1>2 DEF mt6701_log_eeprom, received, server_get_reg_value, mt6701_uvw_res_read, Regs
  <2>2. n \in 0 .. 15
    BY <1>2, ReceivedBelow
  <2> HIDE DEF log, n
  <2>3. log = n + 1
    BY <2>1, <2>2
  <2>4. client_convert_reg_value(reg, n) = n + 1
    BY <1>2 DEF client_convert_reg_value
  <2>5. QED
    BY <2>3, <2>4 DEF log, n
<1>3. CASE reg = "ABZ_RES"
  <2>1. log = (n + 1) % 2^16
    BY <1>3 DEF mt6701_log_eeprom, received, server_get_reg_value, mt6701_abz_res_read, Regs
  <2>2. Within(n, 1023)
    BY <1>3, ReceivedBelow
  <2> HIDE DEF log, n
  <2>3. log = n + 1
    BY <2>1, <2>2 DEF Within
  <2>4. client_convert_reg_value(reg, n) = n + 1
    BY <1>3 DEF client_convert_reg_value
  <2>5. QED
    BY <2>3, <2>4 DEF log, n
<1>4. CASE reg = "HYST"
  <2>1. log = hyst_values[n + 1]
    BY <1>4 DEF mt6701_log_eeprom, received, server_get_reg_value, mt6701_hyst_read, Regs
  <2>2. n \in 0 .. 7
    BY <1>4, ReceivedBelow
  <2> HIDE DEF log, n
  <2>3. client_convert_reg_value(reg, n) = conver_hyst(n)
    BY <1>4 DEF client_convert_reg_value
  <2>4. QED
    BY <2>1, <2>2, <2>3, TableEntries DEF log, n
<1>5. CASE reg = "Z_PULSE_WIDTH"
  <2>1. log = z_pulse_width_values[n + 1]
    BY <1>5 DEF mt6701_log_eeprom, received, server_get_reg_value, mt6701_z_pulse_width_read, Regs
  <2>2. n \in 0 .. 7
    BY <1>5, ReceivedBelow
  <2> HIDE DEF log, n
  <2>3. client_convert_reg_value(reg, n) = convert_z_pulse_width(n)
    BY <1>5 DEF client_convert_reg_value
  <2>4. QED
    BY <2>1, <2>2, <2>3, TableEntries DEF log, n
<1>6. CASE reg \in {"ZERO", "A_START", "A_STOP"}
  <2>1. log = n * 78
    BY <1>6 DEF mt6701_log_eeprom, received, server_get_reg_value, mt6701_zero_read,
        mt6701_a_start_read, mt6701_a_stop_read, Regs
  <2> HIDE DEF log, n
  <2>2. client_convert_reg_value(reg, n) = n * 78
    BY <1>6 DEF client_convert_reg_value
  <2>3. QED
    BY <2>1, <2>2 DEF log, n
<1>7. QED
  BY <1>1, <1>2, <1>3, <1>4, <1>5, <1>6 DEF Regs

LEMMA ShownConfig ==
    ASSUME Inv, pc = "prompt", ask.cmd = "READ_CONFIG"
    PROVE  \E image \in Image :
               /\ ~failed => image = m
               /\ shown = Reading(client_convert_reg_value(ask.reg, received(ask.reg, image)), "unit")
<1> DEFINE image == IF failed THEN ZeroImage ELSE m
           w == server_get_reg_value(ask.reg, image)
<1>1. image \in Image /\ (~failed => image = m)
  BY ZeroIsImage DEF Inv
<1>2. pld = <<ask.reg>> \o bytes(w)
  BY DEF Inv, Response
<1>3. shown = Reading(client_convert_reg_value(pld[1], code(pld[2], pld[3])), "unit")
  BY DEF Inv, Printed
<1> HIDE DEF image
<1>4. w \in Word
  BY <1>1, RegValueWord
<1> HIDE DEF w
<1>5. pld[1] = ask.reg /\ pld[2] = bytes(w)[1] /\ pld[3] = bytes(w)[2]
  BY <1>2 DEF bytes
<1>6. code(pld[2], pld[3]) = number(w)
  BY <1>4, <1>5, WordTravels
<1>7. shown = Reading(client_convert_reg_value(ask.reg, received(ask.reg, image)), "unit")
  BY <1>3, <1>5, <1>6 DEF received, w
<1>8. QED
  BY <1>1, <1>7

\* The client shows every field but PWM_FREQ in the units in which i2c_control.c
\* itself reads it, whatever the registers hold: client_convert_reg_value on one
\* side, the mt6701_*_read functions on the other.
THEOREM ConfigsAgree == Spec => []ConfigAgrees
<1>1. ASSUME Inv PROVE ConfigAgrees
  <2> SUFFICES ASSUME pc = "prompt", ~failed, ask.cmd = "READ_CONFIG",
                      ask.reg \in Regs \ {"PWM_FREQ"}
               PROVE  shown.steps = mt6701_log_eeprom(m)[ask.reg]
    BY DEF ConfigAgrees, Answered
  <2>1. m \in Image
    BY <1>1 DEF Inv
  <2>2. shown = Reading(client_convert_reg_value(ask.reg, received(ask.reg, m)), "unit")
    BY <1>1, ShownConfig
  <2>3. QED
    BY <2>1, <2>2, ConvertedAlike DEF Reading
<1>2. QED
  BY <1>1, Invariance, PTL

\* What Within says of the ranges of TypeOK.
LEMMA StepsWithin ==
    ASSUME NEW n
    PROVE  /\ Within(n, 319488) => n \in Steps("unit")
           /\ Within(n, 16383) => n \in Steps("360/16384")
           /\ Within(n, 65535) => n \in Steps("7.8125e-3")
           /\ Within(n, 16777215) => n \in Steps("78.125e-6")
<1>1. 2^12 = 4096 /\ 2^14 = 16384 /\ 2^16 = 65536 /\ 2^19 = 524288 /\ 2^24 = 16777216
  OBVIOUS
<1>2. 2^12 * 78 = 319488
  BY <1>1, SMT
<1> DEFINE units == 0 .. 2^12 * 78
           angles == 0 .. 2^14 - 1
           degrees == 0 .. 2^16 - 1
           powers == -(2^19) .. 2^24 - 1
<1>3. /\ Within(n, 319488) => n \in units
      /\ Within(n, 16383) => n \in angles
      /\ Within(n, 65535) => n \in degrees
      /\ Within(n, 16777215) => n \in powers
  BY <1>1, <1>2, SMT DEF Within
<1>4. /\ Steps("unit") = units
      /\ Steps("360/16384") = angles
      /\ Steps("7.8125e-3") = degrees
      /\ Steps("78.125e-6") = powers
  BY Zenon DEF Steps
<1> HIDE DEF units, angles, degrees, powers
<1>5. QED
  BY <1>3, <1>4, SMT

\* What is shown is in the range of its reading, of a failed one too.
THEOREM ReadingsTypeCorrect == Spec => []TypeOK
<1>1. ASSUME Inv PROVE TypeOK
  <2>1. /\ pc \in {"ask", "answer", "show", "prompt"} /\ m \in Image
        /\ ask \in Asks \cup {NoAsk} /\ failed \in BOOLEAN
    BY <1>1 DEF Inv
  <2>2. CASE pc # "prompt"
    <3>1. shown.steps = 0 /\ shown.size = "none"
      BY <1>1, <2>2 DEF Inv, Nothing, Reading
    <3>2. QED
      BY <2>1, <3>1 DEF TypeOK, Steps
  <2>3. CASE pc = "prompt"
    <3>1. shown.steps \in Steps(shown.size)
      <4>1. CASE ask.cmd = "READ_CONFIG"
        <5>1. Within(shown.steps, 319488) /\ shown.size = "unit"
          BY <1>1, <2>3, <4>1, ShownConfig, ConvertedRange DEF Reading
        <5>2. QED
          BY <5>1, StepsWithin
      <4>2. CASE ask.cmd \in Readings2
        <5> DEFINE n1 == number(Held[1])
                   n2 == number(Held[2])
                   low == n2 % 64
        <5>1. n1 \in Int /\ n1 \in 0 .. 255 /\ n2 \in Int /\ n2 \in 0 .. 255
          BY <1>1, <2>3, <4>2, Held2, ByteNumber
        <5> HIDE DEF n1, n2
        <5>a. low \in Int /\ 0 <= low /\ low <= 63
          BY <5>1
        <5> HIDE DEF low
        <5>b. Within((n1 * 64) + low, 16383) /\ Within(n1 * 256 + n2, 65535)
          BY <5>1, <5>a DEF Within
        <5>2. /\ Within((number(Held[1]) * 64) + (number(Held[2]) % 64), 16383)
              /\ Within(number(Held[1]) * 256 + number(Held[2]), 65535)
          BY <5>b DEF n1, n2, low
        <5>3. CASE ask.cmd = "READ_SENSOR"
          <6>1. Within(shown.steps, 16383) /\ shown.size = "360/16384"
            BY <1>1, <2>3, <5>2, <5>3, ShownAngle DEF Reading
          <6>2. QED
            BY <6>1, StepsWithin
        <5>4. CASE ask.cmd = "READ_DIETEMP"
          <6>1. Within(shown.steps, 65535) /\ shown.size = "7.8125e-3"
            BY <1>1, <2>3, <5>2, <5>4, ShownTemperature DEF Reading
          <6>2. QED
            BY <6>1, StepsWithin
        <5>5. QED
          BY <4>2, <5>3, <5>4 DEF Readings2
      <4>3. CASE ask.cmd = "READ_POWER"
        <5> DEFINE n1 == number(Held[1])
                   n2 == number(Held[2])
                   n3 == number(Held[3])
        <5>1. /\ n1 \in Int /\ n2 \in Int /\ n3 \in Int
              /\ n1 \in 0 .. 255 /\ n2 \in 0 .. 255 /\ n3 \in 0 .. 255
          BY <1>1, <2>3, <4>3, Held3, ByteNumber DEF Readings3
        <5> HIDE DEF n1, n2, n3
        <5>a. Within(n1 * 65536 + n2 * 256 + n3, 16777215)
          BY <5>1 DEF Within
        <5>2. Within(number(Held[1]) * 65536 + number(Held[2]) * 256 + number(Held[3]), 16777215)
          BY <5>a DEF n1, n2, n3
        <5>3. Within(shown.steps, 16777215) /\ shown.size = "78.125e-6"
          BY <1>1, <2>3, <4>3, <5>2, ShownPower DEF Reading
        <5>4. QED
          BY <5>3, StepsWithin
      <4>4. CASE ask.cmd \in {"READ_VBUS", "READ_VSHUNT", "READ_CURRENT"}
        <5>1. shown.steps \in -(2^19) .. 2^19 - 1
          BY <1>1, <2>3, <4>4, ShownSigned, SignedRange, Held3 DEF Readings3
        <5>2. shown.steps \in -(2^19) .. 2^24 - 1
          BY <5>1
        <5>3. shown.size \in {"195.3125e-6", "78.125e-6", "0.000391"}
          BY <1>1, <2>3, <4>4, ShownSigned
        <5>4. QED
          BY <5>1, <5>2, <5>3 DEF Steps
      <4>5. QED
        BY <1>1, <2>3, <4>1, <4>2, <4>3, <4>4, AskCases DEF Readings3
    <3>2. QED
      BY <2>1, <3>1 DEF TypeOK
  <2>4. QED
    BY <2>2, <2>3
<1>2. QED
  BY <1>1, Invariance, PTL

-----------------------------------------------------------------------------
(***************************************************************************)
(* Writing back what was read                                              *)
(***************************************************************************)

\* The two resolutions are read from all of their bits.
LEMMA ResolutionBits ==
    ASSUME NEW x \in Image, NEW y \in Image, NEW reg \in Overlap,
           server_get_reg_value(reg, x) = server_get_reg_value(reg, y)
    PROVE  \A a \in Addr : x[a] \cap OwnBits(reg, a) = y[a] \cap OwnBits(reg, a)
<1>1. x[R31] \subseteq 0 .. 7 /\ y[R31] \subseteq 0 .. 7
  BY DEF Image, Byte8, Addr
<1>2. CASE reg = "UVW_RES"
  <2>1. x[R30] \cap 0 .. 3 = y[R30] \cap 0 .. 3
    BY <1>2 DEF server_get_reg_value, mt6701_uvw_res_read_raw
  <2>2. \A a \in Addr : a # R30 => OwnBits(reg, a) = {}
    BY <1>2 DEF OwnBits
  <2>3. OwnBits(reg, R30) = 0 .. 3
    BY <1>2, OwnBitsOf
  <2>4. QED
    BY <2>1, <2>2, <2>3
<1>3. CASE reg = "ABZ_RES"
  <2> DEFINE hx == shl(x[R30] \cap {0, 1}, 8)
             hy == shl(y[R30] \cap {0, 1}, 8)
  <2>1. hx \cup x[R31] = hy \cup y[R31]
    BY <1>3 DEF server_get_reg_value, mt6701_abz_res_read_raw
  <2>2. /\ \A i \in hx : i \in {8, 9}
        /\ \A i \in hy : i \in {8, 9}
        /\ (8 \in hx <=> 0 \in x[R30]) /\ (9 \in hx <=> 1 \in x[R30])
        /\ (8 \in hy <=> 0 \in y[R30]) /\ (9 \in hy <=> 1 \in y[R30])
    BY DEF shl
  <2> HIDE DEF hx, hy
  <2>3. \A i \in 0 .. 7 : i \in x[R31] <=> i \in y[R31]
    BY <2>1, <2>2
  <2>4. x[R31] = y[R31]
    BY <1>1, <2>3
  <2>5. (0 \in x[R30] <=> 0 \in y[R30]) /\ (1 \in x[R30] <=> 1 \in y[R30])
    BY <1>1, <2>1, <2>2
  <2>6. x[R30] \cap {0, 1} = y[R30] \cap {0, 1}
    BY <2>5
  <2>7. \A a \in Addr : a \notin {R30, R31} => OwnBits(reg, a) = {}
    BY <1>3 DEF OwnBits
  <2>8. OwnBits(reg, R30) = {0, 1}
    BY <1>3, OwnBitsOf
  <2>9. QED
    BY <2>4, <2>6, <2>7, <2>8
<1>4. QED
  BY <1>2, <1>3 DEF Overlap

\* A field reads the same when the bits of another field that were written hold
\* what they held, or are not its own.
LEMMA OthersReadAlike ==
    ASSUME NEW x \in Image, NEW y \in Image, NEW reg \in Regs, NEW q \in Regs \ {reg},
           \A a \in Addr : y[a] \ OwnBits(reg, a) = x[a] \ OwnBits(reg, a),
           reg \in Overlap => server_get_reg_value(reg, y) = server_get_reg_value(reg, x)
    PROVE  server_get_reg_value(q, y) = server_get_reg_value(q, x)
<1>1. CASE reg \in Overlap
  <2>1. \A a \in Addr : y[a] \cap OwnBits(reg, a) = x[a] \cap OwnBits(reg, a)
    BY <1>1, ResolutionBits
  <2>2. \A a \in Addr : y[a] = x[a]
    BY <2>1
  <2>3. QED
    BY <2>2, ReadsOwnBits
<1>2. CASE reg \notin Overlap
  <2>1. \A a \in Addr : OwnBits(reg, a) \cap OwnBits(q, a) = {}
    BY <1>2, OwnBitsApart
  <2>2. \A a \in Addr : y[a] \cap OwnBits(q, a) = x[a] \cap OwnBits(q, a)
    BY <2>1
  <2>3. QED
    BY <2>2, ReadsOwnBits
<1>3. QED
  BY <1>1, <1>2

\* A field in units depends on its code only.
LEMMA UnitsOfCode ==
    ASSUME NEW x, NEW y, NEW reg \in Regs,
           server_get_reg_value(reg, x) = server_get_reg_value(reg, y)
    PROVE  mt6701_log_eeprom(x)[reg] = mt6701_log_eeprom(y)[reg]
BY DEF Regs, server_get_reg_value, mt6701_log_eeprom, mt6701_uvw_mux_read, mt6701_abz_mux_read,
    mt6701_dir_read, mt6701_uvw_res_read, mt6701_abz_res_read, mt6701_hyst_read,
    mt6701_z_pulse_width_read, mt6701_zero_read, mt6701_pwm_freq_read, mt6701_pwm_pol_read,
    mt6701_out_mode_read, mt6701_a_stop_read, mt6701_a_start_read

\* The bits of a number of at most ten bits are those it was made of.
LEMMA WordNumber ==
    ASSUME NEW x, x \subseteq 0 .. 9
    PROVE  word(number(x)) = x
<1> DEFINE n == number(x)
           low == byte_at(x, 0)
           high == bit(x, 8, 1) + bit(x, 9, 2)
<1>1. byte_at(x, 8) = high
  BY DEF byte_at, bit
<1>2. byte_at(x, 16) = 0 /\ byte_at(x, 24) = 0
  <2>1. x \cap 16 .. 16 + 7 = {} /\ x \cap 24 .. 24 + 7 = {}
    OBVIOUS
  <2>2. QED
    BY <2>1, ByteAtNone
<1>3. low \in Int /\ high \in Int
  BY ByteAtRange DEF bit
<1>4. n = low + 256 * high
  <2>1. n = low + 2^8 * high + 2^16 * 0 + 2^24 * 0
    BY <1>1, <1>2 DEF number
  <2> HIDE DEF n, low, high
  <2>2. QED
    BY <1>3, <2>1
<1> HIDE DEF n
<1> DEFINE P(b) == (n \div 2^b) % 2 = bit(x, b, 1)
<1>5. P(0)
  BY <1>4, SMT DEF byte_at, bit
<1>6. P(1)
  BY <1>4, SMT DEF byte_at, bit
<1>7. P(2)
  BY <1>4, SMT DEF byte_at, bit
<1>8. P(3)
  BY <1>4, SMT DEF byte_at, bit
<1>9. P(4)
  BY <1>4, SMT DEF byte_at, bit
<1>10. P(5)
  BY <1>4, SMT DEF byte_at, bit
<1>11. P(6)
  BY <1>4, SMT DEF byte_at, bit
<1>12. P(7)
  BY <1>4, SMT DEF byte_at, bit
<1>13. P(8)
  BY <1>4, SMT DEF byte_at, bit
<1>14. P(9)
  BY <1>4, SMT DEF byte_at, bit
<1>15. (n \div 2^10) % 2 = 0
  BY <1>4, SMT DEF byte_at, bit
<1>16. (n \div 2^11) % 2 = 0
  BY <1>4, SMT DEF byte_at, bit
<1>17. (n \div 2^12) % 2 = 0
  BY <1>4, SMT DEF byte_at, bit
<1>18. (n \div 2^13) % 2 = 0
  BY <1>4, SMT DEF byte_at, bit
<1>19. (n \div 2^14) % 2 = 0
  BY <1>4, SMT DEF byte_at, bit
<1>20. (n \div 2^15) % 2 = 0
  BY <1>4, SMT DEF byte_at, bit
<1> DEFINE Q(b) == b \in word(n) <=> b \in x
<1>21. /\ Q(0) /\ Q(1) /\ Q(2) /\ Q(3) /\ Q(4) /\ Q(5) /\ Q(6) /\ Q(7) /\ Q(8) /\ Q(9)
      /\ Q(10) /\ Q(11) /\ Q(12) /\ Q(13) /\ Q(14) /\ Q(15)
  BY <1>5, <1>6, <1>7, <1>8, <1>9, <1>10, <1>11, <1>12, <1>13, <1>14, <1>15, <1>16, <1>17, <1>18, <1>19, <1>20 DEF word, bit
<1> HIDE DEF Q
<1>22. \A b \in 0 .. 15 : Q(b)
  BY <1>21
<1>23. word(n) \subseteq 0 .. 15 /\ x \subseteq 0 .. 15
  BY DEF word
<1>24. QED
  BY <1>22, <1>23 DEF Q, n

\* code_of finds a code with the same meaning: not always the same code.
LEMMA CodeOf ==
    ASSUME NEW table, NEW len \in 1 .. 8, DOMAIN table = 1 .. len, Len(table) = len,
           NEW i \in 1 .. len
    PROVE  LET n == code_of(table, table[i])
           IN  n \in 0 .. len - 1 /\ table[n + 1] = table[i]
<1> DEFINE I == { j \in 1 .. len : table[j] = table[i] }
           low == CHOOSE j \in I : \A k \in I : j =< k
<1>1. i \in I
  OBVIOUS
<1>2. \E j \in I : \A k \in I : j =< k
  <2>1. I \subseteq {1, 2, 3, 4, 5, 6, 7, 8}
    OBVIOUS
  <2> HIDE DEF I
  <2>2. QED
    BY <1>1, <2>1
<1>3. low \in I
  BY <1>2
<1>4. code_of(table, table[i]) = low - 1
  <2>1. SelectInSeq(table, LAMBDA e : e = table[i]) = low
    BY <1>1 DEF SelectInSeq, Min
  <2> HIDE DEF low
  <2>2. low # 0
    BY <1>3
  <2>3. QED
    BY <2>1, <2>2 DEF code_of
<1> HIDE DEF low
<1>5. QED
  BY <1>3, <1>4

\* A code of three bits is the number of its bits.
LEMMA NumberWord ==
    ASSUME NEW c \in 0 .. 7
    PROVE  number({ b \in word(c) : b < 3 }) = c
<1> DEFINE x == { b \in word(c) : b < 3 }
<1>1. /\ 0 \in x <=> (c \div 2^0) % 2 = 1
      /\ 1 \in x <=> (c \div 2^1) % 2 = 1
      /\ 2 \in x <=> (c \div 2^2) % 2 = 1
  BY DEF word
<1>2. x \subseteq 0 .. 2
  BY DEF word
<1> HIDE DEF x
<1>3. number(x) = byte_at(x, 0)
  <2>1. x \subseteq 0 .. 7
    BY <1>2
  <2>2. QED
    BY <2>1, ByteNumber
<1>4. byte_at(x, 0) = bit(x, 0, 1) + bit(x, 1, 2) + bit(x, 2, 4)
  BY <1>2 DEF byte_at, bit
<1>5. byte_at(x, 0) = c
  BY <1>1, <1>4 DEF bit
<1>6. QED
  BY <1>3, <1>5 DEF x

\* What is written back is a code with the same meaning, for the resolutions the
\* same code.
LEMMA WritesBackCode ==
    ASSUME m \in Image, NEW reg \in Conforming
    PROVE  \E v \in Word :
               /\ WritesBack(reg) = server_set_reg_value(reg, m, v)
               /\ reg \in Overlap => Truncated(reg, v) = server_get_reg_value(reg, m)
               /\ \A y : server_get_reg_value(reg, y) = Truncated(reg, v)
                             => mt6701_log_eeprom(y)[reg] = mt6701_log_eeprom(m)[reg]
<1> DEFINE raw == server_get_reg_value(reg, m)
           n == number(raw)
           value == mt6701_log_eeprom(m)[reg]
           same(v) == /\ WritesBack(reg) = server_set_reg_value(reg, m, v)
                      /\ reg \in Overlap => Truncated(reg, v) = server_get_reg_value(reg, m)
                      /\ \A y : server_get_reg_value(reg, y) = Truncated(reg, v)
                                    => mt6701_log_eeprom(y)[reg] = mt6701_log_eeprom(m)[reg]
<1>1. \A c : word(c) \in Word
  BY DEF word, Word
<1>2. reg \in Regs
  BY DEF Conforming, Regs
<1>3. ASSUME NEW v, WritesBack(reg) = server_set_reg_value(reg, m, v), Truncated(reg, v) = raw
      PROVE  same(v)
  BY <1>2, <1>3, UnitsOfCode
<1>4. CASE reg = "UVW_MUX"
  <2>1. raw = m[R25] \cap {0}
    BY <1>4 DEF server_get_reg_value, mt6701_uvw_mux_read_raw
  <2>2. WritesBack(reg) = server_set_reg_value(reg, m, word(n))
    BY <1>2, <1>4 DEF WritesBack, mt6701_uvw_mux_write, server_set_reg_value, mt6701_log_eeprom,
        mt6701_uvw_mux_read, server_get_reg_value
  <2> HIDE DEF raw
  <2>3. word(n) = raw
    <3>1. raw \subseteq 0 .. 9
      BY <2>1
    <3>2. QED
      BY <3>1, WordNumber
  <2>4. Truncated(reg, raw) = raw
    BY <1>4, <2>1 DEF Truncated, Width
  <2>5. QED
    BY <1>1, <1>3, <2>2, <2>3, <2>4
<1>5. CASE reg = "UVW_RES"
  <2>1. raw \subseteq 0 .. 3 /\ n \in 0 .. 15
    BY <1>5, CodeBits, ReceivedBelow DEF server_get_reg_value, received
  <2>2. value = (n + 1) % 2^8
    BY <1>2, <1>5 DEF mt6701_log_eeprom, mt6701_uvw_res_read, server_get_reg_value
  <2>3. WritesBack(reg) = server_set_reg_value(reg, m, word(value - 1))
    BY <1>5 DEF WritesBack, mt6701_uvw_res_write, server_set_reg_value
  <2> HIDE DEF raw, value
  <2>4. word(n) = raw
    <3>1. raw \subseteq 0 .. 9
      BY <2>1
    <3>2. QED
      BY <3>1, WordNumber
  <2> HIDE DEF n
  <2>5. value - 1 = n
    BY <2>1, <2>2
  <2>6. Truncated(reg, raw) = raw
    BY <1>5, <2>1 DEF Truncated, Width
  <2>7. QED
    BY <1>1, <1>3, <2>3, <2>4, <2>5, <2>6
<1>6. CASE reg = "ABZ_RES"
  <2>1. raw \subseteq 0 .. 9 /\ Within(n, 1023)
    BY <1>6, CodeBits, ReceivedBelow DEF server_get_reg_value, received
  <2>2. value = (n + 1) % 2^16
    BY <1>2, <1>6 DEF mt6701_log_eeprom, mt6701_abz_res_read, server_get_reg_value
  <2>3. WritesBack(reg) = server_set_reg_value(reg, m, word(value - 1))
    BY <1>6 DEF WritesBack, mt6701_abz_res_write, server_set_reg_value
  <2> HIDE DEF raw, value
  <2>4. word(n) = raw
    <3>1. raw \subseteq 0 .. 9
      BY <2>1
    <3>2. QED
      BY <3>1, WordNumber
  <2> HIDE DEF n
  <2>5. value - 1 = n
    BY <2>1, <2>2 DEF Within
  <2>6. Truncated(reg, raw) = raw
    BY <1>6, <2>1 DEF Truncated, Width
  <2>7. QED
    BY <1>1, <1>3, <2>3, <2>4, <2>5, <2>6
<1>7. CASE reg = "PWM_FREQ"
  <2> DEFINE table == pwm_freq_values
             c == code_of(table, table[n + 1])
  <2>1. raw \subseteq {0}
    BY <1>7 DEF server_get_reg_value, mt6701_pwm_freq_read_raw
  <2>2. WritesBack(reg) = server_set_reg_value(reg, m, word(c))
    BY <1>2, <1>7 DEF WritesBack, mt6701_pwm_freq_write, server_set_reg_value, mt6701_log_eeprom,
        mt6701_pwm_freq_read, server_get_reg_value
  <2> HIDE DEF raw
  <2>3. n \in 0 .. 1 /\ n + 1 \in 1 .. 2
    <3>1. n = bit(raw, 0, 1)
      <4>1. n = byte_at(raw, 0)
        <5>1. raw \subseteq 0 .. 7
          BY <2>1
        <5>2. QED
          BY <5>1, ByteNumber
      <4>2. QED
        BY <2>1, <4>1 DEF byte_at, bit
    <3>2. QED
      BY <3>1 DEF bit
  <2>4. word(n) = raw
    <3>1. raw \subseteq 0 .. 9
      BY <2>1
    <3>2. QED
      BY <3>1, WordNumber
  <2> HIDE DEF n
  <2>5. DOMAIN table = 1 .. 2 /\ Len(table) = 2 /\ table[1] # table[2]
    BY DEF pwm_freq_values
  <2> HIDE DEF table
  <2>6. c \in 0 .. 1 /\ table[c + 1] = table[n + 1]
    BY <2>3, <2>5, CodeOf
  <2>7. c = n
    BY <2>3, <2>5, <2>6
  <2>8. Truncated(reg, raw) = raw
    BY <1>7, <2>1 DEF Truncated, Width
  <2> HIDE DEF c
  <2>9. QED
    BY <1>1, <1>3, <2>2, <2>4, <2>7, <2>8
<1>8. CASE reg = "HYST"
  <2> DEFINE table == hyst_values
             c == code_of(table, table[n + 1])
  <2>1. n \in 0 .. 7 /\ n + 1 \in 1 .. 8
    BY <1>8, ReceivedBelow DEF received
  <2>2. value = table[n + 1]
    BY <1>2, <1>8 DEF mt6701_log_eeprom, mt6701_hyst_read, server_get_reg_value
  <2>3. WritesBack(reg) = server_set_reg_value(reg, m, word(code_of(table, value)))
    BY <1>8 DEF WritesBack, mt6701_hyst_write, server_set_reg_value
  <2>4. \A y : mt6701_log_eeprom(y)[reg] = table[number(server_get_reg_value(reg, y)) + 1]
    BY <1>2, <1>8 DEF mt6701_log_eeprom, mt6701_hyst_read, server_get_reg_value
  <2>5. DOMAIN table = 1 .. 8 /\ Len(table) = 8
    BY DEF hyst_values
  <2> HIDE DEF n, value, table
  <2>6. c \in 0 .. 7 /\ table[c + 1] = table[n + 1]
    BY <2>1, <2>5, CodeOf
  <2> HIDE DEF c
  <2>7. number(Truncated(reg, word(c))) = c
    BY <1>8, <2>6, NumberWord DEF Truncated, Width
  <2>8. \A y : server_get_reg_value(reg, y) = Truncated(reg, word(c))
                   => mt6701_log_eeprom(y)[reg] = value
    BY <2>2, <2>4, <2>6, <2>7
  <2>9. WritesBack(reg) = server_set_reg_value(reg, m, word(c))
    BY <2>2, <2>3 DEF c
  <2>10. reg \notin Overlap
    BY <1>8 DEF Overlap
  <2>11. same(word(c))
    BY <2>8, <2>9, <2>10 DEF value
  <2>12. QED
    BY <1>1, <2>11
<1>9. CASE reg = "Z_PULSE_WIDTH"
  <2> DEFINE table == z_pulse_width_values
             c == code_of(table, table[n + 1])
  <2>1. n \in 0 .. 7 /\ n + 1 \in 1 .. 8
    BY <1>9, ReceivedBelow DEF received
  <2>2. value = table[n + 1]
    BY <1>2, <1>9 DEF mt6701_log_eeprom, mt6701_z_pulse_width_read, server_get_reg_value
  <2>3. WritesBack(reg) = server_set_reg_value(reg, m, word(code_of(table, value)))
    BY <1>9 DEF WritesBack, mt6701_z_pulse_width_write, server_set_reg_value
  <2>4. \A y : mt6701_log_eeprom(y)[reg] = table[number(server_get_reg_value(reg, y)) + 1]
    BY <1>2, <1>9 DEF mt6701_log_eeprom, mt6701_z_pulse_width_read, server_get_reg_value
  <2>5. DOMAIN table = 1 .. 8 /\ Len(table) = 8
    BY DEF z_pulse_width_values
  <2> HIDE DEF n, value, table
  <2>6. c \in 0 .. 7 /\ table[c + 1] = table[n + 1]
    BY <2>1, <2>5, CodeOf
  <2> HIDE DEF c
  <2>7. number(Truncated(reg, word(c))) = c
    BY <1>9, <2>6, NumberWord DEF Truncated, Width
  <2>8. \A y : server_get_reg_value(reg, y) = Truncated(reg, word(c))
                   => mt6701_log_eeprom(y)[reg] = value
    BY <2>2, <2>4, <2>6, <2>7
  <2>9. WritesBack(reg) = server_set_reg_value(reg, m, word(c))
    BY <2>2, <2>3 DEF c
  <2>10. reg \notin Overlap
    BY <1>9 DEF Overlap
  <2>11. same(word(c))
    BY <2>8, <2>9, <2>10 DEF value
  <2>12. QED
    BY <1>1, <2>11
<1>10. QED
  BY <1>4, <1>5, <1>6, <1>7, <1>8, <1>9 DEF Conforming

\* PWM_POL and OUT_MODE are read as a bit of their byte, where it is, and written
\* back there: the byte does not change.  (WRITE_CONFIG with the value 1, the bit
\* in its place in the field, is a different matter.)
InPlace == {"PWM_POL", "OUT_MODE"}

LEMMA InPlaceUnchanged ==
    ASSUME m \in Image, NEW reg \in InPlace
    PROVE  Applied(m, WritesBack(reg)) = m
<1> DEFINE raw == server_get_reg_value(reg, m)
           own == IF reg = "PWM_POL" THEN {1} ELSE {2}
           b == (m[R38] \ own) \cup (uint8(raw) \cap own)
<1>1. raw = m[R38] \cap own
  BY DEF InPlace, server_get_reg_value, mt6701_pwm_pol_read_raw, mt6701_out_mode_read_raw
<1>2. word(number(raw)) = raw
  <2>1. raw \subseteq 0 .. 9
    BY <1>1
  <2>2. QED
    BY <2>1, WordNumber
<1>3. WritesBack(reg) = << write1(R38, b) >>
  <2>1. CASE reg = "PWM_POL"
    BY <1>2, <2>1 DEF WritesBack, mt6701_pwm_pol_write, mt6701_pwm_pol_write_raw,
        mt6701_log_eeprom, mt6701_pwm_pol_read, server_get_reg_value, Regs
  <2>2. CASE reg = "OUT_MODE"
    BY <1>2, <2>2 DEF WritesBack, mt6701_out_mode_write, mt6701_out_mode_write_raw,
        mt6701_log_eeprom, mt6701_out_mode_read, server_get_reg_value, Regs
  <2>3. QED
    BY <2>1, <2>2 DEF InPlace
<1>4. b = m[R38]
  <2>1. uint8(raw) = raw
    BY <1>1 DEF uint8
  <2>2. QED
    BY <1>1, <2>1
<1> HIDE DEF b
<1>5. put(m, write1(R38, b)) = m
  <2>1. R38 \in Addr
    BY DEF Addr
  <2>2. \A a \in Addr : put(m, write1(R38, b))[a] = m[a]
    BY <1>4, <2>1, PutWrite1
  <2>3. put(m, write1(R38, b)) = [a \in Addr |-> put(m, write1(R38, b))[a]] /\ m = [a \in Addr |-> m[a]]
    BY DEF put, Image
  <2>4. QED
    BY <2>2, <2>3
<1>6. QED
  BY <1>3, <1>5, AppliedTuples

\* Writing back any of the six fields whose write function inverts its read
\* function, or one of the two that are read and written in place, leaves the value
\* of every field as it was, whatever the registers hold: the mt6701_*_write
\* functions in units, with the fields that share their bytes.
THEOREM WritingBackIsHarmless ==
    ASSUME Rewritten \subseteq Conforming \cup InPlace
    PROVE  Spec => WriteBackHarmless
<1> DEFINE Kept == \A reg \in Regs : mt6701_log_eeprom(m')[reg] = mt6701_log_eeprom(m)[reg]
<1>1. ASSUME Inv, [Next]_vars PROVE Kept
  <2>1. ASSUME NEW reg \in Conforming, m' = Applied(m, WritesBack(reg)) PROVE Kept
    <3>1. m' = Applied(m, WritesBack(reg))
      BY <2>1
    <3>2. m \in Image /\ reg \in Regs
      BY <1>1 DEF Inv, Conforming, Regs
    <3>3. PICK v \in Word :
              /\ WritesBack(reg) = server_set_reg_value(reg, m, v)
              /\ reg \in Overlap => Truncated(reg, v) = server_get_reg_value(reg, m)
              /\ \A y : server_get_reg_value(reg, y) = Truncated(reg, v)
                            => mt6701_log_eeprom(y)[reg] = mt6701_log_eeprom(m)[reg]
      BY <3>2, WritesBackCode
    <3>4. server_get_reg_value(reg, m') = Truncated(reg, v)
      BY <3>1, <3>2, <3>3, AppliedReadsBack
    <3>5. m' \in Image /\ \A a \in Addr : m'[a] \ OwnBits(reg, a) = m[a] \ OwnBits(reg, a)
      BY <3>1, <3>2, <3>3, AppliedKeeps DEF Conforming, Regs
    <3>6. ASSUME NEW q \in Regs PROVE mt6701_log_eeprom(m')[q] = mt6701_log_eeprom(m)[q]
      <4>1. CASE q = reg
        BY <3>3, <3>4, <4>1
      <4>2. CASE q # reg
        <5>1. server_get_reg_value(q, m') = server_get_reg_value(q, m)
          BY <3>2, <3>3, <3>4, <3>5, <4>2, OthersReadAlike
        <5>2. QED
          BY <5>1, UnitsOfCode
      <4>3. QED
        BY <4>1, <4>2
    <3>7. QED
      BY <3>6
  <2>2. ASSUME NEW reg \in InPlace, m' = Applied(m, WritesBack(reg)) PROVE Kept
    <3>1. m' = m
      BY <1>1, <2>2, InPlaceUnchanged DEF Inv
    <3>2. QED
      BY <3>1
  <2>3. CASE WriteBack
    <3> HIDE DEF Kept
    <3>1. QED
      BY <2>1, <2>2, <2>3 DEF WriteBack
  <2>4. CASE Ask \/ Answer \/ Show \/ Prompt \/ UNCHANGED vars
    BY <2>4 DEF Ask, Answer, Show, Prompt, vars
  <2>5. QED
    BY <1>1, <2>3, <2>4 DEF Next
<1>2. Inv /\ [Next]_vars => Kept
  BY <1>1
<1>3. QED
  BY <1>2, Invariance, PTL DEF Spec, WriteBackHarmless
=============================================================================
