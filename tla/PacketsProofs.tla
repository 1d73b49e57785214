--------------------------- MODULE PacketsProofs ---------------------------
(***************************************************************************)
(* Lemmas about the codec, for every checksum function: what the framing   *)
(* proofs and the proofs about the server's task both need.                *)
(***************************************************************************)
EXTENDS Packets, SequenceTheorems, WellFoundedInduction, TLAPS

\* Bytes are numbers (Byte itself stays unexpanded below).
LEMMA ByteIsNat == \A b \in Byte : b \in Nat
BY DEF Byte

-----------------------------------------------------------------------------
(***************************************************************************)
(* Sequences of bytes                                                      *)
(***************************************************************************)

\* Taking n elements off the front of a sequence leaves the others.
LEMMA SplitSeq ==
    ASSUME NEW S, NEW s \in Seq(S), NEW n \in 0 .. Len(s)
    PROVE  /\ SubSeq(s, 1, n) \in Seq(S) /\ Len(SubSeq(s, 1, n)) = n
           /\ SubSeq(s, n + 1, Len(s)) \in Seq(S) /\ Len(SubSeq(s, n + 1, Len(s))) = Len(s) - n
           /\ \A i \in 1 .. n : SubSeq(s, 1, n)[i] = s[i]
           /\ \A i \in 1 .. Len(s) - n : SubSeq(s, n + 1, Len(s))[i] = s[n + i]
           /\ SubSeq(s, 1, n) \o SubSeq(s, n + 1, Len(s)) = s
<1>1. Len(s) \in Nat /\ n \in Nat
  OBVIOUS
<1>2. (\A i \in 1 .. n : s[i] \in S) /\ (\A i \in n + 1 .. Len(s) : s[i] \in S)
  <2>1. \A i \in 1 .. Len(s) : s[i] \in S
    BY ElementOfSeq
  <2>2. QED
    BY <1>1, <2>1
<1>3. /\ SubSeq(s, 1, n) \in Seq(S) /\ Len(SubSeq(s, 1, n)) = IF 1 <= n THEN n - 1 + 1 ELSE 0
      /\ \A i \in 1 .. n - 1 + 1 : SubSeq(s, 1, n)[i] = s[1 + i - 1]
  BY <1>1, <1>2, SubSeqProperties
<1>4. /\ SubSeq(s, n + 1, Len(s)) \in Seq(S)
      /\ Len(SubSeq(s, n + 1, Len(s))) = IF n + 1 <= Len(s) THEN Len(s) - (n + 1) + 1 ELSE 0
      /\ \A i \in 1 .. Len(s) - (n + 1) + 1 : SubSeq(s, n + 1, Len(s))[i] = s[n + 1 + i - 1]
  BY <1>1, <1>2, SubSeqProperties
<1>5. \A i \in 1 .. n : SubSeq(s, 1, n)[i] = s[i]
  BY <1>1, <1>3
<1>6. \A i \in 1 .. Len(s) - n : SubSeq(s, n + 1, Len(s))[i] = s[n + i]
  <2>1. \A i \in 1 .. Len(s) - n : i \in 1 .. Len(s) - (n + 1) + 1 /\ n + 1 + i - 1 = n + i
    BY <1>1
  <2>2. QED
    BY <1>4, <2>1
<1>7. SubSeq(s, 1, n) \o SubSeq(s, n + 1, Len(s)) = SubSeq(s, 1, Len(s))
  <2>1. 1 \in 1 .. Len(s) + 1 /\ n \in 1 - 1 .. Len(s) /\ Len(s) \in n .. Len(s)
    BY <1>1
  <2>2. QED
    BY <2>1, ConcatAdjacentSubSeq
<1>8. SubSeq(s, 1, Len(s)) = s
  BY SubSeqFull
<1>9. Len(SubSeq(s, 1, n)) = n /\ Len(SubSeq(s, n + 1, Len(s))) = Len(s) - n
  <2>1. n \in Nat /\ Len(s) \in Nat /\ n <= Len(s)
    BY <1>1
  <2>2. QED
    BY <1>3, <1>4, <2>1
<1>10. SubSeq(s, 1, n) \o SubSeq(s, n + 1, Len(s)) = s
  BY <1>7, <1>8
<1>11. QED
  BY <1>3, <1>4, <1>5, <1>6, <1>9, <1>10

LEMMA Triple == ASSUME NEW S, NEW a \in S, NEW b \in S, NEW c \in S PROVE <<a, b, c>> \in Seq(S)
OBVIOUS

LEMMA Pair == ASSUME NEW S, NEW p \in S \X S PROVE p \in Seq(S) /\ Len(p) = 2
<1>1. PICK a \in S, b \in S : p = <<a, b>>
  OBVIOUS
<1>2. <<a, b>> \in Seq(S) /\ Len(<<a, b>>) = 2
  OBVIOUS
<1>3. QED
  BY <1>1, <1>2

\* The checksum function yields two bytes (crc16 returns a uint16_t, which the
\* code takes apart).
CrcBytes == \A s \in Seq(Byte) : Crc(s) \in Byte \X Byte

\* The bytes before the checksum.
Bare(cmd, pld) == <<PKT_HDR, cmd, Len(pld)>> \o pld

LEMMA BareBytes ==
    ASSUME NEW cmd \in Byte, NEW pld \in Seq(Byte), Len(pld) <= MAX_PLD_LEN
    PROVE  LET bare == Bare(cmd, pld)
           IN  /\ bare \in Seq(Byte) /\ Len(bare) = 3 + Len(pld)
               /\ bare[1] = PKT_HDR /\ bare[2] = cmd /\ bare[3] = Len(pld)
               /\ \A i \in 1 .. Len(pld) : bare[3 + i] = pld[i]
<1> DEFINE front == <<PKT_HDR, cmd, Len(pld)>>
<1>1. PKT_HDR \in Byte /\ Len(pld) \in Byte /\ Len(pld) \in Nat
  <2>1. Len(pld) \in Nat
    OBVIOUS
  <2>2. \A n \in Nat : n <= MAX_PLD_LEN => n \in Byte
    BY DEF MAX_PLD_LEN, Byte
  <2>3. PKT_HDR \in Byte
    BY DEF PKT_HDR, Byte
  <2>4. QED
    BY <2>1, <2>2, <2>3
<1>2. front \in Seq(Byte)
  BY <1>1, Triple
<1>3. Len(front) = 3 /\ front[1] = PKT_HDR /\ front[2] = cmd /\ front[3] = Len(pld)
  OBVIOUS
<1> HIDE DEF front
<1>4. /\ front \o pld \in Seq(Byte)
      /\ Len(front \o pld) = Len(front) + Len(pld)
      /\ \A i \in 1 .. Len(front) + Len(pld) :
             (front \o pld)[i] = IF i <= Len(front) THEN front[i] ELSE pld[i - Len(front)]
  BY <1>2, ConcatProperties
<1>5. Bare(cmd, pld) = front \o pld
  BY DEF Bare, front
<1>6. \A i \in 1 .. Len(pld) : (front \o pld)[3 + i] = pld[i]
  <2> TAKE i \in 1 .. Len(pld)
  <2>1. 3 + i \in 1 .. Len(front) + Len(pld) /\ ~(3 + i <= Len(front)) /\ (3 + i) - Len(front) = i
    BY <1>1, <1>3
  <2>2. QED
    BY <1>4, <2>1
<1>7. /\ (front \o pld)[1] = front[1] /\ (front \o pld)[2] = front[2]
      /\ (front \o pld)[3] = front[3]
  <2>1. /\ 1 \in 1 .. Len(front) + Len(pld) /\ 2 \in 1 .. Len(front) + Len(pld)
        /\ 3 \in 1 .. Len(front) + Len(pld)
    BY <1>1, <1>3
  <2>2. QED
    BY <1>3, <1>4, <2>1
<1>8. QED
  BY <1>3, <1>4, <1>5, <1>6, <1>7

\* What is sent: header, command, length, payload and checksum.
LEMMA SentBytes ==
    ASSUME CrcBytes, NEW cmd \in Byte, NEW pld \in Seq(Byte), Len(pld) <= MAX_PLD_LEN
    PROVE  LET bs == send_bytes(cmd, pld)
               bare == Bare(cmd, pld)
           IN  /\ bs \in Seq(Byte) /\ Len(bs) = MIN_PKT_LEN + Len(pld)
               /\ \A i \in 1 .. Len(bare) : bs[i] = bare[i]
               /\ bs[4 + Len(pld)] = Crc(bare)[1] /\ bs[5 + Len(pld)] = Crc(bare)[2]
               /\ bs[1] = PKT_HDR /\ bs[2] = cmd /\ bs[3] = Len(pld)
               /\ \A i \in 1 .. Len(pld) : bs[3 + i] = pld[i]
<1> DEFINE bare == Bare(cmd, pld)
           sum == Crc(bare)
<1>1. /\ bare \in Seq(Byte) /\ Len(bare) = 3 + Len(pld)
      /\ bare[1] = PKT_HDR /\ bare[2] = cmd /\ bare[3] = Len(pld)
      /\ \A i \in 1 .. Len(pld) : bare[3 + i] = pld[i]
  BY BareBytes
<1>2. send_bytes(cmd, pld) = bare \o sum
  BY DEF send_bytes, Bare
<1>3. sum \in Seq(Byte) /\ Len(sum) = 2
  BY <1>1, Pair DEF CrcBytes
<1>4. Len(pld) \in Nat
  OBVIOUS
<1> HIDE DEF bare, sum
<1>5. /\ bare \o sum \in Seq(Byte)
      /\ Len(bare \o sum) = Len(bare) + Len(sum)
      /\ \A i \in 1 .. Len(bare) + Len(sum) :
             (bare \o sum)[i] = IF i <= Len(bare) THEN bare[i] ELSE sum[i - Len(bare)]
  <2>1. bare \in Seq(Byte) /\ sum \in Seq(Byte)
    BY <1>1, <1>3
  <2>2. QED
    BY <2>1, ConcatProperties
<1>6. \A i \in 1 .. Len(bare) : (bare \o sum)[i] = bare[i]
  BY <1>1, <1>3, <1>4, <1>5
<1>7. (bare \o sum)[4 + Len(pld)] = sum[1] /\ (bare \o sum)[5 + Len(pld)] = sum[2]
  <2>1. /\ 4 + Len(pld) \in 1 .. Len(bare) + Len(sum) /\ ~(4 + Len(pld) <= Len(bare))
        /\ 5 + Len(pld) \in 1 .. Len(bare) + Len(sum) /\ ~(5 + Len(pld) <= Len(bare))
        /\ (4 + Len(pld)) - Len(bare) = 1 /\ (5 + Len(pld)) - Len(bare) = 2
    BY <1>1, <1>3, <1>4
  <2>2. QED
    BY <1>5, <2>1
<1>8. /\ 1 \in 1 .. Len(bare) /\ 2 \in 1 .. Len(bare) /\ 3 \in 1 .. Len(bare)
      /\ \A i \in 1 .. Len(pld) : 3 + i \in 1 .. Len(bare)
  BY <1>1, <1>4
<1>9. Len(bare \o sum) = MIN_PKT_LEN + Len(pld)
  BY <1>1, <1>3, <1>4, <1>5 DEF MIN_PKT_LEN
<1>10. QED
  BY <1>1, <1>2, <1>5, <1>6, <1>7, <1>8, <1>9 DEF bare, sum

-----------------------------------------------------------------------------
(***************************************************************************)
(* Decoding                                                                *)
(***************************************************************************)

\* A decoded length lies within the buffer: decode_packet refuses the rest.
LEMMA DecodedLenBounds ==
    ASSUME NEW d \in Seq(Byte), NEW k \in Nat, Len(d) - k >= MIN_PKT_LEN
    PROVE  /\ decoded_len(d, k) \in Nat
           /\ decoded_len(d, k) # 0 =>
                /\ decoded_len(d, k) = MIN_PKT_LEN + d[k + 3]
                /\ decoded_len(d, k) >= MIN_PKT_LEN
                /\ k + decoded_len(d, k) <= Len(d)
<1>1. Len(d) \in Nat /\ k + 3 \in 1 .. Len(d)
  BY DEF MIN_PKT_LEN
<1>2. d[k + 3] \in Byte
  BY <1>1, ElementOfSeq
<1>3. d[k + 3] \in Nat
  BY <1>2, ByteIsNat
<1>4. QED
  BY <1>1, <1>3 DEF decoded_len, MIN_PKT_LEN

\* What is decoded is a packet, and its header is the byte the pointer is at.
LEMMA DecodedType ==
    ASSUME NEW d \in Seq(Byte), NEW k \in Nat, Len(d) - k >= MIN_PKT_LEN,
           decoded_len(d, k) # 0
    PROVE  /\ decode_packet(d, k) \in Packet
           /\ decode_packet(d, k).hdr = d[k + 1]
<1> DEFINE len == d[k + 3]
<1>1. Len(d) \in Nat /\ k + 1 \in 1 .. Len(d) /\ k + 2 \in 1 .. Len(d) /\ k + 3 \in 1 .. Len(d)
  BY DEF MIN_PKT_LEN
<1>2. d[k + 1] \in Byte /\ d[k + 2] \in Byte /\ len \in Byte
  BY <1>1, ElementOfSeq
<1>3. len \in Nat /\ k + 5 + len <= Len(d)
  <2>1. decoded_len(d, k) = MIN_PKT_LEN + len /\ k + decoded_len(d, k) <= Len(d)
    BY DecodedLenBounds
  <2>2. len \in Nat
    BY <1>2, ByteIsNat
  <2>3. QED
    BY <1>1, <2>1, <2>2 DEF MIN_PKT_LEN
<1>4. d[k + 4 + len] \in Byte /\ d[k + 5 + len] \in Byte
  <2>1. k + 4 + len \in 1 .. Len(d) /\ k + 5 + len \in 1 .. Len(d)
    BY <1>1, <1>3
  <2>2. QED
    BY <2>1, ElementOfSeq
<1>5. SubSeq(d, k + 4, k + 3 + len) \in Seq(Byte)
  <2>1. \A i \in (k + 4) .. (k + 3 + len) : i \in 1 .. Len(d)
    BY <1>1, <1>3
  <2>2. \A i \in (k + 4) .. (k + 3 + len) : d[i] \in Byte
    BY <2>1, ElementOfSeq
  <2>3. k + 4 \in Int /\ k + 3 + len \in Int
    BY <1>3
  <2>4. QED
    BY <2>2, <2>3, SubSeqProperties
<1>6. QED
  BY <1>2, <1>4, <1>5 DEF decode_packet, Packet

\* A packet that was sent is accepted, if its bytes arrive together.
LEMMA SentIsAccepted ==
    ASSUME CrcBytes, NEW cmd \in Byte, NEW pld \in Seq(Byte), Len(pld) <= MAX_PLD_LEN,
           NEW p, p = [hdr |-> PKT_HDR, cmd |-> cmd, len |-> Len(pld), pld |-> pld,
                       crc |-> Crc(Bare(cmd, pld))]
    PROVE  Accepts(p)
<1> DEFINE bare == Bare(cmd, pld)
           sum == Crc(bare)
           buf == encode_packet(p, MAX_PKT_LEN)
<1>1. bare \in Seq(Byte) /\ Len(bare) = 3 + Len(pld) /\ Len(pld) \in Nat
  BY BareBytes
<1>2. sum \in Seq(Byte) /\ Len(sum) = 2 /\ sum \in Byte \X Byte
  BY <1>1, Pair DEF CrcBytes
<1>3. p.hdr = PKT_HDR /\ p.cmd = cmd /\ p.len = Len(pld) /\ p.pld = pld /\ p.crc = sum
  OBVIOUS
<1>4. buf = bare \o sum
  <2>1. ~(MAX_PKT_LEN < MIN_PKT_LEN + p.len)
    BY <1>1, <1>3 DEF MAX_PKT_LEN, MIN_PKT_LEN, MAX_PLD_LEN
  <2>2. buf = <<p.hdr, p.cmd, p.len>> \o p.pld \o p.crc
    BY <2>1 DEF encode_packet
  <2>3. QED
    BY <1>3, <2>2 DEF Bare
<1> HIDE DEF bare, sum
<1>5. /\ bare \o sum \in Seq(Byte)
      /\ Len(bare \o sum) = Len(bare) + Len(sum)
      /\ \A i \in 1 .. Len(bare) + Len(sum) :
             (bare \o sum)[i] = IF i <= Len(bare) THEN bare[i] ELSE sum[i - Len(bare)]
  <2>1. bare \in Seq(Byte) /\ sum \in Seq(Byte)
    BY <1>1, <1>2
  <2>2. QED
    BY <2>1, ConcatProperties
<1> DEFINE w == bare \o sum
<1>6. Len(w) = Len(bare) + 2 /\ Len(w) >= 3 /\ Len(w) - 2 = Len(bare) /\ Len(bare) \in Nat
  BY <1>1, <1>2, <1>5
<1>7. w[Len(w) - 1] = sum[1] /\ w[Len(w)] = sum[2]
  <2>1. /\ Len(w) - 1 \in 1 .. Len(bare) + Len(sum) /\ ~(Len(w) - 1 <= Len(bare))
        /\ Len(w) \in 1 .. Len(bare) + Len(sum) /\ ~(Len(w) <= Len(bare))
        /\ (Len(w) - 1) - Len(bare) = 1 /\ Len(w) - Len(bare) = 2
    BY <1>2, <1>6
  <2>2. QED
    BY <1>5, <2>1
<1>8. SubSeq(w, 1, Len(w) - 2) = bare
  <2>1. Len(bare) \in 0 .. Len(w) /\ w \in Seq(Byte)
    BY <1>5, <1>6
  <2> HIDE DEF w
  <2>2. /\ SubSeq(w, 1, Len(bare)) \in Seq(Byte) /\ Len(SubSeq(w, 1, Len(bare))) = Len(bare)
        /\ \A i \in 1 .. Len(bare) : SubSeq(w, 1, Len(bare))[i] = w[i]
    BY <2>1, SplitSeq
  <2>3. \A i \in 1 .. Len(bare) : w[i] = bare[i]
    BY <1>1, <1>2, <1>5, <1>6 DEF w
  <2>4. \A i \in 1 .. Len(SubSeq(w, 1, Len(bare))) : SubSeq(w, 1, Len(bare))[i] = bare[i]
    BY <2>2, <2>3
  <2>5. SubSeq(w, 1, Len(bare)) = bare
    BY <1>1, <2>2, <2>4, SeqEqual
  <2>6. QED
    BY <1>6, <2>5
<1>9. <<sum[1], sum[2]>> = sum
  BY <1>2
<1>10. sum = Crc(bare)
  BY DEF sum
<1>11. check_crc(w)
  <2> HIDE DEF w
  <2>1. QED
    BY <1>6, <1>7, <1>8, <1>9, <1>10 DEF check_crc
<1>12. w # <<>>
  <2>1. Len(w) # 0
    BY <1>6
  <2>2. QED
    BY <2>1
<1>13. check_packet_crc(p)
  BY <1>4, <1>11, <1>12 DEF check_packet_crc
<1>14. QED
  BY <1>3, <1>13 DEF Accepts

LEMMA DecodeSent ==
    ASSUME CrcBytes, NEW cmd \in Byte, NEW pld \in Seq(Byte), Len(pld) <= MAX_PLD_LEN,
           NEW d \in Seq(Byte), NEW k \in Nat, k + MIN_PKT_LEN + Len(pld) <= Len(d),
           \A j \in 1 .. MIN_PKT_LEN + Len(pld) : d[k + j] = send_bytes(cmd, pld)[j]
    PROVE  /\ Len(d) - k >= MIN_PKT_LEN /\ d[k + 1] = PKT_HDR
           /\ decoded_len(d, k) = MIN_PKT_LEN + Len(pld)
           /\ decode_packet(d, k).cmd = cmd /\ decode_packet(d, k).pld = pld
           /\ Accepts(decode_packet(d, k))
<1> DEFINE bs == send_bytes(cmd, pld)
           sum == Crc(Bare(cmd, pld))
           L == Len(pld)
<1>1. /\ bs[1] = PKT_HDR /\ bs[2] = cmd /\ bs[3] = L
      /\ \A i \in 1 .. L : bs[3 + i] = pld[i]
      /\ bs[4 + L] = sum[1] /\ bs[5 + L] = sum[2]
  BY SentBytes
<1>2. L \in Nat /\ Len(d) \in Nat
  OBVIOUS
<1>3. sum \in Byte \X Byte
  BY BareBytes DEF CrcBytes
<1> HIDE DEF bs, sum
<1>4. \A j \in 1 .. MIN_PKT_LEN + L : d[k + j] = bs[j]
  BY DEF bs
<1>5. d[k + 1] = PKT_HDR /\ d[k + 2] = cmd /\ d[k + 3] = L
  <2>1. 1 \in 1 .. MIN_PKT_LEN + L /\ 2 \in 1 .. MIN_PKT_LEN + L /\ 3 \in 1 .. MIN_PKT_LEN + L
    BY <1>2 DEF MIN_PKT_LEN
  <2>2. QED
    BY <1>1, <1>4, <2>1
<1>6. d[k + 4 + L] = sum[1] /\ d[k + 5 + L] = sum[2]
  <2>1. /\ 4 + L \in 1 .. MIN_PKT_LEN + L /\ 5 + L \in 1 .. MIN_PKT_LEN + L
        /\ k + (4 + L) = k + 4 + L /\ k + (5 + L) = k + 5 + L
    BY <1>2 DEF MIN_PKT_LEN
  <2>2. d[k + (4 + L)] = bs[4 + L] /\ d[k + (5 + L)] = bs[5 + L]
    BY <1>4, <2>1
  <2>3. QED
    BY <1>1, <2>1, <2>2
<1>7. \A i \in 1 .. L : d[k + 3 + i] = pld[i]
  <2> TAKE i \in 1 .. L
  <2>1. 3 + i \in 1 .. MIN_PKT_LEN + L /\ k + (3 + i) = k + 3 + i
    BY <1>2 DEF MIN_PKT_LEN
  <2>2. d[k + (3 + i)] = bs[3 + i]
    BY <1>4, <2>1
  <2>3. QED
    BY <1>1, <2>1, <2>2
<1>8. SubSeq(d, k + 4, k + 3 + L) = pld
  <2> DEFINE q == SubSeq(d, k + 4, k + 3 + L)
  <2>1. \A i \in (k + 4) .. (k + 3 + L) : i \in 1 .. Len(d)
    BY <1>2 DEF MIN_PKT_LEN
  <2>2. \A i \in (k + 4) .. (k + 3 + L) : d[i] \in Byte
    BY <2>1, ElementOfSeq
  <2>3. k + 4 \in Int /\ k + 3 + L \in Int
    BY <1>2
  <2>4. /\ q \in Seq(Byte) /\ Len(q) = IF k + 4 <= k + 3 + L THEN (k + 3 + L) - (k + 4) + 1 ELSE 0
        /\ \A i \in 1 .. (k + 3 + L) - (k + 4) + 1 : q[i] = d[(k + 4) + i - 1]
    BY <2>2, <2>3, SubSeqProperties
  <2> HIDE DEF q
  <2>5. Len(q) = L
    BY <1>2, <2>4
  <2>6. \A i \in 1 .. L : q[i] = pld[i]
    <3> TAKE i \in 1 .. L
    <3>1. i \in 1 .. (k + 3 + L) - (k + 4) + 1 /\ (k + 4) + i - 1 = k + 3 + i
      BY <1>2
    <3>2. QED
      BY <1>7, <2>4, <3>1
  <2>7. q = pld
    BY <2>4, <2>5, <2>6, SeqEqual
  <2>8. QED
    BY <2>7 DEF q
<1>9. <<d[k + 4 + L], d[k + 5 + L]>> = sum
  BY <1>3, <1>6
<1>10. decode_packet(d, k) = [hdr |-> PKT_HDR, cmd |-> cmd, len |-> L, pld |-> pld, crc |-> sum]
  BY <1>5, <1>8, <1>9 DEF decode_packet
<1>11. Accepts(decode_packet(d, k))
  BY <1>10, SentIsAccepted DEF sum
<1>12. Len(d) - k >= MIN_PKT_LEN /\ ~(Len(d) - k < MIN_PKT_LEN) /\ ~(Len(d) - k < MIN_PKT_LEN + L)
  BY <1>2 DEF MIN_PKT_LEN
<1>13. decoded_len(d, k) = MIN_PKT_LEN + L
  BY <1>5, <1>12 DEF decoded_len
<1>14. decode_packet(d, k).cmd = cmd /\ decode_packet(d, k).pld = pld
  BY <1>10
<1>15. QED
  BY <1>5, <1>11, <1>12, <1>13, <1>14

-----------------------------------------------------------------------------
(***************************************************************************)
(* The loop as a function                                                  *)
(***************************************************************************)

\* Induction over a set: one that holds 0, and with n also n + 1, holds every
\* natural number.  Otherwise it would lack a least one.
LEMMA SetInduction ==
    ASSUME NEW S, 0 \in S, \A n \in Nat : n \in S => n + 1 \in S
    PROVE  \A n \in Nat : n \in S
<1> DEFINE T == { n \in Nat : n \notin S }
<1> SUFFICES ASSUME T # {} PROVE FALSE
  OBVIOUS
<1>1. PICK x \in T : \A y \in T : ~(<<y, x>> \in OpToRel(<, Nat))
  BY NatLessThanWellFounded, WFMin
<1>2. \A y \in T : ~(y < x)
  BY <1>1 DEF OpToRel
<1>3. x \in Nat /\ x \notin S
  OBVIOUS
<1>4. x - 1 \in Nat /\ x - 1 < x /\ (x - 1) + 1 = x
  <2>1. x # 0
    BY <1>3
  <2>2. QED
    BY <1>3, <2>1
<1>5. x - 1 \in S
  <2>1. x - 1 \in T => FALSE
    BY <1>2, <1>4
  <2>2. QED
    BY <1>4, <2>1
<1>6. QED
  BY <1>3, <1>4, <1>5

\* Induction from the end of a buffer of N bytes: an offset is in S if all behind
\* it are.
LEMMA DownwardInduction ==
    ASSUME NEW N \in Nat, NEW S,
           \A k \in 0 .. N : (\A i \in k + 1 .. N : i \in S) => k \in S
    PROVE  \A k \in 0 .. N : k \in S
<1> DEFINE T == { n \in Nat : \A k \in 0 .. N : N - k < n => k \in S }
<1>1. 0 \in T
  OBVIOUS
<1>2. ASSUME NEW n \in Nat, n \in T PROVE n + 1 \in T
  <2> SUFFICES ASSUME NEW k \in 0 .. N, N - k < n + 1 PROVE k \in S
    OBVIOUS
  <2>1. \A i \in k + 1 .. N : i \in S
    BY <1>2
  <2>2. QED
    BY <2>1
<1>3. N + 1 \in T
  <2> HIDE DEF T
  <2>1. \A n \in Nat : n \in T
    BY <1>1, <1>2, SetInduction
  <2>2. QED
    BY <2>1
<1>4. QED
  BY <1>3

\* One turn of the loop at offset k of d, if f tells what the turns after it find.
Turn(d, cmds, f, k) ==
    IF Len(d) - k < MIN_PKT_LEN
    THEN <<>>
    ELSE IF d[k + 1] # PKT_HDR \/ decoded_len(d, k) = 0
    THEN f[k + 1]
    ELSE (IF Handles(decode_packet(d, k), cmds) THEN <<decode_packet(d, k)>> ELSE <<>>)
             \o f[k + decoded_len(d, k)]

\* A turn looks only at what comes after it, and not past the end.
LEMMA TurnDepends ==
    ASSUME NEW d \in Seq(Byte), NEW cmds, NEW k \in 0 .. Len(d), NEW f, NEW g,
           \A i \in k + 1 .. Len(d) : f[i] = g[i]
    PROVE  Turn(d, cmds, f, k) = Turn(d, cmds, g, k)
<1>1. Len(d) \in Nat /\ k \in Nat
  OBVIOUS
<1>2. CASE Len(d) - k < MIN_PKT_LEN
  BY <1>2 DEF Turn
<1>3. CASE Len(d) - k >= MIN_PKT_LEN
  <2>1. f[k + 1] = g[k + 1]
    BY <1>1, <1>3 DEF MIN_PKT_LEN
  <2>2. decoded_len(d, k) # 0 => f[k + decoded_len(d, k)] = g[k + decoded_len(d, k)]
    <3>1. decoded_len(d, k) # 0 => k + decoded_len(d, k) \in k + 1 .. Len(d)
      BY <1>1, <1>3, DecodedLenBounds DEF MIN_PKT_LEN
    <3>2. QED
      BY <3>1
  <2>3. QED
    BY <1>1, <1>3, <2>1, <2>2 DEF Turn, MIN_PKT_LEN
<1>4. QED
  BY <1>1, <1>2, <1>3 DEF MIN_PKT_LEN

\* The recursion of packets_from has a solution, since every turn consumes bytes.
LEMMA PacketsFromExists ==
    ASSUME NEW d \in Seq(Byte), NEW cmds
    PROVE  \E g : g = [k \in 0 .. Len(d) |-> Turn(d, cmds, g, k)]
<1> DEFINE N == Len(d)
           Solves(g, n) == \A k \in 0 .. N : N - k < n => g[k] = Turn(d, cmds, g, k)
           S == { n \in Nat : \E g : g = [k \in 0 .. N |-> g[k]] /\ Solves(g, n) }
<1>1. N \in Nat
  OBVIOUS
<1>2. 0 \in S
  <2> DEFINE g == [k \in 0 .. N |-> <<>>]
  <2>1. g = [k \in 0 .. N |-> g[k]] /\ Solves(g, 0)
    BY <1>1
  <2>2. QED
    BY <2>1
<1>3. ASSUME NEW n \in Nat, n \in S PROVE n + 1 \in S
  <2>1. PICK g : g = [k \in 0 .. N |-> g[k]] /\ Solves(g, n)
    BY <1>3
  <2> DEFINE h == [k \in 0 .. N |-> IF N - k = n THEN Turn(d, cmds, g, k) ELSE g[k]]
  <2>2. h = [k \in 0 .. N |-> h[k]]
    OBVIOUS
  <2>3. ASSUME NEW k \in 0 .. N, N - k < n + 1 PROVE h[k] = Turn(d, cmds, h, k)
    <3>1. \A i \in k + 1 .. N : g[i] = h[i]
      BY <1>1, <2>3
    <3>2. Turn(d, cmds, g, k) = Turn(d, cmds, h, k)
      BY <3>1, TurnDepends
    <3>3. h[k] = Turn(d, cmds, g, k)
      <4>1. CASE N - k = n
        BY <4>1
      <4>2. CASE N - k < n
        BY <1>1, <2>1, <4>2
      <4>3. QED
        BY <1>1, <2>3, <4>1, <4>2
    <3>4. QED
      BY <3>2, <3>3
  <2>4. Solves(h, n + 1)
    BY <2>3
  <2> HIDE DEF h, Solves
  <2>5. \E q : q = [k \in 0 .. N |-> q[k]] /\ Solves(q, n + 1)
    BY <2>2, <2>4
  <2>6. QED
    BY <2>5
<1>4. N + 1 \in S
  <2> HIDE DEF S
  <2>1. \A n \in Nat : n \in S
    BY <1>2, <1>3, SetInduction
  <2>2. QED
    BY <1>1, <2>1
<1>5. PICK g : g = [k \in 0 .. N |-> g[k]] /\ Solves(g, N + 1)
  BY <1>4
<1>6. \A k \in 0 .. N : g[k] = Turn(d, cmds, g, k)
  BY <1>1, <1>5
<1>7. [k \in 0 .. N |-> g[k]] = [k \in 0 .. N |-> Turn(d, cmds, g, k)]
  BY <1>6
<1>8. QED
  BY <1>5, <1>7

LEMMA PacketsFromIsFunction ==
    ASSUME NEW d \in Seq(Byte), NEW cmds
    PROVE  packets_from(d, cmds)
               = [k \in 0 .. Len(d) |-> Turn(d, cmds, packets_from(d, cmds), k)]
<1> DEFINE Solution(g) == g = [k \in 0 .. Len(d) |-> Turn(d, cmds, g, k)]
<1>1. packets_from(d, cmds) = CHOOSE g : Solution(g)
  BY DEF packets_from, Turn
<1>2. \E g : Solution(g)
  BY PacketsFromExists
<1>3. Solution(CHOOSE g : Solution(g))
  <2> HIDE DEF Solution
  <2>1. QED
    BY <1>2
<1>4. QED
  BY <1>1, <1>3

\* What the loop finds from offset k on, turn by turn.
LEMMA PacketsFromTurn ==
    ASSUME NEW d \in Seq(Byte), NEW cmds, NEW k \in 0 .. Len(d)
    PROVE  packets_from(d, cmds)[k] = Turn(d, cmds, packets_from(d, cmds), k)
<1> DEFINE F == packets_from(d, cmds)
<1>1. F = [i \in 0 .. Len(d) |-> Turn(d, cmds, F, i)]
  BY PacketsFromIsFunction
<1> HIDE DEF F
<1>2. F[k] = Turn(d, cmds, F, k)
  BY <1>1
<1>3. QED
  BY <1>2 DEF F

\* The three outcomes of a turn: the end, one byte skipped, one packet taken.
LEMMA PacketsFromEnd ==
    ASSUME NEW d \in Seq(Byte), NEW cmds, NEW k \in 0 .. Len(d), Len(d) - k < MIN_PKT_LEN
    PROVE  packets_from(d, cmds)[k] = <<>>
BY PacketsFromTurn DEF Turn

LEMMA PacketsFromSkip ==
    ASSUME NEW d \in Seq(Byte), NEW cmds, NEW k \in 0 .. Len(d), Len(d) - k >= MIN_PKT_LEN,
           d[k + 1] # PKT_HDR \/ decoded_len(d, k) = 0
    PROVE  packets_from(d, cmds)[k] = packets_from(d, cmds)[k + 1]
<1>1. ~(Len(d) - k < MIN_PKT_LEN)
  BY DEF MIN_PKT_LEN
<1>2. QED
  BY <1>1, PacketsFromTurn DEF Turn

LEMMA PacketsFromTake ==
    ASSUME NEW d \in Seq(Byte), NEW cmds, NEW k \in 0 .. Len(d), Len(d) - k >= MIN_PKT_LEN,
           d[k + 1] = PKT_HDR, decoded_len(d, k) # 0
    PROVE  packets_from(d, cmds)[k] =
               (IF Handles(decode_packet(d, k), cmds) THEN <<decode_packet(d, k)>> ELSE <<>>)
                   \o packets_from(d, cmds)[k + decoded_len(d, k)]
<1>1. ~(Len(d) - k < MIN_PKT_LEN)
  BY DEF MIN_PKT_LEN
<1>2. QED
  BY <1>1, PacketsFromTurn DEF Turn

\* What the loop hands over are packets that its handler does not ignore.
LEMMA PacketsFromType ==
    ASSUME NEW d \in Seq(Byte), NEW cmds, NEW k \in 0 .. Len(d)
    PROVE  packets_from(d, cmds)[k] \in Seq({ p \in Packet : Handles(p, cmds) })
<1> DEFINE F == packets_from(d, cmds)
           H == { p \in Packet : Handles(p, cmds) }
           N == Len(d)
           S == { i \in 0 .. N : F[i] \in Seq(H) }
<1>1. N \in Nat
  OBVIOUS
<1>2. ASSUME NEW i \in 0 .. N, \A j \in i + 1 .. N : j \in S
      PROVE  i \in S
  <2>1. CASE N - i < MIN_PKT_LEN
    <3>1. F[i] = <<>>
      BY <2>1, PacketsFromEnd
    <3> HIDE DEF H, F
    <3>2. F[i] \in Seq(H)
      BY <3>1, EmptySeq
    <3>3. QED
      BY <3>2
  <2>2. CASE N - i >= MIN_PKT_LEN /\ (d[i + 1] # PKT_HDR \/ decoded_len(d, i) = 0)
    <3>1. F[i] = F[i + 1]
      BY <2>2, PacketsFromSkip
    <3>2. i + 1 \in i + 1 .. N
      BY <1>1, <2>2 DEF MIN_PKT_LEN
    <3>3. QED
      BY <1>2, <3>1, <3>2
  <2>3. CASE N - i >= MIN_PKT_LEN /\ d[i + 1] = PKT_HDR /\ decoded_len(d, i) # 0
    <3> DEFINE p == decode_packet(d, i)
               head == IF Handles(p, cmds) THEN <<p>> ELSE <<>>
               next == i + decoded_len(d, i)
    <3>1. F[i] = head \o F[next]
      BY <2>3, PacketsFromTake
    <3>2. next \in i + 1 .. N
      BY <1>1, <2>3, DecodedLenBounds DEF MIN_PKT_LEN
    <3>3. p \in Packet
      BY <2>3, DecodedType
    <3>4. head \in Seq(H)
      <4> HIDE DEF p
      <4>1. CASE Handles(p, cmds)
        <5>1. p \in H
          BY <3>3, <4>1
        <5> HIDE DEF H
        <5>2. QED
          BY <4>1, <5>1
      <4>2. CASE ~Handles(p, cmds)
        BY <4>2
      <4>3. QED
        BY <4>1, <4>2
    <3>5. F[next] \in Seq(H)
      BY <1>2, <3>2
    <3> HIDE DEF head, H, F, next
    <3>6. F[i] \in Seq(H)
      BY <3>1, <3>4, <3>5, ConcatProperties
    <3>7. QED
      BY <3>6
  <2>4. QED
    BY <1>1, <2>1, <2>2, <2>3 DEF MIN_PKT_LEN
<1>3. \A i \in 0 .. N : i \in S
  <2> HIDE DEF S
  <2>1. QED
    BY <1>1, <1>2, DownwardInduction
<1>4. QED
  BY <1>3

LEMMA PacketsInType ==
    ASSUME NEW d \in Seq(Byte), NEW cmds
    PROVE  packets_in(d, cmds) \in Seq({ p \in Packet : Handles(p, cmds) })
BY PacketsFromType DEF packets_in
=============================================================================
