---------------------------- MODULE SystemProofs ----------------------------
(***************************************************************************)
(* Proofs about System, for all lines of the user, registers, readings and *)
(* console texts, every way the line cuts the stream, and every checksum   *)
(* of two bytes.                                                           *)
(***************************************************************************)
EXTENDS System, PacketsProofs, Mt6701RegsProofs

-----------------------------------------------------------------------------
(***************************************************************************)
(* Types of the operators                                                  *)
(***************************************************************************)

\* The requests that the client can send, and the responses of the server.
WellFormed ==
    { r \in [cmd : {WRITE_CONFIG} \cup ReadCmds, pld : Seq(Byte)] :
          /\ r.cmd = READ_CONFIG => Len(r.pld) = 1
          /\ r.cmd = WRITE_CONFIG => Len(r.pld) = 3 }

ShortResponse == { p \in Response : Len(p.pld) <= MAX_PLD_LEN }

LEMMA PayloadBytes ==
    ASSUME NEW r \in WellFormed, r.cmd \in {READ_CONFIG, WRITE_CONFIG}
    PROVE  r.pld[1] \in Byte
<1>1. r.pld \in Seq(Byte) /\ Len(r.pld) \in {1, 3}
  BY DEF WellFormed
<1>2. 1 \in 1 .. Len(r.pld)
  BY <1>1
<1>3. QED
  BY <1>1, <1>2, ElementOfSeq

LEMMA CommandsAreBytes == ReadCmds \subseteq Byte /\ READ_CONFIG \in ReadCmds /\ WRITE_CONFIG \notin ReadCmds
BY DEF ReadCmds, Byte, READ_SENSOR, READ_CONFIG, READ_VBUS, READ_POWER, WRITE_CONFIG

LEMMA RemainderIsByte == \A n \in Nat : n % 256 \in Byte
BY DEF Byte

LEMMA One == ASSUME NEW S, NEW a \in S PROVE <<a>> \in Seq(S) /\ Len(<<a>>) = 1 /\ <<a>>[1] = a
OBVIOUS

LEMMA RequestType ==
    ASSUME NEW l \in Lines
    PROVE  requests_of(l) \in Seq(WellFormed)
<1> DEFINE A == l.args
<1>1. A \in Seq(Nat \cup {NotHex}) /\ Len(A) \in Nat
  BY LinesAssumption
<1>2. ASSUME NEW n \in Nat, Numbers(l, n), NEW i \in 1 .. n
      PROVE  A[i] \in Nat
  <2>1. i \in 1 .. Len(A)
    BY <1>1, <1>2 DEF Numbers
  <2>2. A[i] \in Nat \cup {NotHex}
    BY <1>1, <2>1, ElementOfSeq
  <2>3. QED
    BY <1>2, <2>2 DEF Numbers
<1>3. CASE l.cmd \in DOMAIN plain
  <2> DEFINE r == request(plain[l.cmd], <<>>)
  <2>1. plain[l.cmd] \in ReadCmds \ {READ_CONFIG}
    BY <1>3 DEF plain, ReadCmds, READ_SENSOR, READ_CONFIG, READ_VBUS, READ_DIETEMP,
                READ_VSHUNT, READ_CURRENT, READ_POWER
  <2>2. r \in WellFormed
    BY <2>1, CommandsAreBytes, EmptySeq DEF request, WellFormed
  <2>3. requests_of(l) = <<r>>
    <3>1. l.cmd # "reg" /\ l.cmd # "wreg"
      BY <1>3 DEF plain
    <3>2. QED
      BY <1>3, <3>1 DEF requests_of
  <2> HIDE DEF r
  <2>4. QED
    BY <2>2, <2>3, One
<1>4. CASE l.cmd \notin DOMAIN plain /\ l.cmd = "reg" /\ Numbers(l, 1)
  <2> DEFINE pld == <<A[1] % 256>>
             r == request(READ_CONFIG, pld)
  <2>1. A[1] \in Nat
    BY <1>2, <1>4
  <2>2. pld \in Seq(Byte) /\ Len(pld) = 1
    BY <2>1, RemainderIsByte, One
  <2> HIDE DEF pld
  <2>3. r \in WellFormed
    BY <2>2, CommandsAreBytes DEF request, WellFormed
  <2>4. requests_of(l) = <<r>>
    BY <1>4 DEF requests_of, pld
  <2> HIDE DEF r
  <2>5. QED
    BY <2>3, <2>4, One
<1>5. CASE l.cmd \notin DOMAIN plain /\ l.cmd = "wreg" /\ Numbers(l, 2)
  <2> DEFINE pld == <<A[1] % 256, (A[2] \div 256) % 256, A[2] % 256>>
             r == request(WRITE_CONFIG, pld)
  <2>1. A[1] \in Nat /\ A[2] \in Nat
    BY <1>2, <1>5
  <2>2. A[2] \div 256 \in Nat
    BY <2>1
  <2>3. pld \in Seq(Byte)
    BY <2>1, <2>2, RemainderIsByte, Triple
  <2>4. Len(pld) = 3
    OBVIOUS
  <2> HIDE DEF pld
  <2>5. r \in WellFormed
    BY <2>3, <2>4, CommandsAreBytes DEF request, WellFormed
  <2>6. requests_of(l) = <<r>>
    BY <1>5 DEF requests_of, pld
  <2> HIDE DEF r
  <2>7. QED
    BY <2>5, <2>6, One
<1>6. CASE /\ l.cmd \notin DOMAIN plain
           /\ ~(l.cmd = "reg" /\ Numbers(l, 1)) /\ ~(l.cmd = "wreg" /\ Numbers(l, 2))
  <2>1. requests_of(l) = <<>>
    BY <1>6 DEF requests_of
  <2>2. QED
    BY <2>1, EmptySeq
<1>7. QED
  BY <1>3, <1>4, <1>5, <1>6

LEMMA AutoRequestsType == AutoRequests \in Seq(WellFormed)
<1> DEFINE a == request(READ_SENSOR, <<>>)
           b == request(READ_VBUS, <<>>)
<1>1. a \in WellFormed /\ b \in WellFormed
  BY EmptySeq DEF request, WellFormed, ReadCmds, READ_SENSOR, READ_CONFIG, WRITE_CONFIG, READ_VBUS, READ_POWER
<1>2. AutoRequests = IF auto_send THEN <<a, b>> ELSE <<>>
  BY DEF AutoRequests
<1> HIDE DEF a, b
<1>3. <<a, b>> \in Seq(WellFormed) /\ <<>> \in Seq(WellFormed)
  BY <1>1
<1>4. QED
  BY <1>2, <1>3

\* Sending only adds requests.
LEMMA SendAllType ==
    ASSUME sent \in Seq(WellFormed), NEW rs \in Seq(WellFormed), SendAll(rs)
    PROVE  /\ sent' \in Seq(WellFormed) /\ Len(sent) <= Len(sent')
           /\ \A i \in 1 .. Len(sent) : sent'[i] = sent[i]
<1>1. /\ sent \o rs \in Seq(WellFormed) /\ Len(sent \o rs) = Len(sent) + Len(rs)
      /\ \A i \in 1 .. Len(sent) + Len(rs) :
             (sent \o rs)[i] = IF i <= Len(sent) THEN sent[i] ELSE rs[i - Len(sent)]
  BY ConcatProperties
<1>2. Len(sent) \in Nat /\ Len(rs) \in Nat
  OBVIOUS
<1>3. \A i \in 1 .. Len(sent) : (sent \o rs)[i] = sent[i]
  BY <1>1, <1>2
<1>4. QED
  BY <1>1, <1>2, <1>3 DEF SendAll

\* A word fits into two bytes.
LEMMA NumberBytes ==
    ASSUME NEW w \in Word
    PROVE  /\ number(w) \in Nat /\ number(w) \div 256 \in Byte /\ number(w) % 256 \in Byte
           /\ (number(w) \div 256) * 256 + (number(w) % 256) = number(w)
<1> DEFINE v == number(w)
<1>1. v \in Nat /\ v < 65536
  BY NumberBelow DEF Within
<1> HIDE DEF v
<1>2. v \div 256 \in 0 .. 255 /\ v % 256 \in 0 .. 255 /\ (v \div 256) * 256 + (v % 256) = v
  BY <1>1
<1>3. QED
  BY <1>1, <1>2 DEF Byte, v

LEMMA WordIsWord == \A n : word(n) \in Word
BY DEF word, Word

LEMMA FieldIs ==
    ASSUME NEW r, r.pld[1] \in Byte
    PROVE  field(r) \in Regs \cup {"none"}
<1> DEFINE b == r.pld[1]
<1>1. Len(ConfigReg) = 13 /\ \A i \in 1 .. 13 : ConfigReg[i] \in Regs
  <2>1. Len(ConfigReg) = 13
    BY DEF ConfigReg
  <2>2. ASSUME NEW i \in 1 .. 13 PROVE ConfigReg[i] \in Regs
    <3>1. i \in {1, 2, 3, 4, 5, 6, 7, 8, 9, 10, 11, 12, 13}
      OBVIOUS
    <3>2. QED
      BY <3>1 DEF ConfigReg, Regs
  <2>3. QED
    BY <2>1, <2>2
<1>2. b < 13 => b + 1 \in 1 .. 13
  BY DEF Byte
<1> HIDE DEF b
<1>3. field(r) = IF b < 13 THEN ConfigReg[b + 1] ELSE "none"
  BY <1>1 DEF field, b
<1>4. QED
  BY <1>1, <1>2, <1>3

\* Any register writes that may arrive of a WRITE_CONFIG leave bytes in the
\* registers.
LEMMA ArrivedImage ==
    ASSUME NEW m \in Image, NEW n \in Image, NEW r, field(r) \in Regs,
           NEW parts \in Arrivals(writes_of(r, m))
    PROVE  Applied(n, parts) \in Image
<1> DEFINE s == writes_of(r, m)
<1>1. s \in Writes
  BY WordIsWord, WritesParts DEF writes_of
<1> HIDE DEF s
<1>2. s \in Seq(Part) /\ Len(s) \in 1 .. 2 /\ DOMAIN s = 1 .. Len(s)
  BY <1>1 DEF Writes
<1>3. /\ parts \in [DOMAIN s -> UNION { Beginnings(s[i]) \cup {s[i]} : i \in DOMAIN s }]
      /\ \A i \in DOMAIN s : parts[i] \in Beginnings(s[i]) \cup {s[i]}
  BY DEF Arrivals, s
<1>4. \A i \in 1 .. Len(s) : parts[i] \in Part
  <2> TAKE i \in 1 .. Len(s)
  <2>1. s[i] \in Part
    BY <1>2, ElementOfSeq
  <2>2. parts[i] \in Beginnings(s[i]) \cup {s[i]}
    BY <1>2, <1>3
  <2>3. QED
    BY <2>1, <2>2, PrefixPart
<1>5. DOMAIN parts = 1 .. Len(s) /\ parts = [i \in 1 .. Len(s) |-> parts[i]]
  BY <1>2, <1>3
<1>6. parts \in Seq(Part) /\ Len(parts) = Len(s)
  BY <1>2, <1>4, <1>5
<1>7. CASE Len(parts) = 1
  <2>1. parts[1] \in Part
    BY <1>4, <1>6, <1>7
  <2>2. Applied(n, parts) = put(n, parts[1])
    BY <1>7 DEF Applied
  <2>3. QED
    BY <2>1, <2>2, PutImage
<1>8. CASE Len(parts) = 2
  <2>1. parts[1] \in Part /\ parts[2] \in Part
    BY <1>4, <1>6, <1>8
  <2>2. Applied(n, parts) = put(put(n, parts[1]), parts[2])
    BY <1>8 DEF Applied
  <2>3. QED
    BY <2>1, <2>2, PutImage
<1>9. QED
  BY <1>2, <1>6, <1>7, <1>8

\* What a WRITE_CONFIG without failures does to the registers and to what other
\* fields read.
LEMMA WrittenRegisters ==
    ASSUME NEW m \in Image, NEW r, r.pld[1] \in Byte
    PROVE  LET after == Applied(m, writes_of(r, m))
           IN  /\ after \in Image
               /\ field(r) \in Conforming
                      => server_get_reg_value(field(r), after)
                             = Truncated(field(r), word(value(r.pld)))
               /\ \A q \in Conforming : q # field(r) /\ ~(q \in Overlap /\ field(r) \in Overlap)
                      => server_get_reg_value(q, after) = server_get_reg_value(q, m)
<1> DEFINE reg == field(r)
           v == word(value(r.pld))
           after == Applied(m, writes_of(r, m))
<1>1. reg \in Regs \cup {"none"} /\ v \in Word
  BY FieldIs, WordIsWord
<1>2. writes_of(r, m) = server_set_reg_value(reg, m, v)
  BY DEF writes_of
<1>3. Conforming \subseteq Regs /\ "none" \notin Regs
  BY DEF Conforming, Regs
<1> HIDE DEF reg, v
<1>4. CASE reg \in Regs
  <2>1. after \in Image
    <3>1. \E q \in Conforming : q # reg /\ ~(q \in Overlap /\ reg \in Overlap)
      <4>1. "HYST" \in Conforming /\ "PWM_FREQ" \in Conforming /\ "HYST" \notin Overlap
            /\ "PWM_FREQ" \notin Overlap /\ "HYST" # "PWM_FREQ"
        BY DEF Conforming, Overlap
      <4>2. QED
        BY <4>1
    <3>2. QED
      BY <1>1, <1>2, <1>3, <1>4, <3>1, WriteLeavesOthers
  <2>2. reg \in Conforming => server_get_reg_value(reg, after) = Truncated(reg, v)
    BY <1>1, <1>2, AppliedReadsBack
  <2>3. ASSUME NEW q \in Conforming, q # reg, ~(q \in Overlap /\ reg \in Overlap)
        PROVE  server_get_reg_value(q, after) = server_get_reg_value(q, m)
    BY <1>1, <1>2, <1>3, <1>4, <2>3, WriteLeavesOthers
  <2>4. QED
    BY <2>1, <2>2, <2>3 DEF reg, v
<1>5. CASE reg = "none"
  <2>1. writes_of(r, m) = <<>>
    BY <1>2, <1>5 DEF server_set_reg_value
  <2>2. after = m
    BY <2>1 DEF Applied
  <2>3. QED
    BY <1>3, <1>5, <2>2 DEF reg
<1>6. QED
  BY <1>1, <1>4, <1>5

LEMMA MeasuredType ==
    ASSUME NEW cmd \in ReadCmds, cmd # READ_CONFIG
    PROVE  /\ Measured[cmd] \in Seq(Byte) /\ Len(Measured[cmd]) <= MAX_PLD_LEN
           /\ [i \in DOMAIN Measured[cmd] |-> 0] \in Seq(Byte)
           /\ Len([i \in DOMAIN Measured[cmd] |-> 0]) = Len(Measured[cmd])
<1> DEFINE s == Measured[cmd]
<1>1. s \in Seq(Byte) /\ Len(s) <= MAX_PLD_LEN
  BY LineAssumption
<1> HIDE DEF s
<1>2. DOMAIN s = 1 .. Len(s) /\ Len(s) \in Nat /\ 0 \in Byte
  BY <1>1 DEF Byte
<1>3. [i \in 1 .. Len(s) |-> 0] \in Seq(Byte) /\ Len([i \in 1 .. Len(s) |-> 0]) = Len(s)
  BY <1>2
<1>4. QED
  BY <1>1, <1>2, <1>3 DEF s

\* The payload of a response, read or zeroed.
LEMMA ReplyType ==
    ASSUME NEW r \in WellFormed, r.cmd \in ReadCmds,
           NEW m \in Image
    PROVE  request(r.cmd, reply(r, m)) \in ShortResponse
<1>1. CASE r.cmd = READ_CONFIG
  <2>1. r.pld[1] \in Byte
    BY <1>1, PayloadBytes
  <2> DEFINE v == number(server_get_reg_value(field(r), m))
             pld == <<r.pld[1], v \div 256, v % 256>>
  <2>2. pld \in Seq(Byte)
    <3>1. v \div 256 \in Byte /\ v % 256 \in Byte
      BY RegValueWord, NumberBytes
    <3>2. QED
      BY <2>1, <3>1, Triple
  <2>3. Len(pld) = 3
    OBVIOUS
  <2>4. reply(r, m) = pld
    BY <1>1 DEF reply
  <2> HIDE DEF pld, v
  <2>5. Len(pld) <= MAX_PLD_LEN
    BY <2>3 DEF MAX_PLD_LEN
  <2>6. QED
    BY <2>2, <2>4, <2>5 DEF request, ShortResponse, Response
<1>2. CASE r.cmd # READ_CONFIG
  BY <1>2, MeasuredType DEF reply, request, ShortResponse, Response
<1>3. QED
  BY <1>1, <1>2

LEMMA ZeroedType ==
    ASSUME NEW r \in WellFormed, r.cmd \in ReadCmds
    PROVE  request(r.cmd, zeroed(r)) \in ShortResponse
<1>1. CASE r.cmd = READ_CONFIG
  <2>1. zeroed(r) = reply(r, ZeroImage)
    BY <1>1 DEF zeroed
  <2>2. QED
    BY <2>1, ReplyType, ZeroIsImage
<1>2. CASE r.cmd # READ_CONFIG
  BY <1>2, MeasuredType DEF zeroed, request, ShortResponse, Response
<1>3. QED
  BY <1>1, <1>2

-----------------------------------------------------------------------------
(***************************************************************************)
(* Bytes on their way                                                      *)
(***************************************************************************)

Elems(s) == { s[i] : i \in 1 .. Len(s) }

\* Bytes of responses come response by response, and byte by byte; text, which
\* belongs to none, may be anywhere.
Lt(x, y) == x.of # 0 /\ y.of # 0 => x.of < y.of \/ (x.of = y.of /\ x.at < y.at)

Before(s, t) == \A x \in Elems(s), y \in Elems(t) : Lt(x, y)

InOrder(s) == \A i, j \in 1 .. Len(s) : i < j => Lt(s[i], s[j])

LEMMA ConcatElems ==
    ASSUME NEW S, NEW s \in Seq(S), NEW t \in Seq(S)
    PROVE  Elems(s \o t) = Elems(s) \cup Elems(t)
<1>1. /\ Len(s \o t) = Len(s) + Len(t)
      /\ \A i \in 1 .. Len(s) + Len(t) :
             (s \o t)[i] = IF i <= Len(s) THEN s[i] ELSE t[i - Len(s)]
  BY ConcatProperties
<1>2. Len(s) \in Nat /\ Len(t) \in Nat
  OBVIOUS
<1>3. ASSUME NEW i \in 1 .. Len(s) + Len(t) PROVE (s \o t)[i] \in Elems(s) \cup Elems(t)
  <2>1. CASE i <= Len(s)
    <3>1. i \in 1 .. Len(s) /\ (s \o t)[i] = s[i]
      BY <1>1, <1>2, <2>1
    <3>2. QED
      BY <3>1 DEF Elems
  <2>2. CASE ~(i <= Len(s))
    <3>1. i - Len(s) \in 1 .. Len(t) /\ (s \o t)[i] = t[i - Len(s)]
      BY <1>1, <1>2, <2>2
    <3>2. QED
      BY <3>1 DEF Elems
  <2>3. QED
    BY <2>1, <2>2
<1>4. ASSUME NEW i \in 1 .. Len(s) PROVE s[i] \in Elems(s \o t)
  <2>1. i \in 1 .. Len(s) + Len(t) /\ (s \o t)[i] = s[i]
    BY <1>1, <1>2
  <2>2. QED
    BY <1>1, <2>1 DEF Elems
<1>5. ASSUME NEW i \in 1 .. Len(t) PROVE t[i] \in Elems(s \o t)
  <2>1. /\ Len(s) + i \in 1 .. Len(s) + Len(t) /\ ~(Len(s) + i <= Len(s))
        /\ (Len(s) + i) - Len(s) = i
    BY <1>2
  <2>2. (s \o t)[Len(s) + i] = t[i]
    BY <1>1, <2>1
  <2>3. QED
    BY <1>1, <2>1, <2>2 DEF Elems
<1>6. Elems(s \o t) \subseteq Elems(s) \cup Elems(t)
  <2> SUFFICES ASSUME NEW x \in Elems(s \o t) PROVE x \in Elems(s) \cup Elems(t)
    OBVIOUS
  <2>1. PICK i \in 1 .. Len(s) + Len(t) : x = (s \o t)[i]
    BY <1>1 DEF Elems
  <2>2. QED
    BY <1>3, <2>1
<1>7. Elems(s) \subseteq Elems(s \o t)
  <2> SUFFICES ASSUME NEW x \in Elems(s) PROVE x \in Elems(s \o t)
    OBVIOUS
  <2>1. PICK i \in 1 .. Len(s) : x = s[i]
    BY DEF Elems
  <2>2. QED
    BY <1>4, <2>1
<1>8. Elems(t) \subseteq Elems(s \o t)
  <2> SUFFICES ASSUME NEW x \in Elems(t) PROVE x \in Elems(s \o t)
    OBVIOUS
  <2>1. PICK i \in 1 .. Len(t) : x = t[i]
    BY DEF Elems
  <2>2. QED
    BY <1>5, <2>1
<1>9. QED
  BY <1>6, <1>7, <1>8

LEMMA ConcatInOrder ==
    ASSUME NEW S, NEW s \in Seq(S), NEW t \in Seq(S)
    PROVE  InOrder(s \o t) <=> InOrder(s) /\ InOrder(t) /\ Before(s, t)
<1>1. /\ Len(s \o t) = Len(s) + Len(t)
      /\ \A i \in 1 .. Len(s) + Len(t) :
             (s \o t)[i] = IF i <= Len(s) THEN s[i] ELSE t[i - Len(s)]
  BY ConcatProperties
<1>2. Len(s) \in Nat /\ Len(t) \in Nat
  OBVIOUS
<1>3. \A i \in 1 .. Len(s) : i \in 1 .. Len(s) + Len(t) /\ (s \o t)[i] = s[i]
  BY <1>1, <1>2
<1>4. \A i \in 1 .. Len(t) : Len(s) + i \in 1 .. Len(s) + Len(t) /\ (s \o t)[Len(s) + i] = t[i]
  <2> TAKE i \in 1 .. Len(t)
  <2>1. /\ Len(s) + i \in 1 .. Len(s) + Len(t) /\ ~(Len(s) + i <= Len(s))
        /\ (Len(s) + i) - Len(s) = i
    BY <1>2
  <2>2. QED
    BY <1>1, <2>1
<1>5. ASSUME InOrder(s \o t) PROVE InOrder(s) /\ InOrder(t) /\ Before(s, t)
  <2>1. \A i, j \in 1 .. Len(s) + Len(t) : i < j => Lt((s \o t)[i], (s \o t)[j])
    BY <1>1, <1>5 DEF InOrder
  <2>2. ASSUME NEW i \in 1 .. Len(s), NEW j \in 1 .. Len(s), i < j PROVE Lt(s[i], s[j])
    BY <1>3, <2>1, <2>2
  <2>3. ASSUME NEW i \in 1 .. Len(t), NEW j \in 1 .. Len(t), i < j PROVE Lt(t[i], t[j])
    <3>1. Len(s) + i < Len(s) + j
      BY <1>2, <2>3
    <3>2. QED
      BY <1>4, <2>1, <3>1
  <2>4. ASSUME NEW i \in 1 .. Len(s), NEW j \in 1 .. Len(t) PROVE Lt(s[i], t[j])
    <3>1. i < Len(s) + j
      BY <1>2
    <3>2. QED
      BY <1>3, <1>4, <2>1, <3>1
  <2>5. QED
    BY <2>2, <2>3, <2>4 DEF InOrder, Before, Elems
<1>6. ASSUME InOrder(s), InOrder(t), Before(s, t) PROVE InOrder(s \o t)
  <2> SUFFICES ASSUME NEW i \in 1 .. Len(s) + Len(t), NEW j \in 1 .. Len(s) + Len(t), i < j
               PROVE  Lt((s \o t)[i], (s \o t)[j])
    BY <1>1 DEF InOrder
  <2>1. CASE j <= Len(s)
    <3>1. i \in 1 .. Len(s) /\ j \in 1 .. Len(s)
      BY <1>2, <2>1
    <3>2. QED
      BY <1>3, <1>6, <3>1 DEF InOrder
  <2>2. CASE i <= Len(s) /\ ~(j <= Len(s))
    <3>1. i \in 1 .. Len(s) /\ j - Len(s) \in 1 .. Len(t)
      BY <1>2, <2>2
    <3>2. (s \o t)[i] = s[i] /\ (s \o t)[j] = t[j - Len(s)]
      BY <1>1, <2>2
    <3>3. QED
      BY <1>6, <3>1, <3>2 DEF Before, Elems
  <2>3. CASE ~(i <= Len(s))
    <3>1. /\ i - Len(s) \in 1 .. Len(t) /\ j - Len(s) \in 1 .. Len(t) /\ i - Len(s) < j - Len(s)
          /\ ~(j <= Len(s))
      BY <1>2, <2>3
    <3>2. (s \o t)[i] = t[i - Len(s)] /\ (s \o t)[j] = t[j - Len(s)]
      BY <1>1, <2>3, <3>1
    <3>3. QED
      BY <1>6, <3>1, <3>2 DEF InOrder
  <2>4. QED
    BY <1>2, <2>1, <2>2, <2>3
<1>7. QED
  BY <1>5, <1>6

\* A text, or a response: tagged bytes, in order.
LEMMA TaggedType ==
    ASSUME NEW bs \in Seq(Byte), NEW k \in Nat
    PROVE  /\ tagged(bs, k) \in Seq(Tagged) /\ Len(tagged(bs, k)) = Len(bs)
           /\ InOrder(tagged(bs, k))
           /\ \A x \in Elems(tagged(bs, k)) : x.of = k /\ x.at \in 1 .. Len(bs) /\ x.byte = bs[x.at]
<1> DEFINE s == tagged(bs, k)
<1>1. Len(bs) \in Nat /\ \A i \in 1 .. Len(bs) : bs[i] \in Byte
  BY ElementOfSeq
<1>2. s = [i \in 1 .. Len(bs) |-> [byte |-> bs[i], of |-> k, at |-> i]]
  BY DEF tagged
<1>3. \A i \in 1 .. Len(bs) : [byte |-> bs[i], of |-> k, at |-> i] \in Tagged
  BY <1>1 DEF Tagged
<1>4. s \in Seq(Tagged) /\ Len(s) = Len(bs)
  BY <1>1, <1>2, <1>3
<1>5. \A i \in 1 .. Len(bs) : s[i].byte = bs[i] /\ s[i].of = k /\ s[i].at = i
  BY <1>2
<1> HIDE DEF s
<1>6. InOrder(s)
  BY <1>4, <1>5 DEF InOrder, Lt
<1>7. \A x \in Elems(s) : x.of = k /\ x.at \in 1 .. Len(bs) /\ x.byte = bs[x.at]
  BY <1>4, <1>5 DEF Elems
<1>8. QED
  BY <1>4, <1>6, <1>7 DEF s

-----------------------------------------------------------------------------
(***************************************************************************)
(* The invariant of the types and of the stream                            *)
(***************************************************************************)

\* A byte of a response is the one that was sent.
GenuineIn(x, responses) ==
    x.of # 0 =>
        /\ x.of \in 1 .. Len(responses)
        /\ LET p == responses[x.of]
           IN  x.at \in 1 .. MIN_PKT_LEN + Len(p.pld) /\ x.byte = send_bytes(p.cmd, p.pld)[x.at]

TypeInv ==
    /\ tty \in Seq(Tagged) /\ tx \in Seq(Tagged)
    /\ sent \in Seq(WellFormed)
    /\ shown \in Seq(Response) /\ answered \in Seq(ShortResponse)
    /\ auto_send \in BOOLEAN /\ running \in BOOLEAN
    /\ served \in Seq(Nat) /\ \A i \in 1 .. Len(served) : served[i] \in 1 .. Len(sent)
    /\ regs \in Image
    /\ failures \in 0 .. MaxFailures

StreamInv ==
    /\ \A x \in Elems(tty) \cup Elems(tx) : GenuineIn(x, answered)
    /\ InOrder(tty) /\ InOrder(tx) /\ Before(tty, tx)

SpoiledOK == spoiled \subseteq 1 .. Len(answered)

IInv == TypeInv /\ StreamInv /\ SpoiledOK

\* What every step does to the requests.
SentGrows ==
    /\ sent' \in Seq(WellFormed) /\ Len(sent) <= Len(sent')
    /\ \A i \in 1 .. Len(sent) : sent'[i] = sent[i]

LEMMA InitIInv == Init => IInv
<1> SUFFICES ASSUME Init PROVE IInv
  OBVIOUS
<1>1. /\ tty = <<>> /\ tx = <<>> /\ sent = <<>> /\ shown = <<>> /\ answered = <<>> /\ served = <<>>
      /\ auto_send = FALSE /\ running = TRUE /\ regs = Factory /\ spoiled = {} /\ failures = 0
  BY DEF Init, ClientInit
<1>2. \A S : <<>> \in Seq(S)
  BY EmptySeq
<1>3. Len(tty) = 0 /\ Len(tx) = 0 /\ Len(served) = 0
  BY <1>1
<1>4. regs \in Image
  BY <1>1, FactoryAssumption
<1>5. failures \in 0 .. MaxFailures
  BY <1>1, LineAssumption
<1>6. TypeInv
  <2>1. auto_send \in BOOLEAN /\ running \in BOOLEAN
    BY <1>1
  <2>2. \A i \in 1 .. Len(served) : served[i] \in 1 .. Len(sent)
    BY <1>3
  <2>3. /\ tty \in Seq(Tagged) /\ tx \in Seq(Tagged) /\ sent \in Seq(WellFormed) /\ shown \in Seq(Response)
        /\ answered \in Seq(ShortResponse) /\ served \in Seq(Nat)
    BY <1>1, <1>2
  <2>4. QED
    BY <1>4, <1>5, <2>1, <2>2, <2>3 DEF TypeInv
<1>7. StreamInv
  BY <1>3 DEF StreamInv, Elems, InOrder, Before
<1>8. QED
  BY <1>1, <1>6, <1>7 DEF IInv, SpoiledOK

\* The user types a command, or ends: only requests are added.
Typing ==
    /\ SentGrows
    /\ UNCHANGED <<tty, shown, served, regs, tx, answered, failures, spoiled>>
    /\ auto_send' \in BOOLEAN /\ running' \in BOOLEAN

LEMMA CommandTypes ==
    ASSUME TypeInv, NEW l \in Lines, Command(l), UNCHANGED <<server, spoiled>>
    PROVE  Typing
<1>1. SentGrows
  BY RequestType, SendAllType DEF Command, TypeInv, SentGrows
<1>2. QED
  BY <1>1 DEF Command, server, TypeInv, Typing

LEMMA EndTypes ==
    ASSUME TypeInv, EndOfInput, UNCHANGED <<server, spoiled>>
    PROVE  Typing
<1>1. sent' = sent /\ UNCHANGED <<tty, shown, served, regs, tx, answered, failures, spoiled>>
  BY DEF EndOfInput, server
<1>2. SentGrows
  BY <1>1 DEF TypeInv, SentGrows
<1>3. auto_send' \in BOOLEAN /\ running' \in BOOLEAN
  BY DEF EndOfInput, TypeInv
<1>4. QED
  BY <1>1, <1>2, <1>3 DEF Typing

LEMMA StutterTypes == TypeInv /\ UNCHANGED vars => Typing
BY DEF vars, client, server, TypeInv, SentGrows, Typing

LEMMA TypingIInv == IInv /\ Typing => IInv'
<1> SUFFICES ASSUME IInv, Typing PROVE IInv'
  OBVIOUS
<1>1. TypeInv'
  <2>1. \A i \in 1 .. Len(served) : served[i] \in 1 .. Len(sent')
    <3>1. Len(sent) \in Nat /\ Len(sent') \in Nat
      BY DEF IInv, TypeInv, SentGrows, Typing
    <3>2. QED
      BY SMTT(30), <3>1 DEF IInv, TypeInv, SentGrows, Typing
  <2>2. QED
    BY <2>1 DEF IInv, TypeInv, SentGrows, Typing
<1>2. StreamInv' /\ SpoiledOK'
  BY DEF IInv, StreamInv, SpoiledOK, Typing
<1>3. QED
  BY <1>1, <1>2 DEF IInv

\* Bytes move from the line to the port.
LEMMA ArriveSplits ==
    ASSUME TypeInv, Arrive
    PROVE  \E a \in Seq(Tagged), b \in Seq(Tagged) : tx = a \o b /\ tty' = tty \o a /\ tx' = b
<1>1. PICK c \in Chunks :
          LET n == IF c < Len(tx) THEN c ELSE Len(tx)
          IN  /\ tty' = tty \o SubSeq(tx, 1, n)
              /\ tx' = SubSeq(tx, n + 1, Len(tx))
  BY DEF Arrive
<1> DEFINE n == IF c < Len(tx) THEN c ELSE Len(tx)
<1>2. n \in 0 .. Len(tx) /\ tx \in Seq(Tagged)
  BY LineAssumption DEF TypeInv
<1>3. tty' = tty \o SubSeq(tx, 1, n) /\ tx' = SubSeq(tx, n + 1, Len(tx))
  BY <1>1
<1> HIDE DEF n
<1>4. /\ SubSeq(tx, 1, n) \in Seq(Tagged) /\ SubSeq(tx, n + 1, Len(tx)) \in Seq(Tagged)
      /\ SubSeq(tx, 1, n) \o SubSeq(tx, n + 1, Len(tx)) = tx
  BY <1>2, SplitSeq
<1>5. QED
  BY <1>3, <1>4

LEMMA ArriveElems ==
    ASSUME TypeInv, Arrive
    PROVE  Elems(tty') \cup Elems(tx') = Elems(tty) \cup Elems(tx)
<1>1. PICK a \in Seq(Tagged), b \in Seq(Tagged) : tx = a \o b /\ tty' = tty \o a /\ tx' = b
  BY ArriveSplits
<1>2. Elems(tx) = Elems(a) \cup Elems(b) /\ Elems(tty \o a) = Elems(tty) \cup Elems(a)
  BY <1>1, ConcatElems DEF TypeInv
<1>3. QED
  BY <1>1, <1>2

LEMMA ArriveIInv == IInv /\ Arrive => IInv'
<1> SUFFICES ASSUME IInv, Arrive PROVE IInv'
  OBVIOUS
<1>1. PICK a \in Seq(Tagged), b \in Seq(Tagged) : tx = a \o b /\ tty' = tty \o a /\ tx' = b
  BY ArriveSplits DEF IInv
<1>2. UNCHANGED <<sent, shown, auto_send, running, served, regs, answered, failures, spoiled>>
  BY DEF Arrive
<1>3. tty \in Seq(Tagged) /\ tty' \in Seq(Tagged)
  BY <1>1, ConcatProperties DEF IInv, TypeInv
<1>4. TypeInv'
  BY <1>1, <1>2, <1>3 DEF IInv, TypeInv
<1>5. Elems(tx) = Elems(a) \cup Elems(b) /\ Elems(tty') = Elems(tty) \cup Elems(a)
  BY <1>1, <1>3, ConcatElems
<1>6. InOrder(a) /\ InOrder(b) /\ Before(a, b)
  BY <1>1, ConcatInOrder DEF IInv, StreamInv
<1>7. Before(tty, a) /\ Before(tty', b)
  BY <1>5, <1>6 DEF IInv, StreamInv, Before
<1>8. InOrder(tty')
  BY <1>1, <1>3, <1>6, <1>7, ConcatInOrder DEF IInv, StreamInv
<1>9. \A x \in Elems(tty') \cup Elems(tx') : GenuineIn(x, answered')
  BY <1>1, <1>2, <1>5 DEF IInv, StreamInv
<1>10. StreamInv' /\ SpoiledOK'
  BY <1>1, <1>2, <1>6, <1>7, <1>8, <1>9 DEF IInv, StreamInv, SpoiledOK
<1>11. QED
  BY <1>4, <1>10 DEF IInv

-----------------------------------------------------------------------------
\* A read takes bytes off the front of the port.
LEMMA ReadSplits ==
    ASSUME TypeInv, Read
    PROVE  /\ Available \in Seq(Tagged) /\ tty' \in Seq(Tagged) /\ tty = Available \o tty'
           /\ shown' = shown \o Printed(Available) /\ SendAll(AutoRequests)
           /\ spoiled' = spoiled \cup Spoils(Available)
           /\ UNCHANGED <<auto_send, running, served, regs, tx, answered, failures>>
<1> DEFINE n == IF Len(tty) < ReadLen THEN Len(tty) ELSE ReadLen
<1>1. tty \in Seq(Tagged) /\ n \in 0 .. Len(tty)
  BY LimitsAssumption DEF TypeInv
<1>2. Available = SubSeq(tty, 1, n)
  BY DEF Available
<1> HIDE DEF n
<1>3. /\ SubSeq(tty, 1, n) \in Seq(Tagged) /\ Len(SubSeq(tty, 1, n)) = n
      /\ SubSeq(tty, n + 1, Len(tty)) \in Seq(Tagged)
      /\ SubSeq(tty, 1, n) \o SubSeq(tty, n + 1, Len(tty)) = tty
  BY <1>1, SplitSeq
<1>4. tty' = SubSeq(tty, n + 1, Len(tty))
  BY <1>2, <1>3 DEF Read, ReadPort, TakeAvailable
<1>5. QED
  BY <1>2, <1>3, <1>4 DEF Read, ReadPort, TakeAvailable, server

LEMMA BytesOfType ==
    ASSUME NEW read \in Seq(Tagged)
    PROVE  /\ bytes_of(read) \in Seq(Byte) /\ Len(bytes_of(read)) = Len(read)
           /\ \A i \in 1 .. Len(read) : bytes_of(read)[i] = read[i].byte
<1>1. Len(read) \in Nat /\ \A i \in 1 .. Len(read) : read[i].byte \in Byte
  <2>1. \A i \in 1 .. Len(read) : read[i] \in Tagged
    BY ElementOfSeq
  <2>2. QED
    BY <2>1 DEF Tagged
<1>2. QED
  BY <1>1 DEF bytes_of

LEMMA PrintedType ==
    ASSUME NEW read \in Seq(Tagged)
    PROVE  LET ps == packets_in(bytes_of(read), ReadCmds)
           IN  /\ Printed(read) \in Seq(Response) /\ Len(Printed(read)) = Len(ps)
               /\ \A i \in 1 .. Len(ps) : Printed(read)[i] = request(ps[i].cmd, ps[i].pld)
<1> DEFINE ps == packets_in(bytes_of(read), ReadCmds)
           H == { p \in Packet : Handles(p, ReadCmds) }
<1>1. ps \in Seq(H)
  BY BytesOfType, PacketsInType
<1>2. Printed(read) = [i \in 1 .. Len(ps) |-> request(ps[i].cmd, ps[i].pld)]
  BY DEF Printed
<1> HIDE DEF ps
<1>3. \A i \in 1 .. Len(ps) : ps[i] \in H
  BY <1>1, ElementOfSeq
<1>4. \A i \in 1 .. Len(ps) : request(ps[i].cmd, ps[i].pld) \in Response
  BY <1>3 DEF Handles, Packet, request, Response
<1>5. Len(ps) \in Nat
  BY <1>1
<1>6. QED
  BY <1>2, <1>4, <1>5 DEF ps

LEMMA SpoilsType ==
    ASSUME NEW read \in Seq(Tagged), \A x \in Elems(read) : GenuineIn(x, answered)
    PROVE  Spoils(read) \subseteq 1 .. Len(answered)
<1> SUFFICES ASSUME NEW j \in 1 .. Len(read), read[j].of # 0
             PROVE  read[j].of \in 1 .. Len(answered)
  BY DEF Spoils
<1>1. read[j] \in Elems(read)
  BY DEF Elems
<1>2. QED
  BY <1>1 DEF GenuineIn

LEMMA ReadIInv == IInv /\ Read => IInv'
<1> SUFFICES ASSUME IInv, Read PROVE IInv'
  OBVIOUS
<1>1. /\ Available \in Seq(Tagged) /\ tty' \in Seq(Tagged) /\ tty = Available \o tty'
      /\ shown' = shown \o Printed(Available) /\ SendAll(AutoRequests)
      /\ spoiled' = spoiled \cup Spoils(Available)
      /\ UNCHANGED <<auto_send, running, served, regs, tx, answered, failures>>
  BY ReadSplits DEF IInv
<1>2. SentGrows
  BY <1>1, AutoRequestsType, SendAllType DEF IInv, TypeInv, SentGrows
<1>3. shown' \in Seq(Response)
  BY <1>1, PrintedType, ConcatProperties DEF IInv, TypeInv
<1>4. \A i \in 1 .. Len(served) : served[i] \in 1 .. Len(sent')
  <2>1. Len(sent) \in Nat /\ Len(sent') \in Nat
    BY <1>2 DEF IInv, TypeInv, SentGrows
  <2>2. QED
    BY SMTT(30), <1>2, <2>1 DEF IInv, TypeInv, SentGrows
<1>5. auto_send' \in BOOLEAN /\ running' \in BOOLEAN
  BY <1>1 DEF IInv, TypeInv
<1>6. TypeInv'
  BY <1>1, <1>2, <1>3, <1>4, <1>5 DEF IInv, TypeInv, SentGrows
<1>7. Elems(tty) = Elems(Available) \cup Elems(tty')
  BY <1>1, ConcatElems
<1>8. InOrder(tty')
  BY <1>1, ConcatInOrder DEF IInv, StreamInv
<1>9. StreamInv'
  BY <1>1, <1>7, <1>8 DEF IInv, StreamInv, Before
<1>10. SpoiledOK'
  <2>1. \A x \in Elems(Available) : GenuineIn(x, answered)
    BY <1>7 DEF IInv, StreamInv
  <2>2. QED
    BY <1>1, <2>1, SpoilsType DEF IInv, SpoiledOK
<1>11. QED
  BY <1>6, <1>9, <1>10 DEF IInv

-----------------------------------------------------------------------------
\* Text is put in among the bytes still to go out.
LEMMA TextGoesIn ==
    ASSUME TypeInv, StreamInv, NEW i \in 0 .. Len(tx)
    PROVE  LET out == SubSeq(tx, 1, i) \o tagged(LogText, 0) \o SubSeq(tx, i + 1, Len(tx))
           IN  /\ out \in Seq(Tagged) /\ InOrder(out) /\ Before(tty, out)
               /\ Elems(tx) \subseteq Elems(out)
               /\ \A x \in Elems(out) : x \in Elems(tx) \/ x.of = 0
<1> DEFINE a == SubSeq(tx, 1, i)
           b == SubSeq(tx, i + 1, Len(tx))
           t == tagged(LogText, 0)
<1>1. a \in Seq(Tagged) /\ b \in Seq(Tagged) /\ a \o b = tx
  BY SplitSeq DEF TypeInv
<1>2. t \in Seq(Tagged) /\ InOrder(t) /\ \A x \in Elems(t) : x.of = 0
  BY TaggedType, LineAssumption
<1> HIDE DEF a, b, t
<1>3. Elems(tx) = Elems(a) \cup Elems(b) /\ InOrder(a) /\ InOrder(b) /\ Before(a, b)
  <2>1. Elems(tx) = Elems(a) \cup Elems(b)
    <3>1. a \in Seq(Tagged) /\ b \in Seq(Tagged)
      BY <1>1
    <3>2. Elems(a \o b) = Elems(a) \cup Elems(b)
      BY <3>1, ConcatElems
    <3>3. QED
      BY <1>1, <3>2
  <2>2. InOrder(a \o b)
    BY <1>1 DEF StreamInv
  <2>3. InOrder(a) /\ InOrder(b) /\ Before(a, b)
    BY <1>1, <2>2, ConcatInOrder
  <2>4. QED
    BY <2>1, <2>3
<1>4. a \o t \in Seq(Tagged) /\ Elems(a \o t) = Elems(a) \cup Elems(t)
  <2>1. a \o t \in Seq(Tagged)
    BY <1>1, <1>2, ConcatProperties
  <2>2. Elems(a \o t) = Elems(a) \cup Elems(t)
    BY <1>1, <1>2, ConcatElems
  <2>3. QED
    BY <2>1, <2>2
<1>5. (a \o t) \o b \in Seq(Tagged) /\ Elems((a \o t) \o b) = Elems(a) \cup Elems(t) \cup Elems(b)
  <2> DEFINE c == a \o t
  <2>1. c \in Seq(Tagged) /\ Elems(c) = Elems(a) \cup Elems(t)
    BY <1>4
  <2> HIDE DEF c
  <2>2. c \o b \in Seq(Tagged) /\ Elems(c \o b) = Elems(c) \cup Elems(b)
    BY <1>1, <2>1, ConcatElems, ConcatProperties
  <2>3. QED
    BY <2>1, <2>2 DEF c
<1>6. InOrder(a \o t)
  <2>1. Before(a, t)
    BY <1>2 DEF Before, Lt
  <2>2. QED
    BY <1>1, <1>2, <1>3, <2>1, ConcatInOrder
<1>7. InOrder((a \o t) \o b)
  <2>1. Before(a \o t, b)
    BY <1>2, <1>3, <1>4 DEF Before, Lt
  <2>2. QED
    BY <1>1, <1>3, <1>4, <1>6, <2>1, ConcatInOrder
<1>8. Before(tty, (a \o t) \o b)
  BY <1>2, <1>3, <1>5 DEF Before, Lt, StreamInv
<1>9. QED
  BY <1>2, <1>3, <1>5, <1>7, <1>8 DEF a, b, t

\* A response goes out behind the bytes out.
LEMMA ResponseGoesOut ==
    ASSUME CrcBytes, TypeInv, NEW r \in WellFormed, r.cmd \in ReadCmds,
           NEW pld, request(r.cmd, pld) \in ShortResponse,
           NEW out \in Seq(Tagged), InOrder(out), Before(tty, out), InOrder(tty), tty' = tty,
           \A x \in Elems(tty) \cup Elems(out) : GenuineIn(x, answered),
           Respond(r, pld, out)
    PROVE  /\ answered' \in Seq(ShortResponse) /\ Len(answered') = Len(answered) + 1
           /\ \A k \in 1 .. Len(answered) : answered'[k] = answered[k]
           /\ answered'[Len(answered) + 1] = request(r.cmd, pld)
           /\ tx' \in Seq(Tagged) /\ Elems(out) \subseteq Elems(tx')
           /\ \A x \in Elems(tx') : x \in Elems(out) \/ x.of = Len(answered) + 1
           /\ \E x \in Elems(tx') : x.of = Len(answered) + 1
           /\ StreamInv'
<1> DEFINE p == request(r.cmd, pld)
           bs == send_bytes(r.cmd, pld)
           N == Len(answered)
           t == tagged(bs, N + 1)
<1>1. p.cmd = r.cmd /\ p.pld = pld /\ p \in ShortResponse
  BY DEF request
<1>2. pld \in Seq(Byte) /\ Len(pld) <= MAX_PLD_LEN /\ r.cmd \in Byte
  BY <1>1, CommandsAreBytes DEF ShortResponse, Response
<1>3. bs \in Seq(Byte) /\ Len(bs) = MIN_PKT_LEN + Len(pld)
  BY <1>2, SentBytes
<1>4. answered' = Append(answered, p) /\ tx' = out \o t
  BY DEF Respond
<1>5. answered \in Seq(ShortResponse) /\ N \in Nat
  BY DEF TypeInv
<1>6. /\ t \in Seq(Tagged) /\ InOrder(t) /\ Len(t) = Len(bs)
      /\ \A x \in Elems(t) : x.of = N + 1 /\ x.at \in 1 .. Len(bs) /\ x.byte = bs[x.at]
  <2>1. bs \in Seq(Byte) /\ N + 1 \in Nat
    BY <1>3, <1>5
  <2> HIDE DEF bs, N
  <2>2. QED
    BY <2>1, TaggedType
<1>7. /\ answered' \in Seq(ShortResponse) /\ Len(answered') = N + 1
      /\ \A k \in 1 .. N : answered'[k] = answered[k]
      /\ answered'[N + 1] = p
  <2> HIDE DEF p
  <2>1. QED
    BY <1>1, <1>4, <1>5, AppendProperties
<1>8. Len(t) >= 1
  BY <1>2, <1>3, <1>6 DEF MIN_PKT_LEN
<1> HIDE DEF t
<1>9. tx' \in Seq(Tagged) /\ Elems(tx') = Elems(out) \cup Elems(t)
  BY <1>4, <1>6, ConcatElems, ConcatProperties
<1>10. \A x \in Elems(tty) \cup Elems(out) : x.of # 0 => x.of \in 1 .. N
  BY DEF GenuineIn
<1>11. \A x \in Elems(tty) \cup Elems(out), y \in Elems(t) : Lt(x, y)
  BY <1>5, <1>6, <1>10 DEF Lt
<1>12. InOrder(tx')
  <2>1. Before(out, t)
    BY <1>11 DEF Before
  <2>2. QED
    BY <1>4, <1>6, <2>1, ConcatInOrder
<1>13. Before(tty, tx')
  BY <1>9, <1>11 DEF Before
<1>14. \A x \in Elems(tty) \cup Elems(tx') : GenuineIn(x, answered')
  <2>1. ASSUME NEW x \in Elems(tty) \cup Elems(out) PROVE GenuineIn(x, answered')
    <3>1. x.of # 0 => x.of \in 1 .. N /\ answered'[x.of] = answered[x.of] /\ x.of \in 1 .. Len(answered')
      BY <1>5, <1>7, <1>10
    <3>2. GenuineIn(x, answered)
      OBVIOUS
    <3>3. QED
      BY <3>1, <3>2 DEF GenuineIn
  <2>2. ASSUME NEW x \in Elems(t) PROVE GenuineIn(x, answered')
    <3>1. x.of = N + 1 /\ x.at \in 1 .. Len(bs) /\ x.byte = bs[x.at]
      BY <1>6
    <3>2. x.of \in 1 .. Len(answered') /\ answered'[x.of] = p
      BY <1>5, <1>7, <3>1
    <3> HIDE DEF p
    <3>3. QED
      BY <1>1, <1>3, <3>1, <3>2 DEF GenuineIn
  <2>3. QED
    BY <1>9, <2>1, <2>2
<1>15. \E x \in Elems(t) : x.of = N + 1
  <2>1. t[1] \in Elems(t)
    <3>1. 1 \in 1 .. Len(t)
      BY <1>6, <1>8
    <3>2. QED
      BY <3>1 DEF Elems
  <2>2. QED
    BY <1>6, <2>1
<1>16. StreamInv'
  BY <1>12, <1>13, <1>14 DEF StreamInv
<1>17. QED
  BY <1>6, <1>7, <1>9, <1>15, <1>16

\* The next request is served.
LEMMA ServedGrows ==
    ASSUME TypeInv, NEW n \in 1 .. Len(sent), Queue!Serve(n)
    PROVE  /\ SentGrows /\ sent' = sent /\ sent[n] \in WellFormed
           /\ served' \in Seq(Nat) /\ Len(served') = Len(served) + 1
           /\ \A i \in 1 .. Len(served) : served'[i] = served[i] /\ served[i] < n
           /\ served'[Len(served) + 1] = n
           /\ \A i \in 1 .. Len(served') : served'[i] \in 1 .. Len(sent)
<1>1. sent' = sent /\ served' = Append(served, n) /\ \A i \in 1 .. Len(served) : served[i] < n
  BY DEF Queue!Serve
<1>2. sent \in Seq(WellFormed) /\ served \in Seq(Nat) /\ n \in Nat
  BY DEF TypeInv
<1>3. /\ served' \in Seq(Nat) /\ Len(served') = Len(served) + 1
      /\ \A i \in 1 .. Len(served) : served'[i] = served[i]
      /\ served'[Len(served) + 1] = n
  BY <1>1, <1>2, AppendProperties
<1>4. SentGrows
  BY <1>1, <1>2 DEF SentGrows
<1>5. sent[n] \in WellFormed
  BY <1>2, ElementOfSeq
<1>6. \A i \in 1 .. Len(served') : served'[i] \in 1 .. Len(sent)
  <2> TAKE i \in 1 .. Len(served')
  <2>1. i \in 1 .. Len(served) \/ i = Len(served) + 1
    BY <1>2, <1>3
  <2>2. QED
    BY <1>3, <2>1 DEF TypeInv
<1>7. QED
  BY <1>1, <1>3, <1>4, <1>5, <1>6

\* A response may be added to those answered, with its bytes to those to go out,
\* and text.
Answering ==
    /\ answered' \in Seq(ShortResponse) /\ Len(answered') \in {Len(answered), Len(answered) + 1}
    /\ \A k \in 1 .. Len(answered) : answered'[k] = answered[k]
    /\ tx' \in Seq(Tagged) /\ Elems(tx) \subseteq Elems(tx')
    /\ \A x \in Elems(tx') :
           x \in Elems(tx) \/ x.of = 0 \/ x.of \in Len(answered) + 1 .. Len(answered')
    /\ \A k \in Len(answered) + 1 .. Len(answered') : \E x \in Elems(tx') : x.of = k
    /\ StreamInv' /\ regs' \in Image /\ failures' \in 0 .. MaxFailures

LEMMA RespondAnswers ==
    ASSUME CrcBytes, TypeInv, StreamInv, NEW r \in WellFormed, r.cmd \in ReadCmds,
           NEW pld, request(r.cmd, pld) \in ShortResponse,
           NEW out \in Seq(Tagged), InOrder(out), Before(tty, out), tty' = tty,
           Elems(tx) \subseteq Elems(out), \A x \in Elems(out) : x \in Elems(tx) \/ x.of = 0,
           Respond(r, pld, out), regs' \in Image, failures' \in 0 .. MaxFailures
    PROVE  Answering
<1>1. \A x \in Elems(tty) \cup Elems(out) : GenuineIn(x, answered)
  BY DEF StreamInv, GenuineIn
<1>2. InOrder(tty)
  BY DEF StreamInv
<1>3. /\ answered' \in Seq(ShortResponse) /\ Len(answered') = Len(answered) + 1
      /\ \A k \in 1 .. Len(answered) : answered'[k] = answered[k]
      /\ tx' \in Seq(Tagged) /\ Elems(out) \subseteq Elems(tx')
      /\ \A x \in Elems(tx') : x \in Elems(out) \/ x.of = Len(answered) + 1
      /\ \E x \in Elems(tx') : x.of = Len(answered) + 1
      /\ StreamInv'
  BY <1>1, <1>2, ResponseGoesOut
<1>4. Len(answered) \in Nat
  BY DEF TypeInv
<1>5. \A k \in Len(answered) + 1 .. Len(answered') : k = Len(answered) + 1
  BY <1>3, <1>4
<1>6. Len(answered) + 1 \in Len(answered) + 1 .. Len(answered')
  BY <1>3, <1>4
<1>7. QED
  BY <1>3, <1>5, <1>6 DEF Answering

LEMMA ServeAnswers ==
    ASSUME CrcBytes, IInv, NEW n \in 1 .. Len(sent), Serve(n)
    PROVE  /\ Answering /\ Queue!Serve(n)
           /\ UNCHANGED <<tty, shown, auto_send, running, spoiled>>
<1> DEFINE r == sent[n]
<1>1. /\ Queue!Serve(n) /\ UNCHANGED <<tty, shown, auto_send, running, spoiled, failures>>
      /\ \/ r.cmd = WRITE_CONFIG /\ regs' = Applied(regs, writes_of(r, regs)) /\ UNCHANGED <<tx, answered>>
         \/ r.cmd \in ReadCmds /\ Respond(r, reply(r, regs), tx) /\ UNCHANGED regs
  BY DEF Serve
<1>2. r \in WellFormed /\ TypeInv /\ StreamInv
  BY <1>1, ServedGrows DEF IInv
<1> HIDE DEF r
<1>3. CASE r.cmd = WRITE_CONFIG /\ regs' = Applied(regs, writes_of(r, regs)) /\ UNCHANGED <<tx, answered>>
  <2>1. regs' \in Image
    BY <1>2, <1>3, PayloadBytes, WrittenRegisters DEF TypeInv
  <2>2. StreamInv'
    BY <1>1, <1>2, <1>3 DEF StreamInv
  <2>3. Len(answered) \in Nat
    BY <1>2 DEF TypeInv
  <2>4. \A k \in Len(answered) + 1 .. Len(answered') : FALSE
    BY <1>3, <2>3
  <2>5. QED
    BY <1>1, <1>2, <1>3, <2>1, <2>2, <2>4 DEF Answering, TypeInv
<1>4. CASE r.cmd \in ReadCmds /\ Respond(r, reply(r, regs), tx) /\ UNCHANGED regs
  <2>2. request(r.cmd, reply(r, regs)) \in ShortResponse
    BY <1>2, <1>4, ReplyType DEF TypeInv
  <2>3. regs' \in Image /\ failures' \in 0 .. MaxFailures
    BY <1>1, <1>2, <1>4 DEF TypeInv
  <2>4. tx \in Seq(Tagged) /\ InOrder(tx) /\ Before(tty, tx) /\ tty' = tty
    BY <1>1, <1>2 DEF TypeInv, StreamInv
  <2>5. Answering
    BY <1>2, <1>4, <2>2, <2>3, <2>4, RespondAnswers
  <2>6. QED
    BY <1>1, <2>5
<1>5. QED
  BY <1>1, <1>3, <1>4

LEMMA ServeFailingAnswers ==
    ASSUME CrcBytes, IInv, NEW n \in 1 .. Len(sent), ServeFailing(n)
    PROVE  /\ Answering /\ Queue!Serve(n) /\ failures' = failures + 1
           /\ UNCHANGED <<tty, shown, auto_send, running, spoiled>>
<1> DEFINE r == sent[n]
           out(i) == SubSeq(tx, 1, i) \o tagged(LogText, 0) \o SubSeq(tx, i + 1, Len(tx))
<1>1. /\ Queue!Serve(n) /\ UNCHANGED <<tty, shown, auto_send, running, spoiled>>
      /\ failures < MaxFailures /\ failures' = failures + 1
  BY DEF ServeFailing
<1>2. PICK i \in 0 .. Len(tx) :
          \/ /\ r.cmd = WRITE_CONFIG /\ field(r) \in Regs
             /\ \E m \in {regs, ZeroImage} : \E parts \in Arrivals(writes_of(r, m)) :
                    regs' = Applied(regs, parts)
             /\ tx' = out(i)
             /\ UNCHANGED answered
          \/ /\ r.cmd \in ReadCmds /\ (r.cmd = READ_CONFIG => field(r) \in Regs)
             /\ Respond(r, zeroed(r), out(i))
             /\ UNCHANGED regs
  BY DEF ServeFailing
<1>3. r \in WellFormed /\ TypeInv /\ StreamInv
  BY <1>1, ServedGrows DEF IInv
<1>4. /\ out(i) \in Seq(Tagged) /\ InOrder(out(i)) /\ Before(tty, out(i))
      /\ Elems(tx) \subseteq Elems(out(i))
      /\ \A x \in Elems(out(i)) : x \in Elems(tx) \/ x.of = 0
  BY <1>3, TextGoesIn
<1>5. failures' \in 0 .. MaxFailures
  BY <1>1, <1>3, LineAssumption DEF TypeInv
<1> HIDE DEF r, out
<1>6. CASE /\ r.cmd = WRITE_CONFIG /\ field(r) \in Regs
           /\ \E m \in {regs, ZeroImage} : \E parts \in Arrivals(writes_of(r, m)) :
                  regs' = Applied(regs, parts)
           /\ tx' = out(i)
           /\ UNCHANGED answered
  <2>4. regs' \in Image
    BY <1>3, <1>6, ArrivedImage, ZeroIsImage DEF TypeInv
  <2>5. StreamInv'
    BY <1>1, <1>3, <1>4, <1>6 DEF StreamInv, GenuineIn
  <2>6. Len(answered) \in Nat
    BY <1>3 DEF TypeInv
  <2>7. \A k \in Len(answered) + 1 .. Len(answered') : FALSE
    BY <1>6, <2>6
  <2>8. Answering
    BY <1>3, <1>4, <1>5, <1>6, <2>4, <2>5, <2>7 DEF Answering, TypeInv
  <2>9. QED
    BY <1>1, <2>8
<1>7. CASE /\ r.cmd \in ReadCmds /\ (r.cmd = READ_CONFIG => field(r) \in Regs)
           /\ Respond(r, zeroed(r), out(i))
           /\ UNCHANGED regs
  <2>1. request(r.cmd, zeroed(r)) \in ShortResponse
    BY <1>3, <1>7, ZeroedType
  <2>2. regs' \in Image
    BY <1>3, <1>7 DEF TypeInv
  <2>3. tty' = tty
    BY <1>1
  <2>4. Answering
    BY <1>3, <1>4, <1>5, <1>7, <2>1, <2>2, <2>3, RespondAnswers
  <2>5. QED
    BY <1>1, <2>4
<1>8. QED
  BY <1>2, <1>6, <1>7

LEMMA AnsweringIInv ==
    ASSUME IInv, NEW n \in 1 .. Len(sent), Queue!Serve(n), Answering,
           UNCHANGED <<tty, shown, auto_send, running, spoiled>>
    PROVE  IInv'
<1>1. /\ sent' = sent /\ served' \in Seq(Nat)
      /\ \A i \in 1 .. Len(served') : served'[i] \in 1 .. Len(sent)
  BY ServedGrows DEF IInv
<1>2. auto_send' \in BOOLEAN /\ running' \in BOOLEAN
  BY DEF IInv, TypeInv
<1>3. TypeInv'
  BY <1>1, <1>2 DEF IInv, TypeInv, Answering
<1>4. SpoiledOK'
  <2>1. Len(answered) \in Nat /\ Len(answered) <= Len(answered') /\ Len(answered') \in Nat
    BY DEF Answering, IInv, TypeInv
  <2>2. QED
    BY <2>1 DEF IInv, SpoiledOK
<1>5. QED
  BY <1>3, <1>4 DEF IInv, Answering

LEMMA StepIInv ==
    ASSUME CrcBytes, IInv, [Next]_vars
    PROVE  IInv'
<1>1. ASSUME NEW l \in Lines, Command(l) /\ UNCHANGED <<server, spoiled>> PROVE IInv'
  BY <1>1, CommandTypes, TypingIInv DEF IInv
<1>2. CASE Read
  BY <1>2, ReadIInv
<1>3. CASE EndOfInput /\ UNCHANGED <<server, spoiled>>
  BY <1>3, EndTypes, TypingIInv DEF IInv
<1>4. ASSUME NEW n \in 1 .. Len(sent), Serve(n) PROVE IInv'
  BY <1>4, ServeAnswers, AnsweringIInv
<1>5. ASSUME NEW n \in 1 .. Len(sent), ServeFailing(n) PROVE IInv'
  BY <1>5, ServeFailingAnswers, AnsweringIInv
<1>6. CASE Arrive
  BY <1>6, ArriveIInv
<1>7. CASE UNCHANGED vars
  BY <1>7, StutterTypes, TypingIInv DEF IInv
<1>8. QED
  BY <1>1, <1>2, <1>3, <1>4, <1>5, <1>6, <1>7 DEF Next

LEMMA Inductive == ASSUME CrcBytes PROVE Spec => []IInv
<1>1. Init => IInv
  BY InitIInv
<1>2. IInv /\ [Next]_vars => IInv'
  BY StepIInv
<1>3. QED
  BY <1>1, <1>2, PTL DEF Spec

\* The variables keep their types, whatever is read from and written to the
\* registers, fails or is logged; and the stream from the server to the client is
\* sound: what is on the line or at the port as a byte of a response is the byte that
\* server_send_packet put there, and these bytes come in the order of sending, none
\* twice, however console text goes in between and the line cuts them.
THEOREM SystemTypeCorrect == ASSUME CrcBytes PROVE Spec => [](TypeOK /\ StreamInv)
<1>1. IInv => TypeOK /\ StreamInv
  <2> SUFFICES ASSUME IInv PROVE TypeOK
    BY DEF IInv
  <2>1. sent \in Seq([cmd : {WRITE_CONFIG} \cup ReadCmds, pld : Seq(Byte)])
    <3>1. WellFormed \subseteq [cmd : {WRITE_CONFIG} \cup ReadCmds, pld : Seq(Byte)]
      BY DEF WellFormed
    <3>2. sent \in Seq(WellFormed)
      BY DEF IInv, TypeInv
    <3>3. QED
      BY <3>1, <3>2, SeqMonotonic
  <2>2. answered \in Seq(Response)
    <3>1. ShortResponse \subseteq Response
      BY DEF ShortResponse
    <3>2. answered \in Seq(ShortResponse)
      BY DEF IInv, TypeInv
    <3>3. QED
      BY <3>1, <3>2, SeqMonotonic
  <2>3. served \in Seq(1 .. Len(sent))
    <3>1. served \in Seq(Nat) /\ \A i \in 1 .. Len(served) : served[i] \in 1 .. Len(sent)
      BY DEF IInv, TypeInv
    <3>2. SubSeq(served, 1, Len(served)) \in Seq(1 .. Len(sent))
      BY <3>1, SubSeqProperties
    <3>3. SubSeq(served, 1, Len(served)) = served
      BY <3>1, SubSeqFull
    <3>4. QED
      BY <3>2, <3>3
  <2>4. regs \in Image
    BY DEF IInv, TypeInv
  <2>5. auto_send \in BOOLEAN /\ running \in BOOLEAN
    BY DEF IInv, TypeInv
  <2>6. QED
    BY <2>1, <2>2, <2>3, <2>4, <2>5 DEF IInv, TypeInv, SpoiledOK, TypeOK
<1>2. QED
  BY <1>1, Inductive, PTL

-----------------------------------------------------------------------------
(***************************************************************************)
(* What one read holds                                                     *)
(***************************************************************************)

ReadOK(read) ==
    read \in Seq(Tagged) /\ InOrder(read) /\ \A x \in Elems(read) : GenuineIn(x, answered)

\* The k-th response starts s bytes into the read, and is all there.
StartsAt(k, s, read) == s \in Nat /\ s + Size(k) <= Len(read) /\ At(k, Size(k), s, read)

LEMMA SizeFacts ==
    ASSUME answered \in Seq(ShortResponse), NEW k \in 1 .. Len(answered)
    PROVE  /\ Size(k) \in Nat /\ Size(k) >= MIN_PKT_LEN /\ Size(k) >= 5
           /\ Size(k) = MIN_PKT_LEN + Len(answered[k].pld)
           /\ answered[k].cmd \in ReadCmds /\ answered[k].cmd \in Byte
           /\ answered[k].pld \in Seq(Byte) /\ Len(answered[k].pld) <= MAX_PLD_LEN
           /\ answered[k] = request(answered[k].cmd, answered[k].pld)
<1>1. answered[k] \in ShortResponse
  BY ElementOfSeq
<1>2. answered[k] \in Response /\ Len(answered[k].pld) <= MAX_PLD_LEN
  BY <1>1 DEF ShortResponse
<1>3. answered[k].cmd \in ReadCmds /\ answered[k].pld \in Seq(Byte)
  BY <1>2 DEF Response
<1>4. answered[k].cmd \in Byte
  BY <1>3, CommandsAreBytes
<1>5. Len(answered[k].pld) \in Nat
  BY <1>3
<1>6. answered[k] = request(answered[k].cmd, answered[k].pld)
  BY <1>2 DEF Response, request
<1>7. QED
  BY <1>2, <1>3, <1>4, <1>5, <1>6 DEF Size, MIN_PKT_LEN

LEMMA IntactStarts ==
    ASSUME answered \in Seq(ShortResponse), NEW read, read \in Seq(Tagged), NEW k \in 1 .. Len(answered)
    PROVE  Intact(k, read) <=> \E s \in Nat : StartsAt(k, s, read)
<1>1. Size(k) \in Nat /\ Len(read) \in Nat
  BY SizeFacts
<1>2. \A s : s \in 0 .. Len(read) - Size(k) <=> s \in Nat /\ s + Size(k) <= Len(read)
  BY <1>1
<1>3. QED
  BY <1>2 DEF Intact, StartsAt

\* A whole response decodes to itself.
LEMMA StartDecodes ==
    ASSUME CrcBytes, answered \in Seq(ShortResponse), NEW read, ReadOK(read),
           NEW k \in 1 .. Len(answered), NEW s \in Nat, StartsAt(k, s, read)
    PROVE  LET d == bytes_of(read)
               p == decode_packet(d, s)
           IN  /\ Len(d) - s >= MIN_PKT_LEN /\ d[s + 1] = PKT_HDR /\ decoded_len(d, s) = Size(k)
               /\ Handles(p, ReadCmds) /\ request(p.cmd, p.pld) = answered[k]
<1> DEFINE d == bytes_of(read)
           cmd == answered[k].cmd
           pld == answered[k].pld
<1>1. /\ Size(k) = MIN_PKT_LEN + Len(pld) /\ Size(k) \in Nat
      /\ cmd \in ReadCmds /\ cmd \in Byte
      /\ pld \in Seq(Byte) /\ Len(pld) <= MAX_PLD_LEN
      /\ answered[k] = request(cmd, pld)
  BY SizeFacts
<1>2. d \in Seq(Byte) /\ Len(d) = Len(read) /\ \A i \in 1 .. Len(read) : d[i] = read[i].byte
  BY BytesOfType DEF ReadOK
<1>3. s + Size(k) <= Len(read) /\ Len(read) \in Nat
  BY DEF StartsAt, ReadOK
<1>4. ASSUME NEW j \in 1 .. Size(k) PROVE d[s + j] = send_bytes(cmd, pld)[j]
  <2>1. s + j \in 1 .. Len(read)
    BY <1>1, <1>3
  <2>2. read[s + j].of = k /\ read[s + j].at = j
    BY DEF StartsAt, At
  <2>3. GenuineIn(read[s + j], answered)
    BY <2>1 DEF ReadOK, Elems
  <2>4. k # 0
    OBVIOUS
  <2>5. read[s + j].byte = send_bytes(cmd, pld)[j]
    BY <2>2, <2>3, <2>4 DEF GenuineIn
  <2>6. QED
    BY <1>2, <2>1, <2>5
<1>5. s + MIN_PKT_LEN + Len(pld) <= Len(d)
  BY <1>1, <1>2, <1>3 DEF MIN_PKT_LEN
<1> HIDE DEF d, cmd, pld
<1>6. \A j \in 1 .. MIN_PKT_LEN + Len(pld) : d[s + j] = send_bytes(cmd, pld)[j]
  BY <1>1, <1>4
<1>7. /\ Len(d) - s >= MIN_PKT_LEN /\ d[s + 1] = PKT_HDR
      /\ decoded_len(d, s) = MIN_PKT_LEN + Len(pld)
      /\ decode_packet(d, s).cmd = cmd /\ decode_packet(d, s).pld = pld
      /\ Accepts(decode_packet(d, s))
  BY <1>1, <1>2, <1>5, <1>6, DecodeSent
<1>8. QED
  BY <1>1, <1>7 DEF d, Handles

\* Its bytes are nowhere else.
LEMMA BytesInStart ==
    ASSUME answered \in Seq(ShortResponse), NEW read, ReadOK(read),
           NEW k \in 1 .. Len(answered), NEW s \in Nat, StartsAt(k, s, read),
           NEW i \in 1 .. Len(read), read[i].of = k
    PROVE  s + 1 <= i /\ i <= s + Size(k)
<1> DEFINE a == read[i].at
<1>1. Size(k) \in Nat /\ Len(read) \in Nat
  BY SizeFacts DEF ReadOK
<1>2. a \in 1 .. Size(k)
  <2>1. GenuineIn(read[i], answered)
    BY DEF ReadOK, Elems
  <2>2. QED
    BY <2>1, SizeFacts DEF GenuineIn
<1>3. s + a \in 1 .. Len(read)
  BY <1>1, <1>2 DEF StartsAt
<1>4. read[s + a].of = k /\ read[s + a].at = a
  BY <1>2 DEF StartsAt, At
<1> HIDE DEF a
<1>5. i = s + a
  <2>1. ASSUME i < s + a PROVE FALSE
    <3>1. Lt(read[i], read[s + a])
      BY <1>3, <2>1 DEF ReadOK, InOrder
    <3>2. QED
      BY <1>2, <1>4, <3>1 DEF Lt, a
  <2>2. ASSUME s + a < i PROVE FALSE
    <3>1. Lt(read[s + a], read[i])
      BY <1>3, <2>2 DEF ReadOK, InOrder
    <3>2. QED
      BY <1>2, <1>4, <3>1 DEF Lt, a
  <2>3. QED
    BY <1>2, <2>1, <2>2
<1>6. QED
  BY <1>1, <1>2, <1>5

\* Responses do not overlap, and come in order.
LEMMA StartsDisjoint ==
    ASSUME answered \in Seq(ShortResponse), NEW read, ReadOK(read),
           NEW k \in 1 .. Len(answered), NEW s \in Nat, StartsAt(k, s, read),
           NEW m \in 1 .. Len(answered), NEW t \in Nat, StartsAt(m, t, read),
           k # m, s <= t
    PROVE  s + Size(k) <= t /\ k < m
<1>1. Size(k) \in Nat /\ Size(m) \in Nat /\ Size(k) >= 5 /\ Size(m) >= 5 /\ Len(read) \in Nat
  BY SizeFacts DEF ReadOK
<1>2. read[s + 1].of = k /\ read[t + 1].of = m /\ s + 1 \in 1 .. Len(read) /\ t + 1 \in 1 .. Len(read)
  <2>1. 1 \in 1 .. Size(k) /\ 1 \in 1 .. Size(m)
    BY <1>1
  <2>2. QED
    BY SMTT(30), <1>1, <2>1 DEF StartsAt, At
<1>3. s + Size(k) <= t
  <2> SUFFICES ASSUME t < s + Size(k) PROVE FALSE
    BY <1>1
  <2>1. (t - s) + 1 \in 1 .. Size(k) /\ s + ((t - s) + 1) = t + 1
    BY <1>1
  <2>2. read[s + ((t - s) + 1)].of = k
    BY <2>1 DEF StartsAt, At
  <2>3. QED
    BY <1>2, <2>1, <2>2
<1>4. k < m
  <2>1. Lt(read[s + 1], read[t + 1])
    BY <1>1, <1>2, <1>3 DEF ReadOK, InOrder
  <2>2. QED
    BY <1>2, <2>1 DEF Lt
<1>5. QED
  BY <1>3, <1>4

\* A response is in one place.
LEMMA StartsOnce ==
    ASSUME answered \in Seq(ShortResponse), NEW read, ReadOK(read),
           NEW k \in 1 .. Len(answered), NEW s \in Nat, StartsAt(k, s, read),
           NEW t \in Nat, StartsAt(k, t, read)
    PROVE  s = t
<1>1. Size(k) \in Nat /\ Size(k) >= 5 /\ Len(read) \in Nat
  BY SizeFacts DEF ReadOK
<1>2. read[s + 1].of = k /\ read[t + 1].of = k /\ s + 1 \in 1 .. Len(read) /\ t + 1 \in 1 .. Len(read)
  <2>1. 1 \in 1 .. Size(k)
    BY <1>1
  <2>2. QED
    BY SMTT(30), <1>1, <2>1 DEF StartsAt, At
<1>3. s + 1 <= t + 1 /\ t + 1 <= s + 1
  BY <1>2, BytesInStart
<1>4. QED
  BY <1>3

-----------------------------------------------------------------------------
(***************************************************************************)
(* What the scan finds in a read                                           *)
(***************************************************************************)

\* The responses that are whole in the read, with no stray header byte before
\* them, from byte i on.
Good(read) ==
    { k \in 1 .. Len(answered) :
          /\ Intact(k, read)
          /\ \A j \in 1 .. Len(read) : read[j].of = k => \A i \in 1 .. j - 1 : ~Stray(i, read) }

GoodFrom(i, read) == { k \in Good(read) : \E s \in Nat : s >= i /\ StartsAt(k, s, read) }

\* Byte i is not within a response.
Free(i, read) ==
    \A k \in 1 .. Len(answered) : \A s \in Nat :
        StartsAt(k, s, read) => i <= s \/ s + Size(k) <= i

ScanFrom(i, read) == packets_from(bytes_of(read), ReadCmds)[i]

\* f leads from each of the responses ks to a packet that is equal to it, in order.
Finds(f, ks, packets) ==
    /\ f \in [ks -> 1 .. Len(packets)]
    /\ \A k \in ks : request(packets[f[k]].cmd, packets[f[k]].pld) = answered[k]
    /\ \A j, k \in ks : j < k => f[j] < f[k]

LEMMA FindsNone == ASSUME NEW packets PROVE \E f : Finds(f, {}, packets)
<1> DEFINE f == [k \in {} |-> 0]
<1>1. f \in [{} -> 1 .. Len(packets)]
  OBVIOUS
<1> HIDE DEF f
<1>2. Finds(f, {}, packets)
  BY <1>1 DEF Finds
<1>3. QED
  BY <1>2

LEMMA ScanFromType ==
    ASSUME NEW read, ReadOK(read), NEW i \in 0 .. Len(read)
    PROVE  ScanFrom(i, read) \in Seq(Packet)
<1>1. bytes_of(read) \in Seq(Byte) /\ Len(bytes_of(read)) = Len(read)
  BY BytesOfType DEF ReadOK
<1>2. ScanFrom(i, read) \in Seq({ p \in Packet : Handles(p, ReadCmds) })
  BY <1>1, PacketsFromType DEF ScanFrom
<1>3. QED
  BY <1>2, SeqMonotonic

\* Behind the last whole response there is none.
LEMMA FindsAtEnd ==
    ASSUME answered \in Seq(ShortResponse), NEW read, ReadOK(read), NEW i \in 0 .. Len(read),
           Len(read) - i < MIN_PKT_LEN
    PROVE  \E f : Finds(f, GoodFrom(i, read), ScanFrom(i, read))
<1>1. ASSUME NEW k \in 1 .. Len(answered), NEW s \in Nat, s >= i, StartsAt(k, s, read) PROVE FALSE
  <2>1. Size(k) \in Nat /\ Size(k) >= 5 /\ Len(read) \in Nat
    BY SizeFacts DEF ReadOK
  <2>2. s + Size(k) <= Len(read)
    BY <1>1 DEF StartsAt
  <2>3. QED
    BY <1>1, <2>1, <2>2 DEF MIN_PKT_LEN
<1>2. GoodFrom(i, read) = {}
  BY <1>1 DEF GoodFrom, Good
<1>3. QED
  BY <1>2, FindsNone

\* Where no response starts, one byte may be skipped.
LEMMA FindsBehind ==
    ASSUME answered \in Seq(ShortResponse), NEW read, ReadOK(read), NEW i \in Nat,
           \A k \in 1 .. Len(answered) : ~StartsAt(k, i, read)
    PROVE  /\ Free(i, read) => Free(i + 1, read)
           /\ GoodFrom(i, read) = GoodFrom(i + 1, read)
<1>1. ASSUME NEW k \in 1 .. Len(answered), NEW s \in Nat, StartsAt(k, s, read)
      PROVE  s >= i <=> s >= i + 1
  <2>1. s # i
    BY <1>1
  <2>2. QED
    BY <2>1
<1>2. Free(i, read) => Free(i + 1, read)
  <2> SUFFICES ASSUME Free(i, read), NEW k \in 1 .. Len(answered), NEW s \in Nat, StartsAt(k, s, read)
               PROVE  i + 1 <= s \/ s + Size(k) <= i + 1
    BY DEF Free
  <2>1. i <= s \/ s + Size(k) <= i
    BY DEF Free
  <2>2. Size(k) \in Nat
    BY SizeFacts
  <2>3. i <= s => i + 1 <= s
    BY <1>1
  <2>4. QED
    BY <2>1, <2>2, <2>3
<1>3. GoodFrom(i, read) = GoodFrom(i + 1, read)
  BY <1>1 DEF GoodFrom, Good
<1>4. QED
  BY <1>2, <1>3

\* Where one does, it is the first of the good ones from there, and the others are
\* behind it.
LEMMA FindsFirst ==
    ASSUME answered \in Seq(ShortResponse), NEW read, ReadOK(read), NEW i \in Nat, Free(i, read),
           NEW k \in 1 .. Len(answered), StartsAt(k, i, read)
    PROVE  /\ Free(i + Size(k), read)
           /\ GoodFrom(i + Size(k), read) = GoodFrom(i, read) \ {k}
           /\ \A m \in GoodFrom(i + Size(k), read) : k < m
<1>1. Size(k) \in Nat /\ Size(k) >= 5
  BY SizeFacts
<1> DEFINE next == i + Size(k)
<1>2. ASSUME NEW m \in 1 .. Len(answered), NEW t \in Nat, StartsAt(m, t, read)
      PROVE  /\ m = k => t = i
             /\ m # k /\ i <= t => next <= t /\ k < m
             /\ next <= t => m # k
  <2>1. m = k => t = i
    BY <1>2, StartsOnce
  <2>2. m # k /\ i <= t => next <= t /\ k < m
    BY <1>2, StartsDisjoint
  <2>3. next <= t => m # k
    BY <1>1, <2>1
  <2>4. QED
    BY <2>1, <2>2, <2>3
<1>3. Free(next, read)
  <2> SUFFICES ASSUME NEW m \in 1 .. Len(answered), NEW t \in Nat, StartsAt(m, t, read)
               PROVE  next <= t \/ t + Size(m) <= next
    BY DEF Free
  <2>1. CASE m = k
    BY <1>1, <1>2, <2>1
  <2>2. CASE m # k
    <3>1. i <= t \/ t + Size(m) <= i
      BY DEF Free
    <3>2. Size(m) \in Nat
      BY SizeFacts
    <3>3. CASE i <= t
      BY <1>2, <2>2, <3>3
    <3>4. CASE t + Size(m) <= i
      BY <1>1, <3>2, <3>4
    <3>5. QED
      BY <3>1, <3>3, <3>4
  <2>3. QED
    BY <2>1, <2>2
<1>4. next \in Nat /\ i <= next
  BY <1>1
<1> HIDE DEF next
<1>5. ASSUME NEW m \in GoodFrom(next, read) PROVE m \in GoodFrom(i, read) \ {k} /\ k < m
  <2>1. PICK t \in Nat : t >= next /\ StartsAt(m, t, read)
    BY DEF GoodFrom
  <2>2. m \in 1 .. Len(answered) /\ m \in Good(read)
    BY DEF GoodFrom, Good
  <2>3. t >= i /\ m # k
    BY <1>2, <1>4, <2>1, <2>2
  <2>4. QED
    BY <1>2, <2>1, <2>2, <2>3 DEF GoodFrom
<1>6. ASSUME NEW m \in GoodFrom(i, read), m # k PROVE m \in GoodFrom(next, read)
  <2>1. PICK t \in Nat : t >= i /\ StartsAt(m, t, read)
    BY DEF GoodFrom
  <2>2. m \in 1 .. Len(answered) /\ m \in Good(read)
    BY DEF GoodFrom, Good
  <2>3. t >= next
    BY <1>2, <1>4, <1>6, <2>1, <2>2
  <2>4. QED
    BY <2>1, <2>2, <2>3 DEF GoodFrom
<1>7. QED
  BY <1>3, <1>5, <1>6 DEF next

\* A header byte where no response starts is a stray one: nothing behind it counts.
LEMMA FindsNoneBehindStray ==
    ASSUME answered \in Seq(ShortResponse), NEW read, ReadOK(read), NEW i \in Nat, Free(i, read),
           i + 1 <= Len(read), read[i + 1].byte = PKT_HDR,
           \A k \in 1 .. Len(answered) : ~StartsAt(k, i, read)
    PROVE  GoodFrom(i, read) = {}
<1>1. Len(read) \in Nat /\ i + 1 \in 1 .. Len(read)
  BY DEF ReadOK
<1>2. Stray(i + 1, read)
  <2> SUFFICES ASSUME read[i + 1].of # 0, Intact(read[i + 1].of, read) PROVE FALSE
    BY DEF Stray
  <2> DEFINE k == read[i + 1].of
  <2>1. k \in 1 .. Len(answered)
    <3>1. GenuineIn(read[i + 1], answered)
      BY <1>1 DEF ReadOK, Elems
    <3>2. QED
      BY <3>1 DEF GenuineIn
  <2>2. PICK s \in Nat : StartsAt(k, s, read)
    BY <2>1, IntactStarts DEF ReadOK
  <2>3. s + 1 <= i + 1 /\ i + 1 <= s + Size(k)
    BY <1>1, <2>1, <2>2, BytesInStart
  <2>4. i <= s \/ s + Size(k) <= i
    BY <2>1, <2>2 DEF Free
  <2>5. Size(k) \in Nat
    BY <2>1, SizeFacts
  <2>6. s = i
    BY <2>3, <2>4, <2>5
  <2>7. QED
    BY <2>1, <2>2, <2>6
<1>3. ASSUME NEW k \in Good(read), NEW s \in Nat, s >= i, StartsAt(k, s, read) PROVE FALSE
  <2>1. k \in 1 .. Len(answered)
    BY DEF Good
  <2>2. Size(k) \in Nat /\ Size(k) >= 5
    BY <2>1, SizeFacts
  <2>3. s + 1 \in 1 .. Len(read) /\ read[s + 1].of = k
    <3>1. 1 \in 1 .. Size(k) /\ s + Size(k) <= Len(read)
      BY <1>3, <2>2 DEF StartsAt
    <3>2. read[s + 1].of = k
      BY <1>3, <3>1 DEF StartsAt, At
    <3>3. QED
      BY <1>1, <2>2, <3>1, <3>2
  <2>4. s # i
    BY <1>3, <2>1
  <2>5. i + 1 \in 1 .. (s + 1) - 1
    BY <1>3, <2>4
  <2>6. QED
    BY <1>2, <2>3, <2>5 DEF Good
<1>4. QED
  BY <1>3 DEF GoodFrom

\* Packets in front: the others are found behind them.
LEMMA FindsMore ==
    ASSUME NEW packets \in Seq(Packet), NEW head \in Seq(Packet), NEW ks, NEW f,
           Finds(f, ks, packets)
    PROVE  \E g : Finds(g, ks, head \o packets) /\ \A k \in ks : g[k] > Len(head)
<1> DEFINE all == head \o packets
           g == [k \in ks |-> Len(head) + f[k]]
<1>1. /\ Len(all) = Len(head) + Len(packets)
      /\ \A i \in 1 .. Len(head) + Len(packets) :
             all[i] = IF i <= Len(head) THEN head[i] ELSE packets[i - Len(head)]
  BY ConcatProperties
<1>2. Len(head) \in Nat /\ Len(packets) \in Nat
  OBVIOUS
<1> HIDE DEF all
<1>3. ASSUME NEW k \in ks
      PROVE  g[k] \in 1 .. Len(all) /\ g[k] > Len(head) /\ all[g[k]] = packets[f[k]]
  <2>1. f[k] \in 1 .. Len(packets)
    BY DEF Finds
  <2>2. /\ Len(head) + f[k] \in 1 .. Len(head) + Len(packets) /\ ~(Len(head) + f[k] <= Len(head))
        /\ (Len(head) + f[k]) - Len(head) = f[k]
    BY <1>2, <2>1
  <2>3. all[Len(head) + f[k]] = packets[f[k]]
    BY <1>1, <2>2
  <2>4. QED
    BY <1>1, <1>2, <2>2, <2>3
<1>4. \A j, k \in ks : j < k => g[j] < g[k]
  <2> SUFFICES ASSUME NEW j \in ks, NEW k \in ks, j < k PROVE g[j] < g[k]
    OBVIOUS
  <2>1. f[j] \in 1 .. Len(packets) /\ f[k] \in 1 .. Len(packets) /\ f[j] < f[k]
    BY DEF Finds
  <2>2. QED
    BY <1>2, <2>1
<1>5. g \in [ks -> 1 .. Len(all)]
  BY <1>3
<1> HIDE DEF g
<1>6. Finds(g, ks, all)
  BY <1>3, <1>4, <1>5 DEF Finds
<1>7. QED
  BY <1>3, <1>6 DEF all

\* One more packet, which is the first of the good ones.
LEMMA FindsOneMore ==
    ASSUME NEW packets \in Seq(Packet), NEW p \in Packet, NEW ks, NEW k, NEW f,
           Finds(f, ks \ {k}, packets), \A m \in ks \ {k} : k < m,
           request(p.cmd, p.pld) = answered[k], ks \subseteq Nat, k \in Nat
    PROVE  \E g : Finds(g, ks, <<p>> \o packets)
<1> DEFINE head == <<p>>
           all == head \o packets
<1>1. head \in Seq(Packet) /\ Len(head) = 1 /\ head[1] = p
  BY One
<1> HIDE DEF head
<1>2. PICK g : Finds(g, ks \ {k}, all) /\ \A m \in ks \ {k} : g[m] > Len(head)
  BY <1>1, FindsMore
<1>3. Len(all) \in Nat /\ 1 \in 1 .. Len(all) /\ all[1] = p
  <2>1. /\ Len(all) = Len(head) + Len(packets)
        /\ \A i \in 1 .. Len(head) + Len(packets) :
               all[i] = IF i <= Len(head) THEN head[i] ELSE packets[i - Len(head)]
    BY <1>1, ConcatProperties
  <2>2. Len(packets) \in Nat
    OBVIOUS
  <2>3. 1 \in 1 .. Len(head) + Len(packets) /\ 1 <= Len(head)
    BY <1>1, <2>2
  <2>4. QED
    BY <1>1, <2>1, <2>2, <2>3
<1> HIDE DEF all
<1> DEFINE h == [m \in ks |-> IF m = k THEN 1 ELSE g[m]]
<1>4. \A m \in ks : m # k => h[m] = g[m] /\ g[m] \in 1 .. Len(all) /\ g[m] > 1
  BY <1>1, <1>2 DEF Finds
<1>5. \A m \in ks : m = k => h[m] = 1
  OBVIOUS
<1>6. h \in [ks -> 1 .. Len(all)]
  BY <1>3, <1>4
<1> HIDE DEF h
<1>7. \A m \in ks : request(all[h[m]].cmd, all[h[m]].pld) = answered[m]
  <2> TAKE m \in ks
  <2>1. CASE m = k
    BY <1>3, <1>5, <2>1
  <2>2. CASE m # k
    BY <1>2, <1>4, <2>2 DEF Finds
  <2>3. QED
    BY <2>1, <2>2
<1>8. \A j, m \in ks : j < m => h[j] < h[m]
  <2> SUFFICES ASSUME NEW j \in ks, NEW m \in ks, j < m PROVE h[j] < h[m]
    OBVIOUS
  <2>1. CASE j = k
    <3>1. m # k
      BY <2>1
    <3>2. QED
      BY <1>4, <1>5, <2>1, <3>1
  <2>2. CASE j # k
    <3>1. m # k
      BY <2>2
    <3>2. QED
      BY <1>2, <1>4, <2>2, <3>1 DEF Finds
  <2>3. QED
    BY <2>1, <2>2
<1>9. Finds(h, ks, all)
  BY <1>6, <1>7, <1>8 DEF Finds
<1>10. QED
  BY <1>9 DEF all, head

\* One turn of the scan.
LEMMA FindsOnTurn ==
    ASSUME CrcBytes, answered \in Seq(ShortResponse), NEW read, ReadOK(read),
           NEW i \in 0 .. Len(read), Free(i, read),
           \A n \in i + 1 .. Len(read) :
               Free(n, read) => \E f : Finds(f, GoodFrom(n, read), ScanFrom(n, read))
    PROVE  \E f : Finds(f, GoodFrom(i, read), ScanFrom(i, read))
<1> DEFINE d == bytes_of(read)
           size == decoded_len(d, i)
           p == decode_packet(d, i)
           head == IF Handles(p, ReadCmds) THEN <<p>> ELSE <<>>
<1>1. /\ d \in Seq(Byte) /\ Len(d) = Len(read) /\ Len(read) \in Nat /\ i \in Nat
      /\ \A n \in 1 .. Len(read) : d[n] = read[n].byte
  BY BytesOfType DEF ReadOK
<1>2. \A k \in 1 .. Len(answered) :
          StartsAt(k, i, read) =>
              /\ Len(d) - i >= MIN_PKT_LEN /\ d[i + 1] = PKT_HDR /\ size = Size(k)
              /\ Handles(p, ReadCmds) /\ request(p.cmd, p.pld) = answered[k]
  BY <1>1, StartDecodes
<1>3. CASE Len(d) - i < MIN_PKT_LEN
  BY <1>1, <1>3, FindsAtEnd
<1>4. CASE Len(d) - i >= MIN_PKT_LEN /\ (d[i + 1] # PKT_HDR \/ size = 0)
  <2>1. \A k \in 1 .. Len(answered) : ~StartsAt(k, i, read)
    <3> SUFFICES ASSUME NEW k \in 1 .. Len(answered), StartsAt(k, i, read) PROVE FALSE
      OBVIOUS
    <3>1. d[i + 1] = PKT_HDR /\ size = Size(k)
      BY <1>2
    <3>2. Size(k) >= 5
      BY SizeFacts
    <3>3. QED
      BY <1>4, <3>1, <3>2
  <2>2. Free(i + 1, read) /\ GoodFrom(i, read) = GoodFrom(i + 1, read)
    BY <1>1, <2>1, FindsBehind
  <2>3. ScanFrom(i, read) = ScanFrom(i + 1, read)
    BY <1>1, <1>4, PacketsFromSkip DEF ScanFrom
  <2>4. i + 1 \in i + 1 .. Len(read)
    BY <1>1, <1>4 DEF MIN_PKT_LEN
  <2>5. QED
    BY <2>2, <2>3, <2>4
<1>5. CASE Len(d) - i >= MIN_PKT_LEN /\ d[i + 1] = PKT_HDR /\ size # 0
  <2>1. ScanFrom(i, read) = head \o ScanFrom(i + size, read)
    BY <1>1, <1>5, PacketsFromTake DEF ScanFrom
  <2>2. i + size \in i + 1 .. Len(read)
    BY <1>1, <1>5, DecodedLenBounds DEF MIN_PKT_LEN
  <2>3. p \in Packet
    BY <1>1, <1>5, DecodedType
  <2>4. CASE \E k \in 1 .. Len(answered) : StartsAt(k, i, read)
    <3>1. PICK k \in 1 .. Len(answered) : StartsAt(k, i, read)
      BY <2>4
    <3>2. size = Size(k) /\ Handles(p, ReadCmds) /\ request(p.cmd, p.pld) = answered[k]
      BY <1>2, <3>1
    <3>3. /\ Free(i + size, read) /\ GoodFrom(i + size, read) = GoodFrom(i, read) \ {k}
          /\ \A m \in GoodFrom(i, read) \ {k} : k < m
      BY <1>1, <3>1, <3>2, FindsFirst
    <3>4. PICK f : Finds(f, GoodFrom(i, read) \ {k}, ScanFrom(i + size, read))
      BY <2>2, <3>3
    <3>5. ScanFrom(i + size, read) \in Seq(Packet)
      <4>1. i + size \in 0 .. Len(read)
        BY <1>1, <2>2
      <4>2. QED
        BY <4>1, ScanFromType
    <3>6. GoodFrom(i, read) \subseteq Nat /\ k \in Nat
      BY DEF GoodFrom, Good
    <3> HIDE DEF p, size
    <3>7. \E g : Finds(g, GoodFrom(i, read), <<p>> \o ScanFrom(i + size, read))
      BY <2>3, <3>2, <3>3, <3>4, <3>5, <3>6, FindsOneMore
    <3>8. QED
      BY <2>1, <3>2, <3>7
  <2>5. CASE \A k \in 1 .. Len(answered) : ~StartsAt(k, i, read)
    <3>1. i + 1 <= Len(read) /\ i + 1 \in 1 .. Len(read)
      BY <1>1, <1>5 DEF MIN_PKT_LEN
    <3>2. read[i + 1].byte = PKT_HDR
      BY <1>1, <1>5, <3>1
    <3>3. GoodFrom(i, read) = {}
      BY <1>1, <2>5, <3>1, <3>2, FindsNoneBehindStray
    <3>4. QED
      BY <3>3, FindsNone
  <2>6. QED
    BY <2>4, <2>5
<1>6. QED
  BY <1>1, <1>3, <1>4, <1>5 DEF MIN_PKT_LEN

\* The good responses of a read are printed.
LEMMA GoodArePrinted ==
    ASSUME CrcBytes, answered \in Seq(ShortResponse), NEW read, ReadOK(read)
    PROVE  \E f \in [Good(read) -> 1 .. Len(Printed(read))] :
               /\ \A k \in Good(read) : Printed(read)[f[k]] = answered[k]
               /\ \A j, k \in Good(read) : j < k => f[j] < f[k]
<1> DEFINE S == { i \in 0 .. Len(read) :
                      Free(i, read) => \E f : Finds(f, GoodFrom(i, read), ScanFrom(i, read)) }
<1>1. Len(read) \in Nat
  BY DEF ReadOK
<1>2. \A i \in 0 .. Len(read) : (\A n \in i + 1 .. Len(read) : n \in S) => i \in S
  <2> SUFFICES ASSUME NEW i \in 0 .. Len(read), \A n \in i + 1 .. Len(read) : n \in S, Free(i, read)
               PROVE  \E f : Finds(f, GoodFrom(i, read), ScanFrom(i, read))
    OBVIOUS
  <2>1. QED
    BY FindsOnTurn
<1>3. \A i \in 0 .. Len(read) : i \in S
  <2> HIDE DEF S
  <2>1. QED
    BY <1>1, <1>2, DownwardInduction
<1>4. Free(0, read)
  BY DEF Free
<1>5. GoodFrom(0, read) = Good(read)
  <2>1. \A k \in Good(read) : \E s \in Nat : s >= 0 /\ StartsAt(k, s, read)
    <3> TAKE k \in Good(read)
    <3>1. k \in 1 .. Len(answered) /\ Intact(k, read)
      BY DEF Good
    <3>2. QED
      BY <3>1, IntactStarts DEF ReadOK
  <2>2. QED
    BY <2>1 DEF GoodFrom
<1>6. PICK f : Finds(f, Good(read), ScanFrom(0, read))
  <2>1. 0 \in S
    BY <1>1, <1>3
  <2>2. QED
    BY <1>4, <1>5, <2>1
<1> DEFINE packets == packets_in(bytes_of(read), ReadCmds)
<1>7. packets = ScanFrom(0, read)
  BY DEF packets_in, ScanFrom
<1>8. /\ Len(Printed(read)) = Len(packets)
      /\ \A n \in 1 .. Len(packets) : Printed(read)[n] = request(packets[n].cmd, packets[n].pld)
  BY PrintedType DEF ReadOK
<1> HIDE DEF packets
<1>9. f \in [Good(read) -> 1 .. Len(packets)]
  BY <1>6, <1>7 DEF Finds
<1>10. \A k \in Good(read) : Printed(read)[f[k]] = answered[k]
  BY <1>6, <1>7, <1>8, <1>9 DEF Finds
<1>11. \A j, k \in Good(read) : j < k => f[j] < f[k]
  BY <1>6 DEF Finds
<1>12. QED
  BY <1>8, <1>9, <1>10, <1>11

-----------------------------------------------------------------------------
(***************************************************************************)
(* Sound responses are shown                                               *)
(***************************************************************************)

\* Sound responses come before those still on their way.
SoundInv == SoundAreShown /\ \A j \in Sound, k \in Underway : k # 0 => j < k

LEMMA UnderwayElems == Underway = { x.of : x \in Elems(tty) \cup Elems(tx) }
BY DEF Underway, Elems

LEMMA SoundInit == Init => SoundInv
<1> SUFFICES ASSUME Init PROVE SoundInv
  OBVIOUS
<1>1. Sound = {}
  BY DEF Init, Sound
<1> DEFINE f == [k \in {} |-> 0]
<1>2. f \in [{} -> 1 .. Len(shown)]
  OBVIOUS
<1> HIDE DEF f
<1>3. QED
  BY <1>1, <1>2 DEF SoundInv, SoundAreShown

\* Where nothing is read: the same are sound, though one more may be on its way.
LEMMA SoundStays ==
    ASSUME SoundInv, UNCHANGED shown, Sound' = Sound,
           \A k \in Sound : answered'[k] = answered[k],
           \A k \in Underway' : k \in Underway \/ \A j \in Sound : j < k
    PROVE  SoundInv'
<1>1. PICK f \in [Sound -> 1 .. Len(shown)] :
          /\ \A k \in Sound : shown[f[k]] = answered[k]
          /\ \A j, k \in Sound : j < k => f[j] < f[k]
  BY DEF SoundInv, SoundAreShown
<1>2. f \in [Sound' -> 1 .. Len(shown')]
  OBVIOUS
<1>3. \A k \in Sound' : shown'[f[k]] = answered'[k]
  BY <1>1
<1>4. SoundAreShown'
  BY <1>1, <1>2, <1>3 DEF SoundAreShown
<1>5. (\A j \in Sound, k \in Underway : k # 0 => j < k)'
  BY DEF SoundInv
<1>6. QED
  BY <1>4, <1>5 DEF SoundInv

LEMMA SoundTyping ==
    ASSUME SoundInv, Typing
    PROVE  SoundInv'
<1>1. UNCHANGED <<shown, answered, tty, tx, spoiled>>
  BY DEF Typing
<1>2. Underway' = Underway
  BY <1>1 DEF Underway
<1>3. Sound' = Sound
  BY <1>1, <1>2 DEF Sound
<1>4. QED
  BY <1>1, <1>2, <1>3, SoundStays

LEMMA SoundArrive ==
    ASSUME IInv, SoundInv, Arrive
    PROVE  SoundInv'
<1>1. UNCHANGED <<shown, answered, spoiled>>
  BY DEF Arrive
<1>2. Underway' = Underway
  <2>1. Elems(tty') \cup Elems(tx') = Elems(tty) \cup Elems(tx)
    BY ArriveElems DEF IInv
  <2>2. Underway' = { x.of : x \in Elems(tty') \cup Elems(tx') }
    BY DEF Underway, Elems
  <2>3. QED
    BY <2>1, <2>2, UnderwayElems
<1>3. Sound' = Sound
  BY <1>1, <1>2 DEF Sound
<1>4. QED
  BY <1>1, <1>2, <1>3, SoundStays

LEMMA SoundAnswering ==
    ASSUME IInv, SoundInv, Answering, UNCHANGED <<tty, shown, spoiled>>
    PROVE  SoundInv'
<1> DEFINE N == Len(answered)
           N1 == Len(answered')
<1>1. N \in Nat /\ N1 \in {N, N + 1} /\ N1 \in Nat /\ \A k \in 1 .. N : answered'[k] = answered[k]
  BY DEF IInv, TypeInv, Answering
<1>2. Underway' = { x.of : x \in Elems(tty) \cup Elems(tx') }
  BY DEF Underway, Elems
<1>3. Underway = { x.of : x \in Elems(tty) \cup Elems(tx) }
  BY UnderwayElems
<1>4. Underway \subseteq Underway'
  BY <1>2, <1>3 DEF Answering
<1>5. \A k \in Underway' : k \in Underway \/ k = 0 \/ k \in N + 1 .. N1
  BY <1>2, <1>3 DEF Answering
<1>6. \A k \in N + 1 .. N1 : k \in Underway'
  BY <1>2 DEF Answering
<1>7. Sound \subseteq 1 .. N
  BY DEF Sound
<1>8. ASSUME NEW k PROVE k \in Sound' <=> k \in Sound
  <2>1. k \in Sound' <=> k \in 1 .. N1 /\ k \notin spoiled /\ k \notin Underway'
    BY DEF Sound
  <2>2. k \in Sound <=> k \in 1 .. N /\ k \notin spoiled /\ k \notin Underway
    BY DEF Sound
  <2>3. k \in 1 .. N1 /\ k \notin Underway' => k \in 1 .. N /\ k \notin Underway
    <3>1. k \in 1 .. N1 => k \in 1 .. N \/ k \in N + 1 .. N1
      BY <1>1
    <3>2. QED
      BY <1>4, <1>6, <3>1
  <2>4. k \in 1 .. N /\ k \notin Underway => k \in 1 .. N1 /\ k \notin Underway'
    <3>1. k \in 1 .. N => k \in 1 .. N1 /\ k # 0 /\ k \notin N + 1 .. N1
      BY <1>1
    <3>2. QED
      BY <1>5, <3>1
  <2>5. QED
    BY <2>1, <2>2, <2>3, <2>4
<1>9. Sound' = Sound
  BY <1>8
<1>10. \A k \in N + 1 .. N1 : \A j \in Sound : j < k
  BY <1>1, <1>7
<1>11. PICK f \in [Sound -> 1 .. Len(shown)] :
          /\ \A k \in Sound : shown[f[k]] = answered[k]
          /\ \A j, k \in Sound : j < k => f[j] < f[k]
  BY DEF SoundInv, SoundAreShown
<1>12. f \in [Sound' -> 1 .. Len(shown')]
  BY <1>9
<1>13. \A k \in Sound' : shown'[f[k]] = answered'[k]
  BY <1>1, <1>7, <1>9, <1>11
<1>14. SoundAreShown'
  BY <1>9, <1>11, <1>12, <1>13 DEF SoundAreShown
<1>15. \A j \in Sound', k \in Underway' : k # 0 => j < k
  BY <1>5, <1>9, <1>10 DEF SoundInv
<1>16. QED
  BY <1>14, <1>15 DEF SoundInv

\* A read makes sound what is good in it, and that comes after what was sound.
LEMMA SoundReadAdds ==
    ASSUME IInv, SoundInv, Read
    PROVE  /\ Sound \subseteq Sound'
           /\ \A k \in Sound' \ Sound : k \in Good(Available) /\ k \in Underway /\ k # 0
           /\ \A j \in Sound', k \in Underway' : k # 0 => j < k
<1> DEFINE read == Available
<1>1. /\ read \in Seq(Tagged) /\ tty' \in Seq(Tagged) /\ tty = read \o tty'
      /\ spoiled' = spoiled \cup Spoils(read) /\ UNCHANGED <<tx, answered>>
  BY ReadSplits DEF IInv
<1> HIDE DEF read
<1>2. Elems(tty) = Elems(read) \cup Elems(tty')
  BY <1>1, ConcatElems
<1>3. Underway = { x.of : x \in Elems(tty) \cup Elems(tx) }
  BY UnderwayElems
<1>4. Underway' = { x.of : x \in Elems(tty') \cup Elems(tx) }
  BY <1>1 DEF Underway, Elems
<1>5. Underway' \subseteq Underway
  BY <1>2, <1>3, <1>4
<1>6. \A k \in Spoils(read) : k \in Underway
  <2> SUFFICES ASSUME NEW j \in 1 .. Len(read) PROVE read[j].of \in Underway
    BY DEF Spoils
  <2>1. read[j] \in Elems(tty)
    BY <1>2 DEF Elems
  <2>2. QED
    BY <1>3, <2>1
<1>7. Sound \subseteq Sound'
  BY <1>1, <1>5, <1>6 DEF Sound
<1>8. ASSUME NEW k \in Sound' \ Sound
      PROVE  k \in Good(read) /\ k \in Underway /\ k # 0 /\ \E j \in 1 .. Len(read) : read[j].of = k
  <2>1. k \in 1 .. Len(answered) /\ k \notin spoiled /\ k \notin Spoils(read) /\ k \notin Underway'
    BY <1>1, <1>8 DEF Sound
  <2>2. k \in Underway /\ k # 0
    BY <1>8, <2>1 DEF Sound
  <2>3. PICK x \in Elems(read) : x.of = k
    BY <1>2, <1>3, <1>4, <2>1, <2>2
  <2>4. PICK j \in 1 .. Len(read) : read[j].of = k
    BY <2>3 DEF Elems
  <2>5. ASSUME NEW m \in 1 .. Len(read), read[m].of = k
        PROVE  Intact(k, read) /\ \A i \in 1 .. m - 1 : ~Stray(i, read)
    BY <2>1, <2>2, <2>5 DEF Spoils
  <2>6. k \in Good(read)
    BY <2>1, <2>4, <2>5 DEF Good
  <2>7. QED
    BY <2>2, <2>4, <2>6
<1>9. ASSUME NEW j \in Sound', NEW k \in Underway', k # 0 PROVE j < k
  <2>1. CASE j \in Sound
    BY <1>5, <1>9, <2>1 DEF SoundInv
  <2>2. CASE j \notin Sound
    <3>1. j # 0 /\ \E m \in 1 .. Len(read) : read[m].of = j
      BY <1>8, <2>2
    <3>2. PICK x \in Elems(read) : x.of = j
      BY <3>1 DEF Elems
    <3>3. PICK y \in Elems(tty') \cup Elems(tx) : y.of = k
      BY <1>4
    <3>4. j # k
      BY DEF Sound
    <3>5. Before(read, tty') /\ Before(tty, tx)
      BY <1>1, ConcatInOrder DEF IInv, StreamInv
    <3>6. Lt(x, y)
      BY <1>2, <3>5 DEF Before
    <3>7. QED
      BY <1>9, <3>1, <3>2, <3>3, <3>4, <3>6 DEF Lt
  <2>3. QED
    BY <2>1, <2>2
<1>10. QED
  BY <1>7, <1>8, <1>9 DEF read

LEMMA SoundRead ==
    ASSUME CrcBytes, IInv, SoundInv, Read
    PROVE  SoundInv'
<1> DEFINE read == Available
           printed == Printed(read)
<1>1. /\ read \in Seq(Tagged) /\ tty' \in Seq(Tagged) /\ tty = read \o tty'
      /\ shown' = shown \o printed /\ UNCHANGED answered
  BY ReadSplits DEF IInv
<1>2. answered \in Seq(ShortResponse) /\ shown \in Seq(Response) /\ printed \in Seq(Response)
  BY <1>1, PrintedType DEF IInv, TypeInv
<1>3. ReadOK(read)
  <2>1. InOrder(read)
    BY <1>1, ConcatInOrder DEF IInv, StreamInv
  <2>2. Elems(tty) = Elems(read) \cup Elems(tty')
    BY <1>1, ConcatElems
  <2>3. QED
    BY <1>1, <2>1, <2>2 DEF IInv, StreamInv, ReadOK
<1>4. PICK f \in [Sound -> 1 .. Len(shown)] :
          /\ \A k \in Sound : shown[f[k]] = answered[k]
          /\ \A j, k \in Sound : j < k => f[j] < f[k]
  BY DEF SoundInv, SoundAreShown
<1>5. PICK g \in [Good(read) -> 1 .. Len(printed)] :
          /\ \A k \in Good(read) : printed[g[k]] = answered[k]
          /\ \A j, k \in Good(read) : j < k => g[j] < g[k]
  BY <1>2, <1>3, GoodArePrinted
<1>6. /\ Sound \subseteq Sound'
      /\ \A k \in Sound' \ Sound : k \in Good(read) /\ k \in Underway /\ k # 0
      /\ \A j \in Sound', k \in Underway' : k # 0 => j < k
  BY SoundReadAdds
<1> HIDE DEF read, printed
<1>7. /\ Len(shown') = Len(shown) + Len(printed) /\ Len(shown) \in Nat /\ Len(printed) \in Nat
      /\ \A i \in 1 .. Len(shown) + Len(printed) :
             shown'[i] = IF i <= Len(shown) THEN shown[i] ELSE printed[i - Len(shown)]
  BY <1>1, <1>2, ConcatProperties
<1> DEFINE h == [k \in Sound' |-> IF k \in Sound THEN f[k] ELSE Len(shown) + g[k]]
<1>8. ASSUME NEW k \in Sound'
      PROVE  /\ h[k] \in 1 .. Len(shown') /\ shown'[h[k]] = answered[k]
             /\ k \in Sound => h[k] = f[k] /\ h[k] <= Len(shown)
             /\ k \notin Sound => h[k] = Len(shown) + g[k] /\ g[k] \in Nat /\ h[k] > Len(shown)
  <2>1. CASE k \in Sound
    <3>1. h[k] = f[k] /\ f[k] \in 1 .. Len(shown)
      BY <2>1
    <3> HIDE DEF h
    <3>2. f[k] \in 1 .. Len(shown) + Len(printed) /\ f[k] <= Len(shown)
      BY <1>7, <3>1
    <3>3. shown'[f[k]] = answered[k]
      BY <1>4, <1>7, <2>1, <3>2
    <3>4. QED
      BY <1>7, <2>1, <3>1, <3>2, <3>3
  <2>2. CASE k \notin Sound
    <3>1. h[k] = Len(shown) + g[k] /\ g[k] \in 1 .. Len(printed) /\ k \in Good(read)
      BY <1>6, <2>2
    <3> HIDE DEF h
    <3>2. /\ Len(shown) + g[k] \in 1 .. Len(shown) + Len(printed) /\ ~(Len(shown) + g[k] <= Len(shown))
          /\ (Len(shown) + g[k]) - Len(shown) = g[k]
      BY <1>7, <3>1
    <3>3. shown'[Len(shown) + g[k]] = answered[k]
      BY <1>5, <1>7, <3>1, <3>2
    <3>4. QED
      BY <1>7, <2>2, <3>1, <3>2, <3>3
  <2>3. QED
    BY <2>1, <2>2
<1>9. h \in [Sound' -> 1 .. Len(shown')]
  BY <1>8
<1> HIDE DEF h
<1>10. ASSUME NEW j \in Sound', NEW k \in Sound', j < k PROVE h[j] < h[k]
  <2>1. j \in Nat /\ k \in Nat
    BY DEF Sound
  <2>2. CASE j \in Sound /\ k \in Sound
    BY <1>4, <1>8, <1>10, <2>2
  <2>3. CASE j \in Sound /\ k \notin Sound
    <3>1. h[j] <= Len(shown) /\ h[k] > Len(shown) /\ h[j] \in 1 .. Len(shown') /\ h[k] \in 1 .. Len(shown')
      BY <1>8, <2>3
    <3>2. QED
      BY <1>7, <3>1
  <2>4. CASE j \notin Sound /\ k \in Sound
    <3>1. k < j
      BY <1>6, <2>4 DEF SoundInv
    <3>2. QED
      BY <1>10, <2>1, <3>1
  <2>5. CASE j \notin Sound /\ k \notin Sound
    <3>1. g[j] < g[k]
      BY <1>5, <1>6, <1>10, <2>5
    <3>2. QED
      BY <1>7, <1>8, <2>5, <3>1
  <2>6. QED
    BY <2>2, <2>3, <2>4, <2>5
<1>11. \A k \in Sound' : shown'[h[k]] = answered'[k]
  BY <1>1, <1>8
<1>12. SoundAreShown'
  BY <1>9, <1>10, <1>11 DEF SoundAreShown
<1>13. QED
  BY <1>6, <1>12 DEF SoundInv

LEMMA SoundStep ==
    ASSUME CrcBytes, IInv, SoundInv, [Next]_vars
    PROVE  SoundInv'
<1>1. ASSUME NEW l \in Lines, Command(l) /\ UNCHANGED <<server, spoiled>> PROVE SoundInv'
  BY <1>1, CommandTypes, SoundTyping DEF IInv
<1>2. CASE Read
  BY <1>2, SoundRead
<1>3. CASE EndOfInput /\ UNCHANGED <<server, spoiled>>
  BY <1>3, EndTypes, SoundTyping DEF IInv
<1>4. ASSUME NEW n \in 1 .. Len(sent), Serve(n) PROVE SoundInv'
  BY <1>4, ServeAnswers, SoundAnswering
<1>5. ASSUME NEW n \in 1 .. Len(sent), ServeFailing(n) PROVE SoundInv'
  BY <1>5, ServeFailingAnswers, SoundAnswering
<1>6. CASE Arrive
  BY <1>6, SoundArrive
<1>7. CASE UNCHANGED vars
  BY <1>7, StutterTypes, SoundTyping DEF IInv
<1>8. QED
  BY <1>1, <1>2, <1>3, <1>4, <1>5, <1>6, <1>7 DEF Next

\* No response is lost but those that a read cuts, that others' bytes come into, or
\* that a stray header byte comes before in the same read: every other one that has
\* come in has been printed, once and in order.
THEOREM SoundResponsesAreShown == ASSUME CrcBytes PROVE Spec => []SoundAreShown
<1>1. Init => SoundInv
  BY SoundInit
<1>2. IInv /\ SoundInv /\ [Next]_vars => SoundInv'
  BY SoundStep
<1>3. SoundInv => SoundAreShown
  BY DEF SoundInv
<1>4. QED
  BY <1>1, <1>2, <1>3, Inductive, PTL DEF Spec

-----------------------------------------------------------------------------
(***************************************************************************)
(* What is shown was answered, as long as nothing is made up: two bytes of *)
(* checksum cannot rule out that other bytes pass for a packet.            *)
(***************************************************************************)

\* NothingMadeUp, of any read.
AllAnswered(read) ==
    LET d == bytes_of(read)
    IN  \A k \in 0 .. Len(d) - MIN_PKT_LEN :
            decoded_len(d, k) # 0 /\ Handles(decode_packet(d, k), ReadCmds)
                => \E n \in 1 .. Len(answered) : At(n, decoded_len(d, k), k, read)

\* A packet that is handled is a response.
LEMMA HandledStarts ==
    ASSUME CrcBytes, answered \in Seq(ShortResponse), NEW read, ReadOK(read), AllAnswered(read),
           NEW i \in 0 .. Len(read), Len(read) - i >= MIN_PKT_LEN,
           decoded_len(bytes_of(read), i) # 0,
           Handles(decode_packet(bytes_of(read), i), ReadCmds)
    PROVE  \E n \in 1 .. Len(answered) : StartsAt(n, i, read)
<1> DEFINE d == bytes_of(read)
           size == decoded_len(d, i)
<1>1. /\ d \in Seq(Byte) /\ Len(d) = Len(read) /\ Len(read) \in Nat /\ i \in Nat
      /\ \A n \in 1 .. Len(read) : d[n] = read[n].byte
  BY BytesOfType DEF ReadOK
<1>2. /\ size = MIN_PKT_LEN + d[i + 3] /\ d[i + 3] \in Nat
      /\ i + size <= Len(read) /\ i + 3 \in 1 .. Len(read)
  <2>1. i + 3 \in 1 .. Len(d)
    BY <1>1 DEF MIN_PKT_LEN
  <2>2. d[i + 3] \in Nat
    BY <1>1, <2>1, ElementOfSeq, ByteIsNat
  <2>3. size = MIN_PKT_LEN + d[i + 3] /\ ~(Len(d) - i < MIN_PKT_LEN + d[i + 3])
    BY DEF decoded_len
  <2>4. i + size <= Len(read)
    BY <1>1, <2>2, <2>3 DEF MIN_PKT_LEN
  <2>5. QED
    BY <1>1, <2>1, <2>2, <2>3, <2>4
<1>3. PICK n \in 1 .. Len(answered) : At(n, size, i, read)
  <2>1. i \in 0 .. Len(d) - MIN_PKT_LEN
    BY <1>1 DEF MIN_PKT_LEN
  <2>2. QED
    BY <2>1 DEF AllAnswered
<1> HIDE DEF d, size
<1>4. read[i + 3].of = n /\ read[i + 3].at = 3
  <2>1. 3 \in 1 .. size
    BY SMTT(30), <1>2 DEF MIN_PKT_LEN
  <2>2. QED
    BY <1>3, <2>1 DEF At
<1>5. /\ Size(n) = MIN_PKT_LEN + Len(answered[n].pld) /\ answered[n].cmd \in Byte
      /\ answered[n].pld \in Seq(Byte) /\ Len(answered[n].pld) <= MAX_PLD_LEN
  BY SizeFacts
<1>6. d[i + 3] = Len(answered[n].pld)
  <2>1. GenuineIn(read[i + 3], answered)
    BY <1>2 DEF ReadOK, Elems
  <2>2. n # 0
    OBVIOUS
  <2>3. read[i + 3].byte = send_bytes(answered[n].cmd, answered[n].pld)[3]
    BY <1>4, <2>1, <2>2 DEF GenuineIn
  <2>4. send_bytes(answered[n].cmd, answered[n].pld)[3] = Len(answered[n].pld)
    BY SMTT(30), <1>5, SentBytes
  <2>5. QED
    BY <1>1, <1>2, <2>3, <2>4
<1>7. size = Size(n)
  BY <1>2, <1>5, <1>6
<1>8. StartsAt(n, i, read)
  BY <1>1, <1>2, <1>3, <1>7 DEF StartsAt
<1>9. QED
  BY <1>8

\* g tells which responses the packets are that the scan finds from byte i on.
Comes(g, packets, i, read) ==
    /\ g \in [1 .. Len(packets) -> 1 .. Len(answered)]
    /\ \A m \in 1 .. Len(packets) :
           /\ request(packets[m].cmd, packets[m].pld) = answered[g[m]]
           /\ \E s \in Nat : s >= i /\ StartsAt(g[m], s, read)
    /\ \A m, n \in 1 .. Len(packets) : m < n => g[m] < g[n]

LEMMA NoneComes == ASSUME NEW i, NEW read PROVE \E g : Comes(g, <<>>, i, read)
<1> DEFINE g == [m \in 1 .. 0 |-> 0]
<1>1. g \in [1 .. Len(<<>>) -> 1 .. Len(answered)]
  OBVIOUS
<1>2. \A m \in 1 .. Len(<<>>) : FALSE
  OBVIOUS
<1> HIDE DEF g
<1>3. Comes(g, <<>>, i, read)
  BY <1>1, <1>2 DEF Comes
<1>4. QED
  BY <1>3

LEMMA ComesFrom ==
    ASSUME NEW packets, NEW i \in Nat, NEW n \in Nat, i <= n, NEW read, NEW g, Comes(g, packets, n, read)
    PROVE  Comes(g, packets, i, read)
<1>1. \A s \in Nat : s >= n => s >= i
  OBVIOUS
<1>2. QED
  BY <1>1 DEF Comes

\* One more packet in front.
LEMMA OneMoreComes ==
    ASSUME answered \in Seq(ShortResponse), NEW read, ReadOK(read), NEW i \in Nat,
           NEW k \in 1 .. Len(answered), StartsAt(k, i, read),
           NEW packets \in Seq(Packet), NEW p \in Packet, request(p.cmd, p.pld) = answered[k],
           NEW f, Comes(f, packets, i + Size(k), read)
    PROVE  \E g : Comes(g, <<p>> \o packets, i, read)
<1> DEFINE head == <<p>>
           all == head \o packets
<1>1. head \in Seq(Packet) /\ Len(head) = 1 /\ head[1] = p
  BY One
<1> HIDE DEF head
<1>2. /\ Len(all) = 1 + Len(packets) /\ Len(packets) \in Nat
      /\ \A m \in 1 .. 1 + Len(packets) : all[m] = IF m <= 1 THEN head[m] ELSE packets[m - 1]
  <2>1. /\ Len(all) = Len(head) + Len(packets)
        /\ \A m \in 1 .. Len(head) + Len(packets) :
               all[m] = IF m <= Len(head) THEN head[m] ELSE packets[m - Len(head)]
    BY <1>1, ConcatProperties
  <2>2. Len(packets) \in Nat
    OBVIOUS
  <2> HIDE DEF all
  <2>3. QED
    BY <1>1, <2>1, <2>2
<1>3. Size(k) \in Nat /\ Size(k) >= 5
  BY SizeFacts
<1> HIDE DEF all
<1> DEFINE g == [m \in 1 .. Len(all) |-> IF m = 1 THEN k ELSE f[m - 1]]
<1>4. all[1] = p /\ 1 \in 1 .. Len(all) /\ g[1] = k
  <2>1. 1 \in 1 .. 1 + Len(packets)
    BY <1>2
  <2>2. QED
    BY <1>1, <1>2, <2>1
<1>5. ASSUME NEW m \in 1 .. Len(all), m # 1
      PROVE  /\ m - 1 \in 1 .. Len(packets) /\ all[m] = packets[m - 1] /\ g[m] = f[m - 1]
             /\ f[m - 1] \in 1 .. Len(answered)
             /\ request(all[m].cmd, all[m].pld) = answered[g[m]]
             /\ \E s \in Nat : s >= i /\ StartsAt(g[m], s, read)
             /\ k < g[m]
  <2>1. m - 1 \in 1 .. Len(packets) /\ ~(m <= 1) /\ m \in 1 .. 1 + Len(packets)
    BY <1>2, <1>5
  <2>2. all[m] = packets[m - 1] /\ g[m] = f[m - 1]
    BY <1>2, <1>5, <2>1
  <2>3. f[m - 1] \in 1 .. Len(answered)
    BY <2>1 DEF Comes
  <2>4. request(packets[m - 1].cmd, packets[m - 1].pld) = answered[f[m - 1]]
    BY <2>1 DEF Comes
  <2>5. PICK s \in Nat : s >= i + Size(k) /\ StartsAt(f[m - 1], s, read)
    BY <2>1 DEF Comes
  <2> HIDE DEF g
  <2>6. s >= i /\ s # i
    BY <1>3, <2>5
  <2>7. f[m - 1] # k
    BY <2>5, <2>6, StartsOnce
  <2>8. k < f[m - 1]
    BY <2>3, <2>5, <2>6, <2>7, StartsDisjoint
  <2>9. QED
    BY <2>1, <2>2, <2>3, <2>4, <2>5, <2>6, <2>8
<1>6. g \in [1 .. Len(all) -> 1 .. Len(answered)]
  BY <1>4, <1>5
<1> HIDE DEF g
<1>7. \A m \in 1 .. Len(all) :
          /\ request(all[m].cmd, all[m].pld) = answered[g[m]]
          /\ \E s \in Nat : s >= i /\ StartsAt(g[m], s, read)
  <2> TAKE m \in 1 .. Len(all)
  <2>1. CASE m = 1
    <3>1. request(all[m].cmd, all[m].pld) = answered[g[m]]
      BY <1>4, <2>1
    <3>2. i >= i /\ StartsAt(g[m], i, read)
      BY <1>4, <2>1
    <3>3. QED
      BY <3>1, <3>2
  <2>2. CASE m # 1
    BY <1>5, <2>2
  <2>3. QED
    BY <2>1, <2>2
<1>8. \A m, n \in 1 .. Len(all) : m < n => g[m] < g[n]
  <2> SUFFICES ASSUME NEW m \in 1 .. Len(all), NEW n \in 1 .. Len(all), m < n PROVE g[m] < g[n]
    OBVIOUS
  <2>1. n # 1
    OBVIOUS
  <2>2. CASE m = 1
    BY <1>4, <1>5, <2>1, <2>2
  <2>3. CASE m # 1
    <3>1. m - 1 \in 1 .. Len(packets) /\ n - 1 \in 1 .. Len(packets) /\ g[m] = f[m - 1] /\ g[n] = f[n - 1]
      BY <1>5, <2>1, <2>3
    <3>2. m - 1 < n - 1
      OBVIOUS
    <3>3. QED
      BY <3>1, <3>2 DEF Comes
  <2>4. QED
    BY <2>2, <2>3
<1>9. Comes(g, all, i, read)
  BY <1>6, <1>7, <1>8 DEF Comes
<1>10. QED
  BY <1>9 DEF all, head

\* One turn of the scan.
LEMMA ComesOnTurn ==
    ASSUME CrcBytes, answered \in Seq(ShortResponse), NEW read, ReadOK(read), AllAnswered(read),
           NEW i \in 0 .. Len(read),
           \A n \in i + 1 .. Len(read) : \E g : Comes(g, ScanFrom(n, read), n, read)
    PROVE  \E g : Comes(g, ScanFrom(i, read), i, read)
<1> DEFINE d == bytes_of(read)
           size == decoded_len(d, i)
           p == decode_packet(d, i)
           head == IF Handles(p, ReadCmds) THEN <<p>> ELSE <<>>
<1>1. d \in Seq(Byte) /\ Len(d) = Len(read) /\ Len(read) \in Nat /\ i \in Nat
  BY BytesOfType DEF ReadOK
<1>2. CASE Len(d) - i < MIN_PKT_LEN
  <2>1. ScanFrom(i, read) = <<>>
    BY <1>1, <1>2, PacketsFromEnd DEF ScanFrom
  <2>2. QED
    BY <2>1, NoneComes
<1>3. CASE Len(d) - i >= MIN_PKT_LEN /\ (d[i + 1] # PKT_HDR \/ size = 0)
  <2>1. ScanFrom(i, read) = ScanFrom(i + 1, read)
    BY <1>1, <1>3, PacketsFromSkip DEF ScanFrom
  <2>2. i + 1 \in i + 1 .. Len(read)
    BY <1>1, <1>3 DEF MIN_PKT_LEN
  <2>3. PICK g : Comes(g, ScanFrom(i + 1, read), i + 1, read)
    BY <2>2
  <2>4. i + 1 \in Nat /\ i <= i + 1
    BY <1>1
  <2>5. Comes(g, ScanFrom(i + 1, read), i, read)
    BY <1>1, <2>3, <2>4, ComesFrom
  <2>6. QED
    BY <2>1, <2>5
<1>4. CASE Len(d) - i >= MIN_PKT_LEN /\ d[i + 1] = PKT_HDR /\ size # 0
  <2>1. ScanFrom(i, read) = head \o ScanFrom(i + size, read)
    BY <1>1, <1>4, PacketsFromTake DEF ScanFrom
  <2>2. i + size \in i + 1 .. Len(read)
    BY <1>1, <1>4, DecodedLenBounds DEF MIN_PKT_LEN
  <2>3. p \in Packet
    BY <1>1, <1>4, DecodedType
  <2>4. i + size \in 0 .. Len(read) /\ i + size \in Nat /\ i <= i + size
    BY <1>1, <2>2
  <2>5. ScanFrom(i + size, read) \in Seq(Packet)
    BY <2>4, ScanFromType
  <2>6. PICK g : Comes(g, ScanFrom(i + size, read), i + size, read)
    BY <2>2
  <2>7. CASE Handles(p, ReadCmds)
    <3>1. PICK k \in 1 .. Len(answered) : StartsAt(k, i, read)
      BY <1>1, <1>4, <2>7, HandledStarts
    <3>2. size = Size(k) /\ request(p.cmd, p.pld) = answered[k]
      BY <1>1, <3>1, StartDecodes
    <3> HIDE DEF p, size
    <3>3. \E h : Comes(h, <<p>> \o ScanFrom(i + size, read), i, read)
      BY <1>1, <2>3, <2>5, <2>6, <3>1, <3>2, OneMoreComes
    <3>4. QED
      BY <2>1, <2>7, <3>3
  <2>8. CASE ~Handles(p, ReadCmds)
    <3>1. ScanFrom(i, read) = ScanFrom(i + size, read)
      <4>1. head = <<>>
        BY <2>8
      <4> HIDE DEF head, size
      <4>2. <<>> \o ScanFrom(i + size, read) = ScanFrom(i + size, read)
        BY <2>5, ConcatEmptySeq
      <4>3. QED
        BY <2>1, <4>1, <4>2
    <3> HIDE DEF size
    <3>2. Comes(g, ScanFrom(i + size, read), i, read)
      BY <1>1, <2>4, <2>6, ComesFrom
    <3>3. QED
      BY <3>1, <3>2
  <2>9. QED
    BY <2>7, <2>8
<1>5. QED
  BY <1>1, <1>2, <1>3, <1>4 DEF MIN_PKT_LEN

\* What a read prints are responses in it, in order.
LEMMA PrintedWereAnswered ==
    ASSUME CrcBytes, answered \in Seq(ShortResponse), NEW read, ReadOK(read), AllAnswered(read)
    PROVE  \E g \in [1 .. Len(Printed(read)) -> 1 .. Len(answered)] :
               /\ \A m \in 1 .. Len(Printed(read)) :
                      /\ Printed(read)[m] = answered[g[m]]
                      /\ \E s \in Nat : StartsAt(g[m], s, read)
               /\ \A m, n \in 1 .. Len(Printed(read)) : m < n => g[m] < g[n]
<1> DEFINE S == { i \in 0 .. Len(read) : \E g : Comes(g, ScanFrom(i, read), i, read) }
           packets == packets_in(bytes_of(read), ReadCmds)
<1>1. Len(read) \in Nat
  BY DEF ReadOK
<1>2. \A i \in 0 .. Len(read) : (\A n \in i + 1 .. Len(read) : n \in S) => i \in S
  <2> SUFFICES ASSUME NEW i \in 0 .. Len(read), \A n \in i + 1 .. Len(read) : n \in S
               PROVE  \E g : Comes(g, ScanFrom(i, read), i, read)
    OBVIOUS
  <2>1. QED
    BY ComesOnTurn
<1>3. \A i \in 0 .. Len(read) : i \in S
  <2> HIDE DEF S
  <2>1. QED
    BY <1>1, <1>2, DownwardInduction
<1>4. PICK g : Comes(g, ScanFrom(0, read), 0, read)
  <2>1. 0 \in S
    BY <1>1, <1>3
  <2>2. QED
    BY <2>1
<1>5. packets = ScanFrom(0, read)
  BY DEF packets_in, ScanFrom
<1>6. /\ Len(Printed(read)) = Len(packets)
      /\ \A n \in 1 .. Len(packets) : Printed(read)[n] = request(packets[n].cmd, packets[n].pld)
  BY PrintedType DEF ReadOK
<1> HIDE DEF packets
<1>7. QED
  BY SMTT(30), <1>4, <1>5, <1>6 DEF Comes

\* f tells which responses are shown; what is still to begin comes later.
Shows(f) ==
    /\ f \in [1 .. Len(shown) -> 1 .. Len(answered)]
    /\ \A i \in 1 .. Len(shown) : shown[i] = answered[f[i]]
    /\ \A i, j \in 1 .. Len(shown) : i < j => f[i] < f[j]
    /\ \A i \in 1 .. Len(shown), x \in Elems(tty) \cup Elems(tx) :
           x.of # 0 /\ x.at = 1 => f[i] < x.of

ShownInv == \E f : Shows(f)

LEMMA ShownInit == Init => ShownInv
<1> SUFFICES ASSUME Init PROVE ShownInv
  OBVIOUS
<1> DEFINE f == [i \in 1 .. 0 |-> 0]
<1>1. Len(shown) = 0
  BY DEF Init, ClientInit
<1>2. f \in [1 .. Len(shown) -> 1 .. Len(answered)]
  BY <1>1
<1>3. \A i \in 1 .. Len(shown) : FALSE
  BY <1>1
<1> HIDE DEF f
<1>4. Shows(f)
  BY <1>2, <1>3 DEF Shows
<1>5. QED
  BY <1>4 DEF ShownInv

LEMMA ShownTyping ==
    ASSUME ShownInv, Typing
    PROVE  ShownInv'
<1>1. PICK f : Shows(f)
  BY DEF ShownInv
<1>2. Shows(f)'
  BY <1>1 DEF Typing, Shows
<1>3. QED
  BY <1>2 DEF ShownInv

LEMMA ShownArrive ==
    ASSUME IInv, ShownInv, Arrive
    PROVE  ShownInv'
<1>1. PICK f : Shows(f)
  BY DEF ShownInv
<1>2. UNCHANGED <<shown, answered>>
  BY DEF Arrive
<1>3. Elems(tty') \cup Elems(tx') = Elems(tty) \cup Elems(tx)
  BY ArriveElems DEF IInv
<1>4. Shows(f)'
  BY <1>1, <1>2, <1>3 DEF Shows
<1>5. QED
  BY <1>4 DEF ShownInv

LEMMA ShownAnswering ==
    ASSUME IInv, ShownInv, Answering, UNCHANGED <<tty, shown>>
    PROVE  ShownInv'
<1> DEFINE N == Len(answered)
           N1 == Len(answered')
<1>1. PICK f : Shows(f)
  BY DEF ShownInv
<1>2. N \in Nat /\ N1 \in {N, N + 1} /\ \A k \in 1 .. N : answered'[k] = answered[k]
  BY DEF IInv, TypeInv, Answering
<1>3. \A x \in Elems(tty') \cup Elems(tx') :
          x \in Elems(tty) \cup Elems(tx) \/ x.of = 0 \/ x.of \in N + 1 .. N1
  BY DEF Answering
<1> HIDE DEF N1
<1>4. \A i \in 1 .. Len(shown) : f[i] \in 1 .. N /\ f[i] \in 1 .. N1
  BY <1>1, <1>2 DEF Shows
<1>5. f \in [1 .. Len(shown') -> 1 .. N1]
  <2>1. f = [i \in 1 .. Len(shown) |-> f[i]]
    BY <1>1 DEF Shows
  <2> HIDE DEF N
  <2>2. QED
    BY <1>4, <2>1
<1>6. \A i \in 1 .. Len(shown') : shown'[i] = answered'[f[i]]
  BY <1>1, <1>2, <1>4 DEF Shows
<1>7. \A i \in 1 .. Len(shown'), x \in Elems(tty') \cup Elems(tx') :
          x.of # 0 /\ x.at = 1 => f[i] < x.of
  <2> SUFFICES ASSUME NEW i \in 1 .. Len(shown), NEW x \in Elems(tty') \cup Elems(tx'), x.of # 0, x.at = 1
               PROVE  f[i] < x.of
    OBVIOUS
  <2>1. CASE x \in Elems(tty) \cup Elems(tx)
    BY <1>1, <2>1 DEF Shows
  <2>2. CASE x.of \in N + 1 .. N1
    BY <1>2, <1>4, <2>2 DEF N1
  <2>3. QED
    BY <1>3, <2>1, <2>2
<1>8. Shows(f)'
  BY <1>1, <1>5, <1>6, <1>7 DEF Shows, N1
<1>9. QED
  BY <1>8 DEF ShownInv

\* A read is in order, and genuine.
LEMMA AvailableOK ==
    ASSUME IInv, Read
    PROVE  /\ ReadOK(Available) /\ Elems(tty) = Elems(Available) \cup Elems(tty')
           /\ Before(Available, tty') /\ Before(Available, tx)
<1> DEFINE read == Available
<1>1. read \in Seq(Tagged) /\ tty' \in Seq(Tagged) /\ tty = read \o tty'
  BY ReadSplits DEF IInv
<1> HIDE DEF read
<1>2. InOrder(read) /\ Before(read, tty')
  BY <1>1, ConcatInOrder DEF IInv, StreamInv
<1>3. Elems(tty) = Elems(read) \cup Elems(tty')
  BY <1>1, ConcatElems
<1>4. Before(read, tx)
  BY <1>3 DEF IInv, StreamInv, Before
<1>5. ReadOK(read)
  BY <1>1, <1>2, <1>3 DEF IInv, StreamInv, ReadOK
<1>6. QED
  BY <1>2, <1>3, <1>4, <1>5 DEF read

\* The first byte of a response in the read.
LEMMA FirstByte ==
    ASSUME answered \in Seq(ShortResponse), NEW read, ReadOK(read),
           NEW k \in 1 .. Len(answered), \E s \in Nat : StartsAt(k, s, read)
    PROVE  \E x \in Elems(read) : x.of = k /\ x.at = 1
<1>1. PICK s \in Nat : StartsAt(k, s, read)
  OBVIOUS
<1>2. Size(k) \in Nat /\ Size(k) >= 5 /\ Len(read) \in Nat
  BY SizeFacts DEF ReadOK
<1>3. 1 \in 1 .. Size(k) /\ s + Size(k) <= Len(read)
  BY <1>1, <1>2 DEF StartsAt
<1>4. read[s + 1].of = k /\ read[s + 1].at = 1
  BY <1>1, <1>3 DEF StartsAt, At
<1>5. s + 1 \in 1 .. Len(read)
  BY <1>2, <1>3
<1>6. QED
  BY <1>4, <1>5 DEF Elems

LEMMA ShownRead ==
    ASSUME CrcBytes, IInv, ShownInv, NothingMadeUp, Read
    PROVE  ShownInv'
<1> DEFINE read == Available
           printed == Printed(read)
           N == Len(answered)
           S == Len(shown)
           P == Len(printed)
<1>1. shown' = shown \o printed /\ read \in Seq(Tagged) /\ UNCHANGED <<answered, tx>>
  BY ReadSplits DEF IInv
<1>2. answered \in Seq(ShortResponse) /\ shown \in Seq(Response) /\ printed \in Seq(Response)
  BY <1>1, PrintedType DEF IInv, TypeInv
<1>3. /\ ReadOK(read) /\ Elems(tty) = Elems(read) \cup Elems(tty')
      /\ Before(read, tty') /\ Before(read, tx)
  BY AvailableOK
<1>4. AllAnswered(read)
  BY DEF NothingMadeUp, AllAnswered
<1>5. PICK f : Shows(f)
  BY DEF ShownInv
<1>6. PICK g \in [1 .. P -> 1 .. N] :
          /\ \A m \in 1 .. P : printed[m] = answered[g[m]] /\ \E s \in Nat : StartsAt(g[m], s, read)
          /\ \A m, n \in 1 .. P : m < n => g[m] < g[n]
  BY <1>2, <1>3, <1>4, PrintedWereAnswered
<1> HIDE DEF read, printed
<1>7. /\ Len(shown') = S + P /\ S \in Nat /\ P \in Nat /\ N \in Nat
      /\ \A i \in 1 .. S + P : shown'[i] = IF i <= S THEN shown[i] ELSE printed[i - S]
  BY <1>1, <1>2, ConcatProperties
<1>8. ASSUME NEW m \in 1 .. P
      PROVE  /\ g[m] \in 1 .. N
             /\ \A i \in 1 .. S : f[i] < g[m]
             /\ \A y \in Elems(tty') \cup Elems(tx') : y.of # 0 /\ y.at = 1 => g[m] < y.of
  <2>1. g[m] \in 1 .. N
    OBVIOUS
  <2>2. PICK x \in Elems(read) : x.of = g[m] /\ x.at = 1
    BY <1>2, <1>3, <1>6, <2>1, FirstByte
  <2>3. \A i \in 1 .. S : f[i] < g[m]
    BY <1>3, <1>5, <2>1, <2>2 DEF Shows
  <2>4. ASSUME NEW y \in Elems(tty') \cup Elems(tx'), y.of # 0, y.at = 1 PROVE g[m] < y.of
    <3>1. Lt(x, y)
      BY <1>1, <1>3 DEF Before
    <3>2. QED
      BY <2>1, <2>2, <2>4, <3>1 DEF Lt
  <2>5. QED
    BY <2>1, <2>3, <2>4
<1> HIDE DEF S, P, N
<1> DEFINE h == [i \in 1 .. S + P |-> IF i <= S THEN f[i] ELSE g[i - S]]
<1>9. ASSUME NEW i \in 1 .. S + P
      PROVE  /\ i <= S => i \in 1 .. S /\ h[i] = f[i] /\ f[i] \in 1 .. N /\ shown'[i] = shown[i]
             /\ ~(i <= S) => i - S \in 1 .. P /\ h[i] = g[i - S] /\ g[i - S] \in 1 .. N
                             /\ shown'[i] = printed[i - S]
  <2>1. CASE i <= S
    <3>1. i \in 1 .. S
      BY <1>7, <2>1
    <3>2. f[i] \in 1 .. N
      BY <1>5, <3>1 DEF Shows, S, N
    <3>3. QED
      BY <1>7, <2>1, <3>1, <3>2
  <2>2. CASE ~(i <= S)
    <3>1. i - S \in 1 .. P
      BY <1>7, <2>2
    <3>2. QED
      BY <1>7, <1>8, <2>2, <3>1
  <2>3. QED
    BY <2>1, <2>2
<1>10. h \in [1 .. S + P -> 1 .. N]
  BY <1>9
<1> HIDE DEF h
<1>11. \A i \in 1 .. S + P : shown'[i] = answered[h[i]]
  <2> TAKE i \in 1 .. S + P
  <2>1. CASE i <= S
    BY <1>5, <1>9, <2>1 DEF Shows, S
  <2>2. CASE ~(i <= S)
    BY <1>6, <1>9, <2>2
  <2>3. QED
    BY <2>1, <2>2
<1>12. \A i, j \in 1 .. S + P : i < j => h[i] < h[j]
  <2> SUFFICES ASSUME NEW i \in 1 .. S + P, NEW j \in 1 .. S + P, i < j PROVE h[i] < h[j]
    OBVIOUS
  <2>1. CASE j <= S
    <3>1. i <= S
      BY <1>7, <2>1
    <3>2. i \in 1 .. S /\ j \in 1 .. S /\ h[i] = f[i] /\ h[j] = f[j]
      BY <1>9, <2>1, <3>1
    <3>3. QED
      BY <1>5, <3>2 DEF Shows, S
  <2>2. CASE ~(j <= S) /\ i <= S
    BY <1>8, <1>9, <2>2
  <2>3. CASE ~(j <= S) /\ ~(i <= S)
    <3>1. i - S \in 1 .. P /\ j - S \in 1 .. P /\ h[i] = g[i - S] /\ h[j] = g[j - S]
      BY <1>9, <2>3
    <3>2. i - S < j - S
      BY <1>7
    <3>3. QED
      BY <1>6, <3>1, <3>2
  <2>4. QED
    BY <2>1, <2>2, <2>3
<1>13. \A i \in 1 .. S + P, y \in Elems(tty') \cup Elems(tx') : y.of # 0 /\ y.at = 1 => h[i] < y.of
  <2> SUFFICES ASSUME NEW i \in 1 .. S + P, NEW y \in Elems(tty') \cup Elems(tx'), y.of # 0, y.at = 1
               PROVE  h[i] < y.of
    OBVIOUS
  <2>1. CASE i <= S
    <3>1. y \in Elems(tty) \cup Elems(tx)
      BY <1>1, <1>3
    <3>2. i \in 1 .. S /\ h[i] = f[i]
      BY <1>9, <2>1
    <3>3. QED
      BY <1>5, <3>1, <3>2 DEF Shows, S
  <2>2. CASE ~(i <= S)
    BY <1>8, <1>9, <2>2
  <2>3. QED
    BY <2>1, <2>2
<1>14. PICK q : q = h
  OBVIOUS
<1>15. Shows(q)'
  <2>1. q \in [1 .. Len(shown') -> 1 .. Len(answered')]
    BY <1>1, <1>7, <1>10, <1>14 DEF N
  <2>2. \A i \in 1 .. Len(shown') : shown'[i] = answered'[q[i]]
    BY <1>1, <1>7, <1>11, <1>14
  <2>3. \A i, j \in 1 .. Len(shown') : i < j => q[i] < q[j]
    BY <1>7, <1>12, <1>14
  <2>4. \A i \in 1 .. Len(shown'), y \in Elems(tty') \cup Elems(tx') : y.of # 0 /\ y.at = 1 => q[i] < y.of
    BY <1>7, <1>13, <1>14
  <2>5. QED
    BY <2>1, <2>2, <2>3, <2>4 DEF Shows
<1>16. QED
  BY <1>15 DEF ShownInv

LEMMA ShownStep ==
    ASSUME CrcBytes, IInv, ShownInv, NothingMadeUp, [Next]_vars
    PROVE  ShownInv'
<1>1. ASSUME NEW l \in Lines, Command(l) /\ UNCHANGED <<server, spoiled>> PROVE ShownInv'
  BY <1>1, CommandTypes, ShownTyping DEF IInv
<1>2. CASE Read
  BY <1>2, ShownRead
<1>3. CASE EndOfInput /\ UNCHANGED <<server, spoiled>>
  BY <1>3, EndTypes, ShownTyping DEF IInv
<1>4. ASSUME NEW n \in 1 .. Len(sent), Serve(n) PROVE ShownInv'
  BY <1>4, ServeAnswers, ShownAnswering
<1>5. ASSUME NEW n \in 1 .. Len(sent), ServeFailing(n) PROVE ShownInv'
  BY <1>5, ServeFailingAnswers, ShownAnswering
<1>6. CASE Arrive
  BY <1>6, ShownArrive
<1>7. CASE UNCHANGED vars
  BY <1>7, StutterTypes, ShownTyping DEF IInv
<1>8. QED
  BY <1>1, <1>2, <1>3, <1>4, <1>5, <1>6, <1>7 DEF Next

LEMMA ShownInductive ==
    ASSUME CrcBytes
    PROVE  Spec /\ []NothingMadeUp => []ShownInv
<1>1. Init => ShownInv
  BY ShownInit
<1>2. IInv /\ ShownInv /\ NothingMadeUp /\ [Next]_vars => ShownInv'
  BY ShownStep
<1>3. QED
  BY <1>1, <1>2, Inductive, PTL DEF Spec

\* The client prints only responses of the server, each at most once and in order,
\* wherever the line cuts the stream and whatever the console prints into it - as
\* long as no other bytes pass for a packet.
THEOREM ShownResponsesWereAnswered ==
    ASSUME CrcBytes
    PROVE  Spec /\ []NothingMadeUp => []ShownWereAnswered
<1>1. ShownInv => ShownWereAnswered
  BY DEF ShownInv, Shows, ShownWereAnswered, Embeds, Equal
<1>2. QED
  BY <1>1, ShownInductive, PTL

-----------------------------------------------------------------------------
(***************************************************************************)
(* What is shown is what was typed                                         *)
(***************************************************************************)

\* The properties' operators, of any requests and of any list of those served.
Lossless(list) == \A i \in 1 .. Len(list) : list[i] = i

WritesIn(n, reg, requests) ==
    { i \in 1 .. n - 1 : requests[i].cmd = WRITE_CONFIG /\ field(requests[i]) = reg }

Cut(i, reg, requests) == Truncated(reg, word(value(requests[i].pld)))

DependableIn(n, requests) ==
    { reg \in Conforming :
        reg \in Overlap => \A other \in Overlap \ {reg} : WritesIn(n, other, requests) = {} }

ReadableIn(n, reg, requests, list) ==
    { Cut(i, reg, requests) : i \in { i \in WritesIn(n, reg, requests) :
            Lossless(list) => \A j \in WritesIn(n, reg, requests) : j <= i } }
    \cup IF Lossless(list) /\ WritesIn(n, reg, requests) # {} THEN {}
         ELSE {server_get_reg_value(reg, Factory)}

AnswersIn(p, n, requests, list) ==
    /\ requests[n].cmd = p.cmd
    /\ IF p.cmd # READ_CONFIG THEN p.pld = Measured[p.cmd]
       ELSE /\ p.pld[1] = requests[n].pld[1]
            /\ field(requests[n]) \in DependableIn(n, requests)
                  => \E val \in ReadableIn(n, field(requests[n]), requests, list) :
                         p.pld[2] * 256 + p.pld[3] = number(val)
            /\ field(requests[n]) \notin Regs => p.pld[2] = 0 /\ p.pld[3] = 0

LEMMA AnswersIs ==
    ASSUME NEW p, NEW n
    PROVE  Answers(p, n) <=> AnswersIn(p, n, sent, served)
<1>1. \A reg : WritesBefore(n, reg) = WritesIn(n, reg, sent)
  BY DEF WritesBefore, WritesIn
<1>2. Dependable(n) = DependableIn(n, sent)
  BY <1>1 DEF Dependable, DependableIn
<1>3. \A reg : Readable(n, reg) = ReadableIn(n, reg, sent, served)
  BY <1>1 DEF Readable, ReadableIn, Cut, Lossless
<1>4. QED
  BY <1>2, <1>3 DEF Answers, AnswersIn

\* What field reg may give, one by one.
LEMMA ReadableElems ==
    ASSUME NEW n, NEW reg, NEW requests, NEW list, NEW v
    PROVE  v \in ReadableIn(n, reg, requests, list) <=>
               \/ \E i \in WritesIn(n, reg, requests) :
                      /\ v = Cut(i, reg, requests)
                      /\ Lossless(list) => \A j \in WritesIn(n, reg, requests) : j <= i
               \/ /\ v = server_get_reg_value(reg, Factory)
                  /\ ~(Lossless(list) /\ WritesIn(n, reg, requests) # {})
BY DEF ReadableIn

\* The same requests before the n-th: what was readable still is, as requests are
\* served and perhaps found to be lost.
LEMMA ReadableGrows ==
    ASSUME NEW n, NEW reg, NEW requests, NEW more, NEW list, NEW longer,
           \A i \in 1 .. n - 1 : more[i] = requests[i],
           Lossless(longer) => Lossless(list)
    PROVE  ReadableIn(n, reg, requests, list) \subseteq ReadableIn(n, reg, more, longer)
<1> DEFINE first == server_get_reg_value(reg, Factory)
<1>1. /\ WritesIn(n, reg, more) = WritesIn(n, reg, requests)
      /\ \A i \in WritesIn(n, reg, requests) : Cut(i, reg, more) = Cut(i, reg, requests)
  BY DEF WritesIn, Cut
<1> SUFFICES ASSUME NEW v \in ReadableIn(n, reg, requests, list)
             PROVE  v \in ReadableIn(n, reg, more, longer)
  OBVIOUS
<1>2. CASE \E i \in WritesIn(n, reg, requests) :
               /\ v = Cut(i, reg, requests)
               /\ Lossless(list) => \A j \in WritesIn(n, reg, requests) : j <= i
  BY <1>1, <1>2, ReadableElems
<1>3. CASE v = first /\ ~(Lossless(list) /\ WritesIn(n, reg, requests) # {})
  BY <1>1, <1>3, ReadableElems
<1>4. QED
  BY <1>2, <1>3, ReadableElems

\* Once requests are lost, what was readable earlier may be read later.
LEMMA ReadableWidens ==
    ASSUME NEW m \in Nat, NEW n \in Nat, m <= n, NEW reg, NEW requests, NEW list, NEW longer,
           ~Lossless(longer)
    PROVE  ReadableIn(m, reg, requests, list) \subseteq ReadableIn(n, reg, requests, longer)
<1>1. WritesIn(m, reg, requests) \subseteq WritesIn(n, reg, requests)
  BY DEF WritesIn
<1> SUFFICES ASSUME NEW v \in ReadableIn(m, reg, requests, list)
             PROVE  v \in ReadableIn(n, reg, requests, longer)
  OBVIOUS
<1>2. \/ \E i \in WritesIn(m, reg, requests) : v = Cut(i, reg, requests)
      \/ v = server_get_reg_value(reg, Factory)
  BY ReadableElems
<1>3. QED
  BY <1>1, <1>2, ReadableElems

\* A request that does not write the field leaves what can be read of it, and one
\* that does makes its value readable.
LEMMA ReadableNext ==
    ASSUME NEW n \in Nat, n # 0, NEW reg, NEW requests, NEW list
    PROVE  /\ ~(requests[n].cmd = WRITE_CONFIG /\ field(requests[n]) = reg)
                  => ReadableIn(n + 1, reg, requests, list) = ReadableIn(n, reg, requests, list)
           /\ requests[n].cmd = WRITE_CONFIG /\ field(requests[n]) = reg
                  => Cut(n, reg, requests) \in ReadableIn(n + 1, reg, requests, list)
<1>1. \A i : i \in 1 .. (n + 1) - 1 <=> i \in 1 .. n - 1 \/ i = n
  OBVIOUS
<1>2. ASSUME ~(requests[n].cmd = WRITE_CONFIG /\ field(requests[n]) = reg)
      PROVE  ReadableIn(n + 1, reg, requests, list) = ReadableIn(n, reg, requests, list)
  <2>1. WritesIn(n + 1, reg, requests) = WritesIn(n, reg, requests)
    BY <1>1, <1>2 DEF WritesIn
  <2>2. QED
    BY <2>1 DEF ReadableIn
<1>3. ASSUME requests[n].cmd = WRITE_CONFIG /\ field(requests[n]) = reg
      PROVE  Cut(n, reg, requests) \in ReadableIn(n + 1, reg, requests, list)
  <2>1. n \in WritesIn(n + 1, reg, requests) /\ \A j \in WritesIn(n + 1, reg, requests) : j <= n
    BY <1>1, <1>3 DEF WritesIn
  <2>2. QED
    BY <2>1, ReadableElems
<1>4. QED
  BY <1>2, <1>3

\* What a request can expect, the requests before it can.
LEMMA DependableFacts ==
    ASSUME NEW m \in Nat, NEW n \in Nat, m <= n, NEW requests
    PROVE  /\ DependableIn(n, requests) \subseteq DependableIn(m, requests)
           /\ \A more : (\A i \in 1 .. n - 1 : more[i] = requests[i])
                  => DependableIn(n, more) = DependableIn(n, requests)
<1>1. \A reg : WritesIn(m, reg, requests) \subseteq WritesIn(n, reg, requests)
  BY DEF WritesIn
<1>2. ASSUME NEW more, \A i \in 1 .. n - 1 : more[i] = requests[i]
      PROVE  DependableIn(n, more) = DependableIn(n, requests)
  <2>1. \A reg : WritesIn(n, reg, more) = WritesIn(n, reg, requests)
    BY <1>2 DEF WritesIn
  <2>2. QED
    BY <2>1 DEF DependableIn
<1>3. DependableIn(n, requests) \subseteq DependableIn(m, requests)
  BY <1>1 DEF DependableIn
<1>4. QED
  BY <1>2, <1>3

LEMMA AnswersGrows ==
    ASSUME NEW p, NEW n \in Nat, n # 0, NEW requests, NEW more, NEW list, NEW longer,
           \A i \in 1 .. n : more[i] = requests[i],
           Lossless(longer) => Lossless(list), AnswersIn(p, n, requests, list)
    PROVE  AnswersIn(p, n, more, longer)
<1>1. \A i \in 1 .. n - 1 : more[i] = requests[i]
  OBVIOUS
<1>2. more[n] = requests[n]
  OBVIOUS
<1>3. \A reg : ReadableIn(n, reg, requests, list) \subseteq ReadableIn(n, reg, more, longer)
  BY <1>1, ReadableGrows
<1>4. DependableIn(n, more) = DependableIn(n, requests)
  BY <1>1, DependableFacts
<1>5. QED
  BY <1>2, <1>3, <1>4 DEF AnswersIn

-----------------------------------------------------------------------------
\* The last request that was served.
Last == IF Len(served) = 0 THEN 0 ELSE served[Len(served)]

\* What may be read of the fields that request n can expect, in the registers.
FitsAt(n, requests, list) ==
    \A reg \in DependableIn(n, requests) :
        server_get_reg_value(reg, regs) \in ReadableIn(n, reg, requests, list)

\* The registers hold what may be read next.
LiveFits == FitsAt(Last + 1, sent, served)

\* h tells which requests were answered.
Asks(h) ==
    /\ h \in [1 .. Len(answered) -> 1 .. Len(sent)]
    /\ \A i \in 1 .. Len(answered) : h[i] <= Last /\ AnswersIn(answered[i], h[i], sent, served)
    /\ \A i, j \in 1 .. Len(answered) : i < j => h[i] < h[j]

AskedInv == failures = 0 => LiveFits /\ \E h : Asks(h)

LEMMA LastType == ASSUME TypeInv PROVE Last \in 0 .. Len(sent) /\ Last \in Nat
<1>1. Len(served) \in Nat /\ Len(sent) \in Nat
  BY DEF TypeInv
<1>2. Len(served) # 0 => Len(served) \in 1 .. Len(served)
  BY <1>1
<1>3. QED
  BY <1>1, <1>2 DEF TypeInv, Last

LEMMA AskedInit == Init => AskedInv
<1> SUFFICES ASSUME Init PROVE AskedInv
  OBVIOUS
<1>1. Len(served) = 0 /\ Len(answered) = 0 /\ regs = Factory /\ sent = <<>>
  BY DEF Init, ClientInit
<1>2. Last = 0
  BY <1>1 DEF Last
<1>3. LiveFits
  <2> SUFFICES ASSUME NEW reg
               PROVE  server_get_reg_value(reg, Factory) \in ReadableIn(Last + 1, reg, sent, served)
    BY <1>1 DEF LiveFits, FitsAt
  <2>1. WritesIn(Last + 1, reg, sent) = {}
    BY <1>2 DEF WritesIn
  <2>2. QED
    BY <2>1, ReadableElems
<1> DEFINE h == [i \in 1 .. 0 |-> 0]
<1>4. h \in [1 .. Len(answered) -> 1 .. Len(sent)]
  BY <1>1
<1>5. \A i \in 1 .. Len(answered) : FALSE
  BY <1>1
<1> HIDE DEF h
<1>6. Asks(h)
  BY <1>4, <1>5 DEF Asks
<1>7. QED
  BY <1>3, <1>6 DEF AskedInv

\* The user asks, or reads, or bytes arrive.
LEMMA AskedStays ==
    ASSUME TypeInv, AskedInv, SentGrows, UNCHANGED <<served, regs, answered, failures>>
    PROVE  AskedInv'
<1> SUFFICES ASSUME failures = 0 PROVE LiveFits' /\ \E h : Asks(h)'
  BY DEF AskedInv
<1>1. Last' = Last /\ Last \in 0 .. Len(sent) /\ Last \in Nat
  BY LastType DEF Last
<1>2. /\ Len(sent) \in Nat /\ Len(sent') \in Nat /\ Len(sent) <= Len(sent')
      /\ \A i \in 1 .. Len(sent) : sent'[i] = sent[i]
  BY DEF TypeInv, SentGrows
<1>3. LiveFits'
  <2>1. \A i \in 1 .. (Last + 1) - 1 : sent'[i] = sent[i]
    BY <1>1, <1>2
  <2>2. DependableIn(Last + 1, sent') = DependableIn(Last + 1, sent)
    BY <1>1, <2>1, DependableFacts
  <2> SUFFICES ASSUME NEW reg \in DependableIn(Last + 1, sent)
               PROVE  server_get_reg_value(reg, regs) \in ReadableIn(Last + 1, reg, sent', served)
    BY <1>1, <2>2 DEF LiveFits, FitsAt
  <2>3. server_get_reg_value(reg, regs) \in ReadableIn(Last + 1, reg, sent, served)
    BY DEF AskedInv, LiveFits, FitsAt
  <2>4. QED
    BY <2>1, <2>3, ReadableGrows
<1>4. PICK h : Asks(h)
  BY DEF AskedInv
<1>5. ASSUME NEW i \in 1 .. Len(answered)
      PROVE  /\ h[i] \in 1 .. Len(sent') /\ h[i] <= Last
             /\ AnswersIn(answered[i], h[i], sent', served)
  <2>1. h[i] \in 1 .. Len(sent) /\ h[i] <= Last /\ AnswersIn(answered[i], h[i], sent, served)
    BY <1>4 DEF Asks
  <2>2. h[i] \in Nat /\ h[i] # 0 /\ h[i] \in 1 .. Len(sent') /\ \A j \in 1 .. h[i] : sent'[j] = sent[j]
    BY <1>2, <2>1
  <2>3. AnswersIn(answered[i], h[i], sent', served)
    BY <2>1, <2>2, AnswersGrows
  <2>4. QED
    BY <2>1, <2>2, <2>3
<1>6. h \in [1 .. Len(answered) -> 1 .. Len(sent')]
  <2>1. h = [i \in 1 .. Len(answered) |-> h[i]]
    BY <1>4 DEF Asks
  <2>2. QED
    BY <1>5, <2>1
<1>7. Asks(h)'
  BY <1>1, <1>4, <1>5, <1>6 DEF Asks
<1>8. QED
  BY <1>3, <1>7

\* Serving the n-th request, whatever is done for it.
LEMMA ServeFits ==
    ASSUME TypeInv, AskedInv, failures = 0, NEW n \in 1 .. Len(sent), Queue!Serve(n)
    PROVE  /\ Last' = n /\ sent' = sent
           /\ FitsAt(n, sent, served')
           /\ \E h \in [1 .. Len(answered) -> 1 .. Len(sent)] :
                  /\ \A i \in 1 .. Len(answered) :
                         h[i] < n /\ AnswersIn(answered[i], h[i], sent, served')
                  /\ \A i, j \in 1 .. Len(answered) : i < j => h[i] < h[j]
<1> DEFINE L == Len(served)
<1>1. /\ sent' = sent /\ served' \in Seq(Nat) /\ Len(served') = L + 1
      /\ \A i \in 1 .. L : served'[i] = served[i] /\ served[i] < n
      /\ served'[L + 1] = n
  BY ServedGrows
<1>2. L \in Nat /\ n \in Nat /\ n # 0 /\ Last \in Nat
  BY LastType DEF TypeInv
<1>3. Last' = n
  <2>1. Len(served') # 0
    BY <1>1, <1>2
  <2>2. QED
    BY <1>1, <2>1 DEF Last
<1>4. Last < n
  <2>1. CASE L = 0
    BY <1>2, <2>1 DEF Last
  <2>2. CASE L # 0
    <3>1. L \in 1 .. L
      BY <1>2, <2>2
    <3>2. served[L] < n
      BY <1>1, <3>1
    <3>3. QED
      BY <2>2, <3>2 DEF Last
  <2>3. QED
    BY <2>1, <2>2
<1>5. ASSUME Lossless(served') PROVE Lossless(served) /\ n = Last + 1
  <2>1. \A i \in 1 .. L : i \in 1 .. Len(served')
    BY <1>1, <1>2
  <2>2. Lossless(served)
    BY <1>1, <1>5, <2>1 DEF Lossless
  <2>3. n = L + 1
    <3>1. L + 1 \in 1 .. Len(served')
      BY <1>1, <1>2
    <3>2. QED
      BY <1>1, <1>5, <3>1 DEF Lossless
  <2>4. Last = L
    <3>1. L # 0 => served[L] = L
      <4>1. L # 0 => L \in 1 .. L
        BY <1>2
      <4>2. QED
        BY <2>2, <4>1 DEF Lossless
    <3>2. QED
      BY <3>1 DEF Last
  <2>5. QED
    BY <2>2, <2>3, <2>4
<1> HIDE DEF L
<1>6. FitsAt(n, sent, served')
  <2> SUFFICES ASSUME NEW reg \in DependableIn(n, sent)
               PROVE  server_get_reg_value(reg, regs) \in ReadableIn(n, reg, sent, served')
    BY DEF FitsAt
  <2>1. server_get_reg_value(reg, regs) \in ReadableIn(Last + 1, reg, sent, served)
    <3>1. Last + 1 \in Nat /\ Last + 1 <= n
      BY <1>2, <1>4
    <3>2. reg \in DependableIn(Last + 1, sent)
      BY <1>2, <3>1, DependableFacts
    <3>3. QED
      BY <3>2 DEF AskedInv, LiveFits, FitsAt
  <2>2. CASE Lossless(served')
    <3>1. n = Last + 1 /\ (Lossless(served') => Lossless(served))
      BY <1>5, <2>2
    <3>2. ReadableIn(n, reg, sent, served) \subseteq ReadableIn(n, reg, sent, served')
      BY <3>1, ReadableGrows
    <3>3. QED
      BY <2>1, <3>1, <3>2
  <2>3. CASE ~Lossless(served')
    <3>1. Last + 1 \in Nat /\ Last + 1 <= n
      BY <1>2, <1>4
    <3>2. ReadableIn(Last + 1, reg, sent, served) \subseteq ReadableIn(n, reg, sent, served')
      BY <1>2, <2>3, <3>1, ReadableWidens
    <3>3. QED
      BY <2>1, <3>2
  <2>4. QED
    BY <2>2, <2>3
<1>7. PICK h : Asks(h)
  BY DEF AskedInv
<1>8. ASSUME NEW i \in 1 .. Len(answered)
      PROVE  h[i] < n /\ AnswersIn(answered[i], h[i], sent, served')
  <2>1. h[i] \in 1 .. Len(sent) /\ h[i] <= Last /\ AnswersIn(answered[i], h[i], sent, served)
    BY <1>7 DEF Asks
  <2>2. h[i] \in Nat /\ h[i] # 0
    BY <2>1
  <2>3. AnswersIn(answered[i], h[i], sent, served')
    BY <1>5, <2>1, <2>2, AnswersGrows
  <2>4. QED
    BY <1>2, <1>4, <2>1, <2>2, <2>3
<1>9. h \in [1 .. Len(answered) -> 1 .. Len(sent)] /\ \A i, j \in 1 .. Len(answered) : i < j => h[i] < h[j]
  BY <1>7 DEF Asks
<1>10. QED
  BY <1>1, <1>3, <1>6, <1>8, <1>9

LEMMA AskedWrite ==
    ASSUME TypeInv, AskedInv, failures = 0, NEW n \in 1 .. Len(sent), Queue!Serve(n),
           sent[n].cmd = WRITE_CONFIG, regs' = Applied(regs, writes_of(sent[n], regs)),
           UNCHANGED answered
    PROVE  AskedInv'
<1> DEFINE r == sent[n]
<1>1. /\ Last' = n /\ sent' = sent
      /\ FitsAt(n, sent, served')
  BY ServeFits
<1>2. PICK h \in [1 .. Len(answered) -> 1 .. Len(sent)] :
          /\ \A i \in 1 .. Len(answered) : h[i] < n /\ AnswersIn(answered[i], h[i], sent, served')
          /\ \A i, j \in 1 .. Len(answered) : i < j => h[i] < h[j]
  BY ServeFits
<1>3. n \in Nat /\ n # 0
  OBVIOUS
<1>4. r.pld[1] \in Byte /\ regs \in Image
  <2>1. r \in WellFormed
    BY ElementOfSeq DEF TypeInv
  <2>2. QED
    BY <2>1, PayloadBytes DEF TypeInv
<1>5. ASSUME NEW reg \in DependableIn(n + 1, sent)
      PROVE  server_get_reg_value(reg, regs') \in ReadableIn(n + 1, reg, sent, served')
  <2>1. reg \in DependableIn(n, sent) /\ reg \in Conforming
    <3>1. n + 1 \in Nat /\ n <= n + 1
      BY <1>3
    <3>2. QED
      BY <1>3, <3>1, DependableFacts DEF DependableIn
  <2>2. CASE field(r) = reg
    <3>1. server_get_reg_value(reg, regs') = Cut(n, reg, sent)
      BY <1>4, <2>1, <2>2, WrittenRegisters DEF Cut
    <3>2. Cut(n, reg, sent) \in ReadableIn(n + 1, reg, sent, served')
      BY <1>3, <2>2, ReadableNext
    <3>3. QED
      BY <3>1, <3>2
  <2>3. CASE field(r) # reg
    <3>1. ~(reg \in Overlap /\ field(r) \in Overlap)
      <4>1. n \in WritesIn(n + 1, field(r), sent)
        BY <1>3 DEF WritesIn
      <4>2. QED
        BY <2>3, <4>1 DEF DependableIn
    <3>2. server_get_reg_value(reg, regs') = server_get_reg_value(reg, regs)
      BY <1>4, <2>1, <2>3, <3>1, WrittenRegisters
    <3>3. ReadableIn(n + 1, reg, sent, served') = ReadableIn(n, reg, sent, served')
      BY <1>3, <2>3, ReadableNext
    <3>4. QED
      BY <1>1, <2>1, <3>2, <3>3 DEF FitsAt
  <2>4. QED
    BY <2>2, <2>3
<1>6. LiveFits'
  BY <1>1, <1>5 DEF LiveFits, FitsAt
<1>7. \A i \in 1 .. Len(answered) : h[i] <= n
  <2>1. \A i \in 1 .. Len(answered) : h[i] \in Nat /\ h[i] < n
    BY <1>2
  <2>2. QED
    BY <1>3, <2>1
<1>8. Asks(h)'
  BY <1>1, <1>2, <1>7 DEF Asks
<1>9. QED
  BY <1>6, <1>8 DEF AskedInv

\* A response answers the request: what it says of a field may be read of it.
LEMMA ReplyAnswers ==
    ASSUME TypeInv, NEW n \in 1 .. Len(sent), sent[n].cmd \in ReadCmds, NEW list,
           FitsAt(n, sent, list)
    PROVE  AnswersIn(request(sent[n].cmd, reply(sent[n], regs)), n, sent, list)
<1> DEFINE r == sent[n]
           p == request(r.cmd, reply(r, regs))
<1>1. p.cmd = r.cmd /\ p.pld = reply(r, regs)
  BY DEF request
<1>2. CASE r.cmd # READ_CONFIG
  BY <1>1, <1>2 DEF AnswersIn, reply
<1>3. CASE r.cmd = READ_CONFIG
  <2> DEFINE w == server_get_reg_value(field(r), regs)
             v == number(w)
  <2>1. p.pld = <<r.pld[1], v \div 256, v % 256>>
    <3> HIDE DEF p, r
    <3>1. reply(r, regs) = <<r.pld[1], v \div 256, v % 256>>
      BY <1>3 DEF reply
    <3>2. QED
      BY <1>1, <3>1
  <2>2. (v \div 256) * 256 + (v % 256) = v
    <3>1. w \in Word
      BY RegValueWord DEF TypeInv
    <3>2. QED
      BY <3>1, NumberBytes
  <2>3. field(r) \in DependableIn(n, sent) => w \in ReadableIn(n, field(r), sent, list)
    BY DEF FitsAt
  <2>4. field(r) \notin Regs => v = 0
    <3>1. r.pld[1] \in Byte
      <4>1. r \in WellFormed
        BY ElementOfSeq DEF TypeInv
      <4>2. QED
        BY <1>3, <4>1, PayloadBytes
    <3>2. field(r) \notin Regs => field(r) = "none"
      BY <3>1, FieldIs
    <3>3. field(r) = "none" => w = {}
      BY DEF server_get_reg_value
    <3>4. number({}) = 0
      BY DEF number, byte_at, bit
    <3>5. QED
      BY <3>2, <3>3, <3>4
  <2> HIDE DEF v, p
  <2>5. p.pld[1] = r.pld[1] /\ p.pld[2] = v \div 256 /\ p.pld[3] = v % 256
    BY <2>1
  <2>6. p.cmd = READ_CONFIG /\ sent[n].cmd = p.cmd
    BY <1>1, <1>3
  <2>7. p.pld[2] * 256 + p.pld[3] = number(w)
    BY <2>2, <2>5 DEF v
  <2>8. field(r) \notin Regs => p.pld[2] = 0 /\ p.pld[3] = 0
    BY <2>4, <2>5
  <2> HIDE DEF w
  <2>9. AnswersIn(p, n, sent, list)
    BY <2>3, <2>5, <2>6, <2>7, <2>8 DEF AnswersIn
  <2>10. QED
    BY <2>9 DEF p
<1>4. QED
  BY <1>2, <1>3

LEMMA AskedRead ==
    ASSUME TypeInv, AskedInv, failures = 0, NEW n \in 1 .. Len(sent), Queue!Serve(n),
           sent[n].cmd \in ReadCmds, UNCHANGED regs, NEW out,
           Respond(sent[n], reply(sent[n], regs), out)
    PROVE  AskedInv'
<1> DEFINE r == sent[n]
           p == request(r.cmd, reply(r, regs))
           N == Len(answered)
<1>1. /\ Last' = n /\ sent' = sent
      /\ FitsAt(n, sent, served')
  BY ServeFits
<1>2. PICK h \in [1 .. N -> 1 .. Len(sent)] :
          /\ \A i \in 1 .. N : h[i] < n /\ AnswersIn(answered[i], h[i], sent, served')
          /\ \A i, j \in 1 .. N : i < j => h[i] < h[j]
  BY ServeFits
<1>3. n \in Nat /\ n # 0 /\ N \in Nat
  BY DEF TypeInv
<1>4. ASSUME NEW reg \in DependableIn(n + 1, sent)
      PROVE  server_get_reg_value(reg, regs') \in ReadableIn(n + 1, reg, sent, served')
  <2>1. sent[n].cmd # WRITE_CONFIG
    BY CommandsAreBytes
  <2>2. ReadableIn(n + 1, reg, sent, served') = ReadableIn(n, reg, sent, served')
    BY <1>3, <2>1, ReadableNext
  <2>3. reg \in DependableIn(n, sent)
    <3>1. n + 1 \in Nat /\ n <= n + 1
      BY <1>3
    <3>2. QED
      BY <1>3, <3>1, DependableFacts
  <2>4. QED
    BY <1>1, <2>2, <2>3 DEF FitsAt
<1>5. LiveFits'
  BY <1>1, <1>4 DEF LiveFits, FitsAt
<1>6. AnswersIn(p, n, sent, served')
  BY <1>1, ReplyAnswers
<1>7. Len(answered') = N + 1 /\ (\A i \in 1 .. N : answered'[i] = answered[i]) /\ answered'[N + 1] = p
  <2>1. answered' = Append(answered, p)
    BY DEF Respond
  <2>2. answered \in Seq(ShortResponse \cup {p}) /\ p \in ShortResponse \cup {p}
    <3> HIDE DEF p
    <3>1. answered \in Seq(ShortResponse) /\ ShortResponse \subseteq ShortResponse \cup {p}
      BY DEF TypeInv
    <3>2. QED
      BY <3>1, SeqMonotonic
  <2> HIDE DEF p
  <2>3. QED
    BY SMTT(30), <2>1, <2>2, AppendProperties
<1>8. PICK q : q = [i \in 1 .. N + 1 |-> IF i = N + 1 THEN n ELSE h[i]]
  OBVIOUS
<1> HIDE DEF p, r, N
<1>9. ASSUME NEW i \in 1 .. N + 1
      PROVE  /\ i = N + 1 => q[i] = n
             /\ i # N + 1 => i \in 1 .. N /\ q[i] = h[i] /\ h[i] \in 1 .. Len(sent) /\ h[i] < n
  BY <1>2, <1>3, <1>8
<1>10. ASSUME NEW i \in 1 .. N + 1
       PROVE  q[i] \in 1 .. Len(sent) /\ q[i] <= n /\ AnswersIn(answered'[i], q[i], sent, served')
  <2>1. CASE i = N + 1
    BY <1>3, <1>6, <1>7, <1>9, <2>1
  <2>2. CASE i # N + 1
    <3>1. q[i] = h[i] /\ i \in 1 .. N /\ h[i] \in 1 .. Len(sent) /\ h[i] < n
      BY <1>9, <2>2
    <3>2. AnswersIn(answered'[i], h[i], sent, served')
      BY <1>2, <1>7, <3>1
    <3>3. h[i] <= n
      BY <1>3, <3>1
    <3>4. QED
      BY <3>1, <3>2, <3>3
  <2>3. QED
    BY <2>1, <2>2
<1>11. q \in [1 .. N + 1 -> 1 .. Len(sent)]
  BY <1>8, <1>10
<1>12. \A i, j \in 1 .. N + 1 : i < j => q[i] < q[j]
  <2> SUFFICES ASSUME NEW i \in 1 .. N + 1, NEW j \in 1 .. N + 1, i < j PROVE q[i] < q[j]
    OBVIOUS
  <2>1. i # N + 1
    BY <1>3
  <2>2. CASE j = N + 1
    BY <1>9, <2>1, <2>2
  <2>3. CASE j # N + 1
    BY <1>2, <1>9, <2>1, <2>3
  <2>4. QED
    BY <2>2, <2>3
<1>13. Asks(q)'
  <2>1. q \in [1 .. Len(answered') -> 1 .. Len(sent')]
    BY <1>1, <1>7, <1>11
  <2>2. \A i \in 1 .. Len(answered') : q[i] <= Last' /\ AnswersIn(answered'[i], q[i], sent', served')
    BY <1>1, <1>7, <1>10
  <2>3. \A i, j \in 1 .. Len(answered') : i < j => q[i] < q[j]
    BY <1>7, <1>12
  <2>4. QED
    BY <2>1, <2>2, <2>3 DEF Asks
<1>14. QED
  BY <1>5, <1>13 DEF AskedInv

LEMMA AskedStep ==
    ASSUME CrcBytes, IInv, AskedInv, [Next]_vars
    PROVE  AskedInv'
<1>1. ASSUME Typing PROVE AskedInv'
  BY <1>1, AskedStays DEF Typing, IInv
<1>2. ASSUME NEW l \in Lines, Command(l) /\ UNCHANGED <<server, spoiled>> PROVE AskedInv'
  BY <1>1, <1>2, CommandTypes DEF IInv
<1>3. CASE Read
  <2>1. SendAll(AutoRequests) /\ UNCHANGED <<served, regs, answered, failures>>
    BY <1>3, ReadSplits DEF IInv
  <2>2. SentGrows
    BY <2>1, AutoRequestsType, SendAllType DEF IInv, TypeInv, SentGrows
  <2>3. QED
    BY <2>1, <2>2, AskedStays DEF IInv
<1>4. CASE EndOfInput /\ UNCHANGED <<server, spoiled>>
  BY <1>1, <1>4, EndTypes DEF IInv
<1>5. ASSUME NEW n \in 1 .. Len(sent), Serve(n) PROVE AskedInv'
  <2>1. Queue!Serve(n) /\ failures' = failures
    BY <1>5 DEF Serve
  <2>2. CASE failures # 0
    BY <2>1, <2>2 DEF AskedInv
  <2>3. CASE failures = 0
    <3>1. CASE /\ sent[n].cmd = WRITE_CONFIG /\ UNCHANGED <<tx, answered>>
               /\ regs' = Applied(regs, writes_of(sent[n], regs))
      BY <2>1, <2>3, <3>1, AskedWrite DEF IInv
    <3>2. CASE /\ sent[n].cmd \in ReadCmds /\ UNCHANGED regs
               /\ Respond(sent[n], reply(sent[n], regs), tx)
      BY <2>1, <2>3, <3>2, AskedRead DEF IInv
    <3>3. QED
      BY <1>5, <3>1, <3>2 DEF Serve
  <2>4. QED
    BY <2>2, <2>3
<1>6. ASSUME NEW n \in 1 .. Len(sent), ServeFailing(n) PROVE AskedInv'
  <2>1. failures' = failures + 1 /\ failures \in Nat
    <3>1. failures \in 0 .. MaxFailures
      BY DEF IInv, TypeInv
    <3>2. QED
      BY <1>6, <3>1 DEF ServeFailing
  <2>2. QED
    BY <2>1 DEF AskedInv
<1>7. CASE Arrive
  <2>1. UNCHANGED <<sent, served, regs, answered, failures>>
    BY <1>7 DEF Arrive
  <2>2. SentGrows
    BY <2>1 DEF IInv, TypeInv, SentGrows
  <2>3. QED
    BY <2>1, <2>2, AskedStays DEF IInv
<1>8. CASE UNCHANGED vars
  BY <1>1, <1>8, StutterTypes DEF IInv
<1>9. QED
  BY <1>2, <1>3, <1>4, <1>5, <1>6, <1>7, <1>8 DEF Next

\* As long as no I2C call fails and no other bytes pass for a packet, what the
\* client prints answers requests of the user, in order.  Of the six fields whose
\* write function inverts their read function it says what was last written to them
\* before the question, through the register image that all thirteen share - or, if
\* requests were lost, what was written earlier - but of a resolution only if the
\* other one has not been written.
THEOREM ShownIsAsTyped ==
    ASSUME CrcBytes
    PROVE  Spec /\ []NothingMadeUp => []ShownAsTyped
<1>1. Spec => []AskedInv
  <2>1. Init => AskedInv
    BY AskedInit
  <2>2. IInv /\ AskedInv /\ [Next]_vars => AskedInv'
    BY AskedStep
  <2>3. QED
    BY <2>1, <2>2, Inductive, PTL DEF Spec
<1>2. ShownInv /\ AskedInv => ShownAsTyped
  <2> SUFFICES ASSUME ShownInv, AskedInv, failures = 0
               PROVE  Embeds(shown, [n \in 1 .. Len(sent) |-> n], Answers)
    BY DEF ShownAsTyped
  <2> DEFINE all == [n \in 1 .. Len(sent) |-> n]
  <2>1. PICK f : Shows(f)
    BY DEF ShownInv
  <2>2. PICK h : Asks(h)
    BY DEF AskedInv
  <2> DEFINE g == [i \in 1 .. Len(shown) |-> h[f[i]]]
  <2>3. ASSUME NEW i \in 1 .. Len(shown)
        PROVE  g[i] \in 1 .. Len(sent) /\ Answers(shown[i], all[g[i]])
    <3>1. f[i] \in 1 .. Len(answered) /\ shown[i] = answered[f[i]]
      BY <2>1 DEF Shows
    <3>2. h[f[i]] \in 1 .. Len(sent) /\ AnswersIn(answered[f[i]], h[f[i]], sent, served)
      BY <2>2, <3>1 DEF Asks
    <3>3. g[i] = h[f[i]] /\ all[g[i]] = g[i]
      BY <3>2
    <3> HIDE DEF g, all
    <3>4. QED
      BY <3>1, <3>2, <3>3, AnswersIs
  <2>4. \A i, j \in 1 .. Len(shown) : i < j => g[i] < g[j]
    <3> SUFFICES ASSUME NEW i \in 1 .. Len(shown), NEW j \in 1 .. Len(shown), i < j PROVE g[i] < g[j]
      OBVIOUS
    <3>1. f[i] \in 1 .. Len(answered) /\ f[j] \in 1 .. Len(answered) /\ f[i] < f[j]
      BY <2>1 DEF Shows
    <3>2. h[f[i]] < h[f[j]]
      BY <2>2, <3>1 DEF Asks
    <3>3. QED
      BY <3>2
  <2>5. Len(all) = Len(sent)
    OBVIOUS
  <2>6. g \in [1 .. Len(shown) -> 1 .. Len(all)]
    BY <2>3, <2>5
  <2> HIDE DEF g, all
  <2>7. Embeds(shown, all, Answers)
    BY <2>3, <2>4, <2>6 DEF Embeds
  <2>8. QED
    BY <2>7 DEF all
<1>3. QED
  BY <1>1, <1>2, ShownInductive, PTL
=============================================================================
