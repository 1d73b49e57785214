-------------------------- MODULE Mt6701RegsProofs --------------------------
(***************************************************************************)
(* Lemmas about the field functions of Mt6701Regs, for all register        *)
(* contents and values: what they read and write, where fields share bits, *)
(* and that the write functions of six fields invert their read functions. *)
(***************************************************************************)
EXTENDS Mt6701Regs, SequenceTheorems, TLAPS

-----------------------------------------------------------------------------
(***************************************************************************)
(* Sets of bits as numbers                                                 *)
(***************************************************************************)

LEMMA ByteAtRange == \A x, i : byte_at(x, i) \in Int /\ byte_at(x, i) \in 0 .. 255
BY DEF byte_at, bit

\* Bits elsewhere do not count.
LEMMA ByteAtNone ==
    ASSUME NEW x, NEW i \in Int, x \cap i .. i + 7 = {}
    PROVE  byte_at(x, i) = 0
<1>1. /\ i \in i .. i + 7 /\ i + 1 \in i .. i + 7 /\ i + 2 \in i .. i + 7 /\ i + 3 \in i .. i + 7
      /\ i + 4 \in i .. i + 7 /\ i + 5 \in i .. i + 7 /\ i + 6 \in i .. i + 7 /\ i + 7 \in i .. i + 7
  OBVIOUS
<1>2. /\ i \notin x /\ i + 1 \notin x /\ i + 2 \notin x /\ i + 3 \notin x
      /\ i + 4 \notin x /\ i + 5 \notin x /\ i + 6 \notin x /\ i + 7 \notin x
  BY <1>1
<1>3. QED
  BY <1>2 DEF byte_at, bit

\* A number from 0 to top, for ranges that are too long to be enumerated.
Within(n, top) == n \in Int /\ 0 <= n /\ n <= top

\* A number is as small as its bits say.
LEMMA NumberBelow ==
    ASSUME NEW x \in Word
    PROVE  /\ Within(number(x), 65535)
           /\ x \subseteq 0 .. 2 => number(x) \in 0 .. 7
           /\ x \subseteq 0 .. 3 => number(x) \in 0 .. 15
           /\ x \subseteq 0 .. 9 => Within(number(x), 1023)
           /\ x \subseteq 0 .. 11 => Within(number(x), 4095)
<1>1. x \subseteq 0 .. 15
  BY DEF Word
<1>2. byte_at(x, 16) = 0 /\ byte_at(x, 24) = 0
  <2>1. x \cap 16 .. 16 + 7 = {} /\ x \cap 24 .. 24 + 7 = {}
    BY <1>1
  <2>2. QED
    BY <2>1, ByteAtNone
<1>3. byte_at(x, 0) \in 0 .. 255 /\ byte_at(x, 8) \in 0 .. 255
  BY ByteAtRange
<1> DEFINE low == byte_at(x, 0)
           high == byte_at(x, 8)
<1>4. number(x) = low + 2^8 * high + 2^16 * 0 + 2^24 * 0
  BY <1>2 DEF number
<1>5. x \subseteq 0 .. 2 => byte_at(x, 0) \in 0 .. 7 /\ byte_at(x, 8) = 0
  BY DEF byte_at, bit
<1>6. x \subseteq 0 .. 3 => byte_at(x, 0) \in 0 .. 15 /\ byte_at(x, 8) = 0
  BY DEF byte_at, bit
<1>7. x \subseteq 0 .. 9 => byte_at(x, 8) \in 0 .. 3
  BY DEF byte_at, bit
<1>8. x \subseteq 0 .. 11 => byte_at(x, 8) \in 0 .. 15
  BY DEF byte_at, bit
<1>9. /\ x \subseteq 0 .. 2 => low \in 0 .. 7 /\ high = 0
      /\ x \subseteq 0 .. 3 => low \in 0 .. 15 /\ high = 0
      /\ x \subseteq 0 .. 9 => high \in 0 .. 3
      /\ x \subseteq 0 .. 11 => high \in 0 .. 15
  BY <1>5, <1>6, <1>7, <1>8
<1>10. low \in Int /\ high \in Int
  BY <1>3
<1> HIDE DEF low, high
<1>11. number(x) = low + 256 * high
  BY <1>4, <1>10
<1>12. low \in 0 .. 255 /\ high \in 0 .. 255
  BY <1>3 DEF low, high
<1>13. QED
  BY <1>9, <1>11, <1>12 DEF Within

-----------------------------------------------------------------------------
(***************************************************************************)
(* What the write functions send                                           *)
(***************************************************************************)

\* What one mt6701_reg_write may carry.
Part == UNION { [D -> Byte8] : D \in SUBSET Addr }

LEMMA PartFacts ==
    ASSUME NEW p \in Part
    PROVE  /\ DOMAIN p \subseteq Addr
           /\ \A a \in DOMAIN p : p[a] \in Byte8
BY DEF Part

LEMMA PartIntro ==
    ASSUME NEW D \in SUBSET Addr, NEW p \in [D -> Byte8]
    PROVE  p \in Part
BY DEF Part

\* One byte to a configuration register is a part, as are two in a row.
LEMMA Write1Part ==
    ASSUME NEW a \in Addr, NEW b \in Byte8
    PROVE  write1(a, b) \in Part
<1>1. {a} \in SUBSET Addr /\ write1(a, b) \in [{a} -> Byte8]
  BY DEF write1
<1>2. QED
  BY <1>1, PartIntro

LEMMA Write2Part ==
    ASSUME NEW a \in Addr, a + 1 \in Addr, NEW b \in Byte8, NEW c \in Byte8
    PROVE  write2(a, b, c) \in Part
<1>1. {a, a + 1} \in SUBSET Addr /\ write2(a, b, c) \in [{a, a + 1} -> Byte8]
  BY DEF write2
<1>2. QED
  BY <1>1, PartIntro

LEMMA Addresses ==
    /\ R25 \in Addr /\ R29 \in Addr /\ R30 \in Addr /\ R32 \in Addr /\ R34 \in Addr
    /\ R38 \in Addr /\ R3E \in Addr /\ R40 \in Addr
    /\ R30 + 1 \in Addr /\ R32 + 1 \in Addr /\ R3E + 1 \in Addr
BY DEF Addr, R25, R29, R30, R31, R32, R33, R34, R38, R3E, R3F, R40

\* A byte stays a byte when other bits replace some of its own.
LEMMA MergeByte ==
    ASSUME NEW x \in Byte8, NEW y, y \subseteq 0 .. 7, NEW mask
    PROVE  (x \ mask) \cup y \in Byte8 /\ (x \cap mask) \cup y \in Byte8
BY DEF Byte8

LEMMA Uint8Byte ==
    ASSUME NEW v \in Word
    PROVE  uint8(v) \in Byte8 /\ uint8(v) \subseteq 0 .. 7
<1>1. \A b \in v : b \in 0 .. 15
  BY DEF Word
<1>2. \A b \in uint8(v) : b \in 0 .. 7
  BY <1>1 DEF uint8
<1>3. QED
  BY <1>2 DEF Byte8

\* What a write function yields: one or two parts.
Writes == { s \in Seq(Part) : Len(s) \in 1 .. 2 }

LEMMA OneWrite == ASSUME NEW p \in Part PROVE << p >> \in Writes
BY DEF Writes

LEMMA TwoWrites == ASSUME NEW p \in Part, NEW q \in Part PROVE << p, q >> \in Writes
BY DEF Writes

LEMMA OneByteWrite ==
    ASSUME NEW m \in Image, NEW a \in Addr, NEW y, y \subseteq 0 .. 7, NEW mask
    PROVE  << write1(a, (m[a] \ mask) \cup y) >> \in Writes
<1>1. (m[a] \ mask) \cup y \in Byte8
  BY MergeByte DEF Image
<1>2. QED
  BY <1>1, Write1Part, OneWrite

\* Every request for a register that exists makes one or two register writes.
LEMMA WritesParts ==
    ASSUME NEW m \in Image, NEW v \in Word, NEW reg \in Regs
    PROVE  server_set_reg_value(reg, m, v) \in Writes
<1>a. \A a \in Addr : m[a] \in Byte8
  BY DEF Image
<1>b. uint8(v) \in Byte8 /\ uint8(v) \subseteq 0 .. 7
  BY Uint8Byte
<1>1. mt6701_uvw_mux_write_raw(m, v) \in Writes
  <2>1. uint8(v) \cap {0} \subseteq 0 .. 7
    BY <1>b
  <2>2. QED
    BY <2>1, Addresses, OneByteWrite DEF mt6701_uvw_mux_write_raw
<1>2. mt6701_abz_mux_write_raw(m, v) \in Writes
  <2>1. uint8(v) \cap {1} \subseteq 0 .. 7
    BY <1>b
  <2>2. QED
    BY <2>1, Addresses, OneByteWrite DEF mt6701_abz_mux_write_raw
<1>3. mt6701_dir_write_raw(m, v) \in Writes
  <2> DEFINE b == uint8((m[R29] \ {6}) \cup shl(uint8(v) \cap {6}, 6))
  <2>1. b \in Byte8
    <3>1. m[R29] \subseteq 0 .. 7
      BY <1>a, Addresses DEF Byte8
    <3>2. shl(uint8(v) \cap {6}, 6) \subseteq {12}
      BY DEF shl
    <3>3. QED
      BY <3>1, <3>2 DEF uint8, Byte8
  <2>2. << write1(R29, b) >> \in Writes
    BY <2>1, Addresses, Write1Part, OneWrite
  <2>3. QED
    BY <2>2 DEF mt6701_dir_write_raw
<1>4. mt6701_uvw_res_write_raw(m, v) \in Writes
  <2>1. uint8(v) \cap 0 .. 3 \subseteq 0 .. 7
    BY <1>b
  <2>2. QED
    BY <2>1, Addresses, OneByteWrite DEF mt6701_uvw_res_write_raw
<1>5. mt6701_abz_res_write_raw(m, v) \in Writes
  <2>1. (m[R30] \ {0, 1}) \cup (shr(v, 8) \cap {0, 1}) \in Byte8
    <3>1. m[R30] \in Byte8 /\ (shr(v, 8) \cap {0, 1}) \subseteq 0 .. 7
      BY <1>a, <1>b, Addresses
    <3>2. QED
      BY <3>1, MergeByte
  <2>2. QED
    BY <1>b, <2>1, Addresses, Write2Part, OneWrite DEF mt6701_abz_res_write_raw
<1>6. mt6701_hyst_write_raw(m, v) \in Writes
  <2>1. (m[R32] \ {0}) \cup (shr(uint8(v), 2) \cap {0}) \in Byte8
    <3>1. m[R32] \in Byte8 /\ (shr(uint8(v), 2) \cap {0}) \subseteq 0 .. 7
      BY <1>a, <1>b, Addresses
    <3>2. QED
      BY <3>1, MergeByte
  <2>2. (m[R34] \ {0, 1}) \cup (uint8(v) \cap {0, 1}) \in Byte8
    <3>1. m[R34] \in Byte8 /\ (uint8(v) \cap {0, 1}) \subseteq 0 .. 7
      BY <1>a, <1>b, Addresses
    <3>2. QED
      BY <3>1, MergeByte
  <2>3. QED
    BY <2>1, <2>2, Addresses, Write1Part, TwoWrites DEF mt6701_hyst_write_raw
<1>7. mt6701_z_pulse_width_write_raw(m, v) \in Writes
  <2>1. shl(uint8(v), 1) \cap 1 .. 3 \subseteq 0 .. 7
    OBVIOUS
  <2>2. QED
    BY <2>1, Addresses, OneByteWrite DEF mt6701_z_pulse_width_write_raw
<1>8. mt6701_zero_write_raw(m, v) \in Writes
  <2>1. (m[R32] \cap 0 .. 5) \cup (shl(v, 4) \cap 4 .. 7) \in Byte8
    <3>1. m[R32] \in Byte8 /\ (shl(v, 4) \cap 4 .. 7) \subseteq 0 .. 7
      BY <1>a, <1>b, Addresses
    <3>2. QED
      BY <3>1, MergeByte
  <2>2. QED
    BY <1>b, <2>1, Addresses, Write2Part, OneWrite DEF mt6701_zero_write_raw
<1>9. mt6701_pwm_freq_write_raw(m, v) \in Writes
  <2>1. uint8(v) \cap {0} \subseteq 0 .. 7
    BY <1>b
  <2>2. QED
    BY <2>1, Addresses, OneByteWrite DEF mt6701_pwm_freq_write_raw
<1>10. mt6701_pwm_pol_write_raw(m, v) \in Writes
  <2>1. uint8(v) \cap {1} \subseteq 0 .. 7
    BY <1>b
  <2>2. QED
    BY <2>1, Addresses, OneByteWrite DEF mt6701_pwm_pol_write_raw
<1>11. mt6701_out_mode_write_raw(m, v) \in Writes
  <2>1. uint8(v) \cap {2} \subseteq 0 .. 7
    BY <1>b
  <2>2. QED
    BY <2>1, Addresses, OneByteWrite DEF mt6701_out_mode_write_raw
<1>12. mt6701_a_start_write_raw(m, v) \in Writes
  <2> DEFINE scode == uint8(v)
             first == (m[R3E] \ 0 .. 3) \cup (shr(scode, 8) \cap 0 .. 3)
             b == (first \cap 0 .. 3) \cup (shl(scode, 4) \cap 4 .. 7)
  <2>1. b \in Byte8
    BY DEF Byte8
  <2>2. << write2(R3E, b, scode) >> \in Writes
    BY <1>b, <2>1, Addresses, Write2Part, OneWrite
  <2>3. QED
    BY <2>2 DEF mt6701_a_start_write_raw
<1>13. mt6701_a_stop_write_raw(m, v) \in Writes
  <2>1. (m[R3E] \ 0 .. 3) \cup (shr(v, 8) \cap 0 .. 3) \in Byte8
    <3>1. m[R3E] \in Byte8 /\ (shr(v, 8) \cap 0 .. 3) \subseteq 0 .. 7
      BY <1>a, <1>b, Addresses
    <3>2. QED
      BY <3>1, MergeByte
  <2>2. QED
    BY <1>a, <2>1, Addresses, Write1Part, TwoWrites DEF mt6701_a_stop_write_raw
<1>14. QED
  BY <1>1, <1>2, <1>3, <1>4, <1>5, <1>6, <1>7, <1>8, <1>9, <1>10, <1>11, <1>12, <1>13
  DEF Regs, server_set_reg_value

\* The registers after a part, or the beginning of one, are registers.
LEMMA PutImage ==
    ASSUME NEW m \in Image, NEW p \in Part
    PROVE  put(m, p) \in Image
BY PartFacts DEF put, Image

LEMMA PrefixPart ==
    ASSUME NEW p \in Part, NEW q \in Beginnings(p)
    PROVE  q \in Part
<1>1. PICK k \in DOMAIN p : q = [a \in { b \in DOMAIN p : b < k } |-> p[a]]
  BY DEF Beginnings
<1> DEFINE D == { b \in DOMAIN p : b < k }
<1>2. D \in SUBSET Addr /\ \A a \in D : p[a] \in Byte8
  BY PartFacts
<1>3. q \in [D -> Byte8]
  BY <1>1, <1>2
<1>4. QED
  BY <1>2, <1>3, PartIntro

LEMMA ZeroIsImage == ZeroImage \in Image
BY DEF ZeroImage, Image, Byte8

-----------------------------------------------------------------------------
(***************************************************************************)
(* What the read functions yield                                           *)
(***************************************************************************)

LEMMA RegValueWord ==
    ASSUME NEW m \in Image, NEW reg
    PROVE  server_get_reg_value(reg, m) \in Word
<1>a. \A a \in Addr : m[a] \subseteq 0 .. 7
  BY DEF Image, Byte8
<1>b. /\ m[R25] \subseteq 0 .. 7 /\ m[R29] \subseteq 0 .. 7 /\ m[R30] \subseteq 0 .. 7
      /\ m[R31] \subseteq 0 .. 7 /\ m[R32] \subseteq 0 .. 7 /\ m[R33] \subseteq 0 .. 7
      /\ m[R34] \subseteq 0 .. 7 /\ m[R38] \subseteq 0 .. 7 /\ m[R3E] \subseteq 0 .. 7
      /\ m[R3F] \subseteq 0 .. 7 /\ m[R40] \subseteq 0 .. 7
  BY <1>a DEF Addr
<1> DEFINE W(x) == x \subseteq 0 .. 15
<1>c. \A x : x \subseteq 0 .. 7 => W(x)
  OBVIOUS
<1>1. W(mt6701_uvw_mux_read_raw(m)) /\ W(mt6701_uvw_res_read_raw(m))
  BY <1>b DEF mt6701_uvw_mux_read_raw, mt6701_uvw_res_read_raw
<1>2. W(mt6701_abz_mux_read_raw(m)) /\ W(mt6701_dir_read_raw(m))
  BY <1>b DEF mt6701_abz_mux_read_raw, mt6701_dir_read_raw, shr
<1>3. W(mt6701_abz_res_read_raw(m))
  <2>1. shl(m[R30] \cap {0, 1}, 8) \subseteq 0 .. 15
    BY DEF shl
  <2>2. QED
    BY <1>b, <2>1 DEF mt6701_abz_res_read_raw
<1>4. W(mt6701_hyst_read_raw(m))
  <2>1. shl(m[R32] \cap {0}, 2) \subseteq 0 .. 15
    BY DEF shl
  <2>2. QED
    BY <1>b, <2>1 DEF mt6701_hyst_read_raw
<1>5. W(mt6701_z_pulse_width_read_raw(m))
  BY <1>b DEF mt6701_z_pulse_width_read_raw, shr
<1>6. W(mt6701_zero_read_raw(m))
  <2>1. shr(m[R32] \cap 4 .. 7, 4) \subseteq 0 .. 15
    BY DEF shr
  <2>2. QED
    BY <1>b, <2>1 DEF mt6701_zero_read_raw
<1>7. W(mt6701_pwm_freq_read_raw(m)) /\ W(mt6701_pwm_pol_read_raw(m)) /\ W(mt6701_out_mode_read_raw(m))
  BY <1>b DEF mt6701_pwm_freq_read_raw, mt6701_pwm_pol_read_raw, mt6701_out_mode_read_raw
<1>8. W(mt6701_a_start_read_raw(m))
  <2>1. shr(m[R3E] \cap 4 .. 7, 4) \subseteq 0 .. 15
    BY DEF shr
  <2>2. QED
    BY <1>b, <2>1 DEF mt6701_a_start_read_raw
<1>9. W(mt6701_a_stop_read_raw(m))
  <2>1. shl(m[R3E] \cap 0 .. 3, 8) \subseteq 0 .. 15
    BY DEF shl
  <2>2. QED
    BY <1>b, <2>1 DEF mt6701_a_stop_read_raw
<1>10. W({})
  OBVIOUS
<1> HIDE DEF W
<1>11. W(server_get_reg_value(reg, m))
  BY <1>1, <1>2, <1>3, <1>4, <1>5, <1>6, <1>7, <1>8, <1>9, <1>10 DEF server_get_reg_value
<1>12. QED
  BY <1>11 DEF W, Word

-----------------------------------------------------------------------------
(***************************************************************************)
(* Which bits are whose                                                    *)
(***************************************************************************)

\* The bits of register a from which the code reads field reg.
OwnBits(reg, a) ==
    CASE reg = "UVW_MUX" /\ a = R25       -> {0}
      [] reg = "ABZ_MUX" /\ a = R29       -> {1}
      [] reg = "DIR" /\ a = R29           -> {6}
      [] reg = "UVW_RES" /\ a = R30       -> 0 .. 3
      [] reg = "ABZ_RES" /\ a = R30       -> {0, 1}
      [] reg = "ABZ_RES" /\ a = R31       -> 0 .. 7
      [] reg = "HYST" /\ a = R32          -> {0}
      [] reg = "HYST" /\ a = R34          -> {0, 1}
      [] reg = "Z_PULSE_WIDTH" /\ a = R32 -> 1 .. 3
      [] reg = "ZERO" /\ a = R32          -> 4 .. 7
      [] reg = "ZERO" /\ a = R33          -> 0 .. 7
      [] reg = "PWM_FREQ" /\ a = R38      -> {0}
      [] reg = "PWM_POL" /\ a = R38       -> {1}
      [] reg = "OUT_MODE" /\ a = R38      -> {2}
      [] reg = "A_STOP" /\ a = R3E        -> 0 .. 3
      [] reg = "A_STOP" /\ a = R40        -> 0 .. 7
      [] reg = "A_START" /\ a = R3E       -> 4 .. 7
      [] reg = "A_START" /\ a = R3F       -> 0 .. 7
      [] OTHER                            -> {}

\* The fields that a write of another one never touches, nor touch another.
Separate == Regs \ (Overlap \cup {"A_START"})

\* No bit belongs to two fields, but for the two resolutions.
LEMMA OwnBitsApart ==
    ASSUME NEW r \in Regs, NEW q \in Regs, r # q, ~(r \in Overlap /\ q \in Overlap),
           NEW a \in Addr
    PROVE  OwnBits(r, a) \cap OwnBits(q, a) = {}
<1>1. CASE a = R25
  BY <1>1 DEF OwnBits, R25, R29, R30, R31, R32, R33, R34, R38, R3E, R3F, R40
<1>2. CASE a = R29
  BY <1>2 DEF OwnBits, R25, R29, R30, R31, R32, R33, R34, R38, R3E, R3F, R40
<1>3. CASE a = R30
  BY <1>3 DEF OwnBits, Overlap, R25, R29, R30, R31, R32, R33, R34, R38, R3E, R3F, R40
<1>4. CASE a \in {R31, R33, R34, R3F, R40}
  BY <1>4 DEF OwnBits, R25, R29, R30, R31, R32, R33, R34, R38, R3E, R3F, R40
<1>5. CASE a = R32
  BY <1>5 DEF OwnBits, R25, R29, R30, R31, R32, R33, R34, R38, R3E, R3F, R40
<1>6. CASE a = R38
  BY <1>6 DEF OwnBits, R25, R29, R30, R31, R32, R33, R34, R38, R3E, R3F, R40
<1>7. CASE a = R3E
  BY <1>7 DEF OwnBits, R25, R29, R30, R31, R32, R33, R34, R38, R3E, R3F, R40
<1>8. QED
  BY <1>1, <1>2, <1>3, <1>4, <1>5, <1>6, <1>7 DEF Addr

\* Each field's own bits, register by register.
LEMMA OwnBitsOf ==
    /\ OwnBits("UVW_MUX", R25) = {0}
    /\ OwnBits("ABZ_MUX", R29) = {1}
    /\ OwnBits("DIR", R29) = {6}
    /\ OwnBits("UVW_RES", R30) = 0 .. 3
    /\ OwnBits("ABZ_RES", R30) = {0, 1} /\ OwnBits("ABZ_RES", R31) = 0 .. 7
    /\ OwnBits("HYST", R32) = {0} /\ OwnBits("HYST", R34) = {0, 1}
    /\ OwnBits("Z_PULSE_WIDTH", R32) = 1 .. 3
    /\ OwnBits("ZERO", R32) = 4 .. 7 /\ OwnBits("ZERO", R33) = 0 .. 7
    /\ OwnBits("PWM_FREQ", R38) = {0}
    /\ OwnBits("PWM_POL", R38) = {1}
    /\ OwnBits("OUT_MODE", R38) = {2}
    /\ OwnBits("A_STOP", R3E) = 0 .. 3 /\ OwnBits("A_STOP", R40) = 0 .. 7
    /\ OwnBits("A_START", R3E) = 4 .. 7 /\ OwnBits("A_START", R3F) = 0 .. 7
BY DEF OwnBits, R25, R29, R30, R31, R32, R33, R34, R38, R3E, R3F, R40

\* The read functions see their own bits only.
LEMMA ReadsOwnBits ==
    ASSUME NEW m \in Image, NEW n \in Image, NEW reg \in Regs,
           \A a \in Addr : m[a] \cap OwnBits(reg, a) = n[a] \cap OwnBits(reg, a)
    PROVE  server_get_reg_value(reg, m) = server_get_reg_value(reg, n)
<1>a. \A a \in Addr : m[a] \cap 0 .. 7 = m[a] /\ n[a] \cap 0 .. 7 = n[a]
  BY DEF Image, Byte8
<1>b. /\ R25 \in Addr /\ R29 \in Addr /\ R30 \in Addr /\ R31 \in Addr /\ R32 \in Addr
      /\ R33 \in Addr /\ R34 \in Addr /\ R38 \in Addr /\ R3E \in Addr /\ R3F \in Addr
      /\ R40 \in Addr
  BY DEF Addr
<1>1. CASE reg = "UVW_MUX"
  BY <1>1, <1>b, OwnBitsOf DEF server_get_reg_value, mt6701_uvw_mux_read_raw
<1>2. CASE reg = "ABZ_MUX"
  BY <1>2, <1>b, OwnBitsOf DEF server_get_reg_value, mt6701_abz_mux_read_raw
<1>3. CASE reg = "DIR"
  BY <1>3, <1>b, OwnBitsOf DEF server_get_reg_value, mt6701_dir_read_raw
<1>4. CASE reg = "UVW_RES"
  BY <1>4, <1>b, OwnBitsOf DEF server_get_reg_value, mt6701_uvw_res_read_raw
<1>5. CASE reg = "ABZ_RES"
  <2>1. m[R30] \cap {0, 1} = n[R30] \cap {0, 1} /\ m[R31] \cap 0 .. 7 = n[R31] \cap 0 .. 7
    BY <1>5, <1>b, OwnBitsOf
  <2>2. m[R31] = n[R31]
    BY <1>a, <1>b, <2>1
  <2>3. mt6701_abz_res_read_raw(m) = mt6701_abz_res_read_raw(n)
    BY <2>1, <2>2 DEF mt6701_abz_res_read_raw
  <2>4. QED
    BY <1>5, <2>3 DEF server_get_reg_value
<1>6. CASE reg = "HYST"
  BY <1>6, <1>b, OwnBitsOf DEF server_get_reg_value, mt6701_hyst_read_raw
<1>7. CASE reg = "Z_PULSE_WIDTH"
  BY <1>7, <1>b, OwnBitsOf DEF server_get_reg_value, mt6701_z_pulse_width_read_raw
<1>8. CASE reg = "ZERO"
  <2>1. m[R32] \cap 4 .. 7 = n[R32] \cap 4 .. 7 /\ m[R33] \cap 0 .. 7 = n[R33] \cap 0 .. 7
    BY <1>8, <1>b, OwnBitsOf
  <2>2. m[R33] = n[R33]
    BY <1>a, <1>b, <2>1
  <2>3. mt6701_zero_read_raw(m) = mt6701_zero_read_raw(n)
    BY <2>1, <2>2 DEF mt6701_zero_read_raw
  <2>4. QED
    BY <1>8, <2>3 DEF server_get_reg_value
<1>9. CASE reg = "PWM_FREQ"
  BY <1>9, <1>b, OwnBitsOf DEF server_get_reg_value, mt6701_pwm_freq_read_raw
<1>10. CASE reg = "PWM_POL"
  BY <1>10, <1>b, OwnBitsOf DEF server_get_reg_value, mt6701_pwm_pol_read_raw
<1>11. CASE reg = "OUT_MODE"
  BY <1>11, <1>b, OwnBitsOf DEF server_get_reg_value, mt6701_out_mode_read_raw
<1>12. CASE reg = "A_START"
  <2>1. m[R3E] \cap 4 .. 7 = n[R3E] \cap 4 .. 7 /\ m[R3F] \cap 0 .. 7 = n[R3F] \cap 0 .. 7
    BY <1>12, <1>b, OwnBitsOf
  <2>2. m[R3F] = n[R3F]
    BY <1>a, <1>b, <2>1
  <2>3. mt6701_a_start_read_raw(m) = mt6701_a_start_read_raw(n)
    BY <2>1, <2>2 DEF mt6701_a_start_read_raw
  <2>4. QED
    BY <1>12, <2>3 DEF server_get_reg_value
<1>13. CASE reg = "A_STOP"
  <2>1. m[R3E] \cap 0 .. 3 = n[R3E] \cap 0 .. 3 /\ m[R40] \cap 0 .. 7 = n[R40] \cap 0 .. 7
    BY <1>13, <1>b, OwnBitsOf
  <2>2. m[R40] = n[R40]
    BY <1>a, <1>b, <2>1
  <2>3. mt6701_a_stop_read_raw(m) = mt6701_a_stop_read_raw(n)
    BY <2>1, <2>2 DEF mt6701_a_stop_read_raw
  <2>4. QED
    BY <1>13, <2>3 DEF server_get_reg_value
<1>14. QED
  BY <1>1, <1>2, <1>3, <1>4, <1>5, <1>6, <1>7, <1>8, <1>9, <1>10, <1>11, <1>12, <1>13 DEF Regs

-----------------------------------------------------------------------------
(***************************************************************************)
(* What a write leaves alone                                               *)
(***************************************************************************)

\* Outside the bits of field reg, the part carries what m holds.
KeepsOthers(reg, m, part) ==
    \A a \in DOMAIN part : part[a] \ OwnBits(reg, a) = m[a] \ OwnBits(reg, a)

AllKeepOthers(reg, m, s) == \A i \in 1 .. Len(s) : KeepsOthers(reg, m, s[i])

LEMMA OneKeeps ==
    ASSUME NEW reg, NEW m, NEW a, NEW b, b \ OwnBits(reg, a) = m[a] \ OwnBits(reg, a)
    PROVE  KeepsOthers(reg, m, write1(a, b))
BY DEF KeepsOthers, write1

LEMMA TwoKeep ==
    ASSUME NEW reg, NEW m, NEW a \in Addr, NEW b, NEW c,
           b \ OwnBits(reg, a) = m[a] \ OwnBits(reg, a),
           c \ OwnBits(reg, a + 1) = m[a + 1] \ OwnBits(reg, a + 1)
    PROVE  KeepsOthers(reg, m, write2(a, b, c))
<1>1. a \in Int /\ a # a + 1
  BY DEF Addr, R25, R29, R30, R31, R32, R33, R34, R38, R3E, R3F, R40
<1>2. /\ DOMAIN write2(a, b, c) = {a, a + 1}
      /\ write2(a, b, c)[a] = b /\ write2(a, b, c)[a + 1] = c
  BY <1>1 DEF write2
<1>3. QED
  BY <1>2 DEF KeepsOthers

LEMMA KeepsIntro ==
    ASSUME NEW reg, NEW m
    PROVE  /\ \A p : KeepsOthers(reg, m, p) => AllKeepOthers(reg, m, <<p>>)
           /\ \A p, q : KeepsOthers(reg, m, p) /\ KeepsOthers(reg, m, q)
                           => AllKeepOthers(reg, m, <<p, q>>)
BY DEF AllKeepOthers

\* Every write function but that of A_START preserves the bits that are not its
\* field's.
LEMMA Footprint ==
    ASSUME NEW m \in Image, NEW v \in Word, NEW reg \in Regs \ {"A_START"}
    PROVE  AllKeepOthers(reg, m, server_set_reg_value(reg, m, v))
<1>a. \A a \in Addr : m[a] \subseteq 0 .. 7
  BY DEF Image, Byte8
<1>b. uint8(v) \subseteq 0 .. 7
  BY Uint8Byte
<1>c. /\ R25 \in Addr /\ R29 \in Addr /\ R30 \in Addr /\ R31 \in Addr /\ R32 \in Addr
      /\ R33 \in Addr /\ R34 \in Addr /\ R38 \in Addr /\ R3E \in Addr /\ R40 \in Addr
      /\ R30 + 1 = R31 /\ R32 + 1 = R33
  BY DEF Addr, R30, R31, R32, R33
<1>1. CASE reg = "UVW_MUX"
  <2>1. KeepsOthers(reg, m, write1(R25, (m[R25] \ {0}) \cup (uint8(v) \cap {0})))
    BY <1>1, OwnBitsOf, OneKeeps
  <2>2. QED
    BY <1>1, <2>1, KeepsIntro DEF server_set_reg_value, mt6701_uvw_mux_write_raw
<1>2. CASE reg = "ABZ_MUX"
  <2>1. KeepsOthers(reg, m, write1(R29, (m[R29] \ {1}) \cup (uint8(v) \cap {1})))
    BY <1>2, OwnBitsOf, OneKeeps
  <2>2. QED
    BY <1>2, <2>1, KeepsIntro DEF server_set_reg_value, mt6701_abz_mux_write_raw
<1>3. CASE reg = "DIR"
  <2> DEFINE b == uint8((m[R29] \ {6}) \cup shl(uint8(v) \cap {6}, 6))
  <2>1. b \ {6} = m[R29] \ {6}
    <3>1. shl(uint8(v) \cap {6}, 6) \subseteq {12}
      BY DEF shl
    <3>2. QED
      BY <1>a, <1>c, <3>1 DEF uint8
  <2>2. KeepsOthers(reg, m, write1(R29, b))
    BY <1>3, <2>1, OwnBitsOf, OneKeeps
  <2>3. QED
    BY <1>3, <2>2, KeepsIntro DEF server_set_reg_value, mt6701_dir_write_raw
<1>4. CASE reg = "UVW_RES"
  <2>1. KeepsOthers(reg, m, write1(R30, (m[R30] \ 0 .. 3) \cup (uint8(v) \cap 0 .. 3)))
    BY <1>4, OwnBitsOf, OneKeeps
  <2>2. QED
    BY <1>4, <2>1, KeepsIntro DEF server_set_reg_value, mt6701_uvw_res_write_raw
<1>5. CASE reg = "ABZ_RES"
  <2> DEFINE b == (m[R30] \ {0, 1}) \cup (shr(v, 8) \cap {0, 1})
  <2>1. b \ {0, 1} = m[R30] \ {0, 1}
    OBVIOUS
  <2>2. uint8(v) \ 0 .. 7 = m[R31] \ 0 .. 7
    BY <1>a, <1>b, <1>c
  <2>3. KeepsOthers(reg, m, write2(R30, b, uint8(v)))
    BY <1>5, <1>c, <2>1, <2>2, OwnBitsOf, TwoKeep
  <2>4. QED
    BY <1>5, <2>3, KeepsIntro DEF server_set_reg_value, mt6701_abz_res_write_raw
<1>6. CASE reg = "HYST"
  <2>1. KeepsOthers(reg, m, write1(R32, (m[R32] \ {0}) \cup (shr(uint8(v), 2) \cap {0})))
    BY <1>6, OwnBitsOf, OneKeeps
  <2>2. KeepsOthers(reg, m, write1(R34, (m[R34] \ {0, 1}) \cup (uint8(v) \cap {0, 1})))
    BY <1>6, OwnBitsOf, OneKeeps
  <2>3. QED
    BY <1>6, <2>1, <2>2, KeepsIntro DEF server_set_reg_value, mt6701_hyst_write_raw
<1>7. CASE reg = "Z_PULSE_WIDTH"
  <2>1. KeepsOthers(reg, m, write1(R32, (m[R32] \ 1 .. 3) \cup (shl(uint8(v), 1) \cap 1 .. 3)))
    BY <1>7, OwnBitsOf, OneKeeps
  <2>2. QED
    BY <1>7, <2>1, KeepsIntro DEF server_set_reg_value, mt6701_z_pulse_width_write_raw
<1>8. CASE reg = "ZERO"
  <2> DEFINE b == (m[R32] \cap 0 .. 5) \cup (shl(v, 4) \cap 4 .. 7)
  <2>1. b \ 4 .. 7 = m[R32] \ 4 .. 7
    BY <1>a, <1>c
  <2>2. uint8(v) \ 0 .. 7 = m[R33] \ 0 .. 7
    BY <1>a, <1>b, <1>c
  <2>3. KeepsOthers(reg, m, write2(R32, b, uint8(v)))
    BY <1>8, <1>c, <2>1, <2>2, OwnBitsOf, TwoKeep
  <2>4. QED
    BY <1>8, <2>3, KeepsIntro DEF server_set_reg_value, mt6701_zero_write_raw
<1>9. CASE reg = "PWM_FREQ"
  <2>1. KeepsOthers(reg, m, write1(R38, (m[R38] \ {0}) \cup (uint8(v) \cap {0})))
    BY <1>9, OwnBitsOf, OneKeeps
  <2>2. QED
    BY <1>9, <2>1, KeepsIntro DEF server_set_reg_value, mt6701_pwm_freq_write_raw
<1>10. CASE reg = "PWM_POL"
  <2>1. KeepsOthers(reg, m, write1(R38, (m[R38] \ {1}) \cup (uint8(v) \cap {1})))
    BY <1>10, OwnBitsOf, OneKeeps
  <2>2. QED
    BY <1>10, <2>1, KeepsIntro DEF server_set_reg_value, mt6701_pwm_pol_write_raw
<1>11. CASE reg = "OUT_MODE"
  <2>1. KeepsOthers(reg, m, write1(R38, (m[R38] \ {2}) \cup (uint8(v) \cap {2})))
    BY <1>11, OwnBitsOf, OneKeeps
  <2>2. QED
    BY <1>11, <2>1, KeepsIntro DEF server_set_reg_value, mt6701_out_mode_write_raw
<1>12. CASE reg = "A_STOP"
  <2>1. KeepsOthers(reg, m, write1(R3E, (m[R3E] \ 0 .. 3) \cup (shr(v, 8) \cap 0 .. 3)))
    BY <1>12, OwnBitsOf, OneKeeps
  <2>2. KeepsOthers(reg, m, write1(R40, m[R40]))
    BY <1>12, OneKeeps
  <2>3. QED
    BY <1>12, <2>1, <2>2, KeepsIntro DEF server_set_reg_value, mt6701_a_stop_write_raw
<1>13. QED
  BY <1>1, <1>2, <1>3, <1>4, <1>5, <1>6, <1>7, <1>8, <1>9, <1>10, <1>11, <1>12 DEF Regs

-----------------------------------------------------------------------------
(***************************************************************************)
(* What a write of a conforming field achieves                             *)
(***************************************************************************)

LEMMA AppliedTuples ==
    ASSUME NEW m
    PROVE  /\ \A p : Applied(m, <<p>>) = put(m, p)
           /\ \A p, q : Applied(m, <<p, q>>) = put(put(m, p), q)
BY DEF Applied

\* The bits outside of the field that is written stay.
LEMMA AppliedKeeps ==
    ASSUME NEW x \in Image, NEW v \in Word, NEW reg \in Regs \ {"A_START"}
    PROVE  LET y == Applied(x, server_set_reg_value(reg, x, v))
           IN  /\ y \in Image
               /\ \A a \in Addr : y[a] \ OwnBits(reg, a) = x[a] \ OwnBits(reg, a)
<1> DEFINE s == server_set_reg_value(reg, x, v)
           y == Applied(x, s)
<1>2. s \in Writes /\ AllKeepOthers(reg, x, s)
  BY WritesParts, Footprint
<1> HIDE DEF s
<1>3. s \in Seq(Part) /\ Len(s) \in 1 .. 2
  BY <1>2 DEF Writes
<1>4. /\ s[1] \in Part /\ KeepsOthers(reg, x, s[1])
      /\ Len(s) = 2 => s[2] \in Part /\ KeepsOthers(reg, x, s[2])
  BY <1>2, <1>3 DEF AllKeepOthers
<1> DEFINE z == put(x, s[1])
<1>5. z \in Image /\ \A a \in Addr : z[a] \ OwnBits(reg, a) = x[a] \ OwnBits(reg, a)
  BY <1>4, PutImage, PartFacts DEF put, KeepsOthers
<1>6. CASE Len(s) = 1
  BY <1>5, <1>6 DEF Applied, s
<1>7. CASE Len(s) = 2
  <2>1. y = put(z, s[2])
    BY <1>7 DEF Applied
  <2> HIDE DEF y, z
  <2>2. y \in Image
    BY <1>4, <1>5, <1>7, <2>1, PutImage
  <2>3. \A a \in Addr : y[a] = IF a \in DOMAIN s[2] THEN s[2][a] ELSE z[a]
    BY <2>1 DEF put
  <2>4. \A a \in DOMAIN s[2] : s[2][a] \ OwnBits(reg, a) = x[a] \ OwnBits(reg, a)
    BY <1>4, <1>7 DEF KeepsOthers
  <2>5. \A a \in Addr : y[a] \ OwnBits(reg, a) = x[a] \ OwnBits(reg, a)
    BY <1>5, <2>3, <2>4
  <2>6. QED
    BY <2>2, <2>5 DEF y, s
<1>8. QED
  BY <1>3, <1>6, <1>7

\* What is in a register after a part, or not in the part.
LEMMA PutWrite1 ==
    ASSUME NEW m, NEW a \in Addr, NEW b, NEW c \in Addr
    PROVE  put(m, write1(a, b))[c] = IF c = a THEN b ELSE m[c]
BY DEF put, write1

LEMMA PutWrite2 ==
    ASSUME NEW m, NEW a \in Addr, a + 1 \in Addr, NEW b1, NEW b2, NEW c \in Addr
    PROVE  put(m, write2(a, b1, b2))[c] = IF c = a THEN b1 ELSE IF c = a + 1 THEN b2 ELSE m[c]
<1>1. a \in Int /\ a # a + 1
  BY DEF Addr, R25, R29, R30, R31, R32, R33, R34, R38, R3E, R3F, R40
<1>2. QED
  BY <1>1 DEF put, write2

\* A write of one field leaves what another one reads, if that one is neither a
\* resolution beside the other nor in the byte that A_START clears.
LEMMA WriteLeavesOthers ==
    ASSUME NEW x \in Image, NEW v \in Word, NEW reg \in Regs, NEW q \in Regs,
           q # reg, ~(q \in Overlap /\ reg \in Overlap), reg = "A_START" => q \in Conforming
    PROVE  LET y == Applied(x, server_set_reg_value(reg, x, v))
           IN  y \in Image /\ server_get_reg_value(q, y) = server_get_reg_value(q, x)
<1> DEFINE s == server_set_reg_value(reg, x, v)
           y == Applied(x, s)
<1>1. y \in Image /\ \A a \in Addr : y[a] \cap OwnBits(q, a) = x[a] \cap OwnBits(q, a)
  <2>1. CASE reg # "A_START"
    <3>1. y \in Image /\ \A a \in Addr : y[a] \ OwnBits(reg, a) = x[a] \ OwnBits(reg, a)
      BY <2>1, AppliedKeeps
    <3>2. \A a \in Addr : OwnBits(q, a) \cap OwnBits(reg, a) = {}
      BY OwnBitsApart
    <3> HIDE DEF y
    <3>3. QED
      BY <3>1, <3>2
  <2>2. CASE reg = "A_START"
    <3>1. s \in Writes
      BY WritesParts
    <3>2. Len(s) = 1 /\ DOMAIN s[1] = {R3E, R3E + 1}
      <4>1. s = mt6701_a_start_write_raw(x, v)
        BY <2>2 DEF server_set_reg_value
      <4>2. \E b, c : s = << write2(R3E, b, c) >>
        BY <4>1 DEF mt6701_a_start_write_raw
      <4>3. \A b, c : DOMAIN write2(R3E, b, c) = {R3E, R3E + 1}
        BY DEF write2
      <4> HIDE DEF s
      <4>4. QED
        BY <4>2, <4>3
    <3>3. y = put(x, s[1])
      BY <3>2 DEF Applied
    <3> HIDE DEF s, y
    <3>4. y \in Image
      <4>1. s[1] \in Part
        BY <3>1, <3>2 DEF Writes
      <4>2. QED
        BY <3>3, <4>1, PutImage
    <3>5. \A a \in Addr : a \notin {R3E, R3E + 1} => y[a] = x[a]
      BY <3>2, <3>3 DEF put
    <3>6. OwnBits(q, R3E) = {} /\ OwnBits(q, R3E + 1) = {}
      BY <2>2 DEF OwnBits, Conforming, R25, R29, R30, R31, R32, R33, R34, R38, R3E, R3F, R40
    <3>7. QED
      BY <3>4, <3>5, <3>6
  <2>3. QED
    BY <2>1, <2>2
<1> HIDE DEF y
<1>2. server_get_reg_value(q, y) = server_get_reg_value(q, x)
  BY <1>1, ReadsOwnBits
<1>3. QED
  BY <1>1, <1>2 DEF y, s

\* The bits of a word, as bytes.
LEMMA WordBits ==
    ASSUME NEW v \in Word
    PROVE  /\ \A b \in v : b \in 0 .. 15
           /\ uint8(v) = v \cap 0 .. 7
           /\ shr(v, 8) = { b - 8 : b \in v \cap 8 .. 15 }
<1>1. \A b \in v : b \in 0 .. 15
  BY DEF Word
<1>2. uint8(v) = v \cap 0 .. 7
  BY <1>1 DEF uint8
<1>3. shr(v, 8) = { b - 8 : b \in v \cap 8 .. 15 }
  BY <1>1 DEF shr
<1>4. QED
  BY <1>1, <1>2, <1>3

\* HYST is written in two parts, each of which sets its own bits of the code.
LEMMA HystParts ==
    ASSUME NEW m \in Image, NEW n \in Image, NEW v \in Word
    PROVE  LET s == mt6701_hyst_write_raw(m, v)
               get(x) == mt6701_hyst_read_raw(x)
           IN  /\ s = <<s[1], s[2]>>
               /\ get(put(n, s[1])) = (v \cap {2}) \cup (get(n) \cap {0, 1})
               /\ get(put(n, s[2])) = (get(n) \cap {2}) \cup (v \cap {0, 1})
<1> DEFINE b1 == (m[R32] \ {0}) \cup (shr(uint8(v), 2) \cap {0})
           b2 == (m[R34] \ {0, 1}) \cup (uint8(v) \cap {0, 1})
           s == mt6701_hyst_write_raw(m, v)
           get(x) == mt6701_hyst_read_raw(x)
<1>1. s = <<write1(R32, b1), write1(R34, b2)>>
  BY DEF mt6701_hyst_write_raw
<1>2. s[1] = write1(R32, b1) /\ s[2] = write1(R34, b2) /\ s = <<s[1], s[2]>>
  BY <1>1
<1>3. R32 \in Addr /\ R34 \in Addr /\ R32 # R34
  BY DEF Addr, R32, R34
<1>4. /\ put(n, s[1])[R32] = b1 /\ put(n, s[1])[R34] = n[R34]
      /\ put(n, s[2])[R32] = n[R32] /\ put(n, s[2])[R34] = b2
  BY <1>2, <1>3, PutWrite1
<1>5. b1 \cap {0} = IF 2 \in v THEN {0} ELSE {}
  <2>1. shr(uint8(v), 2) \cap {0} = IF 2 \in v THEN {0} ELSE {}
    <3>1. uint8(v) = v \cap 0 .. 7
      BY WordBits
    <3>2. 0 \in shr(uint8(v), 2) <=> 2 \in v
      BY <3>1 DEF shr
    <3>3. QED
      BY <3>2
  <2>2. QED
    BY <2>1
<1>6. b2 \cap {0, 1} = v \cap {0, 1}
  BY WordBits
<1>7. \A x : shl(x \cap {0}, 2) = IF 0 \in x THEN {2} ELSE {}
  BY DEF shl
<1> HIDE DEF b1, b2
<1>8. get(put(n, s[1])) = (v \cap {2}) \cup (get(n) \cap {0, 1})
  <2>1. get(put(n, s[1])) = shl(b1 \cap {0}, 2) \cup (n[R34] \cap {0, 1})
    BY <1>4 DEF mt6701_hyst_read_raw
  <2>2. shl(b1 \cap {0}, 2) = v \cap {2}
    BY <1>5, <1>7
  <2>3. get(n) \cap {0, 1} = n[R34] \cap {0, 1}
    BY <1>7 DEF mt6701_hyst_read_raw
  <2>4. QED
    BY <2>1, <2>2, <2>3
<1>9. get(put(n, s[2])) = (get(n) \cap {2}) \cup (v \cap {0, 1})
  <2>1. get(put(n, s[2])) = shl(n[R32] \cap {0}, 2) \cup (b2 \cap {0, 1})
    BY <1>4 DEF mt6701_hyst_read_raw
  <2>2. get(n) \cap {2} = shl(n[R32] \cap {0}, 2)
    BY <1>7 DEF mt6701_hyst_read_raw
  <2>3. QED
    BY <1>6, <2>1, <2>2
<1>10. QED
  BY <1>2, <1>8, <1>9

\* The other conforming fields are written in one part, which sets all of them.
LEMMA OnePartReadsBack ==
    ASSUME NEW m \in Image, NEW n \in Image, NEW v \in Word, NEW reg \in Conforming \ {"HYST"}
    PROVE  LET s == server_set_reg_value(reg, m, v)
           IN  /\ s = <<s[1]>>
               /\ server_get_reg_value(reg, put(n, s[1])) = Truncated(reg, v)
<1>a. (\A b \in v : b \in 0 .. 15) /\ uint8(v) = v \cap 0 .. 7
  BY WordBits
<1>b. \A a \in {R25, R30, R32, R38} : \A x : put(n, write1(a, x))[a] = x
  <2>1. {R25, R30, R32, R38} \subseteq Addr
    BY DEF Addr
  <2>2. QED
    BY <2>1 DEF put, write1
<1>c. \A x, y : put(n, write2(R30, x, y))[R30] = x /\ put(n, write2(R30, x, y))[R31] = y
  <2>1. R30 \in Addr /\ R31 \in Addr /\ R31 = R30 + 1
    BY DEF Addr, R30, R31
  <2>2. R31 # R30
    BY DEF R30, R31
  <2>3. QED
    BY <2>1, <2>2 DEF put, write2
<1>1. CASE reg = "UVW_MUX"
  <2> DEFINE b == (m[R25] \ {0}) \cup (uint8(v) \cap {0})
  <2>1. server_set_reg_value(reg, m, v) = <<write1(R25, b)>>
    BY <1>1 DEF server_set_reg_value, mt6701_uvw_mux_write_raw
  <2>2. \A x : put(n, write1(R25, x))[R25] = x
    BY <1>b
  <2>3. b \cap {0} = Truncated(reg, v)
    BY <1>a, <1>1 DEF Truncated, Width
  <2> HIDE DEF b
  <2>4. QED
    BY <1>1, <2>1, <2>2, <2>3 DEF server_get_reg_value, mt6701_uvw_mux_read_raw
<1>2. CASE reg = "UVW_RES"
  <2> DEFINE b == (m[R30] \ 0 .. 3) \cup (uint8(v) \cap 0 .. 3)
  <2>1. server_set_reg_value(reg, m, v) = <<write1(R30, b)>>
    BY <1>2 DEF server_set_reg_value, mt6701_uvw_res_write_raw
  <2>2. \A x : put(n, write1(R30, x))[R30] = x
    BY <1>b
  <2>3. b \cap 0 .. 3 = Truncated(reg, v)
    BY <1>a, <1>2 DEF Truncated, Width
  <2> HIDE DEF b
  <2>4. QED
    BY <1>2, <2>1, <2>2, <2>3 DEF server_get_reg_value, mt6701_uvw_res_read_raw
<1>3. CASE reg = "ABZ_RES"
  <2> DEFINE b == (m[R30] \ {0, 1}) \cup (shr(v, 8) \cap {0, 1})
  <2>1. server_set_reg_value(reg, m, v) = <<write2(R30, b, uint8(v))>>
    BY <1>3 DEF server_set_reg_value, mt6701_abz_res_write_raw
  <2>2. \A x, y : put(n, write2(R30, x, y))[R30] = x /\ put(n, write2(R30, x, y))[R31] = y
    BY <1>c
  <2>3. shl(b \cap {0, 1}, 8) = v \cap {8, 9}
    <3>1. b \cap {0, 1} = shr(v, 8) \cap {0, 1}
      OBVIOUS
    <3>2. (0 \in shr(v, 8) <=> 8 \in v) /\ (1 \in shr(v, 8) <=> 9 \in v)
      BY <1>a DEF shr
    <3>3. \A x : shl(x \cap {0, 1}, 8) = (IF 0 \in x THEN {8} ELSE {}) \cup (IF 1 \in x THEN {9} ELSE {})
      BY DEF shl
    <3>4. QED
      BY <3>1, <3>2, <3>3
  <2>4. Truncated(reg, v) = (v \cap {8, 9}) \cup uint8(v)
    BY <1>a, <1>3 DEF Truncated, Width
  <2> HIDE DEF b
  <2>5. server_get_reg_value(reg, put(n, write2(R30, b, uint8(v)))) = shl(b \cap {0, 1}, 8) \cup uint8(v)
    BY <1>3, <2>2 DEF server_get_reg_value, mt6701_abz_res_read_raw
  <2>6. QED
    BY <2>1, <2>3, <2>4, <2>5
<1>4. CASE reg = "Z_PULSE_WIDTH"
  <2> DEFINE b == (m[R32] \ 1 .. 3) \cup (shl(uint8(v), 1) \cap 1 .. 3)
  <2>1. server_set_reg_value(reg, m, v) = <<write1(R32, b)>>
    BY <1>4 DEF server_set_reg_value, mt6701_z_pulse_width_write_raw
  <2>2. \A x : put(n, write1(R32, x))[R32] = x
    BY <1>b
  <2>3. shr(b \cap 1 .. 3, 1) = Truncated(reg, v)
    <3>1. b \cap 1 .. 3 = shl(uint8(v), 1) \cap 1 .. 3
      OBVIOUS
    <3>2. shl(uint8(v), 1) \cap 1 .. 3 = { i + 1 : i \in v \cap 0 .. 2 }
      BY <1>a DEF shl
    <3>3. shr({ i + 1 : i \in v \cap 0 .. 2 }, 1) = v \cap 0 .. 2
      BY DEF shr
    <3>4. Truncated(reg, v) = v \cap 0 .. 2
      BY <1>a, <1>4 DEF Truncated, Width
    <3>5. QED
      BY <3>1, <3>2, <3>3, <3>4
  <2> HIDE DEF b
  <2>4. QED
    BY SMTT(30), <1>4, <2>1, <2>2, <2>3 DEF server_get_reg_value, mt6701_z_pulse_width_read_raw
<1>5. CASE reg = "PWM_FREQ"
  <2> DEFINE b == (m[R38] \ {0}) \cup (uint8(v) \cap {0})
  <2>1. server_set_reg_value(reg, m, v) = <<write1(R38, b)>>
    BY <1>5 DEF server_set_reg_value, mt6701_pwm_freq_write_raw
  <2>2. \A x : put(n, write1(R38, x))[R38] = x
    BY <1>b
  <2>3. b \cap {0} = Truncated(reg, v)
    BY <1>a, <1>5 DEF Truncated, Width
  <2> HIDE DEF b
  <2>4. QED
    BY <1>5, <2>1, <2>2, <2>3 DEF server_get_reg_value, mt6701_pwm_freq_read_raw
<1>6. QED
  BY <1>1, <1>2, <1>3, <1>4, <1>5 DEF Conforming

\* Whatever the registers hold when the parts arrive, and whatever m the other
\* bits were taken from, a conforming field then reads as the value written, cut
\* to the width of the field.
LEMMA AppliedReadsBack ==
    ASSUME NEW m \in Image, NEW n \in Image, NEW v \in Word, NEW reg \in Conforming
    PROVE  server_get_reg_value(reg, Applied(n, server_set_reg_value(reg, m, v)))
               = Truncated(reg, v)
<1>1. CASE reg # "HYST"
  BY <1>1, OnePartReadsBack, AppliedTuples
<1>2. CASE reg = "HYST"
  <2> DEFINE s == mt6701_hyst_write_raw(m, v)
             get(x) == mt6701_hyst_read_raw(x)
  <2>1. s = <<s[1], s[2]>> /\ get(put(n, s[1])) = (v \cap {2}) \cup (get(n) \cap {0, 1})
    BY HystParts
  <2>2. put(n, s[1]) \in Image
    <3>1. s \in Writes
      <4>1. s = server_set_reg_value("HYST", m, v)
        BY DEF server_set_reg_value
      <4>2. "HYST" \in Regs
        BY DEF Regs
      <4>3. QED
        BY <4>1, <4>2, WritesParts
    <3>2. \A t \in Writes : t[1] \in Part
      BY ElementOfSeq DEF Writes
    <3>3. s[1] \in Part
      BY <3>1, <3>2
    <3>4. QED
      BY <3>3, PutImage
  <2>3. get(put(put(n, s[1]), s[2])) = (get(put(n, s[1])) \cap {2}) \cup (v \cap {0, 1})
    BY <2>2, HystParts
  <2>4. Truncated(reg, v) = v \cap {0, 1, 2}
    BY <1>2, WordBits DEF Truncated, Width
  <2>5. Applied(n, s) = put(put(n, s[1]), s[2])
    BY <2>1, AppliedTuples
  <2>6. server_get_reg_value(reg, Applied(n, s)) = get(Applied(n, s)) /\ server_set_reg_value(reg, m, v) = s
    BY <1>2 DEF server_get_reg_value, server_set_reg_value
  <2> HIDE DEF s, get
  <2>7. QED
    BY <2>1, <2>3, <2>4, <2>5, <2>6
<1>3. QED
  BY <1>1, <1>2

-----------------------------------------------------------------------------
(***************************************************************************)
(* Half-written and half-saved fields                                      *)
(***************************************************************************)

\* The bits in which x and y differ.
Diff(x, y) == (x \ y) \cup (y \ x)

\* No part of the write of a conforming field changes a bit of the field that
\* has the value of the request already.
LEMMA Toward ==
    ASSUME NEW m \in Image, NEW n \in Image, NEW v \in Word, NEW reg \in Conforming,
           NEW i \in 1 .. Len(server_set_reg_value(reg, m, v))
    PROVE  LET part == server_set_reg_value(reg, m, v)[i]
           IN  Diff(server_get_reg_value(reg, n), server_get_reg_value(reg, put(n, part)))
                   \subseteq Diff(server_get_reg_value(reg, n), Truncated(reg, v))
<1>1. CASE reg # "HYST"
  <2> DEFINE s == server_set_reg_value(reg, m, v)
  <2>1. s = <<s[1]>> /\ server_get_reg_value(reg, put(n, s[1])) = Truncated(reg, v)
    BY <1>1, OnePartReadsBack
  <2>2. i = 1
    <3>1. Len(s) = 1
      BY <2>1
    <3>2. i \in 1 .. Len(s)
      OBVIOUS
    <3> HIDE DEF s
    <3>3. QED
      BY <3>1, <3>2
  <2> HIDE DEF s
  <2>3. server_get_reg_value(reg, put(n, s[i])) = Truncated(reg, v)
    BY <2>1, <2>2
  <2>4. QED
    BY <2>3 DEF s
<1>2. CASE reg = "HYST"
  <2> DEFINE s == mt6701_hyst_write_raw(m, v)
             get(x) == mt6701_hyst_read_raw(x)
  <2>1. /\ get(put(n, s[1])) = (v \cap {2}) \cup (get(n) \cap {0, 1})
        /\ get(put(n, s[2])) = (get(n) \cap {2}) \cup (v \cap {0, 1})
    BY HystParts
  <2>2. i \in {1, 2}
    <3>1. Len(server_set_reg_value(reg, m, v)) = 2
      BY <1>2 DEF server_set_reg_value, mt6701_hyst_write_raw
    <3>2. QED
      BY <3>1
  <2>3. get(n) \subseteq {0, 1, 2}
    <3>1. \A x : shl(x \cap {0}, 2) \subseteq {2}
      BY DEF shl
    <3>2. QED
      BY <3>1 DEF mt6701_hyst_read_raw
  <2>4. Truncated(reg, v) = v \cap {0, 1, 2}
    BY SMTT(30), <1>2, WordBits DEF Truncated, Width
  <2>5. \A x : server_get_reg_value(reg, x) = get(x)
    BY <1>2 DEF server_get_reg_value
  <2>6. server_set_reg_value(reg, m, v) = s
    BY <1>2 DEF server_set_reg_value
  <2> HIDE DEF s, get
  <2>7. Diff(get(n), get(put(n, s[i]))) \subseteq Diff(get(n), v \cap {0, 1, 2})
    <3>1. CASE i = 1
      BY <2>1, <2>3, <3>1 DEF Diff
    <3>2. CASE i = 2
      BY <2>1, <2>3, <3>2 DEF Diff
    <3>3. QED
      BY <2>2, <3>1, <3>2
  <2>8. /\ server_get_reg_value(reg, n) = get(n)
        /\ server_get_reg_value(reg, put(n, s[i])) = get(put(n, s[i]))
    BY <2>5
  <2>9. QED
    BY <2>4, <2>6, <2>7, <2>8
<1>3. QED
  BY <1>1, <1>2

\* A byte-wise mixture of two images gives a conforming field no bit that it has
\* in neither of them.
LEMMA MixBetween ==
    ASSUME NEW x \in Image, NEW y \in Image, NEW z \in Image, NEW reg \in Conforming,
           \A a \in Addr : z[a] \in {x[a], y[a]}
    PROVE  Diff(server_get_reg_value(reg, x), server_get_reg_value(reg, z))
               \subseteq Diff(server_get_reg_value(reg, x), server_get_reg_value(reg, y))
<1>a. z[R25] \in {x[R25], y[R25]} /\ z[R30] \in {x[R30], y[R30]} /\ z[R31] \in {x[R31], y[R31]}
  BY DEF Addr
<1>b. z[R32] \in {x[R32], y[R32]} /\ z[R34] \in {x[R34], y[R34]} /\ z[R38] \in {x[R38], y[R38]}
  BY DEF Addr
<1>1. CASE reg = "UVW_MUX"
  BY <1>1, <1>a DEF Diff, server_get_reg_value, mt6701_uvw_mux_read_raw
<1>2. CASE reg = "UVW_RES"
  BY <1>2, <1>a DEF Diff, server_get_reg_value, mt6701_uvw_res_read_raw
<1>3. CASE reg = "ABZ_RES"
  <2>1. \A b : shl(b \cap {0, 1}, 8) \subseteq 8 .. 9
    BY DEF shl
  <2>2. x[R31] \in Byte8 /\ y[R31] \in Byte8 /\ z[R31] \in Byte8
    BY DEF Image, Addr
  <2>3. x[R31] \subseteq 0 .. 7 /\ y[R31] \subseteq 0 .. 7 /\ z[R31] \subseteq 0 .. 7
    BY <2>2 DEF Byte8
  <2> DEFINE hi(b) == shl(b \cap {0, 1}, 8)
  <2>4. \A w : server_get_reg_value(reg, w) = hi(w[R30]) \cup w[R31]
    BY <1>3 DEF server_get_reg_value, mt6701_abz_res_read_raw
  <2>5. \A b : hi(b) \subseteq 8 .. 9
    BY <2>1
  <2> HIDE DEF hi
  <2>6. hi(z[R30]) \in {hi(x[R30]), hi(y[R30])}
    BY <1>a
  <2>7. hi(x[R30]) \subseteq 8 .. 9 /\ hi(y[R30]) \subseteq 8 .. 9
    BY <2>5
  <2>8. Diff(hi(x[R30]) \cup x[R31], hi(z[R30]) \cup z[R31])
            \subseteq Diff(hi(x[R30]) \cup x[R31], hi(y[R30]) \cup y[R31])
    BY <1>a, <2>3, <2>6, <2>7 DEF Diff
  <2>9. QED
    BY <2>4, <2>8
<1>4. CASE reg = "HYST"
  <2>1. \A b : shl(b \cap {0}, 2) \subseteq {2}
    BY DEF shl
  <2> DEFINE hi(b) == shl(b \cap {0}, 2)
  <2>2. \A w : server_get_reg_value(reg, w) = hi(w[R32]) \cup (w[R34] \cap {0, 1})
    BY <1>4 DEF server_get_reg_value, mt6701_hyst_read_raw
  <2>3. \A b : hi(b) \cap {0, 1} = {}
    BY SMTT(30), <2>1
  <2> HIDE DEF hi
  <2>4. hi(z[R32]) \in {hi(x[R32]), hi(y[R32])}
    BY <1>b
  <2>5. hi(x[R32]) \cap {0, 1} = {} /\ hi(y[R32]) \cap {0, 1} = {}
    BY <2>3
  <2>6. Diff(hi(x[R32]) \cup (x[R34] \cap {0, 1}), hi(z[R32]) \cup (z[R34] \cap {0, 1}))
            \subseteq Diff(hi(x[R32]) \cup (x[R34] \cap {0, 1}), hi(y[R32]) \cup (y[R34] \cap {0, 1}))
    BY <1>b, <2>4, <2>5 DEF Diff
  <2>7. QED
    BY <2>2, <2>6
<1>5. CASE reg = "Z_PULSE_WIDTH"
  BY <1>5, <1>b DEF Diff, server_get_reg_value, mt6701_z_pulse_width_read_raw
<1>6. CASE reg = "PWM_FREQ"
  BY <1>6, <1>b DEF Diff, server_get_reg_value, mt6701_pwm_freq_read_raw
<1>7. QED
  BY <1>1, <1>2, <1>3, <1>4, <1>5, <1>6 DEF Conforming
=============================================================================
