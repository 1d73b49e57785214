----------------------------- MODULE Mt6701Regs -----------------------------
(***************************************************************************)
(* Where i2c_control.c finds the configuration fields in the registers of  *)
(* the MT6701, and what its write functions send.  A byte or a word is the *)
(* set of its one bits, so that & is \cap, | is \cup and & ~mask is \.     *)
(*                                                                         *)
(* m is the register image a function has read into buff: all zero bytes   *)
(* when the read failed, since buff is cleared and the error only logged.  *)
(* A write function yields the sequence of its mt6701_reg_write calls, each *)
(* a function from register addresses to the bytes that go there.          *)
(***************************************************************************)
EXTENDS Integers, Sequences

Word == SUBSET (0 .. 15)
Byte8 == SUBSET (0 .. 7)

shl(x, n) == { b + n : b \in x }
shr(x, n) == { b - n : b \in { c \in x : c >= n } }
uint8(x) == { b \in x : b < 8 }

\* The number that a set of at most 32 bits stands for.
bit(x, i, weight) == IF i \in x THEN weight ELSE 0
byte_at(x, i) ==
    bit(x, i, 1) + bit(x, i + 1, 2) + bit(x, i + 2, 4) + bit(x, i + 3, 8)
    + bit(x, i + 4, 16) + bit(x, i + 5, 32) + bit(x, i + 6, 64) + bit(x, i + 7, 128)
number(x) == byte_at(x, 0) + 2^8 * byte_at(x, 8) + 2^16 * byte_at(x, 16) + 2^24 * byte_at(x, 24)

\* The word of a number below 2^16.
word(n) == { b \in 0 .. 15 : (n \div 2^b) % 2 = 1 }

\* Registers 0x25, 0x29, 0x30 .. 0x34, 0x38, 0x3E .. 0x40.
R25 == 37
R29 == 41
R30 == 48
R31 == 49
R32 == 50
R33 == 51
R34 == 52
R38 == 56
R3E == 62
R3F == 63
R40 == 64
Addr == {R25, R29, R30, R31, R32, R33, R34, R38, R3E, R3F, R40}

Image == [Addr -> Byte8]
ZeroImage == [a \in Addr |-> {}]

\* One mt6701_reg_write call; the address counts up over the bytes sent.
write1(reg_addr, b) == [a \in {reg_addr} |-> b]
write2(reg_addr, b, c) == [a \in {reg_addr, reg_addr + 1} |-> IF a = reg_addr THEN b ELSE c]

\* The registers once a part has arrived.
put(m, part) == [a \in Addr |-> IF a \in DOMAIN part THEN part[a] ELSE m[a]]

\* The registers once all the parts of a write function (two at most) have
\* arrived.
Applied(m, ps) ==
    IF Len(ps) = 0 THEN m
    ELSE IF Len(ps) = 1 THEN put(m, ps[1])
    ELSE put(put(m, ps[1]), ps[2])

\* What is left of a part whose transaction fails on the way: the bytes before
\* some address.
Beginnings(part) ==
    { [a \in { b \in DOMAIN part : b < k } |-> part[a]] : k \in DOMAIN part }

mt6701_uvw_mux_read_raw(m) == m[R25] \cap {0}
mt6701_uvw_mux_write_raw(m, v) ==
    << write1(R25, (m[R25] \ {0}) \cup (uint8(v) \cap {0})) >>

mt6701_abz_mux_read_raw(m) == shr(m[R29] \cap {1}, 1)
mt6701_abz_mux_write_raw(m, v) ==
    << write1(R29, (m[R29] \ {1}) \cup (uint8(v) \cap {1})) >>

mt6701_dir_read_raw(m) == shr(m[R29] \cap {6}, 6)
mt6701_dir_write_raw(m, v) ==
    << write1(R29, uint8((m[R29] \ {6}) \cup shl(uint8(v) \cap {6}, 6))) >>

mt6701_uvw_res_read_raw(m) == m[R30] \cap 0 .. 3
mt6701_uvw_res_write_raw(m, v) ==
    << write1(R30, (m[R30] \ 0 .. 3) \cup (uint8(v) \cap 0 .. 3)) >>

mt6701_abz_res_read_raw(m) == shl(m[R30] \cap {0, 1}, 8) \cup m[R31]
mt6701_abz_res_write_raw(m, v) ==
    << write2(R30, (m[R30] \ {0, 1}) \cup (shr(v, 8) \cap {0, 1}), uint8(v)) >>

mt6701_hyst_read_raw(m) == shl(m[R32] \cap {0}, 2) \cup (m[R34] \cap {0, 1})

\* Mutant: the high bit of the code is shifted by one too few.
mt6701_hyst_write_raw_shift1(m, v) ==
    << write1(R32, (m[R32] \ {0}) \cup (shr(uint8(v), 1) \cap {0})),
       write1(R34, (m[R34] \ {0, 1}) \cup (uint8(v) \cap {0, 1})) >>

\* Both halves are computed from the one read at the start.
mt6701_hyst_write_raw(m, v) ==
    << write1(R32, (m[R32] \ {0}) \cup (shr(uint8(v), 2) \cap {0})),
       write1(R34, (m[R34] \ {0, 1}) \cup (uint8(v) \cap {0, 1})) >>

mt6701_z_pulse_width_read_raw(m) == shr(m[R32] \cap 1 .. 3, 1)

\* Mutant: the shifted code is not masked.
mt6701_z_pulse_width_write_raw_unmasked(m, v) ==
    << write1(R32, (m[R32] \ 1 .. 3) \cup uint8(shl(uint8(v), 1))) >>

\* Mutant: nor is it cut to a byte.
mt6701_z_pulse_width_write_raw_wide(m, v) ==
    << write1(R32, (m[R32] \ 1 .. 3) \cup shl(uint8(v), 1)) >>

mt6701_z_pulse_width_write_raw(m, v) ==
    << write1(R32, (m[R32] \ 1 .. 3) \cup (shl(uint8(v), 1) \cap 1 .. 3)) >>

mt6701_zero_read_raw(m) == shr(m[R32] \cap 4 .. 7, 4) \cup m[R33]
mt6701_zero_write_raw(m, v) ==
    << write2(R32, (m[R32] \cap 0 .. 5) \cup (shl(v, 4) \cap 4 .. 7), uint8(v)) >>

mt6701_pwm_freq_read_raw(m) == m[R38] \cap {0}
mt6701_pwm_freq_write_raw(m, v) ==
    << write1(R38, (m[R38] \ {0}) \cup (uint8(v) \cap {0})) >>

mt6701_pwm_pol_read_raw(m) == m[R38] \cap {1}
mt6701_pwm_pol_write_raw(m, v) ==
    << write1(R38, (m[R38] \ {1}) \cup (uint8(v) \cap {1})) >>

mt6701_out_mode_read_raw(m) == m[R38] \cap {2}
mt6701_out_mode_write_raw(m, v) ==
    << write1(R38, (m[R38] \ {2}) \cup (uint8(v) \cap {2})) >>

mt6701_a_stop_read_raw(m) == shl(m[R3E] \cap 0 .. 3, 8) \cup m[R40]

\* The second half writes the byte it has read ("#TODO: possible bug").
mt6701_a_stop_write_raw(m, v) ==
    << write1(R3E, (m[R3E] \ 0 .. 3) \cup (shr(v, 8) \cap 0 .. 3)),
       write1(R40, m[R40]) >>

mt6701_a_start_read_raw(m) == shr(m[R3E] \cap 4 .. 7, 4) \cup m[R3F]

\* scode is a uint8_t, so its upper half is 0; the two masks of buff[1] leave
\* nothing of the byte that was read.
mt6701_a_start_write_raw(m, v) ==
    LET scode == uint8(v)
        first == (m[R3E] \ 0 .. 3) \cup (shr(scode, 8) \cap 0 .. 3)
    IN  << write2(R3E, (first \cap 0 .. 3) \cup (shl(scode, 4) \cap 4 .. 7), scode) >>

Regs == {"UVW_MUX", "ABZ_MUX", "DIR", "UVW_RES", "ABZ_RES", "HYST", "Z_PULSE_WIDTH",
         "ZERO", "PWM_FREQ", "PWM_POL", "OUT_MODE", "A_START", "A_STOP"}

server_get_reg_value(reg, m) ==
    CASE reg = "UVW_MUX"       -> mt6701_uvw_mux_read_raw(m)
      [] reg = "ABZ_MUX"       -> mt6701_abz_mux_read_raw(m)
      [] reg = "DIR"           -> mt6701_dir_read_raw(m)
      [] reg = "UVW_RES"       -> mt6701_uvw_res_read_raw(m)
      [] reg = "ABZ_RES"       -> mt6701_abz_res_read_raw(m)
      [] reg = "HYST"          -> mt6701_hyst_read_raw(m)
      [] reg = "Z_PULSE_WIDTH" -> mt6701_z_pulse_width_read_raw(m)
      [] reg = "ZERO"          -> mt6701_zero_read_raw(m)
      [] reg = "PWM_FREQ"      -> mt6701_pwm_freq_read_raw(m)
      [] reg = "PWM_POL"       -> mt6701_pwm_pol_read_raw(m)
      [] reg = "OUT_MODE"      -> mt6701_out_mode_read_raw(m)
      [] reg = "A_START"       -> mt6701_a_start_read_raw(m)
      [] reg = "A_STOP"        -> mt6701_a_stop_read_raw(m)
      [] OTHER                 -> {}

\* The register writes that server_set_reg_value makes, none for an unknown reg.
server_set_reg_value(reg, m, val) ==
    CASE reg = "UVW_MUX"       -> mt6701_uvw_mux_write_raw(m, val)
      [] reg = "ABZ_MUX"       -> mt6701_abz_mux_write_raw(m, val)
      [] reg = "DIR"           -> mt6701_dir_write_raw(m, val)
      [] reg = "UVW_RES"       -> mt6701_uvw_res_write_raw(m, val)
      [] reg = "ABZ_RES"       -> mt6701_abz_res_write_raw(m, val)
      [] reg = "HYST"          -> mt6701_hyst_write_raw(m, val)
      [] reg = "Z_PULSE_WIDTH" -> mt6701_z_pulse_width_write_raw(m, val)
      [] reg = "ZERO"          -> mt6701_zero_write_raw(m, val)
      [] reg = "PWM_FREQ"      -> mt6701_pwm_freq_write_raw(m, val)
      [] reg = "PWM_POL"       -> mt6701_pwm_pol_write_raw(m, val)
      [] reg = "OUT_MODE"      -> mt6701_out_mode_write_raw(m, val)
      [] reg = "A_START"       -> mt6701_a_start_write_raw(m, val)
      [] reg = "A_STOP"        -> mt6701_a_stop_write_raw(m, val)
      [] OTHER                 -> <<>>

\* The widths of the fields as the comments of i2c_control.c give them
\* ("ABZ_RES[9:0]"), and what is left of a value that is out of range.
Width(reg) ==
    CASE reg \in {"UVW_MUX", "ABZ_MUX", "DIR", "PWM_FREQ", "PWM_POL", "OUT_MODE"} -> 1
      [] reg \in {"HYST", "Z_PULSE_WIDTH"}    -> 3
      [] reg = "UVW_RES"                      -> 4
      [] reg = "ABZ_RES"                      -> 10
      [] reg \in {"ZERO", "A_START", "A_STOP"} -> 12

Truncated(reg, val) == { b \in val : b < Width(reg) }

\* The fields whose write function inverts their read function.
Conforming == {"UVW_MUX", "UVW_RES", "ABZ_RES", "HYST", "Z_PULSE_WIDTH", "PWM_FREQ"}

\* The two resolutions share two bits, according to the code.
Overlap == {"UVW_RES", "ABZ_RES"}
=============================================================================
