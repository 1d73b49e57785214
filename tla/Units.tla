------------------------------- MODULE Units -------------------------------
(***************************************************************************)
(* The same configuration fields in units: the functions of i2c_control.c  *)
(* that convert between a field and its unit, and the client's conversion  *)
(* of the code it receives.  Units are whole numbers here: a quarter of an *)
(* LSB for the hysteresis, 0.1 Hz for the frequency, 0.001 degrees for an  *)
(* angle, and the unit itself elsewhere.  m is the register image.         *)
(***************************************************************************)
EXTENDS Mt6701Regs, SequencesExt

\* The position of the first entry of table that is v, counted from 0; 0 if none
\* is: an else-if chain.
code_of(table, v) ==
    LET at == SelectInSeq(table, LAMBDA e : e = v) IN IF at = 0 THEN 0 ELSE at - 1

-----------------------------------------------------------------------------
(***************************************************************************)
(* i2c_control.c, MT6701                                                   *)
(***************************************************************************)

hyst_values == <<4, 8, 16, 32, 0, 1, 2, 4>>
z_pulse_width_values == <<1, 2, 4, 8, 12, 16, 180, 1>>
pwm_freq_values == <<9944, 4972>>

mt6701_uvw_mux_read(m) == number(mt6701_uvw_mux_read_raw(m))
mt6701_abz_mux_read(m) == number(mt6701_abz_mux_read_raw(m))
mt6701_dir_read(m) == number(mt6701_dir_read_raw(m))
mt6701_uvw_res_read(m) == (number(mt6701_uvw_res_read_raw(m)) + 1) % 2^8
mt6701_abz_res_read(m) == (number(mt6701_abz_res_read_raw(m)) + 1) % 2^16
mt6701_hyst_read(m) == hyst_values[number(mt6701_hyst_read_raw(m)) + 1]
mt6701_z_pulse_width_read(m) ==
    z_pulse_width_values[number(mt6701_z_pulse_width_read_raw(m)) + 1]
mt6701_zero_read(m) == number(mt6701_zero_read_raw(m)) * 78
mt6701_pwm_freq_read(m) == pwm_freq_values[number(mt6701_pwm_freq_read_raw(m)) + 1]
mt6701_pwm_pol_read(m) == number(mt6701_pwm_pol_read_raw(m))
mt6701_out_mode_read(m) == number(mt6701_out_mode_read_raw(m))
mt6701_a_start_read(m) == number(mt6701_a_start_read_raw(m)) * 78
mt6701_a_stop_read(m) == number(mt6701_a_stop_read_raw(m)) * 78

\* The three angles have no write here: value / 0.078 is cut to a whole number,
\* which for some codes is one below the code whose angle value is.
mt6701_uvw_mux_write(m, value) == mt6701_uvw_mux_write_raw(m, word(value))
mt6701_abz_mux_write(m, value) == mt6701_abz_mux_write_raw(m, word(value))
mt6701_dir_write(m, value) == mt6701_dir_write_raw(m, word(value))
mt6701_uvw_res_write(m, value) == mt6701_uvw_res_write_raw(m, word(value - 1))

\* Mutant: the resolution is written as it is.
mt6701_abz_res_write_same(m, value) == mt6701_abz_res_write_raw(m, word(value))

mt6701_abz_res_write(m, value) == mt6701_abz_res_write_raw(m, word(value - 1))
mt6701_hyst_write(m, value) ==
    mt6701_hyst_write_raw(m, word(code_of(hyst_values, value)))
mt6701_z_pulse_width_write(m, value) ==
    mt6701_z_pulse_width_write_raw(m, word(code_of(z_pulse_width_values, value)))
mt6701_pwm_freq_write(m, value) ==
    mt6701_pwm_freq_write_raw(m, word(code_of(pwm_freq_values, value)))
mt6701_pwm_pol_write(m, value) == mt6701_pwm_pol_write_raw(m, word(value))
mt6701_out_mode_write(m, value) == mt6701_out_mode_write_raw(m, word(value))

\* Every field in units, and in codes.
mt6701_log_eeprom(m) ==
    [reg \in Regs |->
        CASE reg = "UVW_MUX"       -> mt6701_uvw_mux_read(m)
          [] reg = "ABZ_MUX"       -> mt6701_abz_mux_read(m)
          [] reg = "DIR"           -> mt6701_dir_read(m)
          [] reg = "UVW_RES"       -> mt6701_uvw_res_read(m)
          [] reg = "ABZ_RES"       -> mt6701_abz_res_read(m)
          [] reg = "HYST"          -> mt6701_hyst_read(m)
          [] reg = "Z_PULSE_WIDTH" -> mt6701_z_pulse_width_read(m)
          [] reg = "ZERO"          -> mt6701_zero_read(m)
          [] reg = "PWM_FREQ"      -> mt6701_pwm_freq_read(m)
          [] reg = "PWM_POL"       -> mt6701_pwm_pol_read(m)
          [] reg = "OUT_MODE"      -> mt6701_out_mode_read(m)
          [] reg = "A_STOP"        -> mt6701_a_stop_read(m)
          [] reg = "A_START"       -> mt6701_a_start_read(m)]

-----------------------------------------------------------------------------
(***************************************************************************)
(* The client: val is the received code                                    *)
(***************************************************************************)

lookup(table, val) == IF val < Len(table) THEN table[val + 1] ELSE 0

conver_hyst(val) == lookup(<<4, 8, 16, 32, 0, 1, 2, 4>>, val)

\* Mutant: two entries change places.
convert_z_pulse_width_swapped(val) == lookup(<<1, 2, 4, 8, 16, 12, 180, 1>>, val)

convert_z_pulse_width(val) == lookup(<<1, 2, 4, 8, 12, 16, 180, 1>>, val)

client_convert_reg_value(reg, val) ==
    CASE reg \in {"UVW_MUX", "ABZ_MUX", "DIR", "PWM_POL", "OUT_MODE"} -> val
      [] reg \in {"UVW_RES", "ABZ_RES"}        -> val + 1
      [] reg = "HYST"                          -> conver_hyst(val)
      [] reg = "Z_PULSE_WIDTH"                 -> convert_z_pulse_width(val)
      [] reg \in {"ZERO", "A_START", "A_STOP"} -> val * 78
      [] reg = "PWM_FREQ"                      -> IF val # 0 THEN 9944 ELSE 4972
      [] OTHER                                 -> 0

-----------------------------------------------------------------------------
(***************************************************************************)
(* The INA228: b is the sequence of bytes read, {} for each when the read  *)
(* failed.  A reading is a number of steps of a size.                      *)
(***************************************************************************)

raw24(b) == shl(b[1], 16) \cup shl(b[2], 8) \cup b[3]

\* 32-bit shifts: to the left, and to the right with the sign.
shl32(x, n) == { i \in shl(x, n) : i < 32 }
sar32(x, n) == shr(x, n) \cup IF 31 \in x THEN 32 - n .. 31 ELSE {}
int32(x) == IF 31 \in x THEN -1 - number(0 .. 31 \ x) ELSE number(x)

ina228_read_vshunt_raw(b) == int32(sar32(shl32(shr(raw24(b), 4), 12), 12))

\* Mutant: the shift to the right fills in zeroes.
ina228_read_vbus_raw_unsigned(b) == int32(shr(shl32(shr(raw24(b), 4), 12), 12))

ina228_read_vbus_raw(b) == int32(sar32(shl32(shr(raw24(b), 4), 12), 12))

\* Mutant: the four unused bits stay in.
ina228_read_current_raw_unaligned(b) == int32(sar32(shl32(raw24(b), 12), 12))

ina228_read_current_raw(b) == int32(sar32(shl32(shr(raw24(b), 4), 12), 12))
ina228_read_dietemp_raw(b) == number(shl(b[1], 8) \cup b[2])
ina228_read_power_raw(b) == number(raw24(b))

Reading(steps, size) == [steps |-> steps, size |-> size]

\* ADCRANGE is 1, CURRENT_LSB 0.000391.
ina228_read_vshunt(b) == Reading(ina228_read_vshunt_raw(b), "78.125e-6")
ina228_read_vbus(b) == Reading(ina228_read_vbus_raw(b), "195.3125e-6")
ina228_read_current(b) == Reading(ina228_read_current_raw(b), "0.000391")
ina228_read_dietemp(b) == Reading(ina228_read_dietemp_raw(b), "7.8125e-3")
ina228_read_power(b) == Reading(ina228_read_power_raw(b), "78.125e-6")
=============================================================================
