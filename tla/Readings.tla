------------------------------ MODULE Readings ------------------------------
(***************************************************************************)
(* One reading after the other, from the bytes a device holds to the value *)
(* the client prints: the I2C read, the server's payload, the client's     *)
(* conversion.  In between, a program on the server may write a field back *)
(* through the functions in units.                                         *)
(*                                                                         *)
(* The doubles of the INA228 commands travel as the 8 bytes they have in   *)
(* memory, which both machines order alike: one element of the payload.    *)
(***************************************************************************)
EXTENDS Units

CONSTANTS
    Images,     \* what the registers of the MT6701 may hold at first
    Asked,      \* the registers that READ_CONFIG names
    Rewritten,  \* the registers that are written back in units
    Bytes       \* a byte of an angle or of the INA228

ASSUME ImagesAssumption == Images \subseteq Image
ASSUME RewrittenAssumption == Rewritten \subseteq Regs \ {"ZERO", "A_START", "A_STOP"}
ASSUME BytesAssumption == Bytes \subseteq Byte8

VARIABLES
    pc,      \* the next step: "ask", "answer", "show", "prompt"
    m,       \* the registers of the MT6701
    ask,     \* the request: cmd, reg, and the bytes that the command reads
    failed,  \* its I2C transaction fails
    pld,     \* the payload of the response
    shown    \* what the client prints

vars == <<pc, m, ask, failed, pld, shown>>

NoAsk == [cmd |-> "none", reg |-> "none", holds |-> <<>>]
Nothing == Reading(0, "none")

Init ==
    /\ pc = "ask"
    /\ m \in Images
    /\ ask = NoAsk
    /\ failed = FALSE
    /\ pld = <<>>
    /\ shown = Nothing

Asks ==
    [cmd : {"READ_CONFIG"}, reg : Asked, holds : {<<>>}]
        \cup [cmd : {"READ_SENSOR", "READ_DIETEMP"}, reg : {"none"}, holds : Bytes \X Bytes]
        \cup [cmd : {"READ_VBUS", "READ_VSHUNT", "READ_CURRENT", "READ_POWER"},
              reg : {"none"}, holds : Bytes \X Bytes \X Bytes]

Ask ==
    /\ pc = "ask"
    /\ pc' = "answer"
    /\ ask' \in Asks
    /\ failed' \in BOOLEAN
    /\ UNCHANGED <<m, pld, shown>>

\* DDDDDDDD XXDDDDDD
mt6701_sensor_read_raw(b) == shl(b[1], 6) \cup (b[2] \cap 0 .. 5)

\* (uint8_t)(mt6701_val >> 8), (uint8_t)(mt6701_val & 0xFF)
bytes(w) == <<shr(w, 8), uint8(w)>>

\* What server_handle_packet sends.  A failed read leaves the cleared buffer as
\* it was.
Response ==
    LET b == IF failed THEN [i \in DOMAIN ask.holds |-> {}] ELSE ask.holds
        image == IF failed THEN ZeroImage ELSE m
    IN  CASE ask.cmd = "READ_SENSOR"  -> bytes(mt6701_sensor_read_raw(b))
          [] ask.cmd = "READ_CONFIG"  -> <<ask.reg>> \o bytes(server_get_reg_value(ask.reg, image))
          [] ask.cmd = "READ_VBUS"    -> <<ina228_read_vbus(b)>>
          [] ask.cmd = "READ_DIETEMP" -> <<ina228_read_dietemp(b)>>
          [] ask.cmd = "READ_VSHUNT"  -> <<ina228_read_vshunt(b)>>
          [] ask.cmd = "READ_CURRENT" -> <<ina228_read_current(b)>>
          [] ask.cmd = "READ_POWER"   -> <<ina228_read_power(b)>>

Answer ==
    /\ pc = "answer"
    /\ pc' = "show"
    /\ pld' = Response
    /\ UNCHANGED <<m, ask, failed, shown>>

\* ((uint16_t)hi << 8) | lo
code(hi, lo) == number(shl(hi, 8) \cup lo)

\* What client_handle_packet prints.
Printed ==
    CASE ask.cmd = "READ_SENSOR" -> Reading(code(pld[1], pld[2]), "360/16384")
      [] ask.cmd = "READ_CONFIG" ->
             Reading(client_convert_reg_value(pld[1], code(pld[2], pld[3])), "unit")
      [] OTHER -> pld[1]

Show ==
    /\ pc = "show"
    /\ pc' = "prompt"
    /\ shown' = Printed
    /\ UNCHANGED <<m, ask, failed, pld>>

\* The client's loop starts over.
Prompt ==
    /\ pc = "prompt"
    /\ pc' = "ask"
    /\ ask' = NoAsk
    /\ failed' = FALSE
    /\ pld' = <<>>
    /\ shown' = Nothing
    /\ UNCHANGED m

\* Writing a field back as it reads, in units.
WritesBack(reg) ==
    LET value == mt6701_log_eeprom(m)[reg]
    IN  CASE reg = "UVW_MUX"       -> mt6701_uvw_mux_write(m, value)
          [] reg = "ABZ_MUX"       -> mt6701_abz_mux_write(m, value)
          [] reg = "DIR"           -> mt6701_dir_write(m, value)
          [] reg = "UVW_RES"       -> mt6701_uvw_res_write(m, value)
          [] reg = "ABZ_RES"       -> mt6701_abz_res_write(m, value)
          [] reg = "HYST"          -> mt6701_hyst_write(m, value)
          [] reg = "Z_PULSE_WIDTH" -> mt6701_z_pulse_width_write(m, value)
          [] reg = "PWM_FREQ"      -> mt6701_pwm_freq_write(m, value)
          [] reg = "PWM_POL"       -> mt6701_pwm_pol_write(m, value)
          [] reg = "OUT_MODE"      -> mt6701_out_mode_write(m, value)

WriteBack ==
    /\ pc = "ask"
    /\ \E reg \in Rewritten : m' = Applied(m, WritesBack(reg))
    /\ UNCHANGED <<pc, ask, failed, pld, shown>>

Next == Ask \/ Answer \/ Show \/ Prompt \/ WriteBack

Spec == Init /\ [][Next]_vars

-----------------------------------------------------------------------------
(***************************************************************************)
(* Properties                                                              *)
(***************************************************************************)

Steps(size) ==
    CASE size = "unit"      -> 0 .. 2^12 * 78
      [] size = "360/16384" -> 0 .. 2^14 - 1
      [] size = "7.8125e-3" -> 0 .. 2^16 - 1
      [] size = "78.125e-6" -> -(2^19) .. 2^24 - 1
      [] size \in {"195.3125e-6", "0.000391"} -> -(2^19) .. 2^19 - 1
      [] OTHER -> {0}

\* The types of the variables: what is shown is in the range of its register.
TypeOK ==
    /\ pc \in {"ask", "answer", "show", "prompt"}
    /\ m \in Image
    /\ ask \in Asks \cup {NoAsk}
    /\ failed \in BOOLEAN
    /\ shown.steps \in Steps(shown.size)

Answered(cmds) == pc = "prompt" /\ ~failed /\ ask.cmd \in cmds

\* What the device means, in arithmetic: two's complement, 20 bits at the top of
\* 24, for the three signed readings, an unsigned number for the power, 14 bits
\* for the angle.
Meant ==
    LET n == [i \in DOMAIN ask.holds |-> number(ask.holds[i])]
        top20 == n[1] * 4096 + n[2] * 16 + n[3] \div 16
        signed20 == IF top20 >= 2^19 THEN top20 - 2^20 ELSE top20
    IN  CASE ask.cmd = "READ_SENSOR"  -> (n[1] * 64) + (n[2] % 64)
          [] ask.cmd = "READ_DIETEMP" -> n[1] * 256 + n[2]
          [] ask.cmd = "READ_POWER"   -> n[1] * 65536 + n[2] * 256 + n[3]
          [] OTHER                    -> signed20

BelowZero == ask.cmd = "READ_DIETEMP" /\ 7 \in ask.holds[1]

\* The client shows as many steps as the device holds, and with its sign, whatever
\* the bits: across the I2C read, the shifts, the payload and the client's side.
\* How large a step is, is not compared: nothing in the repository says what it
\* should be.  Temperatures below zero are the exception.
ReadingsExact ==
    (Answered({"READ_SENSOR", "READ_VBUS", "READ_DIETEMP", "READ_VSHUNT",
               "READ_CURRENT", "READ_POWER"}) /\ ~BelowZero) => shown.steps = Meant

\* The two conversions from codes to units, the client's and the one in
\* i2c_control.c, agree on every field but PWM_FREQ.
ConfigAgrees ==
    (Answered({"READ_CONFIG"}) /\ ask.reg \in Regs \ {"PWM_FREQ"}) =>
        shown.steps = mt6701_log_eeprom(m)[ask.reg]

\* Writing a field back as it reads leaves every field with the value it had,
\* its own (whose code may change: HYST 7 and 0 are both 1 LSB) and those that
\* share a byte with it.
WriteBackHarmless ==
    [][\A reg \in Regs : mt6701_log_eeprom(m')[reg] = mt6701_log_eeprom(m)[reg]]_vars

-----------------------------------------------------------------------------
(***************************************************************************)
(* The configuration according to the comments of i2c_control.c            *)
(***************************************************************************)

\* n bits of register a, from bit lo on, are the code's bits from bit first on.
Span(first, a, lo, n) == { <<first + i, a, lo + i>> : i \in 0 .. n - 1 }

\* "UVW_MUX (Address 0x25[7])" and so on, above each write function.
DocumentedBits(reg) ==
    CASE reg = "UVW_MUX"       -> Span(0, R25, 7, 1)
      [] reg = "ABZ_MUX"       -> Span(0, R29, 6, 1)
      [] reg = "DIR"           -> Span(0, R29, 1, 1)
      [] reg = "UVW_RES"       -> Span(0, R30, 4, 4)
      [] reg = "ABZ_RES"       -> Span(8, R30, 0, 2) \cup Span(0, R31, 0, 8)
      [] reg = "HYST"          -> Span(2, R32, 7, 1) \cup Span(0, R34, 6, 2)
      [] reg = "Z_PULSE_WIDTH" -> Span(0, R32, 4, 3)
      [] reg = "ZERO"          -> Span(8, R32, 0, 4) \cup Span(0, R33, 0, 8)
      [] reg = "PWM_FREQ"      -> Span(0, R38, 7, 1)
      [] reg = "PWM_POL"       -> Span(0, R38, 6, 1)
      [] reg = "OUT_MODE"      -> Span(0, R38, 5, 1)
      [] reg = "A_STOP"        -> Span(8, R3E, 4, 4) \cup Span(0, R40, 0, 8)
      [] reg = "A_START"       -> Span(8, R3E, 0, 4) \cup Span(0, R3F, 0, 8)

\* The tables that follow them: "0xFFF 359.912" degrees is 4095 / 4096 of a turn.
DocumentedValue(reg, n) ==
    CASE reg \in {"UVW_RES", "ABZ_RES"} -> n + 1
      [] reg = "HYST"                   -> <<4, 8, 16, 32, 0, 1, 2, 4>>[n + 1]
      [] reg = "Z_PULSE_WIDTH"          -> <<1, 2, 4, 8, 12, 16, 180, 1>>[n + 1]
      [] reg = "PWM_FREQ"               -> <<9944, 4972>>[n + 1]
      [] reg \in {"ZERO", "A_START", "A_STOP"} -> (n * 360000 + 2048) \div 4096
      [] OTHER                          -> n

\* server/components/i2c_control/i2c_control.c:118-122, 540-544 and the like above
\* the other write functions: where the field is, and what its codes stand for.
ConfigAsDocumented ==
    (Answered({"READ_CONFIG"}) /\ ask.reg \in Regs) =>
        LET n == number({ t[1] : t \in { u \in DocumentedBits(ask.reg) : u[3] \in m[u[2]] } })
        IN  shown.steps = DocumentedValue(ask.reg, n)
=============================================================================
