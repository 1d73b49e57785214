----------------------------- MODULE MCReadings -----------------------------
(***************************************************************************)
(* Instances of Readings for TLC.                                          *)
(***************************************************************************)
EXTENDS Readings

\* Every half byte, twice in each register, and in 0x34 once as it is and once
\* complemented: every code of each field of at most four bits.
MCImages ==
    UNION { LET p == half \cup shl(half, 4)
            IN  { [a \in Addr |-> IF a = R34 THEN q ELSE p] : q \in {p, 0 .. 7 \ p} }
            : half \in SUBSET (0 .. 3) }

\* All registers with the same bits in mirrored places, and with others.
SomeImages == { [a \in Addr |-> 0 .. 7], [a \in Addr |-> {0, 1, 2}] }

AllRegs == Regs \cup {"unknown"}

\* The fields whose write function inverts their read function, and two that are
\* read and written in place.
MCRewritten == {"UVW_MUX", "UVW_RES", "ABZ_RES", "HYST", "Z_PULSE_WIDTH", "PWM_FREQ",
                "PWM_POL", "OUT_MODE"}

\* 0, 0xFF, the sign bit, all others, and both ends of a nibble.
MCBytes == { {}, 0 .. 7, {7}, 0 .. 6, {0, 3, 4} }
=============================================================================
