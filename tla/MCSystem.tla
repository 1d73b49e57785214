------------------------------ MODULE MCSystem ------------------------------
(***************************************************************************)
(* Instances of System for TLC.                                            *)
(***************************************************************************)
EXTENDS System, SequencesExt

MCCrc(s) ==
    << FoldLeft(LAMBDA a, b : (a + b) % 256, 0, s),
       FoldLeft(LAMBDA a, b : (3 * a + b) % 256, 255, s) >>

Line(cmd, args) == [cmd |-> cmd, args |-> args]

\* HYST is read, under the number 0x105, and written twice, once out of range; so
\* are the two fields that share the byte with it; a command that sends nothing.
MCLines == { Line("ang", <<>>), Line("reg", <<261>>), Line("wreg", <<5, 1194>>),
             Line("wreg", <<5, 5>>), Line("wreg", <<6, 204>>), Line("wreg", <<7, 4095>>),
             Line("auto", <<>>), Line("wreg", <<5>>) }

\* HYST 3, Z_PULSE_WIDTH 5, ZERO 0x23.
MCFactory == [a \in Addr |-> CASE a = R32 -> {1, 3, 5} [] a = R33 -> {0, 1} [] a = R34 -> {0, 1} [] OTHER -> {}]

\* An angle whose low byte is a header byte, and a voltage.
MCMeasured == [c \in ReadCmds \ {READ_CONFIG} |->
                  IF c = READ_SENSOR THEN <<5, PKT_HDR>> ELSE <<64, 40, 0, 0, 0, 0, 0, 1>>]

MCLogText == <<69, 32>>
=============================================================================
