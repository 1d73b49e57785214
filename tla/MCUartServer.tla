---------------------------- MODULE MCUartServer ----------------------------
(***************************************************************************)
(* Instances of UartServer for TLC.  The checksum here is a sum: a much    *)
(* weaker one than the code's, and fast.                                   *)
(***************************************************************************)
EXTENDS UartServer, SequencesExt

MCCrc(s) ==
    << FoldLeft(LAMBDA a, b : (a + b) % 256, 0, s),
       FoldLeft(LAMBDA a, b : (3 * a + b) % 256, 255, s) >>

Sensor == [cmd |-> READ_SENSOR, pld |-> <<>>]
Config == [cmd |-> READ_CONFIG, pld |-> <<4>>]
Write  == [cmd |-> WRITE_CONFIG, pld |-> <<HYST, 0, PKT_HDR>>]

MCRequests == {Sensor, Config, Write}
=============================================================================
