------------------------------ MODULE Packets ------------------------------
(***************************************************************************)
(* The packet codec that client and server share (shared/src/shared.c).    *)
(* A byte buffer is a sequence of bytes; a C pointer into it is an offset, *)
(* so the byte the code calls buf[i] is d[k + i + 1] when buf points k     *)
(* bytes into d.  The checksum is a parameter: the codec only compares it. *)
(* Module Crc16 defines the one the code computes.                         *)
(***************************************************************************)
EXTENDS Integers, Sequences

CONSTANT Crc(_)  \* the two checksum bytes of a byte sequence, high one first

Byte == 0 .. 255

PKT_HDR     == 170
MIN_PKT_LEN == 5
MAX_PKT_LEN == 13
MAX_PLD_LEN == 8

\* Commands; all but WRITE_CONFIG ask for a reading, and have it in the response.
READ_SENSOR   == 0
READ_CONFIG   == 1
WRITE_CONFIG  == 2
READ_VBUS     == 3
READ_DIETEMP  == 4
READ_VSHUNT   == 5
READ_CURRENT  == 6
READ_POWER    == 7
ReadCmds == {READ_SENSOR, READ_CONFIG} \cup READ_VBUS .. READ_POWER

\* the payload length is len: the C struct points to at least len bytes
Packet == [hdr : Byte, cmd : Byte, len : Byte, pld : Seq(Byte), crc : Byte \X Byte]

\* Bytes written for p into a buffer of buf_len bytes; <<>> stands for failure.
encode_packet(p, buf_len) ==
    IF buf_len < MIN_PKT_LEN + p.len
    THEN <<>>
    ELSE <<p.hdr, p.cmd, p.len>> \o p.pld \o p.crc

\* Number of bytes of the packet at offset k of d; 0 stands for failure.
decoded_len(d, k) ==
    LET buf_len == Len(d) - k
    IN  IF buf_len < MIN_PKT_LEN \/ buf_len < MIN_PKT_LEN + d[k + 3]
        THEN 0
        ELSE MIN_PKT_LEN + d[k + 3]

\* The packet itself, when decoded_len(d, k) # 0.
decode_packet(d, k) ==
    LET len == d[k + 3]
    IN  [hdr |-> d[k + 1], cmd |-> d[k + 2], len |-> len,
         pld |-> SubSeq(d, k + 4, k + 3 + len),
         crc |-> <<d[k + 4 + len], d[k + 5 + len]>>]

check_crc(d) ==
    /\ Len(d) >= 3
    /\ <<d[Len(d) - 1], d[Len(d)]>> = Crc(SubSeq(d, 1, Len(d) - 2))

check_packet_crc(p) ==
    LET buf == encode_packet(p, MAX_PKT_LEN)
    IN  buf # <<>> /\ check_crc(buf)

\* Mutant: the checksum is not compared.
AcceptsUnchecked(p) == p.hdr = PKT_HDR /\ p.len <= MAX_PLD_LEN

\* The first line of server_handle_packet and of client_handle_packet: the
\* packets that are not ignored.  (A decoded payload pointer is never null.)
Accepts(p) == p.hdr = PKT_HDR /\ check_packet_crc(p)

\* A packet that is handled: accepted, and of a command that the handler knows.
Handles(p, cmds) == Accepts(p) /\ p.cmd \in cmds

\* What the inner loop of both programs makes of the bytes d of one read, with buf
\* pointing k bytes into d: the packets that are handled, in order.
packets_from(d, cmds) ==
    LET from[k \in 0 .. Len(d)] ==
            IF Len(d) - k < MIN_PKT_LEN
            THEN <<>>
            ELSE IF d[k + 1] # PKT_HDR \/ decoded_len(d, k) = 0
            THEN from[k + 1]
            ELSE (IF Handles(decode_packet(d, k), cmds) THEN <<decode_packet(d, k)>> ELSE <<>>)
                     \o from[k + decoded_len(d, k)]
    IN  from

packets_in(d, cmds) == packets_from(d, cmds)[0]

\* client_send_packet and server_send_packet: encode, then fill in the checksum.
send_bytes(cmd, pld) ==
    LET bare == <<PKT_HDR, cmd, Len(pld)>> \o pld
    IN  bare \o Crc(bare)
=============================================================================
