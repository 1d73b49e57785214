----------------------------- MODULE MCFraming -----------------------------
(***************************************************************************)
(* Framing over every buffer of at most MaxPieces pieces, with the code's  *)
(* checksum: whole packets of both directions, and what a serial line may  *)
(* leave between them.                                                     *)
(***************************************************************************)
EXTENDS Framing, Crc16, SequencesExt

CONSTANTS MaxPieces, Noises  \* bounds of the buffers

\* What send_bytes of Packets returns when Crc is the code's checksum.
Sent(cmd, pld) ==
    LET bare == <<PKT_HDR, cmd, Len(pld)>> \o pld
    IN  bare \o crc_bytes(bare)

WholePieces == { [bytes |-> b, whole |-> TRUE] : b \in {
    Sent(0, <<>>),              \* READ_SENSOR request
    Sent(1, <<5>>),             \* READ_CONFIG request
    Sent(2, <<7, 0, 170>>),     \* WRITE_CONFIG, a header byte in the value
    Sent(0, <<170, 3>>)} }      \* READ_SENSOR response, likewise

\* Console text, and the tail of a packet cut by an earlier read.
QuietNoise == { <<69, 32>>, <<1, 5, 82>> }

\* A lone header, a packet cut after its length, one with a damaged length
\* (it now covers the 8 bytes that follow), one with a damaged command, and one
\* whose checksum is right but whose payload is longer than MAX_PLD_LEN.
LoudNoise == { <<PKT_HDR>>, <<PKT_HDR, 1, 1>>,
               [Sent(0, <<>>) EXCEPT ![3] = 8],
               [Sent(1, <<5>>) EXCEPT ![2] = 3],
               Sent(0, [i \in 1 .. 9 |-> 0]) }

Pieces == WholePieces \cup { [bytes |-> b, whole |-> FALSE] : b \in Noises }

Buffer(pieces) ==
    FoldLeft(LAMBDA acc, p :
                [data   |-> acc.data \o p.bytes,
                 starts |-> IF p.whole THEN Append(acc.starts, Len(acc.data))
                                       ELSE acc.starts],
             [data |-> <<>>, starts |-> <<>>], pieces)

MCReads == { Buffer(ps) : ps \in UNION { [1 .. n -> Pieces] : n \in 0 .. MaxPieces } }

\* The checksum of every byte string the loop may decode from these buffers,
\* computed once: TLC would compute it again in every state.
Bodies ==
    UNION { { SubSeq(r.data, k + 1, k + 3 + r.data[k + 3]) :
                 k \in { o \in 0 .. Len(r.data) - MIN_PKT_LEN :
                            /\ r.data[o + 1] = PKT_HDR
                            /\ decoded_len(r.data, o) \in 1 .. MAX_PKT_LEN } }
            : r \in MCReads }

CrcOf == [s \in Bodies |-> crc_bytes(s)]

MCCrc(s) == CrcOf[s]

\* Each of the 256 entries of the table is what eight shifts make of a byte, and
\* the step that looks it up is the step that shifts.
ASSUME TableIsPolynomial ==
    /\ \A byte \in 0 .. 255 : crc16_tab[byte + 1] = crc16_shifts(0, byte)
    /\ \A byte \in 0 .. 255, cksum \in {0, 1, \h1021, \h8000, \hAA55, \hFFFF} :
           crc16_step(cksum, byte) = crc16_shifts(cksum, byte)

\* A packet of up to two payload bytes is refused whichever bits of one byte of
\* it, other than the header and the length, are damaged.
ASSUME DamageDetected ==
    \A good \in { Sent(0, <<>>), Sent(1, <<5>>), Sent(0, <<170, 3>>) } :
        \A i \in {2} \cup 4 .. Len(good) - 1, bits \in 1 .. 255 :
            LET bad == [good EXCEPT ![i] = @ ^^ bits]
            IN  crc_bytes(SubSeq(bad, 1, Len(bad) - 2)) # SubSeq(bad, Len(bad) - 1, Len(bad))

MCNoises == QuietNoise \cup LoudNoise
=============================================================================
