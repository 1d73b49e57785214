------------------------------ MODULE Framing ------------------------------
(***************************************************************************)
(* The loop that finds packets in the bytes one read returned: the inner   *)
(* loop of the server's uart_event_task, which client/src/main.c repeats   *)
(* line for line.  buf and buf_len of the code are pos and Len(data) - pos.*)
(*                                                                         *)
(* Reads is the set of buffers a read may return, each with the offsets of *)
(* the packets in it that arrived whole (starts): what the peer sent, which*)
(* the code cannot see and the properties refer to.                        *)
(***************************************************************************)
EXTENDS Packets

CONSTANT Reads

\* Offset k of d holds a whole packet that the handlers do not ignore.
ValidAt(d, k) ==
    /\ Len(d) - k >= MIN_PKT_LEN
    /\ decoded_len(d, k) # 0
    /\ Accepts(decode_packet(d, k))

\* The whole packets are valid, and none begins before the previous one ends.
WholePackets(d, starts) ==
    /\ \A n \in 1 .. Len(starts) : ValidAt(d, starts[n])
    /\ \A m, n \in 1 .. Len(starts) :
           m < n => starts[m] + decoded_len(d, starts[m]) <= starts[n]

ASSUME ReadsAssumption ==
    \A r \in Reads : /\ r.data \in Seq(Byte)
                     /\ r.starts \in Seq(Nat)
                     /\ WholePackets(r.data, r.starts)

VARIABLES
    pc,       \* "read": about to read the port; "scan": in the inner loop
    data,     \* the bytes the last read returned
    starts,   \* where the peer's packets start in data
    pos,      \* how far the pointer buf has moved into data
    handled   \* the packets handlers did not ignore: offset and content

vars == <<pc, data, starts, pos, handled>>

Init ==
    /\ pc = "read"
    /\ data = <<>>
    /\ starts = <<>>
    /\ pos = 0
    /\ handled = <<>>

\* uart_read_bytes, or read: the pointer goes back to the start of the buffer.
ReadPort ==
    /\ pc = "read"
    /\ \E r \in Reads : data' = r.data /\ starts' = r.starts
    /\ pc' = "scan"
    /\ UNCHANGED <<pos, handled>>

\* Mutant: the length of the rest is one short.
LeftOffByOne == Len(data) - pos - 1

Left == Len(data) - pos

AtPacket == data[pos + 1] = PKT_HDR /\ decoded_len(data, pos) # 0

\* Mutant: buf++ is forgotten.
SkipByteStays ==
    /\ pc = "scan"
    /\ Left >= MIN_PKT_LEN
    /\ ~AtPacket
    /\ UNCHANGED vars

\* No header here, or not all of the packet is: go to the next byte.
SkipByte ==
    /\ pc = "scan"
    /\ Left >= MIN_PKT_LEN
    /\ ~AtPacket
    /\ pos' = pos + 1
    /\ UNCHANGED <<pc, data, starts, handled>>

\* Mutant: the pointer goes past an empty packet, whatever the packet's length.
TakePacketFixedLen ==
    /\ pc = "scan"
    /\ Left >= MIN_PKT_LEN
    /\ AtPacket
    /\ LET p == decode_packet(data, pos)
       IN  handled' = IF Accepts(p) THEN Append(handled, [at |-> pos, pkt |-> p])
                                    ELSE handled
    /\ pos' = pos + MIN_PKT_LEN
    /\ UNCHANGED <<pc, data, starts>>

\* A packet: hand it over, then go to the byte after it, handled or ignored.
TakePacket ==
    /\ pc = "scan"
    /\ Left >= MIN_PKT_LEN
    /\ AtPacket
    /\ LET p == decode_packet(data, pos)
       IN  handled' = IF Accepts(p) THEN Append(handled, [at |-> pos, pkt |-> p])
                                    ELSE handled
    /\ pos' = pos + decoded_len(data, pos)
    /\ UNCHANGED <<pc, data, starts>>

\* Mutant: the rest stays in front of the next buffer.
EndScanKeepsRest ==
    /\ pc = "scan"
    /\ Left < MIN_PKT_LEN
    /\ pc' = "read"
    /\ data' = <<>>
    /\ starts' = <<>>
    /\ pos' = -Left
    /\ handled' = <<>>

\* Too few bytes for a packet: the loop ends, and with it all it knew; the next
\* read overwrites the bytes that are left.
EndScan ==
    /\ pc = "scan"
    /\ Left < MIN_PKT_LEN
    /\ pc' = "read"
    /\ data' = <<>>
    /\ starts' = <<>>
    /\ pos' = 0
    /\ handled' = <<>>

Next == ReadPort \/ SkipByte \/ TakePacket \/ EndScan

\* The loop runs on: nothing in it blocks.  Reading again is up to the peer
\* (or, in the client, to the user).
Fairness == WF_vars(SkipByte \/ TakePacket \/ EndScan)

Spec == Init /\ [][Next]_vars /\ Fairness

-----------------------------------------------------------------------------
(***************************************************************************)
(* Properties                                                              *)
(***************************************************************************)

\* The types of the variables.
TypeOK ==
    /\ pc \in {"read", "scan"}
    /\ data \in Seq(Byte)
    /\ starts \in Seq(Nat)
    /\ pos \in Nat
    /\ handled \in Seq([at : Nat, pkt : Packet])

\* The offset after the n-th handled packet.
EndOf(n) == handled[n].at + decoded_len(data, handled[n].at)

\* The pointer never runs past the bytes that were read, and what the handlers
\* saw are valid packets of these bytes, in the order of the buffer, none
\* overlapping another: no byte is ever interpreted twice.
HandledDisjoint ==
    /\ pos <= Len(data)
    /\ \A n \in 1 .. Len(handled) :
           /\ ValidAt(data, handled[n].at)
           /\ handled[n].pkt = decode_packet(data, handled[n].at)
           /\ EndOf(n) <= (IF n < Len(handled) THEN handled[n + 1].at ELSE pos)

\* Byte i of data belongs to a whole packet of the peer.
InPacket(i) ==
    \E n \in 1 .. Len(starts) :
        starts[n] <= i /\ i < starts[n] + decoded_len(data, starts[n])

\* No header byte outside the peer's whole packets: console text, or the tail
\* of a packet whose beginning an earlier read took.
QuietGaps ==
    \A i \in 0 .. Len(data) - 1 : InPacket(i) \/ data[i + 1] # PKT_HDR

\* Noise without a header byte never costs a packet: when the loop ends, it has
\* handled the peer's whole packets, each once, in order, and nothing else.
QuietNoiseHarmless ==
    (pc = "scan" /\ Left < MIN_PKT_LEN /\ QuietGaps) =>
        /\ Len(handled) = Len(starts)
        /\ \A n \in 1 .. Len(starts) : handled[n].at = starts[n]

\* What the loop has handled when it ends depends on the bytes of this read only,
\* and is what packets_in says: the client and the server, which run the same
\* loop, agree on it, and no read leaves anything behind for the next.
ScanIsFunction ==
    (pc = "scan" /\ Left < MIN_PKT_LEN) =>
        packets_in(data, Byte) = [n \in 1 .. Len(handled) |-> handled[n].pkt]

\* The inner loop ends, whatever the bytes are: each turn consumes some.
ScanEnds == (pc = "scan") ~> (pc = "read")

\* server/main/main.c:219 and client/src/main.c:287, on the skip of one byte:
\* "if not a valid packet, advance pointer by 1 byte and try again".
RetryAtNextByte ==
    [][(pc = "scan" /\ Left >= MIN_PKT_LEN /\ ~ValidAt(data, pos))
            => pos' = pos + 1]_vars

=============================================================================
