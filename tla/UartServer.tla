----------------------------- MODULE UartServer -----------------------------
(***************************************************************************)
(* The server's task uart_event_task, the UART driver in front of it and   *)
(* the client's bytes on the line.  The driver (external) moves bytes from *)
(* the line into its ring buffer in chunks and posts an event for each; it *)
(* drops events when the queue is full and bytes when its buffers are.     *)
(* While the task works off a buffer - up to 1.3 s for one WRITE_CONFIG -  *)
(* the driver goes on.                                                     *)
(***************************************************************************)
EXTENDS Packets, FiniteSets

CONSTANTS
    Requests,    \* the requests the client may send, each once: [cmd, pld]
    BufLen,      \* the buffer of one read (tx_rx_buf_len)
    Chunks,      \* how many bytes the driver takes from its FIFO at once
    RingCap,     \* what the driver holds before bytes get lost
    QueueLen,    \* the event queue
    MaxJunk,     \* events other than data and overflow: breaks, frame errors
    MaxResets,   \* resets of the ESP32
    ShortWrites, \* how much of a packet a write that accepts less may accept
    SlowLine     \* whether gaps of more than 100 ms occur inside a packet

HYST   == 5
A_STOP == 12

ASSUME RequestsAssumption ==
    /\ Requests \subseteq [cmd : 0 .. READ_POWER, pld : Seq(Byte)]
    /\ \A r \in Requests : /\ Len(r.pld) <= MAX_PLD_LEN
                           /\ r.cmd = READ_CONFIG => Len(r.pld) >= 1
                           /\ r.cmd = WRITE_CONFIG => Len(r.pld) >= 3
ASSUME SizesAssumption ==
    /\ Chunks \subseteq Nat \ {0} /\ ShortWrites \subseteq Nat \ {0}
    /\ BufLen \in Nat /\ RingCap \in Nat /\ QueueLen \in Nat \ {0}
    /\ MaxJunk \in Nat /\ MaxResets \in Nat /\ SlowLine \in BOOLEAN
    /\ MIN_PKT_LEN <= BufLen /\ MIN_PKT_LEN <= RingCap
    /\ \A c \in Chunks : c <= BufLen  \* the FIFO holds 128 bytes, a read 512

VARIABLES
    sent,     \* the requests the client has sent
    line,     \* bytes on their way
    ring,     \* bytes the driver holds
    events,   \* the event queue
    foreign,  \* history: how many of its places events of other types than data have
              \* taken at most at one time, since the driver was installed
    pc,       \* the task: "wait", "check", "read", "parse", "eeprom"
    buf,      \* what the current read has returned so far
    pos,      \* how far the task has parsed it
    waits,    \* EEPROM waits of the current WRITE_CONFIG still to come
    served,   \* the requests that were served: answered or written
    taken,    \* history: bytes the task has read
    cut,      \* history: a read or a write has ended inside a packet, or bytes
              \* were lost
    junk,     \* events other than data and overflow so far
    resets,   \* resets so far
    marks     \* history: which byte of which request those in buf, in ring and on
              \* the line are

task == <<pc, buf, pos, waits, served, taken>>
driver == <<ring, events, foreign>>
vars == <<sent, line, driver, task, cut, junk, resets, marks>>

Init ==
    /\ sent = <<>> /\ line = <<>> /\ ring = <<>> /\ events = <<>> /\ foreign = 0
    /\ pc = "wait" /\ buf = <<>> /\ pos = 0 /\ waits = 0
    /\ served = <<>> /\ taken = 0
    /\ cut = FALSE /\ junk = 0 /\ resets = 0 /\ marks = <<>>

-----------------------------------------------------------------------------
(***************************************************************************)
(* The client and the driver                                               *)
(***************************************************************************)

least(a, b) == IF a < b THEN a ELSE b
greatest(a, b) == IF a < b THEN b ELSE a

Among(s) == { s[i] : i \in 1 .. Len(s) }

\* client_send_packet: one write.  The port does not block, and may accept only
\* the beginning of the packet; the result is compared with 0 only.
Send(r) ==
    LET bytes == send_bytes(r.cmd, r.pld)
    IN  /\ r \notin Among(sent)
        /\ sent' = Append(sent, r)
        /\ \E n \in {Len(bytes)} \cup { m \in ShortWrites : m < Len(bytes) } :
               /\ line' = line \o SubSeq(bytes, 1, n)
               /\ marks' = marks \o [j \in 1 .. n |-> [of |-> Len(sent) + 1, at |-> j]]
               /\ cut' = (cut \/ n < Len(bytes))
        /\ UNCHANGED <<driver, task, junk, resets>>

DataAt(e) == { i \in 1 .. Len(e) : e[i] = "data" }
DataEvents(e) == Cardinality(DataAt(e))

\* The driver posts from its interrupt: an event that finds no room is lost.
Post(type) ==
    /\ events' = IF Len(events) < QueueLen THEN Append(events, type) ELSE events
    /\ foreign' = greatest(foreign, Len(events') - DataEvents(events'))

RxChunk ==
    /\ line # <<>>
    /\ Len(ring) < RingCap
    /\ \E c \in Chunks :
           LET n == least(c, least(Len(line), RingCap - Len(ring)))
           IN  /\ ring' = ring \o SubSeq(line, 1, n)
               /\ line' = SubSeq(line, n + 1, Len(line))
    /\ Post("data")
    /\ UNCHANGED <<sent, task, cut, junk, resets, marks>>

\* The ring buffer and the FIFO behind it are full.
RxOverflow ==
    /\ Len(ring) = RingCap
    /\ line # <<>>
    /\ line' = Tail(line)
    /\ LET n == Len(buf) + Len(ring)
       IN  marks' = SubSeq(marks, 1, n) \o SubSeq(marks, n + 2, Len(marks))
    /\ Post("overflow")
    /\ cut' = TRUE
    /\ UNCHANGED <<sent, ring, task, junk, resets>>

RxJunk ==
    /\ junk < MaxJunk
    /\ junk' = junk + 1
    /\ Post("junk")
    /\ UNCHANGED <<sent, line, ring, task, cut, resets, marks>>

-----------------------------------------------------------------------------
(***************************************************************************)
(* The task                                                                *)
(***************************************************************************)

\* Mutant: an event of another type flushes the queue.
ReceiveEventSkipsBacklog ==
    /\ pc = "wait"
    /\ events # <<>>
    /\ events' = IF Head(events) = "data" THEN Tail(events) ELSE <<>>
    /\ pc' = IF Head(events) = "data" THEN "check" ELSE "wait"
    /\ UNCHANGED <<sent, line, ring, foreign, buf, pos, waits, served, taken, cut, junk, resets, marks>>

\* xQueueReceive; events of any other type are passed over.
ReceiveEvent ==
    /\ pc = "wait"
    /\ events # <<>>
    /\ events' = Tail(events)
    /\ pc' = IF Head(events) = "data" THEN "check" ELSE "wait"
    /\ UNCHANGED <<sent, line, ring, foreign, buf, pos, waits, served, taken, cut, junk, resets, marks>>

\* Mutant: the buffered length must be more than the shortest packet's.
CheckBufferedOffByOne ==
    /\ pc = "check"
    /\ pc' = IF Len(ring) <= MIN_PKT_LEN THEN "wait" ELSE "read"
    /\ UNCHANGED <<sent, line, driver, buf, pos, waits, served, taken, cut, junk, resets, marks>>

\* uart_get_buffered_data_len: not worth a read yet, or start one.
CheckBuffered ==
    /\ pc = "check"
    /\ pc' = IF Len(ring) < MIN_PKT_LEN THEN "wait" ELSE "read"
    /\ UNCHANGED <<sent, line, driver, buf, pos, waits, served, taken, cut, junk, resets, marks>>

\* uart_read_bytes takes what there is, up to the buffer's length ...
ReadSome ==
    /\ pc = "read"
    /\ ring # <<>>
    /\ Len(buf) < BufLen
    /\ LET n == least(Len(ring), BufLen - Len(buf))
       IN  /\ buf' = buf \o SubSeq(ring, 1, n)
           /\ ring' = SubSeq(ring, n + 1, Len(ring))
           /\ taken' = taken + n
    /\ UNCHANGED <<sent, line, events, foreign, pc, pos, waits, served, cut, junk, resets, marks>>

\* The bytes of the first n packets that were sent.
Boundary[n \in Nat] ==
    IF n = 0 THEN 0 ELSE Boundary[n - 1] + MIN_PKT_LEN + Len(sent[n].pld)

\* ... and returns when the buffer is full or nothing has come for 100 ms.
ReadDone ==
    /\ pc = "read"
    /\ \/ Len(buf) = BufLen
       \/ ring = <<>> /\ (line = <<>> \/ SlowLine)
    /\ pc' = "parse"
    /\ pos' = 0
    /\ cut' = (cut \/ \A n \in 0 .. Len(sent) : taken # Boundary[n])
    /\ UNCHANGED <<sent, line, driver, buf, waits, served, taken, junk, resets, marks>>

Left == Len(buf) - pos

AtPacket == buf[pos + 1] = PKT_HDR /\ decoded_len(buf, pos) # 0

SkipByte ==
    /\ pc = "parse"
    /\ Left >= MIN_PKT_LEN
    /\ ~AtPacket
    /\ pos' = pos + 1
    /\ UNCHANGED <<sent, line, driver, pc, buf, waits, served, taken, cut, junk, resets, marks>>

\* How often server_set_reg_value waits for the EEPROM: split writes do twice,
\* an unknown reg is not written.
EepromWaits(reg) ==
    IF reg \in {HYST, A_STOP} THEN 2 ELSE IF reg <= A_STOP THEN 1 ELSE 0

\* Mutant: a WRITE_CONFIG starts the parsing over after its waits.
TakePacketAgain ==
    /\ pc = "parse"
    /\ Left >= MIN_PKT_LEN
    /\ AtPacket
    /\ LET p == decode_packet(buf, pos)
           write == Accepts(p) /\ p.cmd = WRITE_CONFIG
           n == IF write THEN EepromWaits(p.pld[1]) ELSE 0
       IN  /\ served' = IF Accepts(p) /\ p.cmd \in ReadCmds \cup {WRITE_CONFIG}
                        THEN Append(served, [cmd |-> p.cmd, pld |-> p.pld])
                        ELSE served
           /\ waits' = n
           /\ pc' = IF n > 0 THEN "eeprom" ELSE "parse"
           /\ pos' = IF n > 0 THEN 0 ELSE pos + decoded_len(buf, pos)
    /\ UNCHANGED <<sent, line, driver, buf, taken, cut, junk, resets, marks>>

\* server_handle_packet and the step to the next packet: a reading request is
\* answered at once, a WRITE_CONFIG carried out, everything else ignored.
TakePacket ==
    /\ pc = "parse"
    /\ Left >= MIN_PKT_LEN
    /\ AtPacket
    /\ LET p == decode_packet(buf, pos)
           write == Accepts(p) /\ p.cmd = WRITE_CONFIG
           n == IF write THEN EepromWaits(p.pld[1]) ELSE 0
       IN  /\ served' = IF Accepts(p) /\ p.cmd \in ReadCmds \cup {WRITE_CONFIG}
                        THEN Append(served, [cmd |-> p.cmd, pld |-> p.pld])
                        ELSE served
           /\ waits' = n
           /\ pc' = IF n > 0 THEN "eeprom" ELSE "parse"
    /\ pos' = pos + decoded_len(buf, pos)
    /\ UNCHANGED <<sent, line, driver, buf, taken, cut, junk, resets, marks>>

\* Mutant: one wait too many.
EepromWaitOnceMore ==
    /\ pc = "eeprom"
    /\ waits' = waits - 1
    /\ pc' = IF waits >= 0 THEN "eeprom" ELSE "parse"
    /\ UNCHANGED <<sent, line, driver, buf, pos, served, taken, cut, junk, resets, marks>>

\* mt6701_eeprom_write_wait.
EepromWait ==
    /\ pc = "eeprom"
    /\ waits' = waits - 1
    /\ pc' = IF waits > 1 THEN "eeprom" ELSE "parse"
    /\ UNCHANGED <<sent, line, driver, buf, pos, served, taken, cut, junk, resets, marks>>

\* Too few bytes are left for a packet: they are forgotten.
EndParse ==
    /\ pc = "parse"
    /\ Left < MIN_PKT_LEN
    /\ pc' = "wait"
    /\ buf' = <<>>
    /\ pos' = 0
    /\ marks' = SubSeq(marks, Len(buf) + 1, Len(marks))
    /\ UNCHANGED <<sent, line, driver, waits, served, taken, cut, junk, resets>>

\* A reset of the ESP32: app_main installs the driver anew and starts the task.
Reset ==
    /\ resets < MaxResets
    /\ resets' = resets + 1
    /\ ring' = <<>> /\ events' = <<>> /\ foreign' = 0
    /\ pc' = "wait" /\ buf' = <<>> /\ pos' = 0 /\ waits' = 0
    /\ cut' = TRUE
    /\ marks' = SubSeq(marks, Len(buf) + Len(ring) + 1, Len(marks))
    /\ UNCHANGED <<sent, line, served, taken, junk>>

Task ==
    \/ ReceiveEvent \/ CheckBuffered \/ ReadSome \/ ReadDone
    \/ SkipByte \/ TakePacket \/ EepromWait \/ EndParse

Next ==
    \/ \E r \in Requests : Send(r)
    \/ RxChunk
    \/ RxOverflow
    \/ RxJunk
    \/ Task
    \/ Reset

\* The task runs on, and bytes on the line arrive.
Fairness == WF_vars(Task) /\ WF_vars(RxChunk)

Spec == Init /\ [][Next]_vars /\ Fairness

-----------------------------------------------------------------------------
(***************************************************************************)
(* Properties                                                              *)
(***************************************************************************)

\* The types of the variables.
TypeOK ==
    /\ sent \in Seq(Requests)
    /\ line \in Seq(Byte) /\ ring \in Seq(Byte) /\ buf \in Seq(Byte)
    /\ Len(ring) <= RingCap /\ Len(buf) <= BufLen /\ Len(events) <= QueueLen
    /\ events \in Seq({"data", "overflow", "junk"}) /\ foreign \in 0 .. QueueLen
    /\ pc \in {"wait", "check", "read", "parse", "eeprom"}
    /\ pos \in 0 .. Len(buf)
    /\ waits \in 0 .. 2
    /\ served \in Seq([cmd : Byte, pld : Seq(Byte)])
    /\ taken \in Nat /\ junk \in 0 .. MaxJunk /\ resets \in 0 .. MaxResets
    /\ cut \in BOOLEAN
    /\ marks \in Seq([of : Nat, at : Nat])

\* No packet is made up: what is handled are the bytes of one request, from the
\* first to the last.
NothingMadeUp ==
    pc = "parse" /\ Left >= MIN_PKT_LEN /\ AtPacket
        /\ Handles(decode_packet(buf, pos), ReadCmds \cup {WRITE_CONFIG})
    => \E n \in 1 .. Len(sent) :
           \A j \in 1 .. decoded_len(buf, pos) : marks[pos + j] = [of |-> n, at |-> j]

\* The position of a request in sent, 0 if it is not there.
SentAs(r) == IF r \in Among(sent) THEN CHOOSE n \in 1 .. Len(sent) : sent[n] = r ELSE 0

Queue == INSTANCE RequestQueue WITH
    served <- [i \in 1 .. Len(served) |-> SentAs(served[i])]

\* Whatever is lost on the way, no request is repeated, overtaken by a later
\* one, put together from the pieces of two, or served before it was sent.
ImplementsRequestQueue == Queue!Spec

\* As long as every read and every write ends between two packets, nothing is left
\* out: the requests served are the first ones sent, as many as there are packets
\* in the bytes that were worked off - whatever the checksum, and however often the
\* task slept, was woken for nothing or waited for the EEPROM in between.
UncutServesAll ==
    cut \/ \E n \in 0 .. Len(sent) : served = SubSeq(sent, 1, n) /\ taken - Left = Boundary[n]

\* The places that events of other types have left suffice to read all that the
\* driver can hold.  (In the code it holds 512 bytes and its FIFO 128, a read takes
\* 512, and the queue has 16 places: others may take 14 of them.)
PlacesSuffice == RingCap <= (QueueLen - foreign) * BufLen + MIN_PKT_LEN - 1

\* The task does not sleep on a packet: with no event to wake it up, the driver
\* holds less than one - whatever was cut, lost or reset before, and however many
\* events were dropped - unless events of other types have taken too many places
\* of the queue at one time.  Then, as when it is full of overflows, the task passes
\* over all of them and sleeps on a full ring.
NoLostWakeup == (pc = "wait" /\ events = <<>> /\ PlacesSuffice) => Len(ring) < MIN_PKT_LEN

\* server/main/main.c:200, "FreeRTOS task to watch incoming data stream and
\* parse it", and README.md:79, "It constantly listents for incoming packets on
\* UART port 0 ... and responds accordingly": every request is served.
EveryRequestServed ==
    \A r \in Requests : (r \in Among(sent)) ~> (r \in Among(served))

\* The same as long as every read and every write ends between two packets.
\* (Each request is sent once: all are served if and only if the server catches
\* up again and again.)
UncutRequestsServed == []<>(cut \/ Among(sent) \subseteq Among(served))
=============================================================================
