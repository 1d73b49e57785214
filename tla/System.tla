------------------------------- MODULE System -------------------------------
(***************************************************************************)
(* Client and server together.  The server's side of the line is reduced   *)
(* to what UartServer is shown to implement, RequestQueue: it serves some  *)
(* of the requests, in order, each in one step (Mt6701 has the steps).     *)
(* Its answers, and the text that ESP-IDF logs when an I2C call fails, go  *)
(* out on the same UART and come in at the client in pieces, whenever they *)
(* come.                                                                   *)
(***************************************************************************)
EXTENDS Client, Mt6701Regs

CONSTANTS
    Factory,    \* the registers of the MT6701 at first
    Measured,   \* the payload of the answer to each of the other commands
    LogText,    \* what the console prints
    Chunks,     \* how many bytes arrive at once
    MaxFailures \* bound: the requests during which I2C calls fail

ASSUME FactoryAssumption == Factory \in Image
ASSUME LineAssumption ==
    /\ Measured \in [ReadCmds \ {READ_CONFIG} -> Seq(Byte)]
    /\ \A cmd \in ReadCmds \ {READ_CONFIG} : Len(Measured[cmd]) <= MAX_PLD_LEN
    /\ LogText \in Seq(Byte)
    /\ Chunks \subseteq Nat \ {0} /\ MaxFailures \in Nat

VARIABLES
    served,    \* the positions in sent of the requests that were served
    regs,      \* the registers of the MT6701
    tx,        \* bytes the server has written and the line not yet delivered
    answered,  \* history: the responses sent
    spoiled,   \* history: those that came to the client with others' bytes in
               \* between, in two reads, or behind a stray header byte
    failures   \* requests so far during which I2C calls failed

server == <<served, regs, tx, answered, failures>>
vars == <<client, server, spoiled>>

Queue == INSTANCE RequestQueue WITH
    Requests <- [cmd : {WRITE_CONFIG} \cup ReadCmds, pld : Seq(Byte)]

Init ==
    /\ ClientInit
    /\ served = <<>> /\ regs = Factory /\ tx = <<>> /\ answered = <<>>
    /\ spoiled = {} /\ failures = 0

value(pld) == pld[2] * 256 + pld[3]

\* enum ConfigReg, from 0.
ConfigReg == <<"UVW_MUX", "ABZ_MUX", "DIR", "UVW_RES", "ABZ_RES", "HYST", "Z_PULSE_WIDTH",
               "ZERO", "PWM_FREQ", "PWM_POL", "OUT_MODE", "A_START", "A_STOP">>

\* The field that a READ_CONFIG or WRITE_CONFIG names.
field(r) == IF r.pld[1] < Len(ConfigReg) THEN ConfigReg[r.pld[1] + 1] ELSE "none"

\* The register writes of a WRITE_CONFIG whose read has found the image m.
writes_of(r, m) == server_set_reg_value(field(r), m, word(value(r.pld)))

\* The payload of the response to r, the registers read being m.
reply(r, m) ==
    IF r.cmd = READ_CONFIG
    THEN LET val == number(server_get_reg_value(field(r), m))
         IN  <<r.pld[1], val \div 256, val % 256>>
    ELSE Measured[r.cmd]

\* The same when the I2C call has failed: zeroes in place of what was read.
zeroed(r) ==
    IF r.cmd = READ_CONFIG THEN reply(r, ZeroImage) ELSE [i \in DOMAIN Measured[r.cmd] |-> 0]

tagged(bs, k) == [i \in 1 .. Len(bs) |-> [byte |-> bs[i], of |-> k, at |-> i]]

\* server_send_packet, behind the bytes out.
Respond(r, pld, out) ==
    /\ answered' = Append(answered, request(r.cmd, pld))
    /\ tx' = out \o tagged(send_bytes(r.cmd, pld), Len(answered) + 1)

\* server_handle_packet for the n-th request; its I2C calls succeed.
Serve(n) ==
    /\ Queue!Serve(n)
    /\ LET r == sent[n]
       IN  \/ /\ r.cmd = WRITE_CONFIG
              /\ regs' = Applied(regs, writes_of(r, regs))
              /\ UNCHANGED <<tx, answered>>
           \/ /\ r.cmd \in ReadCmds
              /\ Respond(r, reply(r, regs), tx)
              /\ UNCHANGED regs
    /\ UNCHANGED <<tty, shown, auto_send, running, spoiled, failures>>

\* What may arrive of some parts: of each all, or what comes before some address.
Arrivals(parts) ==
    LET some(i) == Beginnings(parts[i]) \cup {parts[i]}
    IN  { ps \in [DOMAIN parts -> UNION { some(i) : i \in DOMAIN parts }] :
            \A i \in DOMAIN parts : ps[i] \in some(i) }

\* I2C calls fail and are logged, anywhere among the bytes still to go out.  A
\* write goes on with zeroes if it could not read, and any of its parts may arrive
\* in part (a save that fails is left to Mt6701); a response says zero.
ServeFailing(n) ==
    /\ failures < MaxFailures
    /\ Queue!Serve(n)
    /\ failures' = failures + 1
    /\ \E i \in 0 .. Len(tx) :
           LET r == sent[n]
               out == SubSeq(tx, 1, i) \o tagged(LogText, 0) \o SubSeq(tx, i + 1, Len(tx))
           IN  \/ /\ r.cmd = WRITE_CONFIG /\ field(r) \in Regs
                  /\ \E m \in {regs, ZeroImage} : \E parts \in Arrivals(writes_of(r, m)) :
                         regs' = Applied(regs, parts)
                  /\ tx' = out
                  /\ UNCHANGED answered
               \/ /\ r.cmd \in ReadCmds /\ (r.cmd = READ_CONFIG => field(r) \in Regs)
                  /\ Respond(r, zeroed(r), out)
                  /\ UNCHANGED regs
    /\ UNCHANGED <<tty, shown, auto_send, running, spoiled>>

\* The line delivers some bytes.
Arrive ==
    /\ tx # <<>>
    /\ \E c \in Chunks :
           LET n == IF c < Len(tx) THEN c ELSE Len(tx)
           IN  /\ tty' = tty \o SubSeq(tx, 1, n)
               /\ tx' = SubSeq(tx, n + 1, Len(tx))
    /\ UNCHANGED <<sent, shown, auto_send, running, served, regs, answered, failures, spoiled>>

-----------------------------------------------------------------------------
(***************************************************************************)
(* What a read spoils                                                      *)
(***************************************************************************)

\* The first n bytes of the k-th response follow byte i of a read.
At(k, n, i, read) == \A j \in 1 .. n : read[i + j].of = k /\ read[i + j].at = j

Size(k) == MIN_PKT_LEN + Len(answered[k].pld)

\* The k-th response is in the bytes of a read, whole and in one piece.
Intact(k, read) == \E i \in 0 .. Len(read) - Size(k) : At(k, Size(k), i, read)

\* Byte i is a header byte that belongs to no such response.
Stray(i, read) ==
    read[i].byte = PKT_HDR /\ (read[i].of = 0 \/ ~Intact(read[i].of, read))

Spoils(read) ==
    { read[j].of : j \in { j \in 1 .. Len(read) :
          /\ read[j].of # 0
          /\ ~Intact(read[j].of, read) \/ \E i \in 1 .. j - 1 : Stray(i, read) } }

Read ==
    /\ ReadPort
    /\ UNCHANGED server
    /\ spoiled' = spoiled \cup Spoils(Available)

Next ==
    \/ \E l \in Lines : Command(l) /\ UNCHANGED <<server, spoiled>>
    \/ Read
    \/ EndOfInput /\ UNCHANGED <<server, spoiled>>
    \/ \E n \in 1 .. Len(sent) : Serve(n) \/ ServeFailing(n)
    \/ Arrive

\* Bytes on the line arrive, and the user goes on hitting the return key: a step
\* that takes bytes from the port is a Read.
Fairness == WF_tx(Arrive) /\ WF_tty(TakeAvailable)

Spec == Init /\ [][Next]_vars /\ Fairness

-----------------------------------------------------------------------------
(***************************************************************************)
(* Properties                                                              *)
(***************************************************************************)

Response == [cmd : ReadCmds, pld : Seq(Byte)]

Tagged == [byte : Byte, of : Nat, at : Nat]

\* The types of the variables.
TypeOK ==
    /\ tty \in Seq(Tagged) /\ tx \in Seq(Tagged)
    /\ sent \in Seq([cmd : {WRITE_CONFIG} \cup ReadCmds, pld : Seq(Byte)])
    /\ shown \in Seq(Response) /\ answered \in Seq(Response)
    /\ auto_send \in BOOLEAN /\ running \in BOOLEAN
    /\ served \in Seq(1 .. Len(sent))
    /\ regs \in Image
    /\ spoiled \subseteq 1 .. Len(answered)
    /\ failures \in 0 .. MaxFailures

\* Each element of s is R-related to one of t, in the same order, and none of t
\* to two.
Embeds(s, t, R(_, _)) ==
    \E f \in [1 .. Len(s) -> 1 .. Len(t)] :
        /\ \A i \in 1 .. Len(s) : R(s[i], t[f[i]])
        /\ \A i, j \in 1 .. Len(s) : i < j => f[i] < f[j]

Equal(p, q) == p = q

\* No packet is made up: what the client's next read will hand to its handler as
\* valid are responses, each byte of them, although text and the tails of other
\* responses may come before, after or in between.
NothingMadeUp ==
    LET d == bytes_of(Available)
    IN  \A k \in 0 .. Len(d) - MIN_PKT_LEN :
            decoded_len(d, k) # 0 /\ Handles(decode_packet(d, k), ReadCmds)
                => \E n \in 1 .. Len(answered) : At(n, decoded_len(d, k), k, Available)

\* The client prints only responses that the server sent, each at most once and
\* in order, however the line cuts them and whatever is logged in between.
ShownWereAnswered == Embeds(shown, answered, Equal)

\* The responses of which bytes are still on their way, or at the port.
Underway == { tty[i].of : i \in 1 .. Len(tty) } \cup { tx[i].of : i \in 1 .. Len(tx) }

\* Those that have all come in and were not spoiled.
Sound == 1 .. Len(answered) \ (spoiled \cup Underway)

\* Nothing else is lost: a response that a read returned in one piece, with no
\* stray header byte before it, has been printed, whatever earlier reads cut, and
\* in the order of answering.
SoundAreShown ==
    \E f \in [Sound -> 1 .. Len(shown)] :
        /\ \A k \in Sound : shown[f[k]] = answered[k]
        /\ \A j, k \in Sound : j < k => f[j] < f[k]

\* The positions, before the n-th, of the requests to write field reg.
WritesBefore(n, reg) ==
    { i \in 1 .. n - 1 : sent[i].cmd = WRITE_CONFIG /\ field(sent[i]) = reg }

\* The fields of which the n-th request can expect what was written: those whose
\* write function inverts their read function, but neither of the two resolutions
\* if the other one has been written, with which it shares bits.
Dependable(n) ==
    { reg \in Conforming :
        reg \in Overlap => \A other \in Overlap \ {reg} : WritesBefore(n, other) = {} }

\* The values that reading field reg may give if that is the n-th request: the one
\* written last, cut to the field's width, or, if requests have been lost, one of
\* those written before.
Readable(n, reg) ==
    LET lossless == \A i \in 1 .. Len(served) : served[i] = i
    IN  { Truncated(reg, word(value(sent[i].pld))) : i \in { i \in WritesBefore(n, reg) :
                    lossless => \A j \in WritesBefore(n, reg) : j <= i } }
        \cup IF lossless /\ WritesBefore(n, reg) # {} THEN {}
             ELSE {server_get_reg_value(reg, Factory)}

\* p may be what the n-th request makes the client print.
Answers(p, n) ==
    /\ sent[n].cmd = p.cmd
    /\ IF p.cmd # READ_CONFIG THEN p.pld = Measured[p.cmd]
       ELSE /\ p.pld[1] = sent[n].pld[1]
            /\ field(sent[n]) \in Dependable(n)
                  => \E val \in Readable(n, field(sent[n])) :
                         p.pld[2] * 256 + p.pld[3] = number(val)
            /\ field(sent[n]) \notin Regs => p.pld[2] = 0 /\ p.pld[3] = 0

\* The user reads what the user has written: what is printed answers requests of
\* the user, in order, and a dependable field has the value that was last written
\* to it before the question, whatever was written to the fields beside it - or an
\* earlier one, if requests were lost.  Nothing is said of the value of the seven
\* other fields, which do not read back what was written (Mt6701Encoding), nor of
\* the two resolutions once both have been written (Mt6701Overlap).  An I2C call
\* that fails ends it for all: zeroes look like values.
ShownAsTyped ==
    failures = 0 => Embeds(shown, [n \in 1 .. Len(sent) |-> n], Answers)

\* README.md:91, "you should spam \n a few times to get the response": as long as
\* the user does, nothing stays on its way, so that every response is printed
\* (SoundAreShown) or was spoiled.
ResponsesArrive == []<>(~running \/ (tx = <<>> /\ tty = <<>>))
=============================================================================
