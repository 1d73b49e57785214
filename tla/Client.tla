------------------------------- MODULE Client -------------------------------
(***************************************************************************)
(* The main loop of client/src/main.c: one line of the user is one turn.   *)
(* A command sends a request; an empty line reads the port once, without   *)
(* waiting, and shows the packets in what has come so far.                 *)
(*                                                                         *)
(* A line is its first token and the numbers that follow, NotHex for a     *)
(* token that is none.  The port holds bytes, each with the number of the  *)
(* response it belongs to (0: none) and its place in it, neither of which  *)
(* the client sees.                                                        *)
(***************************************************************************)
EXTENDS Packets

CONSTANTS
    Lines,    \* the lines the user may type: [cmd, args]
    ReadLen,  \* how much one read takes
    MaxSent   \* bound: the requests in one behaviour

NotHex == -1

ASSUME LinesAssumption == \A l \in Lines : l.args \in Seq(Nat \cup {NotHex})
ASSUME LimitsAssumption == ReadLen \in Nat /\ MaxSent \in Nat

VARIABLES
    tty,        \* bytes that have arrived at the port: [byte, of, at]
    sent,       \* the requests the client has sent
    shown,      \* what it has printed: the packets [cmd, pld]
    auto_send,  \* an empty line also sends two requests
    running

client == <<tty, sent, shown, auto_send, running>>

ClientInit ==
    /\ tty = <<>>
    /\ sent = <<>>
    /\ shown = <<>>
    /\ auto_send = FALSE
    /\ running = TRUE

\* The commands without arguments.
plain == [ang |-> READ_SENSOR, vbus |-> READ_VBUS, dietemp |-> READ_DIETEMP,
          vshunt |-> READ_VSHUNT, curr |-> READ_CURRENT, pow |-> READ_POWER]

request(cmd, pld) == [cmd |-> cmd, pld |-> pld]

\* sv_tolh succeeds on the first n arguments.
Numbers(l, n) == Len(l.args) >= n /\ \A i \in 1 .. n : l.args[i] # NotHex

\* The requests a command sends: one, or none if it is unknown or incomplete.
\* Numbers are cut to the bytes of the payload.
requests_of(l) ==
    CASE l.cmd \in DOMAIN plain -> <<request(plain[l.cmd], <<>>)>>
      [] l.cmd = "reg" /\ Numbers(l, 1) -> <<request(READ_CONFIG, <<l.args[1] % 256>>)>>
      [] l.cmd = "wreg" /\ Numbers(l, 2) ->
             <<request(WRITE_CONFIG, <<l.args[1] % 256, (l.args[2] \div 256) % 256,
                                       l.args[2] % 256>>)>>
      [] OTHER -> <<>>

\* No more than MaxSent; a request may get lost later on, see RequestQueue.
SendAll(requests) ==
    sent' = IF Len(sent) + Len(requests) <= MaxSent THEN sent \o requests ELSE sent

Command(l) ==
    /\ running
    /\ SendAll(requests_of(l))
    /\ auto_send' = (auto_send # (l.cmd = "auto"))
    /\ UNCHANGED <<tty, shown, running>>

\* What one read returns.
Available == SubSeq(tty, 1, IF Len(tty) < ReadLen THEN Len(tty) ELSE ReadLen)

bytes_of(read) == [i \in 1 .. Len(read) |-> read[i].byte]

\* The packets of a read, as client_handle_packet prints them.
Printed(read) ==
    LET packets == packets_in(bytes_of(read), ReadCmds)
    IN  [n \in 1 .. Len(packets) |-> request(packets[n].cmd, packets[n].pld)]

AutoRequests ==
    IF auto_send THEN <<request(READ_SENSOR, <<>>), request(READ_VBUS, <<>>)>> ELSE <<>>

\* Mutant: nothing is read before there is more than the shortest response.
TakeAvailableWaits ==
    /\ running
    /\ Len(tty) > MIN_PKT_LEN + 2
    /\ tty' = SubSeq(tty, Len(Available) + 1, Len(tty))

\* The read itself: the bytes it returns leave the port.
TakeAvailable ==
    /\ running
    /\ tty' = SubSeq(tty, Len(Available) + 1, Len(tty))

\* Mutant: only the first packet of a read is handled.
ReadPortFirst ==
    /\ TakeAvailable
    /\ shown' = shown \o SubSeq(Printed(Available), 1, IF Printed(Available) = <<>> THEN 0 ELSE 1)
    /\ SendAll(AutoRequests)
    /\ UNCHANGED <<auto_send, running>>

\* Mutant: the bytes of a packet that was printed stay in the port.
ReadPortAgain ==
    /\ running
    /\ shown' = shown \o Printed(Available)
    /\ tty' = SubSeq(tty, IF Printed(Available) = <<>> THEN Len(Available) + 1 ELSE 2, Len(tty))
    /\ SendAll(AutoRequests)
    /\ UNCHANGED <<auto_send, running>>

\* An empty line: one read, and the requests of auto_send.
ReadPort ==
    /\ TakeAvailable
    /\ shown' = shown \o Printed(Available)
    /\ SendAll(AutoRequests)
    /\ UNCHANGED <<auto_send, running>>

EndOfInput ==
    /\ running
    /\ running' = FALSE
    /\ UNCHANGED <<tty, sent, shown, auto_send>>
=============================================================================
