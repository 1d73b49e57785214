---------------------------- MODULE RequestQueue ----------------------------
(***************************************************************************)
(* What the server promises about requests, whatever the line and the UART *)
(* driver do: it serves some of those that were sent, each at most once,   *)
(* in the order of sending, and none that was not sent.                    *)
(***************************************************************************)
EXTENDS Naturals, Sequences

CONSTANT Requests

VARIABLES
    sent,   \* the requests, in the order of sending
    served  \* the positions in sent of those that were served

Init == sent = <<>> /\ served = <<>>

Send ==
    /\ sent' \in Seq(Requests)
    /\ Len(sent) < Len(sent')
    /\ SubSeq(sent', 1, Len(sent)) = sent
    /\ UNCHANGED served

\* Requests between the last one that was served and this one are lost.
Serve(n) ==
    /\ n \in 1 .. Len(sent)
    /\ \A i \in 1 .. Len(served) : served[i] < n
    /\ served' = Append(served, n)
    /\ UNCHANGED sent

Next == Send \/ \E n \in 1 .. Len(sent) : Serve(n)

Spec == Init /\ [][Next]_<<sent, served>>
=============================================================================
