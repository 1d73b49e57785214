---------------------------- MODULE ConfigStore ----------------------------
(***************************************************************************)
(* What the configuration store promises: independent fields, each with a  *)
(* live value and a saved one.  A write moves the live value of one field  *)
(* to the value it carries, cut to the width of the field, possibly in     *)
(* several steps, and ends only when that value is saved.  A loss of power *)
(* puts every field back to a saved value.                                 *)
(***************************************************************************)
EXTENDS Integers

CONSTANTS Fields, Width(_), Values, NoField

VARIABLES live, saved, target

Word == SUBSET (0 .. 15)

TypeOK ==
    /\ live \in [Fields -> Word]
    /\ saved \in [Fields -> Word]
    /\ target \in [reg : Fields \cup {NoField}, val : Word]

Idle == [reg |-> NoField, val |-> {}]

Truncated(f, v) == { b \in v : b < Width(f) }

\* The bits in which x and y differ.
Diff(x, y) == (x \ y) \cup (y \ x)

\* z has each bit from x or from y.
Between(x, y, z) == Diff(x, z) \subseteq Diff(x, y)

Init ==
    /\ live \in [Fields -> Word]
    /\ saved = live
    /\ target = Idle

\* A request is taken on when the last one is finished.
Begin(f, v) ==
    /\ target = Idle
    /\ target' = [reg |-> f, val |-> v]
    /\ UNCHANGED <<live, saved>>

\* Some or all of the bits of the field are written.
Write ==
    /\ target # Idle
    /\ \E bits \in SUBSET Diff(live[target.reg], Truncated(target.reg, target.val)) :
           live' = [live EXCEPT ![target.reg] = Diff(@, bits)]
    /\ UNCHANGED <<saved, target>>

\* Everything that is live is saved.
Save ==
    /\ target # Idle
    /\ saved' = live
    /\ UNCHANGED <<live, target>>

\* The write ends with its value in place and saved.
Finish ==
    /\ target # Idle
    /\ live[target.reg] = Truncated(target.reg, target.val)
    /\ saved = live
    /\ target' = Idle
    /\ UNCHANGED <<live, saved>>

\* In the middle of a save, a field may be saved in part.
PowerLoss ==
    /\ saved' \in [Fields -> Word]
    /\ \A f \in Fields : Between(saved[f], live[f], saved'[f])
    /\ live' = saved'
    /\ target' = Idle

Next ==
    \/ \E f \in Fields, v \in Values : Begin(f, v)
    \/ Write
    \/ Save
    \/ Finish
    \/ PowerLoss

Spec == Init /\ [][Next]_<<live, saved, target>>
=============================================================================
