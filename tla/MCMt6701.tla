------------------------------ MODULE MCMt6701 ------------------------------
(***************************************************************************)
(* Instances of Mt6701 for TLC.                                            *)
(***************************************************************************)
EXTENDS Mt6701

\* Factory images: nothing set, everything set, every other bit.
Zeros == [a \in Addr |-> {}]
Ones == [a \in Addr |-> 0 .. 7]
Mixed == [a \in Addr |-> IF a % 2 = 0 THEN {0, 2, 4, 6} ELSE {1, 3, 5, 7}]

MCFactory == {Zeros, Ones, Mixed}
OneFactory == {Mixed}

\* 0, 6, and 0xFF9D, which is out of range for every field.
MCValues == { {}, {1, 2}, {0, 2, 3, 4, 7} \cup 8 .. 15 }
=============================================================================
