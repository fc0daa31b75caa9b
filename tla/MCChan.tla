------------------------------- MODULE MCChan -------------------------------
(* A buffered channel of two slots and an unbuffered one. *)
EXTENDS Chan

CONSTANTS b, u

Op(recv, c) == [recv |-> recv, chan |-> c]

MCChans == {b, u}
MCCapacity == (b :> 2) @@ (u :> 0)
MCSelects == {{Op(TRUE, b), Op(FALSE, u)}}
MCSpurious == {b, u}
=============================================================================
