----------------------------- MODULE MCTransmit -----------------------------
(***************************************************************************)
(* Instances of Transmit for TLC.                                          *)
(***************************************************************************)
EXTENDS Transmit

ByHost(c, s) == [e \in Host |-> IF e = "client" THEN c ELSE s]

\* Both applications write, or only the client's, and then more.
BothWrite == {ByHost(1, 2), ByHost(5, 0)}
ClientWrites2 == {ByHost(2, 0)}
ClientWrites4 == {ByHost(4, 0)}

\* The client retransmits once before it gives up, the server never.
Counts == ByHost({254}, {255})
FromZero == ByHost({0}, {0})
=============================================================================
