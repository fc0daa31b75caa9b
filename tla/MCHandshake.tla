---------------------------- MODULE MCHandshake ----------------------------
(***************************************************************************)
(* Instances of Handshake for TLC: which packets the network may lose and  *)
(* which it may deliver twice.                                             *)
(***************************************************************************)
EXTENDS Handshake

NoPackets     == {}
FromClient    == {"SYN", "ACK"}
Answer        == {"SYN_ACK"}
=============================================================================
