---------------------------- MODULE MCCongestion ----------------------------
(***************************************************************************)
(* Congestion for TLC: the threshold is three segments, as in consts.h.    *)
(***************************************************************************)
EXTENDS Congestion

ThreeSegments == 3 * SMSS
=============================================================================
