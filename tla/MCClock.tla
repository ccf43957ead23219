------------------------------- MODULE MCClock ------------------------------
(***************************************************************************)
(* Clock for TLC, with 4-bit words.                                        *)
(***************************************************************************)
EXTENDS Clock

CONSTANTS p, q

(* Every word but the least one, whose only set bit is the sign.           *)
NotLeast == -7 .. 7
=============================================================================
