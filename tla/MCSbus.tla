------------------------------- MODULE MCSbus -------------------------------
(* A small instance of Sbus for TLC: two user bits and one kernel bit.      *)
EXTENDS Sbus

LowBit == {0}
=============================================================================
