------------------------------- MODULE MCARC --------------------------------
(* A small instance of ARC for TLC. *)
EXTENDS ARC

CONSTANTS k1, k2, k3, k4, v1, v2

FourKeys == {k1, k2, k3, k4}
TwoValues == {v1, v2}
=============================================================================
