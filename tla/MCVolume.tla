------------------------------ MODULE MCVolume -------------------------------
(* Volume for TLC: a disk of a few sectors. *)
EXTENDS Volume
SmallSizes == 1 .. 5
=============================================================================
