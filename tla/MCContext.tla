------------------------------ MODULE MCContext ------------------------------
(* Context for TLC. *)
EXTENDS Context
=============================================================================
