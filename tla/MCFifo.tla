------------------------------- MODULE MCFifo -------------------------------
(* Instances of Fifo small enough for TLC. *)
EXTENDS Fifo
=============================================================================
