------------------------------ MODULE MCScript ------------------------------
(* Scripts of a few statements, small enough for TLC. *)
EXTENDS Script
=============================================================================
