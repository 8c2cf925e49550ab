---------------------------- MODULE MCFifoEither ----------------------------
(* Instances of FifoEither small enough for TLC. *)
EXTENDS FifoEither
=============================================================================
