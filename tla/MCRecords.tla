----------------------------- MODULE MCRecords -----------------------------
(* A few records and callers, small enough for TLC. *)
EXTENDS Records, TLC

Symmetry == Permutations(Records) \cup Permutations(Threads)
=============================================================================
