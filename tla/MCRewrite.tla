------------------------------ MODULE MCRewrite ------------------------------
(* Instances of Rewrite small enough for TLC. *)
EXTENDS Rewrite
=============================================================================
