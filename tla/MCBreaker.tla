------------------------------ MODULE MCBreaker ------------------------------
(* Small instances of CodexBreaker for TLC. *)
EXTENDS CodexBreaker, TLC

CONSTANTS i1, i2, t1, t2
=============================================================================
