------------------------------ MODULE MCBuffer ------------------------------
(* A Buffer for TLC: every constant small, so that a few bytes make it     *)
(* move, grow and spill.                                                   *)
EXTENDS Buffer
=============================================================================
