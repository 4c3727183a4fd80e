------------------------------- MODULE MCLink -------------------------------
(* A small instance of Radio for TLC. *)
EXTENDS Radio
=============================================================================
