------------------------------ MODULE MCInput ------------------------------
(* Input with one key, for TLC. *)
EXTENDS Input

CONSTANTS jump
=============================================================================
