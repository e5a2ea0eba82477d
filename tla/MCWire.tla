------------------------------- MODULE MCWire -------------------------------
(* Wire on packets of every form, cut off after any number of bytes. *)
EXTENDS Wire
=============================================================================
