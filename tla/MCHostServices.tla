--------------------------- MODULE MCHostServices ---------------------------
(* HostServices with two policies, two requests and one emitter, for TLC. *)
EXTENDS HostServices

CONSTANTS voice
=============================================================================
