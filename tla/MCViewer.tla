------------------------------ MODULE MCViewer ------------------------------
(* Viewer with two textures, of which a material names both, for TLC. *)
EXTENDS Viewer, TLC

CONSTANTS sky, room, wall

MCTexturesOf == wall :> {sky, room}
=============================================================================
