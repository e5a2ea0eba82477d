---------------------------- MODULE MCAnimation ----------------------------
(* Animation with one node and a few animations, for TLC. *)
EXTENDS Animation

CONSTANTS n1, idle, walk, jump

(* Every clip fits every rig. *)
MCDrives == Nodes \X Anims
=============================================================================
