---------------------------- MODULE MCSceneGraph ----------------------------
(* SceneGraph with small sets of nodes and entries, for TLC. *)
EXTENDS SceneGraph, TLC

CONSTANTS a, b, c

(* A server whose hierarchy is fixed: a chain a - b - c. *)
MCChain == [u \in Uids |-> CASE u = a -> {NoUid} [] u = b -> {a} [] u = c -> {b}]

(* A server that moves nodes as it likes. *)
MCAnyParent == [u \in Uids |-> (Uids \cup {NoUid}) \ {u}]

EntrySymmetry == Permutations(Entries)
=============================================================================
